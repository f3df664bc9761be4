----------------------------- MODULE MCAnyClient -----------------------------
(* Instances of AnyClient for TLC. *)
EXTENDS AnyClient, TLC

CONSTANTS u1, dev, ghost

MCNames == {u1, dev, ghost}
MCAccounts == {u1, dev}
MCAccountRole == (u1 :> RoleUser) @@ (dev :> RoleDeveloper)

\* One of each kind of request but the two content requests, which are not of Requests.
EveryKind ==
  { LoginAs(u1, TRUE), LoginAs(u1, FALSE), LoginAs(dev, TRUE), LoginAs(ghost, FALSE), Cut("Login"),
    Plain("Logout"), Plain("GetVersion"), Plain("IOCopyFile"), Plain("IOFileExists"),
    Cut("IOFileExists"), Plain("RunSyscmd"), Restart("Program"), Restart("Machine"),
    Restart("Other"), Cut("ServerRestart"), Plain("Quit"), Plain("Unknown"), Plain("Empty") }

\* What sessions do to each other: logins to one account and a restart.
Concurrent == { LoginAs(dev, TRUE), LoginAs(dev, FALSE), Restart("Program") }

ConnSymmetry == Permutations(Conns)
=============================================================================

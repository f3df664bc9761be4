------------------------------ MODULE MCSystem ------------------------------
(* Instances of System for TLC. *)
EXTENDS System, TLC

CONSTANTS u1, dev, ghost, c1, c2

MCNames == {u1, dev, ghost}
MCAccounts == {u1, dev}
MCAccountRole == (u1 :> RoleUser) @@ (dev :> RoleDeveloper)

Current == [c \in Clients |-> 1]

\* The remote command may be refused, may throw and needs a role.
Everyday ==
  { LoginAs(dev, TRUE), LoginAs(u1, FALSE), Plain("RunSyscmd"), Restart("Program") }

\* Few commands, for two clients at once.
Sharing == { LoginAs(dev, TRUE), Plain("Logout"), Restart("Program") }

ConnSymmetry == Permutations(Conns)
BothSymmetry == Permutations(Conns) \cup Permutations(Clients)
=============================================================================

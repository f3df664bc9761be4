-------------------------------- MODULE Users --------------------------------
(***************************************************************************)
(* The server's UsersManager: one vector of User records shared by every   *)
(* session thread.  get() hands out a copy and set() writes a whole record *)
(* back over the stored one, so that the only field that ever changes, the *)
(* count of wrong passwords, is updated by a read and a later write with   *)
(* other threads in between.                                               *)
(*                                                                         *)
(* attempts and overlapped are history variables: no code reads them.      *)
(***************************************************************************)
EXTENDS Protocol, Integers

VARIABLES
  wrong_password_count,  \* the stored count of each account
  attempts,              \* wrong passwords recorded since the last right one
  overlapped             \* a record was written from a copy that had become stale

usersVars == <<wrong_password_count, attempts, overlapped>>

UsersTypeOK ==
  /\ wrong_password_count \in [Accounts -> Nat]
  /\ attempts \in [Accounts -> Nat]
  /\ overlapped \in [Accounts -> BOOLEAN]

\* UIF files hold no count: every account starts from zero.
UsersInit ==
  /\ wrong_password_count = [u \in Accounts |-> 0]
  /\ attempts = [u \in Accounts |-> 0]
  /\ overlapped = [u \in Accounts |-> FALSE]

\* UsersManager::get, get(u).is_valid.
Exists(u) == u \in Accounts

\* UsersManager::set with a record whose count is n; "late" tells that the copy it
\* was made from no longer matched the last record written.
SetCount(u, n, late) ==
  /\ wrong_password_count' = [wrong_password_count EXCEPT ![u] = n]
  /\ overlapped' = [overlapped EXCEPT ![u] = @ \/ late]

\* checkPassword on a copy taken when the count was n.
RecordRight(u, late) ==
  /\ SetCount(u, 0, late)
  /\ attempts' = [attempts EXCEPT ![u] = 0]

\* MUTANTS: the count goes down, or is written back unchanged.
RecordWrongDown(u, n, late) ==
  SetCount(u, n - 1, late) /\ attempts' = [attempts EXCEPT ![u] = @ + 1]
RecordWrongSame(u, n, late) ==
  SetCount(u, n, late) /\ attempts' = [attempts EXCEPT ![u] = @ + 1]

RecordWrong(u, n, late) ==
  /\ SetCount(u, n + 1, late)
  /\ attempts' = [attempts EXCEPT ![u] = @ + 1]

\* The stored count is exact for every account whose logins never overlapped.
CountsExact ==
  \A u \in Accounts : ~overlapped[u] => wrong_password_count[u] = attempts[u]
=============================================================================

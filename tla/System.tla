------------------------------- MODULE System -------------------------------
(***************************************************************************)
(* The shell clients and the server together.                              *)
(***************************************************************************)
EXTENDS ServerSession, ShellClient, FiniteSets

CONSTANT MaxWrong   \* no wrong password is typed once an account's count reached it

vars == <<wireVars, serverVars, clientVars>>

TypeOK == WireTypeOK /\ ServerTypeOK /\ ClientTypeOK

Init == WireInit /\ ServerInit /\ ClientInit

\* The bound on wrong passwords.
Typable(r) ==
  (r.id = "Login" /\ ~r.right /\ r.name \in Accounts) => wrong_password_count[r.name] < MaxWrong

User(c) ==
  Connect(c) \/ (\E r \in Commands : Typable(r) /\ Command(c, r)) \/ Close(c) \/ Interrupt(c)

Next ==
  \/ \E k \in Conns : ServerStep(k) /\ UNCHANGED clientVars
  \/ \E c \in Clients : (User(c) \/ ClientStep(c)) /\ UNCHANGED serverVars

Spec == Init /\ [][Next]_vars

\* The main thread goes on when the read it is blocked in returns, and a signal handler
\* that has started runs to its end.  Users owe nothing.
FairSpec ==
  Spec /\ ServerFairness /\ \A c \in Clients : WF_vars(ClientStep(c) /\ UNCHANGED serverVars)

-----------------------------------------------------------------------------
(* Properties.                                                             *)

\* Commands waiting for the session, in its hands and answered, on connection k.
IsCommand(f)  == f.kind = "Request" /\ f.request.id # "Quit"
CommandsIn(q) == {i \in 1..Len(q) : IsCommand(q[i])}
Asking(k)     == CommandsIn(toServer[k])
Handled(k)    == pc[k] \in {"run", "check"}
Answering(k)  == {i \in 1..Len(toClient[k]) : toClient[k][i].kind = "Response"}

Count(b) == IF b THEN 1 ELSE 0
Outstanding(k) == Cardinality(Asking(k)) + Count(Handled(k)) + Cardinality(Answering(k))
Answered(k)    == Answering(k) # {}

\* A client has at most one request on its connection, and none unless it is waiting for
\* the answer: it never takes the response to an earlier command for the response to the
\* one it is running, across failed connects, refused welcomes and Ctrl-C.
OneOutstanding ==
  \A c \in Clients : conn[c] # NoConn =>
    /\ Outstanding(conn[c]) <= Count(at[c] = "await")
    /\ at[c] = "await" /\ Answered(conn[c]) => Head(toClient[conn[c]]).for = RequestOf(pending[c])

\* A client that waits has its request queued, in a handler's hands or answered, unless
\* the session is over or a handler threw.
AnswerOwed ==
  \A c \in Clients : at[c] = "await" =>
    \/ Outstanding(conn[c]) = 1
    \/ pc[conn[c]] \in {"closing", "ended"} \/ ~is_connected[conn[c]] \/ unanswered[conn[c]]

\* While a client believes it is logged on an open connection, the session is logged too,
\* except while a logout is under way.
BelievedLogged ==
  \A c \in Clients :
    logged[c] /\ conn[c] # NoConn /\ serverEnd[conn[c]] = "open"
      => is_logged[conn[c]] \/ (at[c] = "await" /\ pending[c].id = "Logout")

\* ... and as the same user, unless the last login on the connection was refused.
BelievedUser ==
  \A c \in Clients :
    logged[c] /\ conn[c] # NoConn /\ at[c] = "prompt" /\ accepted[conn[c]] => known[c] = user[conn[c]]

\* Every command ends: whatever becomes of the session, the user gets the prompt back.
CommandEnds == \A c \in Clients : at[c] = "await" ~> at[c] # "await"

\* Every command ends unless its own handler threw: whatever becomes of the session, a
\* response that is sent or a connection that closes gives the user the prompt back.
AnsweredCommandEnds ==
  \A c \in Clients :
    at[c] = "await" ~> at[c] # "await" \/ (conn[c] # NoConn /\ unanswered[conn[c]])

-----------------------------------------------------------------------------
(* The system implements the calls of Rpc.                                 *)

CallOf(c) ==
  IF at[c] = "exited" THEN "gone"
  ELSE IF at[c] # "await" THEN "idle"
  ELSE IF Answered(conn[c]) THEN "answered"
  ELSE IF Outstanding(conn[c]) > 0 THEN "pending"
  ELSE "lost"

Calls == INSTANCE Rpc WITH
  Kinds   <- HandledRequests,
  NoKind  <- NoRequest.id,
  call    <- [c \in Clients |-> CallOf(c)],
  kind    <- [c \in Clients |-> pending[c].id],
  verdict <- [c \in Clients |-> CallOf(c) = "answered" /\ Head(toClient[conn[c]]).code = "Ok"]

\* Every command is at most one call, served at most once; its result is the verdict of
\* its own call; and the client is logged exactly when the calls it returned say so.
ImplementsRpc == Calls!Spec
=============================================================================

--------------------------------- MODULE Rpc ---------------------------------
(***************************************************************************)
(* What a client is promised, with no connection, frame or thread in       *)
(* sight.  A call is served at most once and a client returns only the     *)
(* verdict of the very call it made; a call may be lost before or after it *)
(* was served, and then it fails without a verdict.  A client counts as    *)
(* logged from the return of an accepted login to the return of an         *)
(* accepted logout or restart, or until it drops its connection.           *)
(***************************************************************************)
CONSTANTS Clients, Kinds, NoKind

VARIABLES
  call,     \* the progress of each client's call
  kind,     \* the request it made
  verdict,  \* TRUE when the answer under way says Ok
  logged    \* the client is logged

vars == <<call, kind, verdict, logged>>

Init ==
  /\ call = [c \in Clients |-> "idle"]
  /\ kind = [c \in Clients |-> NoKind]
  /\ verdict = [c \in Clients |-> FALSE]
  /\ logged = [c \in Clients |-> FALSE]

\* The call may be lost as soon as it is made.
Invoke(c) ==
  /\ call[c] = "idle"
  /\ \E to \in {"pending", "lost"} : call' = [call EXCEPT ![c] = to]
  /\ \E x \in Kinds : kind' = [kind EXCEPT ![c] = x]
  /\ UNCHANGED <<verdict, logged>>

Serve(c) ==
  /\ call[c] = "pending"
  /\ call' = [call EXCEPT ![c] = "answered"]
  /\ \E ok \in BOOLEAN : verdict' = [verdict EXCEPT ![c] = ok]
  /\ UNCHANGED <<kind, logged>>

LoggedAfter(c) ==
  IF ~verdict[c] THEN logged[c]
  ELSE IF kind[c] = "Login" THEN TRUE
  ELSE IF kind[c] \in {"Logout", "ServerRestart"} THEN FALSE
  ELSE logged[c]

BecomeIdle(c) ==
  /\ call' = [call EXCEPT ![c] = "idle"]
  /\ kind' = [kind EXCEPT ![c] = NoKind]
  /\ verdict' = [verdict EXCEPT ![c] = FALSE]

Return(c) ==
  /\ call[c] = "answered"
  /\ BecomeIdle(c)
  /\ logged' = [logged EXCEPT ![c] = LoggedAfter(c)]

\* The server's death loses the calls of several clients at once.
Lose(S) ==
  /\ \A c \in S : call[c] \in {"pending", "answered"}
  /\ call' = [c \in Clients |-> IF c \in S THEN "lost" ELSE call[c]]
  /\ verdict' = [c \in Clients |-> IF c \in S THEN FALSE ELSE verdict[c]]
  /\ UNCHANGED <<kind, logged>>

Fail(c) == call[c] = "lost" /\ BecomeIdle(c) /\ UNCHANGED logged

\* The connection is dropped, by a command or by Ctrl-C while a call is under way.
Drop(c) ==
  /\ call[c] # "gone"
  /\ logged' = [logged EXCEPT ![c] = FALSE]
  /\ UNCHANGED <<call, kind, verdict>>

\* The client exits, whatever it was doing, and does nothing any more.  A login whose
\* verdict arrives while Ctrl-C is being handled may be its last act.
Exit(c) ==
  /\ call' = [call EXCEPT ![c] = "gone"]
  /\ kind' = [kind EXCEPT ![c] = NoKind]
  /\ verdict' = [verdict EXCEPT ![c] = FALSE]
  /\ UNCHANGED logged \/ logged' = [logged EXCEPT ![c] = FALSE]

Next ==
  \/ \E c \in Clients : Invoke(c) \/ Serve(c) \/ Return(c) \/ Fail(c) \/ Drop(c) \/ Exit(c)
  \/ \E S \in SUBSET Clients : Lose(S)

Spec == Init /\ [][Next]_vars
=============================================================================

------------------------------ MODULE AnyClient ------------------------------
(***************************************************************************)
(* The server with clients that respect the framing and the order welcome, *)
(* version, requests, but are free in everything else: they may send the   *)
(* next frame without waiting for an answer, ask for anything at any time  *)
(* and hang up whenever they like.  What holds here does not rest on what  *)
(* the shell client of this repository happens to send.                    *)
(***************************************************************************)
EXTENDS ServerSession

CONSTANTS
  Asked,         \* the requests that may be sent
  PeerVersions,  \* the versions clients may announce
  MaxAsked,      \* bound on the requests sent on one connection
  MaxWrong       \* no wrong password is sent once an account's count has reached it

ASSUME AskedAssumption ==
  /\ Asked \subseteq Requests
  /\ PeerVersions \subseteq Nat
  /\ MaxAsked \in Nat

VARIABLES
  stage,   \* what the peer of the connection has sent
  asked,   \* history: the requests it sent
  got      \* history: the requests whose responses it read

peerVars == <<stage, asked, got>>
vars == <<wireVars, serverVars, peerVars>>

PeerTypeOK ==
  /\ stage \in [Conns -> {"nothing", "welcome", "version"}]
  /\ asked \in [Conns -> Seq(Requests)]
  /\ got   \in [Conns -> Seq(Requests)]

TypeOK == WireTypeOK /\ ServerTypeOK /\ PeerTypeOK

Init ==
  /\ WireInit /\ ServerInit
  /\ stage = [k \in Conns |-> "nothing"]
  /\ asked = [k \in Conns |-> <<>>]
  /\ got   = [k \in Conns |-> <<>>]

Open(k) ==
  /\ ClientOpens(k)
  /\ stage' = [stage EXCEPT ![k] = "welcome"]
  /\ UNCHANGED <<toClient, listening, serverVars, asked, got>>

SendVersion(k) ==
  /\ clientEnd[k] = "open" /\ stage[k] = "welcome"
  /\ \E v \in PeerVersions : ClientSends(k, VersionIs(v))
  /\ stage' = [stage EXCEPT ![k] = "version"]
  /\ UNCHANGED <<toClient, clientEnd, serverEnd, listening, serverVars, asked, got>>

MayStillSend(k) ==
  Len(asked[k]) < MaxAsked /\ \A i \in 1..Len(asked[k]) : asked[k][i].id # "Quit"

Ask(k, r) ==
  /\ clientEnd[k] = "open" /\ stage[k] = "version" /\ MayStillSend(k)
  /\ (r.id = "Login" /\ ~r.right /\ r.name \in Accounts)
       => wrong_password_count[r.name] < MaxWrong
  /\ ClientSends(k, Asks(r))
  /\ asked' = [asked EXCEPT ![k] = Append(@, r)]
  /\ UNCHANGED <<toClient, clientEnd, serverEnd, listening, serverVars, stage, got>>

Read(k) ==
  /\ clientEnd[k] = "open" /\ toClient[k] # <<>>
  /\ ClientTakes(k)
  /\ got' = IF Head(toClient[k]).kind = "Response"
            THEN [got EXCEPT ![k] = Append(@, Head(toClient[k]).for)] ELSE got
  /\ UNCHANGED <<toServer, clientEnd, serverEnd, listening, serverVars, stage, asked>>

HangUp(k) ==
  /\ clientEnd[k] = "open"
  /\ ClientCloses(k, toServer, toClient[k])
  /\ UNCHANGED <<serverEnd, listening, serverVars, peerVars>>

Peer(k) ==
  Open(k) \/ SendVersion(k) \/ (\E r \in Asked : Ask(k, r)) \/ Read(k) \/ HangUp(k)

Next == \E k \in Conns : Peer(k) \/ (ServerStep(k) /\ UNCHANGED peerVars)

Spec == Init /\ [][Next]_vars

\* Peers owe nothing: only the server is fair.
FairSpec == Spec /\ ServerFairness

-----------------------------------------------------------------------------
(* Properties.                                                             *)

\* The greetings in queue q, which open every conversation, are its first n frames: from
\* there on all frames are of this kind.
Greetings(q, n, kind) == \A i \in 1..Len(q) : q[i].kind = kind <=> i > n

\* The requests queued after n greetings, the one being handled and the answered ones.
RequestsIn(q, n) == [i \in 1..(Len(q) - n) |-> q[n + i].request]
AnswersIn(q, n)  == [i \in 1..(Len(q) - n) |-> q[n + i].for]
InHand(k)        == IF pc[k] \in {"run", "check"} THEN <<job[k]>> ELSE <<>>

Up(k)   == clientEnd[k] = "open" /\ serverEnd[k] = "open"
Live(k) == Up(k) /\ is_connected[k] /\ ~unanswered[k]

\* Responses carry no identifier: a client pairs them with its requests by order.  On a
\* live session what the client has received, what is on its way, the request in hand
\* and the queued ones are together exactly what was sent, in the order it was sent,
\* unless a handler threw or an empty frame was skipped, which have no response.
\* (handleNewRequest, processReceivedRequest, RH::run, sendResponse)
AnswersInOrder ==
  \A k \in Conns : Live(k) =>
    \E m \in 0..Len(toClient[k]), n \in 0..Len(toServer[k]) :
      /\ Greetings(toClient[k], m, "Response") /\ Greetings(toServer[k], n, "Request")
      /\ got[k] \o AnswersIn(toClient[k], m) \o InHand(k) \o RequestsIn(toServer[k], n) = asked[k]

\* Once shutdown is requested a session handles at most the one request its blocking
\* read was already waiting for, however many are queued behind it, and a session
\* accepted later handles none.  (the loop condition of startCommunication)
ShutdownStops ==
  \A k \in Conns : late[k] <= (IF bornLate[k] THEN 0 ELSE 1)

\* A session whose client has gone ends, whatever was queued, running or sleeping.
AbandonedSessionEnds ==
  \A k \in Conns : (clientEnd[k] = "closed" /\ serverEnd[k] = "open") ~> pc[k] = "ended"

\* "clt_logged: is the connected client logged": a session counts as logged only when
\* its last login was answered Ok.
LoggedMeansAccepted == \A k \in Conns : is_logged[k] => accepted[k]
=============================================================================

--------------------------- MODULE AnyClientProofs ---------------------------
(***************************************************************************)
(* What the server keeps whatever its clients send, proved for every set   *)
(* of accounts, connections and requests.                                  *)
(***************************************************************************)
EXTENDS AnyClient, ServerSessionProofs, SequenceTheorems

-----------------------------------------------------------------------------
(* Types.                                                                  *)

TypeInv == TypeOK /\ CheckingLogins

USE DEF Goto

LEMMA TypeInit ==
  Init => TypeInv
<1> SUFFICES ASSUME Init PROVE TypeInv
  OBVIOUS
<1>1. WireTypeOK
  BY DEF Init, WireInit, WireTypeOK, EndStates
<1>2. ServerTypeOK
  BY RequestConstants DEF Init, ServerInit, ServerTypeOK, UsersInit, UsersTypeOK, Phases
<1>3. PeerTypeOK
  BY DEF Init, PeerTypeOK
<1>4. CheckingLogins
  BY DEF Init, ServerInit, CheckingLogins
<1> QED BY <1>1, <1>2, <1>3, <1>4 DEF TypeInv, TypeOK

\* The peers touch the queues, their own ends and their histories.
LEMMA PeerKeepsTypes ==
  ASSUME TypeInv, NEW k \in Conns, Peer(k)
  PROVE  TypeInv'
<1> USE DEF TypeInv, TypeOK
<1>1. CASE Open(k)
  <2>1. WireTypeOK'
    BY <1>1, ClientOpensType DEF Open, WireTypeOK
  <2>2. ServerTypeOK' /\ CheckingLogins'
    BY <1>1 DEF Open, ServerTypeOK, CheckingLogins, Checking, serverVars, threadVars, historyVars,
                usersVars, UsersTypeOK
  <2>3. PeerTypeOK'
    BY <1>1 DEF Open, PeerTypeOK
  <2> QED BY <2>1, <2>2, <2>3
<1>2. CASE SendVersion(k)
  <2>1. PICK v \in PeerVersions : ClientSends(k, VersionIs(v))
    BY <1>2 DEF SendVersion
  <2>2. VersionIs(v) \in ToServerFrames
    BY AskedAssumption DEF VersionIs, ToServerFrames
  <2>3. WireTypeOK'
    BY <1>2, <2>1, <2>2, ClientSendsType DEF SendVersion, WireTypeOK
  <2>4. ServerTypeOK' /\ CheckingLogins'
    BY <1>2 DEF SendVersion, ServerTypeOK, CheckingLogins, Checking, serverVars, threadVars,
                historyVars, usersVars, UsersTypeOK
  <2>5. PeerTypeOK'
    BY <1>2 DEF SendVersion, PeerTypeOK
  <2> QED BY <2>3, <2>4, <2>5
<1>3. CASE \E r \in Asked : Ask(k, r)
  <2>1. PICK r \in Asked : Ask(k, r)
    BY <1>3
  <2>2. r \in Requests /\ Asks(r) \in ToServerFrames
    BY AskedAssumption DEF Asks, ToServerFrames
  <2>3. WireTypeOK'
    BY <2>1, <2>2, ClientSendsType DEF Ask, WireTypeOK
  <2>4. ServerTypeOK' /\ CheckingLogins'
    BY <2>1 DEF Ask, ServerTypeOK, CheckingLogins, Checking, serverVars, threadVars, historyVars,
                usersVars, UsersTypeOK
  <2>5. PeerTypeOK'
    BY <2>1, <2>2 DEF Ask, PeerTypeOK
  <2> QED BY <2>3, <2>4, <2>5
<1>4. CASE Read(k)
  <2>1. WireTypeOK'
    BY <1>4 DEF Read, ClientTakes, WireTypeOK
  <2>2. ServerTypeOK' /\ CheckingLogins'
    BY <1>4 DEF Read, ServerTypeOK, CheckingLogins, Checking, serverVars, threadVars, historyVars,
                usersVars, UsersTypeOK
  <2>3. Head(toClient[k]) \in ToClientFrames
    BY <1>4 DEF Read, WireTypeOK
  <2>4. PeerTypeOK'
    <3>1. CASE Head(toClient[k]).kind = "Response"
      BY <1>4, <2>3, <3>1, ToClientFrameFields DEF Read, PeerTypeOK
    <3>2. CASE Head(toClient[k]).kind # "Response"
      BY <1>4, <3>2 DEF Read, PeerTypeOK
    <3> QED BY <3>1, <3>2
  <2> QED BY <2>1, <2>2, <2>4
<1>5. CASE HangUp(k)
  <2>1. WireTypeOK'
    BY <1>5, ClientClosesType DEF HangUp, WireTypeOK
  <2>2. ServerTypeOK' /\ CheckingLogins'
    BY <1>5 DEF HangUp, ServerTypeOK, CheckingLogins, Checking, serverVars, threadVars, historyVars,
                usersVars, UsersTypeOK
  <2>3. PeerTypeOK'
    BY <1>5 DEF HangUp, PeerTypeOK, peerVars
  <2> QED BY <2>1, <2>2, <2>3
<1> QED BY <1>1, <1>2, <1>3, <1>4, <1>5 DEF Peer

LEMMA TypeStep ==
  TypeInv /\ [Next]_vars => TypeInv'
<1> SUFFICES ASSUME TypeInv, [Next]_vars PROVE TypeInv'
  OBVIOUS
<1>1. CASE UNCHANGED vars
  BY <1>1 DEF vars, wireVars, serverVars, threadVars, historyVars, usersVars, peerVars, TypeInv,
              TypeOK, WireTypeOK, ServerTypeOK, UsersTypeOK, PeerTypeOK, CheckingLogins, Checking
<1>2. ASSUME NEW k \in Conns, Peer(k) PROVE TypeInv'
  BY <1>2, PeerKeepsTypes
<1>3. ASSUME NEW k \in Conns, ServerStep(k), UNCHANGED peerVars PROVE TypeInv'
  <2>1. WireTypeOK' /\ ServerTypeOK' /\ CheckingLogins'
    BY <1>3, SessionKeepsTypes, HandlerKeepsTypes, LoginKeepsTypes, RestartKeepsTypes
       DEF ServerStep, SessionStep, Handler, TypeInv, TypeOK
  <2>2. PeerTypeOK'
    BY <1>3 DEF PeerTypeOK, peerVars, TypeInv, TypeOK
  <2> QED BY <2>1, <2>2 DEF TypeInv, TypeOK
<1> QED BY <1>1, <1>2, <1>3 DEF Next

\* Every variable keeps its type, and a password check is always one of an existing
\* account: the session can be handed the user it looked up.
THEOREM TypeSafe == Spec => []TypeInv
<1> QED BY TypeInit, TypeStep, PTL DEF Spec

\* The types of the state, as the runs check them.
THEOREM TypeCorrect == Spec => []TypeOK
<1>1. TypeInv => TypeOK
  BY DEF TypeInv
<1> QED BY <1>1, TypeSafe, PTL

-----------------------------------------------------------------------------
(* Shutdown.  A session can be inside its blocking read when shutdown is   *)
(* requested, and then handles the request it gets; it cannot be inside    *)
(* the read again once it has, nor ever when it was accepted afterwards.   *)

LateInv ==
  \A k \in Conns :
    /\ late[k] <= (IF bornLate[k] THEN 0 ELSE 1)
    /\ late[k] > 0 => shutdown_requested
    /\ pc[k] = "read" /\ shutdown_requested => late[k] = 0
    /\ bornLate[k] => shutdown_requested /\ pc[k] # "read"
    /\ pc[k] = "none" => late[k] = 0

\* What the argument is about: the thread's place, the flag and the two histories.
lateVars == <<pc, shutdown_requested, late, bornLate>>

\* A step of the thread of k that neither enters the read nor counts a request.
Elsewhere(k) ==
  /\ \E p \in Phases \ {"none", "read"} : pc' = [pc EXCEPT ![k] = p]
  /\ UNCHANGED <<shutdown_requested, late, bornLate>>

LEMMA ElsewhereKeepsLate ==
  ASSUME ServerTypeOK, LateInv, NEW k \in Conns, Elsewhere(k)
  PROVE  LateInv'
BY DEF Elsewhere, LateInv, ServerTypeOK

LEMMA HandlersAreElsewhere ==
  ASSUME ServerTypeOK, NEW k \in Conns,
         ReadWelcome(k) \/ ReadVersion(k) \/ ReadEnd(k) \/ Handler(k)
  PROVE  Elsewhere(k)
<1> USE DEF historyVars
<1> SUFFICES /\ \E p \in {"version", "closing", "loop", "check"} : pc' = [pc EXCEPT ![k] = p]
             /\ UNCHANGED <<shutdown_requested, late, bornLate>>
  BY DEF Elsewhere, Phases
<1>1. CASE ReadWelcome(k)
  BY <1>1 DEF ReadWelcome
<1>2. CASE ReadVersion(k)
  BY <1>2 DEF ReadVersion
<1>3. CASE ReadEnd(k)
  BY <1>3 DEF ReadEnd
<1>4. CASE Handler(k)
  BY <1>4 DEF Handler, Refuse, RunOther, HandlerThrows, RunLogout, RunRestart, GetUser,
              CheckPassword, Respond, HandlerDone
<1> QED BY <1>1, <1>2, <1>3, <1>4

LEMMA LateStep ==
  TypeInv /\ LateInv /\ [Next]_vars => LateInv'
<1> SUFFICES ASSUME ServerTypeOK, LateInv, [Next]_vars PROVE LateInv'
  BY DEF TypeInv, TypeOK
<1>1. CASE UNCHANGED lateVars
  BY <1>1 DEF lateVars, LateInv
<1>2. ASSUME NEW k \in Conns, Peer(k) PROVE UNCHANGED lateVars
  BY <1>2 DEF Peer, Open, SendVersion, Ask, Read, HangUp, serverVars, threadVars, historyVars,
              lateVars
<1>3. ASSUME NEW k \in Conns, ServerStep(k) PROVE LateInv'
  <2>1. CASE Accept(k)
    BY <1>1, <2>1 DEF Accept, LateInv, ServerTypeOK
  <2>2. CASE TestLoop(k)
    BY <2>2 DEF TestLoop, historyVars, LateInv, ServerTypeOK
  <2>3. CASE ReadRequest(k)
    <3>1. CASE late' = late
      <4>1. Elsewhere(k)
        BY <2>3, <3>1 DEF ReadRequest, Elsewhere, Phases
      <4> QED BY <4>1, ElsewhereKeepsLate
    <3>2. CASE late' = [late EXCEPT ![k] = IF shutdown_requested THEN @ + 1 ELSE @]
      <4>1. (pc[k] = "read" /\ pc' = [pc EXCEPT ![k] = "run"]) \/ late' = late
        BY <2>3 DEF ReadRequest
      <4> QED BY <2>3, <3>1, <3>2, <4>1 DEF ReadRequest, LateInv, ServerTypeOK
    <3> QED BY <2>3, <3>1, <3>2 DEF ReadRequest
  <2>4. CASE EndSession(k)
    <3>1. /\ pc' = [j \in Conns |-> IF j = k THEN "ended" ELSE pc[j]]
          /\ UNCHANGED <<shutdown_requested, late, bornLate>>
      BY <2>4 DEF EndSession, Destroyed
    <3> QED BY <3>1 DEF LateInv
  <2>5. CASE ReadWelcome(k) \/ ReadVersion(k) \/ ReadEnd(k) \/ Handler(k)
    BY <2>5, HandlersAreElsewhere, ElsewhereKeepsLate
  <2>6. ASSUME NEW m \in RestartModes, RestartFires(k, m) PROVE LateInv'
    <3>1. CASE Die
      <4>1. /\ \A j \in Conns : pc'[j] = "ended" \/ pc'[j] = pc[j]
            /\ UNCHANGED <<shutdown_requested, late, bornLate>>
        BY <3>1 DEF Die, Destroyed
      <4> QED BY <4>1 DEF LateInv
    <3>2. CASE ~Die
      <4>1. /\ shutdown_requested' = TRUE \/ UNCHANGED shutdown_requested
            /\ UNCHANGED <<pc, late, bornLate>>
        BY <2>6, <3>2 DEF RestartFires, threadVars, historyVars
      <4>2. ASSUME NEW j \in Conns
            PROVE  late[j] \in Nat /\ (late[j] > 0 => shutdown_requested)
        BY DEF LateInv, ServerTypeOK
      <4>3. CASE UNCHANGED shutdown_requested
        BY <4>1, <4>3 DEF LateInv
      <4>4. CASE shutdown_requested' = TRUE
        <5>1. CASE shutdown_requested
          BY <4>1, <4>4, <5>1 DEF LateInv
        <5>2. CASE ~shutdown_requested
          <6>1. \A j \in Conns : late[j] = 0
            BY <4>2, <5>2
          <6> QED BY <4>1, <4>4, <5>2, <6>1 DEF LateInv
        <5> QED BY <5>1, <5>2
      <4> QED BY <4>1, <4>3, <4>4
    <3> QED BY <3>1, <3>2
  <2> QED BY <1>3, <2>1, <2>2, <2>3, <2>4, <2>5, <2>6 DEF ServerStep, SessionStep
<1>4. CASE UNCHANGED vars
  BY <1>1, <1>4 DEF vars, serverVars, threadVars, historyVars, lateVars
<1> QED BY <1>1, <1>2, <1>3, <1>4 DEF Next

\* However many requests a client has queued and however the threads interleave, a
\* session handles at most one request after shutdown was requested, and none when it
\* was accepted afterwards.
THEOREM ShutdownSafe == Spec => []ShutdownStops
<1>1. Init => LateInv
  BY DEF Init, ServerInit, LateInv
<1>2. LateInv => ShutdownStops
  BY DEF LateInv, ShutdownStops
<1>3. TypeInv /\ LateInv /\ [Next]_vars => LateInv'
  BY LateStep
<1> QED BY <1>1, <1>2, <1>3, TypeSafe, PTL DEF Spec

-----------------------------------------------------------------------------
(* Wrong passwords.  A record copied from the users is still the one that  *)
(* is stored unless another session has written it in the meantime; only   *)
(* then can writing it back lose a count.                                  *)

CopyInv ==
  \A k \in Conns : pc[k] = "check" /\ ~stale[k] => copy[k] = wrong_password_count[job[k].name]

CountInv == CopyInv /\ CountsExact

\* A step that touches neither the users nor a password check.
Untouched ==
  /\ UNCHANGED usersVars
  /\ \A j \in Conns : pc'[j] = "check" =>
       pc[j] = "check" /\ (stale[j] => stale'[j]) /\ copy'[j] = copy[j] /\ job'[j] = job[j]

LEMMA UntouchedKeepsCounts ==
  CountInv /\ Untouched => CountInv'
BY DEF CountInv, CopyInv, CountsExact, Untouched, usersVars

LEMMA OthersLeaveCountsUntouched ==
  ASSUME ServerTypeOK, NEW k \in Conns,
         Accept(k) \/ ReadWelcome(k) \/ ReadVersion(k) \/ TestLoop(k) \/ ReadRequest(k) \/ ReadEnd(k)
           \/ EndSession(k) \/ Refuse(k) \/ RunOther(k) \/ HandlerThrows(k) \/ RunLogout(k)
           \/ RunRestart(k) \/ \E m \in RestartModes : RestartFires(k, m)
  PROVE  Untouched
<1> USE DEF historyVars
<1>1. CASE Accept(k) \/ ReadWelcome(k) \/ ReadVersion(k) \/ TestLoop(k) \/ ReadEnd(k)
  <2>1. /\ \E p \in Phases \ {"check"} : pc' = [pc EXCEPT ![k] = p]
        /\ UNCHANGED <<usersVars, stale, copy, job>>
    BY <1>1 DEF Accept, ReadWelcome, ReadVersion, TestLoop, ReadEnd, Phases
  <2> QED BY <2>1 DEF Untouched, ServerTypeOK
<1>2. CASE ReadRequest(k)
  <2>1. /\ \E p \in {"loop", "run"} : pc' = [pc EXCEPT ![k] = p]
        /\ UNCHANGED <<usersVars, stale, copy>>
        /\ \A j \in Conns \ {k} : job'[j] = job[j]
    BY <1>2 DEF ReadRequest, ServerTypeOK
  <2> QED BY <2>1 DEF Untouched, ServerTypeOK
<1>3. CASE EndSession(k)
  <2>1. Destroyed({k}) /\ UNCHANGED usersVars
    BY <1>3 DEF EndSession
  <2> QED BY <2>1 DEF Destroyed, Untouched
<1>4. CASE Refuse(k) \/ RunOther(k) \/ HandlerThrows(k) \/ RunLogout(k) \/ RunRestart(k)
  <2>1. /\ pc' = [pc EXCEPT ![k] = "loop"] /\ job' = [job EXCEPT ![k] = NoRequest]
        /\ UNCHANGED <<usersVars, stale, copy>>
    BY <1>4 DEF Refuse, RunOther, HandlerThrows, RunLogout, RunRestart, Respond, HandlerDone
  <2> QED BY <2>1 DEF Untouched, ServerTypeOK
<1>5. ASSUME NEW m \in RestartModes, RestartFires(k, m) PROVE Untouched
  <2>1. CASE Die
    <3>1. Destroyed({j \in Conns : serverEnd[j] = "open"}) /\ UNCHANGED usersVars
      BY <2>1 DEF Die
    <3> QED BY <3>1 DEF Destroyed, Untouched
  <2>2. CASE ~Die
    BY <1>5, <2>2 DEF RestartFires, threadVars, Untouched
  <2> QED BY <2>1, <2>2
<1> QED BY <1>1, <1>2, <1>3, <1>4, <1>5

LEMMA GetUserKeepsCounts ==
  ASSUME ServerTypeOK, CountInv, NEW k \in Conns, GetUser(k)
  PROVE  CountInv'
<1>1. CASE Malformed(k) \/ ~Exists(job[k].name)
  <2>1. /\ pc' = [pc EXCEPT ![k] = "loop"] /\ job' = [job EXCEPT ![k] = NoRequest]
        /\ UNCHANGED <<usersVars, stale, copy>>
    BY <1>1 DEF GetUser, Respond, HandlerDone
  <2>2. Untouched
    BY <2>1 DEF Untouched, ServerTypeOK
  <2> QED BY <2>2, UntouchedKeepsCounts
<1>2. CASE ~Malformed(k) /\ Exists(job[k].name)
  <2>1. /\ pc' = [pc EXCEPT ![k] = "check"]
        /\ copy' = [copy EXCEPT ![k] = wrong_password_count[job[k].name]]
        /\ stale' = [stale EXCEPT ![k] = FALSE]
        /\ UNCHANGED <<usersVars, job>>
    BY <1>2 DEF GetUser
  <2>2. CopyInv'
    BY <2>1 DEF CountInv, CopyInv, ServerTypeOK, usersVars
  <2>3. CountsExact'
    BY <2>1 DEF CountInv, CountsExact, usersVars
  <2> QED BY <2>2, <2>3 DEF CountInv
<1> QED BY <1>1, <1>2

LEMMA CheckPasswordKeepsCounts ==
  ASSUME ServerTypeOK, CheckingLogins, CountInv, NEW k \in Conns, CheckPassword(k)
  PROVE  CountInv'
<1> DEFINE u == job[k].name
<1>1. /\ pc[k] = "check" /\ pc' = [pc EXCEPT ![k] = "loop"]
      /\ job' = [job EXCEPT ![k] = NoRequest]
      /\ copy' = [copy EXCEPT ![k] = 0]
      /\ stale' = [j \in Conns |-> j # k /\ (stale[j] \/ (pc[j] = "check" /\ job[j].name = u))]
      /\ RecordRight(u, stale[k]) \/ RecordWrong(u, copy[k], stale[k])
  BY DEF CheckPassword, Respond, HandlerDone
<1>2. u \in Accounts
  BY <1>1 DEF CheckingLogins, Checking
<1>3. \A v \in Accounts \ {u} : /\ wrong_password_count'[v] = wrong_password_count[v]
                                /\ attempts'[v] = attempts[v] /\ overlapped'[v] = overlapped[v]
  BY <1>1, <1>2 DEF RecordRight, RecordWrong, SetCount, ServerTypeOK, UsersTypeOK
<1>4. CopyInv'
  <2> SUFFICES ASSUME NEW j \in Conns, pc'[j] = "check", ~stale'[j]
               PROVE  copy'[j] = wrong_password_count'[job'[j].name]
    BY DEF CopyInv
  <2>1. j # k /\ pc[j] = "check" /\ ~stale[j] /\ job[j].name # u
    BY <1>1 DEF ServerTypeOK
  <2>2. job[j].name \in Accounts
    BY <2>1 DEF CheckingLogins, Checking
  <2>3. copy'[j] = copy[j] /\ job'[j] = job[j]
    BY <1>1, <2>1 DEF ServerTypeOK
  <2> QED BY <1>3, <2>1, <2>2, <2>3 DEF CountInv, CopyInv
<1>5. CountsExact'
  <2>1. ASSUME ~overlapped'[u] PROVE wrong_password_count'[u] = attempts'[u]
    <3>1. ~overlapped[u] /\ ~stale[k]
      BY <1>1, <1>2, <2>1 DEF RecordRight, RecordWrong, SetCount, ServerTypeOK, UsersTypeOK
    <3>2. copy[k] = wrong_password_count[u] /\ wrong_password_count[u] = attempts[u]
      BY <1>1, <1>2, <3>1 DEF CountInv, CopyInv, CountsExact
    <3> QED BY <1>1, <1>2, <3>2 DEF RecordRight, RecordWrong, SetCount, ServerTypeOK, UsersTypeOK
  <2> QED BY <1>3, <2>1 DEF CountInv, CountsExact
<1> QED BY <1>4, <1>5 DEF CountInv

LEMMA CountStep ==
  TypeInv /\ CountInv /\ [Next]_vars => CountInv'
<1> SUFFICES ASSUME ServerTypeOK, CheckingLogins, CountInv, [Next]_vars PROVE CountInv'
  BY DEF TypeInv, TypeOK
<1>1. CASE UNCHANGED serverVars
  <2>1. Untouched
    BY <1>1 DEF serverVars, threadVars, historyVars, Untouched
  <2> QED BY <2>1, UntouchedKeepsCounts
<1>2. ASSUME NEW k \in Conns, Peer(k) PROVE UNCHANGED serverVars
  BY <1>2 DEF Peer, Open, SendVersion, Ask, Read, HangUp
<1>3. ASSUME NEW k \in Conns, ServerStep(k) PROVE CountInv'
  <2>1. CASE GetUser(k)
    BY <2>1, GetUserKeepsCounts
  <2>2. CASE CheckPassword(k)
    BY <2>2, CheckPasswordKeepsCounts
  <2>3. CASE ~GetUser(k) /\ ~CheckPassword(k)
    BY <1>3, <2>3, OthersLeaveCountsUntouched, UntouchedKeepsCounts
       DEF ServerStep, SessionStep, Handler
  <2> QED BY <2>1, <2>2, <2>3
<1>4. CASE UNCHANGED vars
  BY <1>1, <1>4 DEF vars
<1> QED BY <1>1, <1>2, <1>3, <1>4 DEF Next

\* The count of wrong passwords of an account, which makes the next wrong login sleep, is
\* exact as long as no two logins to the account overlapped.
THEOREM CountsSafe == Spec => []CountsExact
<1>1. Init => CountInv
  BY DEF Init, ServerInit, UsersInit, CountInv, CopyInv, CountsExact
<1>2. CountInv => CountsExact
  BY DEF CountInv
<1> QED BY <1>1, <1>2, CountStep, TypeSafe, PTL DEF Spec

-----------------------------------------------------------------------------
(* Answers in order.  The greetings of a conversation are ahead of all     *)
(* requests and answers, and the thread's place tells how many of them are *)
(* left; behind them every step moves one request from one end of a queue  *)
(* to the next place.                                                      *)

\* The greetings the session has still to read, and those the client has.
Unwelcomed(k, n) ==
  /\ n \in 0..Len(toServer[k]) /\ Greetings(toServer[k], n, "Request")
  /\ stage[k] = "welcome" => n = Len(toServer[k]) /\ asked[k] = <<>>
  /\ pc[k] \in {"none", "welcome"} => n = IF stage[k] = "version" THEN 2 ELSE 1
  /\ pc[k] = "version" => n = IF stage[k] = "version" THEN 1 ELSE 0
  /\ pc[k] \in {"loop", "read", "run", "check"} => n = 0 /\ stage[k] = "version"

Ungreeted(k, m) ==
  /\ m \in 0..Len(toClient[k]) /\ Greetings(toClient[k], m, "Response")
  /\ pc[k] \in {"none", "welcome", "version"} => m = Len(toClient[k]) /\ got[k] = <<>>

\* What has been received, what is on its way, the request in hand and those queued.
Whole(a, b, h, r) == a \o b \o h \o r

InOrder(k, m, n) ==
  Whole(got[k], AnswersIn(toClient[k], m), InHand(k), RequestsIn(toServer[k], n)) = asked[k]

OrderAt(k) ==
  /\ clientEnd[k] = "unused" => /\ toClient[k] = <<>> /\ asked[k] = <<>> /\ got[k] = <<>>
                                /\ pc[k] = "none" /\ serverEnd[k] = "unused"
  /\ Up(k) => /\ stage[k] \in {"welcome", "version"}
              /\ \E m \in 0..Len(toClient[k]), n \in 0..Len(toServer[k]) :
                   /\ Unwelcomed(k, n) /\ Ungreeted(k, m)
                   /\ Live(k) => InOrder(k, m, n)

OrderInv == \A k \in Conns : OrderAt(k)

\* Moving an element from one part to the next does not change the whole.
LEMMA ShiftReceived ==
  ASSUME NEW a \in Seq(Requests), NEW b \in Seq(Requests) \ {<<>>}, NEW h \in Seq(Requests),
         NEW r \in Seq(Requests)
  PROVE  Whole(Append(a, Head(b)), Tail(b), h, r) = Whole(a, b, h, r)
<1>1. Append(a, Head(b)) \o Tail(b) = a \o b
  <2>1. /\ Head(b) \in Requests /\ Tail(b) \in Seq(Requests) /\ Len(Tail(b)) = Len(b) - 1
        /\ \A i \in 1..Len(Tail(b)) : Tail(b)[i] = b[i + 1]
        /\ Head(b) = b[1]
    OBVIOUS
  <2>2. Append(a, Head(b)) \o Tail(b) \in Seq(Requests) /\ a \o b \in Seq(Requests)
    BY <2>1
  <2>3. Len(Append(a, Head(b)) \o Tail(b)) = Len(a \o b)
    BY <2>1
  <2>4. ASSUME NEW i \in 1..Len(a \o b)
        PROVE  (Append(a, Head(b)) \o Tail(b))[i] = (a \o b)[i]
    BY <2>1
  <2> QED BY <2>2, <2>3, <2>4, SeqEqual
<1> QED BY <1>1 DEF Whole

LEMMA ShiftAnswered ==
  ASSUME NEW a \in Seq(Requests), NEW b \in Seq(Requests), NEW r \in Seq(Requests),
         NEW x \in Requests
  PROVE  Whole(a, Append(b, x), <<>>, r) = Whole(a, b, <<x>>, r)
<1>1. a \o Append(b, x) = a \o b \o <<x>>
  <2>1. Append(b, x) = b \o <<x>> /\ <<x>> \in Seq(Requests)
    BY AppendIsConcat
  <2> QED BY <2>1, ConcatAssociative
<1>2. a \o Append(b, x) \in Seq(Requests)
  BY AppendProperties, ConcatProperties
<1> QED BY <1>1, <1>2, ConcatEmptySeq DEF Whole

LEMMA ShiftTaken ==
  ASSUME NEW a \in Seq(Requests), NEW b \in Seq(Requests), NEW r \in Seq(Requests) \ {<<>>}
  PROVE  Whole(a, b, <<Head(r)>>, Tail(r)) = Whole(a, b, <<>>, r)
<1>1. a \o b \in Seq(Requests) /\ <<Head(r)>> \in Seq(Requests) /\ Tail(r) \in Seq(Requests)
  BY ConcatProperties, HeadTailProperties
<1>2. <<Head(r)>> \o Tail(r) = r
  <2>1. <<Head(r)>> \o Tail(r) \in Seq(Requests) /\ Len(<<Head(r)>> \o Tail(r)) = Len(r)
    BY <1>1
  <2>2. \A i \in 1..Len(r) : (<<Head(r)>> \o Tail(r))[i] = r[i]
    BY <1>1
  <2> QED BY <2>1, <2>2, SeqEqual
<1>3. (a \o b \o <<Head(r)>>) \o Tail(r) = (a \o b) \o (<<Head(r)>> \o Tail(r))
  BY <1>1, ConcatAssociative
<1>4. a \o b \o <<>> = a \o b
  BY <1>1, ConcatEmptySeq
<1> QED BY <1>2, <1>3, <1>4 DEF Whole

\* One more request at the end of the whole.
Longer(s, x) == Append(s, x)

LEMMA ShiftAsked ==
  ASSUME NEW a \in Seq(Requests), NEW b \in Seq(Requests), NEW h \in Seq(Requests),
         NEW r \in Seq(Requests), NEW x \in Requests
  PROVE  Whole(a, b, h, Longer(r, x)) = Longer(Whole(a, b, h, r), x)
<1> DEFINE p == a \o b \o h
<1>1. p \in Seq(Requests) /\ p \o r \in Seq(Requests) /\ <<x>> \in Seq(Requests)
  BY ConcatProperties
<1> HIDE DEF p
<1>2. Append(r, x) = r \o <<x>> /\ Append(p \o r, x) = (p \o r) \o <<x>>
  BY <1>1, AppendIsConcat
<1>3. (p \o r) \o <<x>> = p \o (r \o <<x>>)
  <2>1. \A u \in Seq(Requests) : (p \o r) \o u = p \o (r \o u)
    BY <1>1, ConcatAssociative
  <2> QED BY <1>1, <2>1
<1>4. p \o Append(r, x) = Append(p \o r, x)
  BY <1>2, <1>3
<1> QED BY <1>4 DEF p, Whole, Longer

LEMMA FunctionIsSeq ==
  ASSUME NEW S, NEW N \in Nat, NEW f \in [1..N -> S]
  PROVE  f \in Seq(S) /\ Len(f) = N
<1>1. f \in Seq(S)
  BY SeqDef
<1>2. Len(f) \in Nat /\ 1..Len(f) = 1..N
  BY <1>1, LenProperties
<1> QED BY <1>1, <1>2

LEMMA RequestsInQueue ==
  ASSUME NEW q \in Seq(ToServerFrames), NEW n \in 0..Len(q), Greetings(q, n, "Request")
  PROVE  /\ RequestsIn(q, n) \in Seq(Requests) /\ Len(RequestsIn(q, n)) = Len(q) - n
         /\ \A i \in 1..(Len(q) - n) : RequestsIn(q, n)[i] = q[n + i].request
<1>1. Len(q) - n \in Nat
  OBVIOUS
<1>2. ASSUME NEW i \in 1..(Len(q) - n) PROVE q[n + i].request \in Requests
  <2>1. n + i \in 1..Len(q) /\ q[n + i] \in ToServerFrames /\ q[n + i].kind = "Request"
    BY DEF Greetings
  <2> QED BY <2>1, ToServerFrameFields
<1>3. RequestsIn(q, n) \in [1..(Len(q) - n) -> Requests]
  BY <1>2 DEF RequestsIn
<1>4. RequestsIn(q, n) \in Seq(Requests) /\ Len(RequestsIn(q, n)) = Len(q) - n
  BY <1>1, <1>3, FunctionIsSeq
<1> QED BY <1>4 DEF RequestsIn

LEMMA AnswersInQueue ==
  ASSUME NEW q \in Seq(ToClientFrames), NEW n \in 0..Len(q), Greetings(q, n, "Response")
  PROVE  /\ AnswersIn(q, n) \in Seq(Requests) /\ Len(AnswersIn(q, n)) = Len(q) - n
         /\ \A i \in 1..(Len(q) - n) : AnswersIn(q, n)[i] = q[n + i].for
<1>1. Len(q) - n \in Nat
  OBVIOUS
<1>2. ASSUME NEW i \in 1..(Len(q) - n) PROVE q[n + i].for \in Requests
  <2>1. n + i \in 1..Len(q) /\ q[n + i] \in ToClientFrames /\ q[n + i].kind = "Response"
    BY DEF Greetings
  <2> QED BY <2>1, ToClientFrameFields
<1>3. AnswersIn(q, n) \in [1..(Len(q) - n) -> Requests]
  BY <1>2 DEF AnswersIn
<1>4. AnswersIn(q, n) \in Seq(Requests) /\ Len(AnswersIn(q, n)) = Len(q) - n
  BY <1>1, <1>3, FunctionIsSeq
<1> QED BY <1>4 DEF AnswersIn

\* What a frame at the end of a queue, or the one taken off its head, is to its greetings.
LEMMA QueueGrows ==
  ASSUME NEW S, NEW q \in Seq(S), NEW f \in S, NEW kind, NEW n \in 0..Len(q), Greetings(q, n, kind)
  PROVE  /\ Append(q, f) \in Seq(S) /\ Len(Append(q, f)) = Len(q) + 1
         /\ \A i \in 1..Len(q) : Append(q, f)[i] = q[i]
         /\ Append(q, f)[Len(q) + 1] = f
         /\ f.kind = kind => Greetings(Append(q, f), n, kind)
         /\ f.kind # kind /\ n = Len(q) => Greetings(Append(q, f), n + 1, kind)
<1>1. /\ Append(q, f) \in Seq(S) /\ Len(Append(q, f)) = Len(q) + 1
      /\ \A i \in 1..Len(q) : Append(q, f)[i] = q[i]
      /\ Append(q, f)[Len(q) + 1] = f
  OBVIOUS
<1>2. f.kind = kind => Greetings(Append(q, f), n, kind)
  BY <1>1 DEF Greetings
<1>3. f.kind # kind /\ n = Len(q) => Greetings(Append(q, f), n + 1, kind)
  BY <1>1 DEF Greetings
<1> QED BY <1>1, <1>2, <1>3

LEMMA QueueShrinks ==
  ASSUME NEW S, NEW q \in Seq(S), q # <<>>, NEW kind, NEW n \in 0..Len(q), Greetings(q, n, kind)
  PROVE  /\ Tail(q) \in Seq(S) /\ Len(Tail(q)) = Len(q) - 1 /\ Len(q) > 0
         /\ \A i \in 1..Len(Tail(q)) : Tail(q)[i] = q[i + 1]
         /\ Head(q) = q[1] /\ Head(q) \in S
         /\ Head(q).kind = kind <=> n = 0
         /\ n > 0 => n - 1 \in 0..Len(Tail(q)) /\ Greetings(Tail(q), n - 1, kind)
         /\ n = 0 => n \in 0..Len(Tail(q)) /\ Greetings(Tail(q), n, kind)
<1>1. /\ Tail(q) \in Seq(S) /\ Len(Tail(q)) = Len(q) - 1 /\ Len(q) > 0
      /\ \A i \in 1..Len(Tail(q)) : Tail(q)[i] = q[i + 1]
      /\ Head(q) = q[1] /\ Head(q) \in S
  OBVIOUS
<1>2. Head(q).kind = kind <=> n = 0
  BY <1>1 DEF Greetings
<1>3. n > 0 => n - 1 \in 0..Len(Tail(q)) /\ Greetings(Tail(q), n - 1, kind)
  BY <1>1 DEF Greetings
<1>4. n = 0 => n \in 0..Len(Tail(q)) /\ Greetings(Tail(q), n, kind)
  BY <1>1 DEF Greetings
<1> QED BY <1>1, <1>2, <1>3, <1>4


LEMMA RequestsGrow ==
  ASSUME NEW q \in Seq(ToServerFrames), NEW f \in ToServerFrames, NEW n \in 0..Len(q),
         Greetings(q, n, "Request")
  PROVE  /\ f.kind = "Request" => RequestsIn(Append(q, f), n) = Append(RequestsIn(q, n), f.request)
         /\ f.kind # "Request" /\ n = Len(q) => RequestsIn(Append(q, f), n + 1) = RequestsIn(q, n)
<1>1. ASSUME f.kind = "Request"
      PROVE  RequestsIn(Append(q, f), n) = Append(RequestsIn(q, n), f.request)
  <2>1. /\ Append(q, f) \in Seq(ToServerFrames) /\ Len(Append(q, f)) = Len(q) + 1
        /\ \A i \in 1..Len(q) : Append(q, f)[i] = q[i]
        /\ Append(q, f)[Len(q) + 1] = f
        /\ Greetings(Append(q, f), n, "Request")
    BY <1>1, QueueGrows
  <2> DEFINE p == Append(q, f)
             s == RequestsIn(q, n)
             t == RequestsIn(p, n)
  <2>2. /\ s \in Seq(Requests) /\ Len(s) = Len(q) - n
        /\ \A i \in 1..(Len(q) - n) : s[i] = q[n + i].request
    BY RequestsInQueue
  <2>3. n \in 0..Len(p)
    BY <2>1
  <2> HIDE DEF p
  <2>4. /\ t \in Seq(Requests) /\ Len(t) = Len(p) - n
        /\ \A i \in 1..(Len(p) - n) : t[i] = p[n + i].request
    <3>1. p \in Seq(ToServerFrames) /\ Greetings(p, n, "Request")
      BY <2>1 DEF p
    <3> QED BY <2>3, <3>1, RequestsInQueue
  <2>5. f.request \in Requests
    BY <1>1, ToServerFrameFields
  <2> HIDE DEF s, t
  <2>6. /\ Append(s, f.request) \in Seq(Requests) /\ Len(Append(s, f.request)) = Len(s) + 1
        /\ \A i \in 1..Len(s) : Append(s, f.request)[i] = s[i]
        /\ Append(s, f.request)[Len(s) + 1] = f.request
    BY <2>2, <2>5
  <2>7. ASSUME NEW i \in 1..Len(t) PROVE t[i] = Append(s, f.request)[i]
    <3>1. /\ Len(p) = Len(q) + 1 /\ p[Len(q) + 1] = f
          /\ \A j \in 1..Len(q) : p[j] = q[j]
      BY <2>1 DEF p
    <3>2. CASE i \in 1..Len(s)
      <4>1. n + i \in 1..Len(q) /\ t[i] = p[n + i].request /\ s[i] = q[n + i].request
        BY <2>2, <2>4, <3>1, <3>2
      <4> QED BY <2>6, <3>1, <3>2, <4>1
    <3>3. CASE i \notin 1..Len(s)
      <4>1. i = Len(s) + 1 /\ n + i = Len(q) + 1 /\ t[i] = p[n + i].request
        BY <2>2, <2>4, <3>1, <3>3
      <4> QED BY <2>6, <3>1, <4>1
    <3> QED BY <3>2, <3>3
  <2>8. Len(t) = Len(Append(s, f.request))
    BY <2>1, <2>2, <2>4, <2>6 DEF p
  <2>9. t = Append(s, f.request)
    BY <2>4, <2>6, <2>7, <2>8, SeqEqual
  <2> QED BY <2>9 DEF p, s, t
<1>2. ASSUME f.kind # "Request", n = Len(q) PROVE RequestsIn(Append(q, f), n + 1) = RequestsIn(q, n)
  <2>1. Len(Append(q, f)) - (n + 1) = Len(q) - n
    BY <1>2
  <2>2. 1..(Len(q) - n) = {}
    BY <1>2
  <2> QED BY <2>1, <2>2 DEF RequestsIn
<1> QED BY <1>1, <1>2

LEMMA RequestsShrink ==
  ASSUME NEW q \in Seq(ToServerFrames), q # <<>>, NEW n \in 0..Len(q), Greetings(q, n, "Request")
  PROVE  /\ n > 0 => RequestsIn(Tail(q), n - 1) = RequestsIn(q, n)
         /\ n = 0 => /\ RequestsIn(q, n) # <<>> /\ Head(RequestsIn(q, n)) = Head(q).request
                     /\ RequestsIn(Tail(q), n) = Tail(RequestsIn(q, n))
<1>1. /\ Tail(q) \in Seq(ToServerFrames) /\ Len(Tail(q)) = Len(q) - 1 /\ Len(q) > 0
      /\ \A i \in 1..Len(Tail(q)) : Tail(q)[i] = q[i + 1]
      /\ Head(q) = q[1]
  OBVIOUS
<1>2. ASSUME n > 0 PROVE RequestsIn(Tail(q), n - 1) = RequestsIn(q, n)
  <2>1. Len(Tail(q)) - (n - 1) = Len(q) - n
    BY <1>1
  <2>2. \A i \in 1..(Len(q) - n) : Tail(q)[n - 1 + i] = q[n + i]
    BY <1>1, <1>2
  <2> QED BY <2>1, <2>2 DEF RequestsIn
<1>3. ASSUME n = 0
      PROVE  /\ RequestsIn(q, n) # <<>> /\ Head(RequestsIn(q, n)) = Head(q).request
             /\ RequestsIn(Tail(q), n) = Tail(RequestsIn(q, n))
  <2> DEFINE s == RequestsIn(q, n)
             t == RequestsIn(Tail(q), n)
  <2>1. /\ s \in Seq(Requests) /\ Len(s) = Len(q) - n
        /\ \A i \in 1..(Len(q) - n) : s[i] = q[n + i].request
    BY RequestsInQueue
  <2>2. n \in 0..Len(Tail(q)) /\ Greetings(Tail(q), n, "Request")
    BY <1>3, QueueShrinks
  <2>3. /\ t \in Seq(Requests) /\ Len(t) = Len(Tail(q)) - n
        /\ \A i \in 1..(Len(Tail(q)) - n) : t[i] = Tail(q)[n + i].request
    BY <1>1, <2>2, RequestsInQueue
  <2> HIDE DEF s, t
  <2>4. Len(s) = Len(q) /\ s # <<>> /\ Head(s) = s[1] /\ s[1] = q[1].request
    BY <1>1, <1>3, <2>1
  <2>5. /\ Tail(s) \in Seq(Requests) /\ Len(Tail(s)) = Len(s) - 1
        /\ \A i \in 1..Len(Tail(s)) : Tail(s)[i] = s[i + 1]
    BY <2>1, <2>4
  <2>6. Len(t) = Len(Tail(s)) /\ \A i \in 1..Len(t) : t[i] = Tail(s)[i]
    BY <1>1, <1>3, <2>1, <2>3, <2>5
  <2>7. t = Tail(s)
    BY <2>3, <2>5, <2>6, SeqEqual
  <2> QED BY <1>1, <2>4, <2>7 DEF s, t
<1> QED BY <1>2, <1>3


LEMMA AnswersGrow ==
  ASSUME NEW q \in Seq(ToClientFrames), NEW f \in ToClientFrames, NEW n \in 0..Len(q),
         Greetings(q, n, "Response")
  PROVE  /\ f.kind = "Response" => AnswersIn(Append(q, f), n) = Append(AnswersIn(q, n), f.for)
         /\ f.kind # "Response" /\ n = Len(q) => AnswersIn(Append(q, f), n + 1) = AnswersIn(q, n)
<1>1. ASSUME f.kind = "Response" PROVE AnswersIn(Append(q, f), n) = Append(AnswersIn(q, n), f.for)
  <2>1. /\ Append(q, f) \in Seq(ToClientFrames) /\ Len(Append(q, f)) = Len(q) + 1
        /\ \A i \in 1..Len(q) : Append(q, f)[i] = q[i]
        /\ Append(q, f)[Len(q) + 1] = f
        /\ Greetings(Append(q, f), n, "Response")
    BY <1>1, QueueGrows
  <2> DEFINE p == Append(q, f)
             s == AnswersIn(q, n)
             t == AnswersIn(p, n)
  <2>2. /\ s \in Seq(Requests) /\ Len(s) = Len(q) - n
        /\ \A i \in 1..(Len(q) - n) : s[i] = q[n + i].for
    BY AnswersInQueue
  <2>3. n \in 0..Len(p)
    BY <2>1
  <2> HIDE DEF p
  <2>4. /\ t \in Seq(Requests) /\ Len(t) = Len(p) - n
        /\ \A i \in 1..(Len(p) - n) : t[i] = p[n + i].for
    <3>1. p \in Seq(ToClientFrames) /\ Greetings(p, n, "Response")
      BY <2>1 DEF p
    <3> QED BY <2>3, <3>1, AnswersInQueue
  <2>5. f.for \in Requests
    BY <1>1, ToClientFrameFields
  <2> HIDE DEF s, t
  <2>6. /\ Append(s, f.for) \in Seq(Requests) /\ Len(Append(s, f.for)) = Len(s) + 1
        /\ \A i \in 1..Len(s) : Append(s, f.for)[i] = s[i]
        /\ Append(s, f.for)[Len(s) + 1] = f.for
    BY <2>2, <2>5
  <2>7. ASSUME NEW i \in 1..Len(t) PROVE t[i] = Append(s, f.for)[i]
    <3>1. /\ Len(p) = Len(q) + 1 /\ p[Len(q) + 1] = f
          /\ \A j \in 1..Len(q) : p[j] = q[j]
      BY <2>1 DEF p
    <3>2. CASE i \in 1..Len(s)
      <4>1. n + i \in 1..Len(q) /\ t[i] = p[n + i].for /\ s[i] = q[n + i].for
        BY <2>2, <2>4, <3>1, <3>2
      <4> QED BY <2>6, <3>1, <3>2, <4>1
    <3>3. CASE i \notin 1..Len(s)
      <4>1. i = Len(s) + 1 /\ n + i = Len(q) + 1 /\ t[i] = p[n + i].for
        BY <2>2, <2>4, <3>1, <3>3
      <4> QED BY <2>6, <3>1, <4>1
    <3> QED BY <3>2, <3>3
  <2>8. Len(t) = Len(Append(s, f.for))
    BY <2>1, <2>2, <2>4, <2>6 DEF p
  <2>9. t = Append(s, f.for)
    BY <2>4, <2>6, <2>7, <2>8, SeqEqual
  <2> QED BY <2>9 DEF p, s, t
<1>2. ASSUME f.kind # "Response", n = Len(q) PROVE AnswersIn(Append(q, f), n + 1) = AnswersIn(q, n)
  <2>1. Len(Append(q, f)) - (n + 1) = Len(q) - n
    BY <1>2
  <2>2. 1..(Len(q) - n) = {}
    BY <1>2
  <2> QED BY <2>1, <2>2 DEF AnswersIn
<1> QED BY <1>1, <1>2

LEMMA AnswersShrink ==
  ASSUME NEW q \in Seq(ToClientFrames), q # <<>>, NEW n \in 0..Len(q), Greetings(q, n, "Response")
  PROVE  /\ n > 0 => AnswersIn(Tail(q), n - 1) = AnswersIn(q, n)
         /\ n = 0 => /\ AnswersIn(q, n) # <<>> /\ Head(AnswersIn(q, n)) = Head(q).for
                     /\ AnswersIn(Tail(q), n) = Tail(AnswersIn(q, n))
<1>1. /\ Tail(q) \in Seq(ToClientFrames) /\ Len(Tail(q)) = Len(q) - 1 /\ Len(q) > 0
      /\ \A i \in 1..Len(Tail(q)) : Tail(q)[i] = q[i + 1]
      /\ Head(q) = q[1]
  OBVIOUS
<1>2. ASSUME n > 0 PROVE AnswersIn(Tail(q), n - 1) = AnswersIn(q, n)
  <2>1. Len(Tail(q)) - (n - 1) = Len(q) - n
    BY <1>1
  <2>2. \A i \in 1..(Len(q) - n) : Tail(q)[n - 1 + i] = q[n + i]
    BY <1>1, <1>2
  <2> QED BY <2>1, <2>2 DEF AnswersIn
<1>3. ASSUME n = 0
      PROVE  /\ AnswersIn(q, n) # <<>> /\ Head(AnswersIn(q, n)) = Head(q).for
             /\ AnswersIn(Tail(q), n) = Tail(AnswersIn(q, n))
  <2> DEFINE s == AnswersIn(q, n)
             t == AnswersIn(Tail(q), n)
  <2>1. /\ s \in Seq(Requests) /\ Len(s) = Len(q) - n
        /\ \A i \in 1..(Len(q) - n) : s[i] = q[n + i].for
    BY AnswersInQueue
  <2>2. n \in 0..Len(Tail(q)) /\ Greetings(Tail(q), n, "Response")
    BY <1>3, QueueShrinks
  <2>3. /\ t \in Seq(Requests) /\ Len(t) = Len(Tail(q)) - n
        /\ \A i \in 1..(Len(Tail(q)) - n) : t[i] = Tail(q)[n + i].for
    BY <1>1, <2>2, AnswersInQueue
  <2> HIDE DEF s, t
  <2>4. Len(s) = Len(q) /\ s # <<>> /\ Head(s) = s[1] /\ s[1] = q[1].for
    BY <1>1, <1>3, <2>1
  <2>5. /\ Tail(s) \in Seq(Requests) /\ Len(Tail(s)) = Len(s) - 1
        /\ \A i \in 1..Len(Tail(s)) : Tail(s)[i] = s[i + 1]
    BY <2>1, <2>4
  <2>6. Len(t) = Len(Tail(s)) /\ \A i \in 1..Len(t) : t[i] = Tail(s)[i]
    BY <1>1, <1>3, <2>1, <2>3, <2>5
  <2>7. t = Tail(s)
    BY <2>3, <2>5, <2>6, SeqEqual
  <2> QED BY <1>1, <2>4, <2>7 DEF s, t
<1> QED BY <1>2, <1>3

\* Nothing happens to the conversation on k.
Same(k) ==
  /\ toServer'[k] = toServer[k] /\ toClient'[k] = toClient[k]
  /\ clientEnd'[k] = clientEnd[k] /\ serverEnd'[k] = serverEnd[k]
  /\ pc'[k] = pc[k] /\ job'[k] = job[k]
  /\ is_connected'[k] = is_connected[k] /\ unanswered'[k] = unanswered[k]
  /\ stage'[k] = stage[k] /\ asked'[k] = asked[k] /\ got'[k] = got[k]

LEMMA InOrderAgain ==
  ASSUME NEW k, clientEnd'[k] # "unused", stage'[k] \in {"welcome", "version"},
         NEW m, NEW n, Unwelcomed(k, n)', Ungreeted(k, m)', Live(k)' => InOrder(k, m, n)'
  PROVE  OrderAt(k)'
<1>1. m \in 0..Len(toClient'[k]) /\ n \in 0..Len(toServer'[k])
  BY DEF Unwelcomed, Ungreeted
<1> QED BY <1>1 DEF OrderAt

LEMMA SameKeepsOrder ==
  ASSUME NEW k, OrderAt(k), Same(k)
  PROVE  OrderAt(k)'
<1>1. Up(k)' = Up(k) /\ Live(k)' = Live(k)
  BY DEF Same, Up, Live
<1>2. ASSUME NEW m, NEW n
      PROVE  /\ Unwelcomed(k, n)' <=> Unwelcomed(k, n)
             /\ Ungreeted(k, m)' <=> Ungreeted(k, m)
             /\ InOrder(k, m, n)' <=> InOrder(k, m, n)
  <2>1. Unwelcomed(k, n)' <=> Unwelcomed(k, n)
    BY DEF Same, Unwelcomed
  <2>2. Ungreeted(k, m)' <=> Ungreeted(k, m)
    BY DEF Same, Ungreeted
  <2>3. InOrder(k, m, n)' <=> InOrder(k, m, n)
    BY DEF Same, InOrder, InHand
  <2> QED BY <2>1, <2>2, <2>3
<1>3. CASE Up(k)
  <2>1. PICK m \in 0..Len(toClient[k]), n \in 0..Len(toServer[k]) :
          Unwelcomed(k, n) /\ Ungreeted(k, m) /\ (Live(k) => InOrder(k, m, n))
    BY <1>3 DEF OrderAt
  <2>2. clientEnd'[k] # "unused" /\ stage'[k] \in {"welcome", "version"}
    BY <1>3 DEF Same, OrderAt, Up
  <2> QED BY <1>1, <1>2, <2>1, <2>2, InOrderAgain
<1>4. CASE ~Up(k)
  BY <1>1, <1>4 DEF Same, OrderAt
<1> QED BY <1>3, <1>4

\* The conversation on k as values.
LEMMA Conversing ==
  ASSUME TypeInv, NEW k \in Conns
  PROVE  /\ toServer[k] \in Seq(ToServerFrames) /\ toClient[k] \in Seq(ToClientFrames)
         /\ asked[k] \in Seq(Requests) /\ got[k] \in Seq(Requests)
         /\ job[k] \in Requests /\ InHand(k) \in Seq(Requests)
         /\ \A n \in 0..Len(toServer[k]) :
              Unwelcomed(k, n) => RequestsIn(toServer[k], n) \in Seq(Requests)
         /\ \A m \in 0..Len(toClient[k]) :
              Ungreeted(k, m) => AnswersIn(toClient[k], m) \in Seq(Requests)
<1>1. /\ toServer[k] \in Seq(ToServerFrames) /\ toClient[k] \in Seq(ToClientFrames)
      /\ asked[k] \in Seq(Requests) /\ got[k] \in Seq(Requests) /\ job[k] \in Requests
  BY DEF TypeInv, TypeOK, WireTypeOK, ServerTypeOK, PeerTypeOK
<1>2. InHand(k) \in Seq(Requests)
  BY <1>1 DEF InHand
<1>3. ASSUME NEW n \in 0..Len(toServer[k]), Unwelcomed(k, n)
      PROVE  RequestsIn(toServer[k], n) \in Seq(Requests)
  BY <1>1, <1>3, RequestsInQueue DEF Unwelcomed
<1>4. ASSUME NEW m \in 0..Len(toClient[k]), Ungreeted(k, m)
      PROVE  AnswersIn(toClient[k], m) \in Seq(Requests)
  BY <1>1, <1>4, AnswersInQueue DEF Ungreeted
<1> QED BY <1>1, <1>2, <1>3, <1>4

LEMMA DownKeepsOrder ==
  ASSUME NEW k, clientEnd'[k] # "unused", ~Up(k)'
  PROVE  OrderAt(k)'
BY DEF OrderAt

-----------------------------------------------------------------------------
(* The peer's steps.                                                       *)

LEMMA OpenKeepsOrder ==
  ASSUME TypeInv, NEW k \in Conns, OrderAt(k), Open(k)
  PROVE  OrderAt(k)'
<1>1. /\ clientEnd[k] = "unused" /\ clientEnd'[k] = "open" /\ serverEnd'[k] = "open"
      /\ toServer'[k] = <<Welcome>> /\ stage'[k] = "welcome"
      /\ toClient'[k] = toClient[k] /\ asked'[k] = asked[k] /\ got'[k] = got[k] /\ pc'[k] = pc[k]
  BY DEF Open, ClientOpens, TypeInv, TypeOK, WireTypeOK, PeerTypeOK, serverVars, threadVars
<1>2. /\ toClient'[k] = <<>> /\ asked'[k] = <<>> /\ got'[k] = <<>> /\ pc'[k] = "none"
  BY <1>1 DEF OrderAt
<1>3. Len(toServer'[k]) = 1 /\ toServer'[k][1].kind = "Welcome" /\ Len(toClient'[k]) = 0
  BY <1>1, <1>2 DEF Welcome
<1>4. Unwelcomed(k, 1)'
  BY <1>1, <1>2, <1>3 DEF Unwelcomed, Greetings
<1>5. Ungreeted(k, 0)'
  BY <1>2, <1>3 DEF Ungreeted, Greetings
<1>6. InOrder(k, 0, 1)'
  <2>1. RequestsIn(toServer'[k], 1) = <<>> /\ AnswersIn(toClient'[k], 0) = <<>>
    BY <1>3 DEF RequestsIn, AnswersIn
  <2>2. InHand(k)' = <<>>
    BY <1>2 DEF InHand
  <2>3. Whole(<<>>, <<>>, <<>>, <<>>) = <<>>
    BY DEF Whole
  <2> QED BY <1>2, <2>1, <2>2, <2>3 DEF InOrder
<1> QED BY <1>1, <1>4, <1>5, <1>6, InOrderAgain

LEMMA SendVersionKeepsOrder ==
  ASSUME TypeInv, NEW k \in Conns, OrderAt(k), SendVersion(k)
  PROVE  OrderAt(k)'
<1>1. PICK v \in PeerVersions : ClientSends(k, VersionIs(v))
  BY DEF SendVersion
<1>2. CASE serverEnd[k] # "open"
  BY <1>2, DownKeepsOrder DEF SendVersion, Up
<1>3. CASE serverEnd[k] = "open"
  <2> DEFINE f == VersionIs(v)
  <2>1. f \in ToServerFrames /\ f.kind # "Request"
    BY AskedAssumption DEF VersionIs, ToServerFrames
  <2> HIDE DEF f
  <2>2. /\ clientEnd[k] = "open" /\ stage[k] = "welcome" /\ stage'[k] = "version"
        /\ toServer'[k] = Append(toServer[k], f) /\ toClient'[k] = toClient[k]
        /\ clientEnd'[k] = clientEnd[k] /\ serverEnd'[k] = serverEnd[k]
        /\ pc'[k] = pc[k] /\ job'[k] = job[k] /\ is_connected'[k] = is_connected[k]
        /\ unanswered'[k] = unanswered[k] /\ asked'[k] = asked[k] /\ got'[k] = got[k]
    BY <1>1, <1>3 DEF SendVersion, ClientSends, f, TypeInv, TypeOK, WireTypeOK, PeerTypeOK,
                      serverVars, threadVars, historyVars
  <2>3. PICK m \in 0..Len(toClient[k]), n \in 0..Len(toServer[k]) :
          Unwelcomed(k, n) /\ Ungreeted(k, m) /\ (Live(k) => InOrder(k, m, n))
    BY <1>3, <2>2 DEF OrderAt, Up
  <2>4. toServer[k] \in Seq(ToServerFrames)
    BY Conversing
  <2>5. n = Len(toServer[k]) /\ Greetings(toServer[k], n, "Request")
    BY <2>2, <2>3 DEF Unwelcomed
  <2>6. /\ Len(toServer'[k]) = Len(toServer[k]) + 1
        /\ Greetings(toServer'[k], n + 1, "Request")
        /\ RequestsIn(toServer'[k], n + 1) = RequestsIn(toServer[k], n)
    BY <2>1, <2>2, <2>4, <2>5, QueueGrows, RequestsGrow
  <2>7. Unwelcomed(k, n + 1)'
    <3>1. n \in Nat /\ n + 1 \in 0..Len(toServer'[k])
      BY <2>4, <2>6
    <3>2. pc[k] \in {"none", "welcome"} => n + 1 = 2
      BY <2>2, <2>3, <3>1 DEF Unwelcomed
    <3>3. pc[k] = "version" => n + 1 = 1
      BY <2>2, <2>3, <3>1 DEF Unwelcomed
    <3>4. pc[k] \notin {"loop", "read", "run", "check"}
      BY <2>2, <2>3 DEF Unwelcomed
    <3> QED BY <2>2, <2>6, <3>1, <3>2, <3>3, <3>4 DEF Unwelcomed
  <2>8. Ungreeted(k, m)'
    BY <2>2, <2>3 DEF Ungreeted
  <2>9. Live(k)' => InOrder(k, m, n + 1)'
    BY <2>2, <2>3, <2>6 DEF Live, Up, InOrder, InHand
  <2> QED BY <2>2, <2>7, <2>8, <2>9, InOrderAgain
<1> QED BY <1>2, <1>3

LEMMA AskKeepsOrder ==
  ASSUME TypeInv, NEW k \in Conns, OrderAt(k), NEW r \in Asked, Ask(k, r)
  PROVE  OrderAt(k)'
<1>1. CASE serverEnd[k] # "open"
  BY <1>1, DownKeepsOrder DEF Ask, Up
<1>2. CASE serverEnd[k] = "open"
  <2> DEFINE f == Asks(r)
  <2>1. f \in ToServerFrames /\ f.kind = "Request" /\ f.request = r /\ r \in Requests
    BY AskedAssumption DEF Asks, ToServerFrames
  <2> HIDE DEF f
  <2>2. /\ clientEnd[k] = "open" /\ stage[k] = "version" /\ stage'[k] = stage[k]
        /\ toServer'[k] = Append(toServer[k], f) /\ toClient'[k] = toClient[k]
        /\ clientEnd'[k] = clientEnd[k] /\ serverEnd'[k] = serverEnd[k]
        /\ pc'[k] = pc[k] /\ job'[k] = job[k] /\ is_connected'[k] = is_connected[k]
        /\ unanswered'[k] = unanswered[k] /\ asked'[k] = Append(asked[k], r) /\ got'[k] = got[k]
    BY <1>2 DEF Ask, ClientSends, f, TypeInv, TypeOK, WireTypeOK, PeerTypeOK,
                serverVars, threadVars, historyVars
  <2>3. PICK m \in 0..Len(toClient[k]), n \in 0..Len(toServer[k]) :
          Unwelcomed(k, n) /\ Ungreeted(k, m) /\ (Live(k) => InOrder(k, m, n))
    BY <1>2, <2>2 DEF OrderAt, Up
  <2>4. /\ toServer[k] \in Seq(ToServerFrames) /\ Greetings(toServer[k], n, "Request")
        /\ got[k] \in Seq(Requests) /\ InHand(k) \in Seq(Requests)
        /\ AnswersIn(toClient[k], m) \in Seq(Requests)
        /\ RequestsIn(toServer[k], n) \in Seq(Requests)
    BY <2>3, Conversing DEF Unwelcomed
  <2>5. /\ Len(toServer'[k]) = Len(toServer[k]) + 1
        /\ Greetings(toServer'[k], n, "Request")
        /\ RequestsIn(toServer'[k], n) = Append(RequestsIn(toServer[k], n), r)
    BY <2>1, <2>2, <2>4, QueueGrows, RequestsGrow
  <2>6. Unwelcomed(k, n)'
    BY <2>2, <2>3, <2>5 DEF Unwelcomed
  <2>7. Ungreeted(k, m)'
    BY <2>2, <2>3 DEF Ungreeted
  <2>8. ASSUME Live(k)' PROVE InOrder(k, m, n)'
    <3>1. InOrder(k, m, n)
      BY <2>2, <2>3, <2>8 DEF Live, Up
    <3> DEFINE a == got[k]
               b == AnswersIn(toClient[k], m)
               h == InHand(k)
               s == RequestsIn(toServer[k], n)
    <3>2. a \in Seq(Requests) /\ b \in Seq(Requests) /\ h \in Seq(Requests) /\ s \in Seq(Requests)
      BY <2>4
    <3>3. InHand(k)' = h /\ asked[k] = Whole(a, b, h, s)
      BY <2>2, <3>1 DEF InHand, InOrder
    <3>4. InOrder(k, m, n)' <=> Whole(a, b, h, Longer(s, r)) = Longer(asked[k], r)
      BY <2>2, <2>5, <3>3 DEF InOrder, Longer
    <3> HIDE DEF a, b, h, s
    <3>5. Whole(a, b, h, Longer(s, r)) = Longer(Whole(a, b, h, s), r)
      BY <2>1, <3>2, ShiftAsked
    <3> QED BY <3>3, <3>4, <3>5
  <2> QED BY <2>2, <2>6, <2>7, <2>8, InOrderAgain
<1> QED BY <1>1, <1>2

LEMMA ReadKeepsOrder ==
  ASSUME TypeInv, NEW k \in Conns, OrderAt(k), Read(k)
  PROVE  OrderAt(k)'
<1>1. CASE serverEnd[k] # "open"
  BY <1>1, DownKeepsOrder DEF Read, Up
<1>2. CASE serverEnd[k] = "open"
  <2> DEFINE q == toClient[k]
  <2>1. /\ clientEnd[k] = "open" /\ q # <<>> /\ toClient'[k] = Tail(q)
        /\ toServer'[k] = toServer[k] /\ clientEnd'[k] = clientEnd[k]
        /\ serverEnd'[k] = serverEnd[k]
        /\ pc'[k] = pc[k] /\ job'[k] = job[k] /\ is_connected'[k] = is_connected[k]
        /\ unanswered'[k] = unanswered[k] /\ stage'[k] = stage[k] /\ asked'[k] = asked[k]
        /\ Head(q).kind = "Response" => got'[k] = Append(got[k], Head(q).for)
        /\ Head(q).kind # "Response" => got'[k] = got[k]
    BY <1>2 DEF Read, ClientTakes, TypeInv, TypeOK, WireTypeOK, PeerTypeOK,
                serverVars, threadVars, historyVars
  <2>2. PICK m \in 0..Len(q), n \in 0..Len(toServer[k]) :
          Unwelcomed(k, n) /\ Ungreeted(k, m) /\ (Live(k) => InOrder(k, m, n))
    BY <1>2, <2>1 DEF OrderAt, Up
  <2>3. /\ q \in Seq(ToClientFrames) /\ Greetings(q, m, "Response")
        /\ got[k] \in Seq(Requests) /\ InHand(k) \in Seq(Requests)
        /\ AnswersIn(q, m) \in Seq(Requests)
        /\ RequestsIn(toServer[k], n) \in Seq(Requests)
    BY <2>2, Conversing DEF Ungreeted
  <2>4. Unwelcomed(k, n)'
    BY <2>1, <2>2 DEF Unwelcomed
  <2>5. InHand(k)' = InHand(k) /\ (Live(k)' <=> Live(k))
    BY <2>1 DEF InHand, Live, Up
  <2>6. /\ Len(Tail(q)) = Len(q) - 1 /\ Len(q) > 0
        /\ Head(q).kind = "Response" <=> m = 0
        /\ m > 0 => m - 1 \in 0..Len(Tail(q)) /\ Greetings(Tail(q), m - 1, "Response")
        /\ m = 0 => m \in 0..Len(Tail(q)) /\ Greetings(Tail(q), m, "Response")
    BY <2>1, <2>3, QueueShrinks
  <2>7. CASE m > 0
    <3>1. Ungreeted(k, m - 1)'
      BY <2>1, <2>2, <2>6, <2>7 DEF Ungreeted
    <3>2. AnswersIn(Tail(q), m - 1) = AnswersIn(q, m)
      BY <2>1, <2>3, <2>7, AnswersShrink
    <3>3. got'[k] = got[k]
      BY <2>1, <2>6, <2>7
    <3>4. Live(k)' => InOrder(k, m - 1, n)'
      BY <2>1, <2>2, <2>5, <3>2, <3>3 DEF InOrder
    <3> QED BY <2>1, <2>2, <2>4, <3>1, <3>4, InOrderAgain DEF OrderAt, Unwelcomed, Up
  <2>8. CASE m = 0
    <3>1. Ungreeted(k, m)'
      BY <2>1, <2>2, <2>6, <2>8 DEF Ungreeted
    <3> DEFINE a == got[k]
               b == AnswersIn(q, m)
               h == InHand(k)
               s == RequestsIn(toServer[k], n)
    <3>2. /\ b # <<>> /\ Head(b) = Head(q).for /\ AnswersIn(Tail(q), m) = Tail(b)
      BY <2>1, <2>3, <2>8, AnswersShrink
    <3>3. got'[k] = Append(a, Head(b))
      BY <2>1, <2>6, <2>8, <3>2
    <3>4. a \in Seq(Requests) /\ b \in Seq(Requests) /\ h \in Seq(Requests) /\ s \in Seq(Requests)
      BY <2>3
    <3>5. InOrder(k, m, n)' <=> Whole(Append(a, Head(b)), Tail(b), h, s) = asked[k]
      BY <2>1, <2>5, <3>2, <3>3 DEF InOrder
    <3>6. InOrder(k, m, n) <=> Whole(a, b, h, s) = asked[k]
      BY DEF InOrder
    <3> HIDE DEF a, b, h, s
    <3>7. Whole(Append(a, Head(b)), Tail(b), h, s) = Whole(a, b, h, s)
      BY <3>2, <3>4, ShiftReceived
    <3>8. Live(k)' => InOrder(k, m, n)'
      BY <2>2, <2>5, <3>5, <3>6, <3>7
    <3> QED BY <2>1, <2>2, <2>4, <3>1, <3>8, InOrderAgain DEF OrderAt, Unwelcomed, Up
  <2> QED BY <2>2, <2>7, <2>8
<1> QED BY <1>1, <1>2

LEMMA HangUpKeepsOrder ==
  ASSUME TypeInv, NEW k \in Conns, OrderAt(k), HangUp(k)
  PROVE  OrderAt(k)'
<1>1. clientEnd'[k] = "closed"
  BY DEF HangUp, ClientCloses, TypeInv, TypeOK, WireTypeOK
<1> QED BY <1>1, DownKeepsOrder DEF Up

LEMMA PeerKeepsOrder ==
  ASSUME TypeInv, NEW k \in Conns, OrderAt(k), Peer(k)
  PROVE  OrderAt(k)'
BY OpenKeepsOrder, SendVersionKeepsOrder, AskKeepsOrder, ReadKeepsOrder, HangUpKeepsOrder DEF Peer

-----------------------------------------------------------------------------
(* The session's steps.  Only a step that leaves the client connected can  *)
(* disturb the order.                                                      *)

\* What a session step leaves of the conversation on k.
Kept(k) ==
  /\ clientEnd'[k] = clientEnd[k] /\ serverEnd'[k] = serverEnd[k]
  /\ stage'[k] = stage[k] /\ asked'[k] = asked[k] /\ got'[k] = got[k]

\* The thread moves on between two of its reads.
LEMMA MovesKeepOrder ==
  ASSUME TypeInv, NEW k \in Conns, OrderAt(k), UNCHANGED peerVars,
         Accept(k) \/ TestLoop(k) \/ ReadEnd(k)
  PROVE  OrderAt(k)'
<1>1. /\ Kept(k) /\ toServer'[k] = toServer[k] /\ toClient'[k] = toClient[k]
      /\ unanswered'[k] = unanswered[k]
      /\ is_connected'[k] => is_connected[k]
      /\ \/ pc[k] = "none" /\ pc'[k] \in {"welcome", "closing"}
         \/ pc[k] = "loop" /\ pc'[k] \in {"read", "closing"}
         \/ pc[k] = "read" /\ pc'[k] = "loop"
      /\ clientEnd[k] # "unused"
  <2>1. clientEnd[k] # "unused"
    BY DEF Accept, TestLoop, ReadEnd, ServerSeesEnd, OrderAt
  <2> QED BY <2>1 DEF Accept, TestLoop, ReadEnd, Kept, peerVars, wireVars, historyVars,
                      TypeInv, TypeOK, ServerTypeOK
<1>2. CASE ~Up(k)
  BY <1>1, <1>2, DownKeepsOrder DEF Kept, Up
<1>3. CASE Up(k)
  <2>1. PICK m \in 0..Len(toClient[k]), n \in 0..Len(toServer[k]) :
          Unwelcomed(k, n) /\ Ungreeted(k, m) /\ (Live(k) => InOrder(k, m, n))
    BY <1>3 DEF OrderAt
  <2>2. Unwelcomed(k, n)'
    BY <1>1, <2>1 DEF Unwelcomed, Kept
  <2>3. Ungreeted(k, m)'
    BY <1>1, <2>1 DEF Ungreeted, Kept
  <2>4. InHand(k)' = InHand(k) /\ (Live(k)' => Live(k))
    BY <1>1 DEF InHand, Live, Up, Kept
  <2>5. Live(k)' => InOrder(k, m, n)'
    BY <1>1, <2>1, <2>4 DEF InOrder, Kept
  <2>6. clientEnd'[k] # "unused" /\ stage'[k] \in {"welcome", "version"}
    BY <1>1, <1>3 DEF OrderAt, Kept
  <2> QED BY <2>2, <2>3, <2>5, <2>6, InOrderAgain
<1> QED BY <1>2, <1>3

\* The session answers a greeting, or refuses it and leaves it unread.
Greets(k, f) ==
  /\ Kept(k) /\ is_connected'[k] = is_connected[k] /\ unanswered'[k] = unanswered[k]
  /\ toClient'[k] = Append(toClient[k], f)
  /\ \/ /\ toServer[k] # <<>> /\ toServer'[k] = Tail(toServer[k])
        /\ \/ pc[k] = "welcome" /\ pc'[k] = "version"
           \/ pc[k] = "version" /\ pc'[k] = "loop" /\ Head(toServer[k]).kind = "Version"
     \/ toServer'[k] = toServer[k] /\ pc[k] = "welcome" /\ pc'[k] = "closing"

LEMMA GreetsKeepsOrder ==
  ASSUME TypeInv, NEW k \in Conns, OrderAt(k), Up(k),
         NEW f \in ToClientFrames, f.kind # "Response", Greets(k, f)
  PROVE  OrderAt(k)'
<1> DEFINE q == toServer[k]
<1>1. PICK m \in 0..Len(toClient[k]), n \in 0..Len(q) :
        Unwelcomed(k, n) /\ Ungreeted(k, m) /\ (Live(k) => InOrder(k, m, n))
  BY DEF OrderAt
<1>2. /\ q \in Seq(ToServerFrames) /\ toClient[k] \in Seq(ToClientFrames)
      /\ Greetings(q, n, "Request") /\ Greetings(toClient[k], m, "Response")
      /\ m = Len(toClient[k]) /\ got[k] = <<>>
  BY <1>1, Conversing DEF Unwelcomed, Ungreeted, Greets
<1>3. /\ Len(toClient'[k]) = Len(toClient[k]) + 1
      /\ Greetings(toClient'[k], m + 1, "Response")
      /\ AnswersIn(toClient'[k], m + 1) = AnswersIn(toClient[k], m)
  BY <1>2, QueueGrows, AnswersGrow DEF Greets
<1>4. Ungreeted(k, m + 1)'
  <2>1. m + 1 \in 0..Len(toClient'[k]) /\ m + 1 = Len(toClient'[k])
    BY <1>2, <1>3
  <2> QED BY <1>2, <1>3, <2>1 DEF Ungreeted, Greets, Kept
<1>5. InHand(k)' = InHand(k) /\ (Live(k)' <=> Live(k))
  BY DEF Greets, Kept, InHand, Live, Up
<1>6. clientEnd'[k] # "unused" /\ stage'[k] \in {"welcome", "version"}
  BY DEF Greets, Kept, Up, OrderAt
<1>7. CASE toServer'[k] = q /\ pc[k] = "welcome" /\ pc'[k] = "closing"
  <2>1. Unwelcomed(k, n)'
    BY <1>1, <1>7 DEF Unwelcomed, Greets, Kept
  <2>2. Live(k)' => InOrder(k, m + 1, n)'
    BY <1>1, <1>3, <1>5, <1>7 DEF InOrder, Greets, Kept
  <2> QED BY <1>4, <1>6, <2>1, <2>2, InOrderAgain
<1>8. CASE /\ q # <<>> /\ toServer'[k] = Tail(q)
           /\ \/ pc[k] = "welcome" /\ pc'[k] = "version"
              \/ pc[k] = "version" /\ pc'[k] = "loop" /\ Head(q).kind = "Version"
  <2>1. n > 0
    <3>1. CASE pc[k] = "welcome"
      BY <1>1, <3>1 DEF Unwelcomed
    <3>2. CASE Head(q).kind = "Version"
      BY <1>2, <1>8, <3>2, QueueShrinks
    <3> QED BY <1>8, <3>1, <3>2
  <2>2. /\ Len(Tail(q)) = Len(q) - 1
        /\ n - 1 \in 0..Len(Tail(q)) /\ Greetings(Tail(q), n - 1, "Request")
        /\ RequestsIn(Tail(q), n - 1) = RequestsIn(q, n)
    BY <1>2, <1>8, <2>1, QueueShrinks, RequestsShrink
  <2>3. Unwelcomed(k, n - 1)'
    <3>1. stage'[k] = stage[k] /\ asked'[k] = asked[k]
      BY DEF Greets, Kept
    <3>2. stage[k] = "welcome" => n - 1 = Len(Tail(q)) /\ asked[k] = <<>>
      BY <1>1, <2>2 DEF Unwelcomed
    <3>3. pc'[k] = "version" => n - 1 = IF stage[k] = "version" THEN 1 ELSE 0
      BY <1>1, <1>8 DEF Unwelcomed
    <3>4. pc'[k] = "loop" => n - 1 = 0 /\ stage[k] = "version"
      BY <1>1, <1>6, <1>8, <2>1, <3>1 DEF Unwelcomed
    <3> QED BY <1>8, <2>2, <3>1, <3>2, <3>3, <3>4 DEF Unwelcomed
  <2>4. Live(k)' => InOrder(k, m + 1, n - 1)'
    BY <1>1, <1>3, <1>5, <1>8, <2>2 DEF InOrder, Greets, Kept
  <2> QED BY <1>4, <1>6, <2>3, <2>4, InOrderAgain
<1> QED BY <1>7, <1>8 DEF Greets

LEMMA GreetingsKeepOrder ==
  ASSUME TypeInv, NEW k \in Conns, OrderAt(k), UNCHANGED peerVars,
         ReadWelcome(k) \/ ReadVersion(k)
  PROVE  OrderAt(k)'
<1>1. pc[k] \in {"welcome", "version"} /\ Kept(k)
  BY DEF ReadWelcome, ReadVersion, Kept, peerVars
<1>2. clientEnd[k] # "unused"
  BY <1>1 DEF OrderAt
<1>3. CASE ~Up(k)
  BY <1>1, <1>2, <1>3, DownKeepsOrder DEF Kept, Up
<1>4. CASE Up(k)
  <2>1. /\ pc' = [pc EXCEPT ![k] = pc'[k]] /\ is_connected'[k] = is_connected[k]
        /\ unanswered'[k] = unanswered[k]
    BY DEF ReadWelcome, ReadVersion, historyVars, TypeInv, TypeOK, ServerTypeOK
  <2>2. CASE ReadWelcome(k)
    <3>1. WelcomeReply(TRUE) \in ToClientFrames /\ WelcomeReply(TRUE).kind # "Response"
      BY DEF WelcomeReply, ToClientFrames
    <3>2. WelcomeReply(FALSE) \in ToClientFrames /\ WelcomeReply(FALSE).kind # "Response"
      BY DEF WelcomeReply, ToClientFrames
    <3>3. Greets(k, WelcomeReply(TRUE)) \/ Greets(k, WelcomeReply(FALSE))
      BY <1>1, <1>4, <2>1, <2>2 DEF ReadWelcome, Greets, ServerTakes, ServerSends, ServerSeesEnd,
                      Up, TypeInv, TypeOK, ServerTypeOK, WireTypeOK
    <3> QED BY <1>4, <3>1, <3>2, <3>3, GreetsKeepsOrder
  <2>3. CASE ReadVersion(k)
    <3>1. ServerVersions \in ToClientFrames /\ ServerVersions.kind # "Response"
      BY DEF ServerVersions, ToClientFrames
    <3>2. Greets(k, ServerVersions)
      BY <1>1, <1>4, <2>1, <2>3 DEF ReadVersion, Greets, ServerTakes, ServerSends, ServerSees,
                      ServerSeesEnd, Up, TypeInv, TypeOK, ServerTypeOK, WireTypeOK
    <3> QED BY <1>4, <3>1, <3>2, GreetsKeepsOrder
  <2> QED BY <2>2, <2>3
<1> QED BY <1>3, <1>4

\* The response to a request r that is not in hand any more.
LEMMA AnswerKeepsOrder ==
  ASSUME TypeInv, NEW k \in Conns, OrderAt(k), Up(k), Kept(k),
         is_connected'[k] = is_connected[k], unanswered'[k] = unanswered[k],
         toServer'[k] = toServer[k], pc[k] \in {"run", "check"}, pc'[k] = "loop",
         NEW f \in ToClientFrames, f.kind = "Response", f.for = job[k],
         toClient'[k] = Append(toClient[k], f)
  PROVE  OrderAt(k)'
<1> DEFINE q == toClient[k]
<1>1. PICK m \in 0..Len(q), n \in 0..Len(toServer[k]) :
        Unwelcomed(k, n) /\ Ungreeted(k, m) /\ (Live(k) => InOrder(k, m, n))
  BY DEF OrderAt
<1>2. /\ q \in Seq(ToClientFrames) /\ Greetings(q, m, "Response")
      /\ got[k] \in Seq(Requests) /\ job[k] \in Requests
      /\ AnswersIn(q, m) \in Seq(Requests) /\ RequestsIn(toServer[k], n) \in Seq(Requests)
  BY <1>1, Conversing DEF Ungreeted
<1>3. /\ Len(toClient'[k]) = Len(q) + 1 /\ Greetings(toClient'[k], m, "Response")
      /\ AnswersIn(toClient'[k], m) = Append(AnswersIn(q, m), job[k])
  BY <1>2, QueueGrows, AnswersGrow
<1>4. Unwelcomed(k, n)'
  BY <1>1 DEF Unwelcomed, Kept
<1>5. Ungreeted(k, m)'
  <2>1. m \in 0..Len(toClient'[k])
    BY <1>2, <1>3
  <2> QED BY <1>3, <2>1 DEF Ungreeted
<1>6. Live(k)' => Live(k)
  BY DEF Live, Up, Kept
<1>7. ASSUME Live(k)' PROVE InOrder(k, m, n)'
  <2>1. Whole(got[k], AnswersIn(q, m), <<job[k]>>, RequestsIn(toServer[k], n)) = asked[k]
    BY <1>1, <1>6, <1>7 DEF InOrder, InHand
  <2>2. InHand(k)' = <<>>
    BY DEF InHand
  <2>3. Whole(got[k], Append(AnswersIn(q, m), job[k]), <<>>, RequestsIn(toServer[k], n))
          = Whole(got[k], AnswersIn(q, m), <<job[k]>>, RequestsIn(toServer[k], n))
    BY <1>2, ShiftAnswered
  <2> QED BY <1>3, <2>1, <2>2, <2>3 DEF InOrder, Kept
<1>8. clientEnd'[k] # "unused" /\ stage'[k] \in {"welcome", "version"}
  BY DEF Kept, Up, OrderAt
<1> QED BY <1>4, <1>5, <1>7, <1>8, InOrderAgain

LEMMA HandlersKeepOrder ==
  ASSUME TypeInv, NEW k \in Conns, OrderAt(k), UNCHANGED peerVars, Handler(k)
  PROVE  OrderAt(k)'
<1>1. /\ pc[k] \in {"run", "check"} /\ Kept(k) /\ toServer'[k] = toServer[k]
      /\ is_connected'[k] = is_connected[k]
  BY DEF Handler, Refuse, RunOther, HandlerThrows, RunLogout, RunRestart, GetUser, CheckPassword,
         Runs, Respond, HandlerDone, Kept, peerVars, wireVars
<1>2. clientEnd[k] # "unused"
  BY <1>1 DEF OrderAt
<1>3. CASE ~Up(k)
  BY <1>1, <1>2, <1>3, DownKeepsOrder DEF Kept, Up
<1>4. ASSUME Up(k), NEW from, NEW code \in ResponseCodes, NEW role \in Roles,
             Respond(k, from, code, role), unanswered' = unanswered
      PROVE  OrderAt(k)'
  <2> DEFINE f == Answers(job[k], code, role)
  <2>1. f \in ToClientFrames
    BY <1>4, AnswersAreFrames DEF TypeInv, TypeOK, ServerTypeOK
  <2>2. f.kind = "Response" /\ f.for = job[k]
    BY DEF Answers
  <2> HIDE DEF f
  <2>3. toClient'[k] = Append(toClient[k], f) /\ pc'[k] = "loop"
    BY <1>4 DEF Respond, HandlerDone, ServerSends, f, Up, TypeInv, TypeOK, WireTypeOK, ServerTypeOK
  <2> QED BY <1>1, <1>4, <2>1, <2>2, <2>3, AnswerKeepsOrder
<1>5. ASSUME Up(k), pc'[k] \in {"loop", "check"}, toClient'[k] = toClient[k],
             Live(k)' => Live(k) /\ InHand(k)' = InHand(k)
      PROVE  OrderAt(k)'
  <2>1. PICK m \in 0..Len(toClient[k]), n \in 0..Len(toServer[k]) :
          Unwelcomed(k, n) /\ Ungreeted(k, m) /\ (Live(k) => InOrder(k, m, n))
    BY <1>5 DEF OrderAt
  <2>2. Unwelcomed(k, n)'
    BY <1>1, <1>5, <2>1 DEF Unwelcomed, Kept
  <2>3. Ungreeted(k, m)'
    BY <1>1, <1>5, <2>1 DEF Ungreeted, Kept
  <2>4. Live(k)' => InOrder(k, m, n)'
    BY <1>1, <1>5, <2>1 DEF InOrder, Kept
  <2>5. clientEnd'[k] # "unused" /\ stage'[k] \in {"welcome", "version"}
    BY <1>1, <1>5 DEF OrderAt, Up, Kept
  <2> QED BY <2>2, <2>3, <2>4, <2>5, InOrderAgain
<1>6. /\ {"Ok", "IOError", "UserNotExists", "InvalidPassword", "InvalidRequestData",
          "UnknownRestartMode"} \subseteq ResponseCodes
      /\ RoleNone \in Roles
  BY DEF ResponseCodes, Roles
<1> SUFFICES ASSUME Up(k) PROVE OrderAt(k)'
  BY <1>3
<1>7. CASE Refuse(k)
  BY <1>4, <1>6, <1>7, RefusalIsCode DEF Refuse, historyVars
<1>8. CASE RunOther(k) \/ RunLogout(k) \/ RunRestart(k)
  BY <1>4, <1>6, <1>8 DEF RunOther, RunLogout, RunRestart, historyVars
<1>9. CASE HandlerThrows(k)
  <2>1. pc'[k] = "loop" /\ toClient'[k] = toClient[k] /\ unanswered'[k]
    BY <1>9 DEF HandlerThrows, HandlerDone, wireVars, TypeInv, TypeOK, ServerTypeOK
  <2> QED BY <1>5, <2>1 DEF Live
<1>10. CASE GetUser(k)
  <2>1. CASE ~Malformed(k) /\ Exists(job[k].name)
    <3>1. /\ pc[k] = "run" /\ pc'[k] = "check" /\ toClient'[k] = toClient[k]
          /\ job'[k] = job[k] /\ unanswered'[k] = unanswered[k]
      BY <1>10, <2>1 DEF GetUser, TypeInv, TypeOK, ServerTypeOK
    <3>2. InHand(k)' = InHand(k) /\ (Live(k)' => Live(k))
      BY <1>1, <3>1 DEF InHand, Live, Up, Kept
    <3> QED BY <1>5, <3>1, <3>2
  <2>2. CASE Malformed(k) \/ ~Exists(job[k].name)
    BY <1>4, <1>6, <1>10, <2>2 DEF GetUser
  <2> QED BY <2>1, <2>2
<1>11. CASE CheckPassword(k)
  <2>1. job[k].name \in Accounts
    BY <1>11 DEF CheckPassword, Respond, HandlerDone, TypeInv, CheckingLogins, Checking
  <2>2. RoleOf(job[k].name) \in Roles
    BY <2>1, RolesOfAccounts
  <2>3. (IF job[k].right THEN "Ok" ELSE "InvalidPassword") \in ResponseCodes
    BY <1>6
  <2>4. /\ Respond(k, "check", IF job[k].right THEN "Ok" ELSE "InvalidPassword",
                   RoleOf(job[k].name))
        /\ unanswered' = unanswered
    BY <1>11 DEF CheckPassword
  <2> QED BY <1>4, <2>2, <2>3, <2>4
<1> QED BY <1>7, <1>8, <1>9, <1>10, <1>11 DEF Handler

LEMMA ReadRequestKeepsOrder ==
  ASSUME TypeInv, NEW k \in Conns, OrderAt(k), UNCHANGED peerVars, ReadRequest(k)
  PROVE  OrderAt(k)'
<1> DEFINE q == toServer[k]
           c == toClient[k]
           r == Head(q).request
<1>1. /\ pc[k] = "read" /\ Kept(k) /\ q # <<>> /\ Head(q).kind = "Request"
      /\ toServer'[k] = Tail(q) /\ (unanswered[k] => unanswered'[k])
  BY DEF ReadRequest, ServerSees, ServerTakes, Kept, peerVars, TypeInv, TypeOK, WireTypeOK,
         ServerTypeOK
<1>2. clientEnd[k] # "unused"
  BY <1>1 DEF OrderAt
<1>3. CASE ~Up(k)
  BY <1>1, <1>2, <1>3, DownKeepsOrder DEF Kept, Up
<1>4. CASE Up(k)
  <2>1. PICK m \in 0..Len(c), n \in 0..Len(q) :
          Unwelcomed(k, n) /\ Ungreeted(k, m) /\ (Live(k) => InOrder(k, m, n))
    BY <1>4 DEF OrderAt
  <2>2. n = 0 /\ stage[k] = "version" /\ Greetings(q, n, "Request") /\ Greetings(c, m, "Response")
    BY <1>1, <2>1 DEF Unwelcomed, Ungreeted
  <2> DEFINE a == got[k]
             b == AnswersIn(c, m)
             s == RequestsIn(q, n)
  <2>3. /\ q \in Seq(ToServerFrames) /\ c \in Seq(ToClientFrames)
        /\ a \in Seq(Requests) /\ b \in Seq(Requests) /\ s \in Seq(Requests)
    BY <2>1, Conversing
  <2>4. /\ n \in 0..Len(Tail(q)) /\ Greetings(Tail(q), n, "Request")
        /\ s # <<>> /\ Head(s) = r /\ RequestsIn(Tail(q), n) = Tail(s) /\ r \in Requests
    <3>1. n \in 0..Len(Tail(q)) /\ Greetings(Tail(q), n, "Request")
      BY <1>1, <2>2, <2>3, QueueShrinks
    <3>2. s # <<>> /\ Head(s) = r /\ RequestsIn(Tail(q), n) = Tail(s)
      BY <1>1, <2>2, <2>3, RequestsShrink
    <3>3. Head(q) \in ToServerFrames
      BY <1>1, <2>3
    <3>4. r \in Requests
      BY <1>1, <3>3, ToServerFrameFields
    <3> QED BY <3>1, <3>2, <3>4
  <2>5. Live(k) => Whole(a, b, <<>>, s) = asked[k]
    BY <1>1, <2>1 DEF InOrder, InHand
  <2>6. Whole(a, b, <<>>, s) = Whole(a, b, <<r>>, Tail(s))
    <3> HIDE DEF a, b, s, r
    <3>1. Whole(a, b, <<Head(s)>>, Tail(s)) = Whole(a, b, <<>>, s)
      BY <2>3, <2>4, ShiftTaken
    <3> QED BY <2>4, <3>1
  <2>7. clientEnd'[k] # "unused" /\ stage'[k] = "version" /\ (Live(k)' => Up(k) /\ ~unanswered[k])
    BY <1>1, <1>2, <2>2 DEF Kept, Live, Up
  <2>8. ASSUME pc'[k] \in {"loop", "run"} PROVE Unwelcomed(k, n)'
    BY <1>1, <2>2, <2>4, <2>7, <2>8 DEF Unwelcomed
  <2>9. ASSUME pc'[k] \in {"loop", "run"}, toClient'[k] = c PROVE Ungreeted(k, m)'
    BY <2>1, <2>9 DEF Ungreeted
  <2>10. CASE r.id = "Quit"
    <3>1. pc'[k] = "loop" /\ toClient'[k] = c /\ ~is_connected'[k]
      BY <2>10 DEF ReadRequest, HandledRequests, LoggedRequests, TypeInv, TypeOK, ServerTypeOK
    <3>2. ~Live(k)'
      BY <3>1 DEF Live
    <3> QED BY <2>7, <2>8, <2>9, <3>1, <3>2, InOrderAgain
  <2>11. CASE r.id \notin HandledRequests \cup {"Quit", "Empty"}
    <3> DEFINE f == Answers(r, "UnknownRequest", RoleNone)
    <3>1. f \in ToClientFrames /\ f.kind = "Response" /\ f.for = r
      <4>1. f \in ToClientFrames
        BY <2>4, AnswersAreFrames DEF ResponseCodes, Roles
      <4> QED BY <4>1 DEF Answers
    <3> HIDE DEF f
    <3>2. /\ pc'[k] = "loop" /\ toClient'[k] = Append(c, f)
          /\ is_connected'[k] = is_connected[k]
      BY <1>4, <2>11 DEF ReadRequest, ServerSends, f, Up, TypeInv, TypeOK, ServerTypeOK, WireTypeOK
    <3>3. /\ Len(toClient'[k]) = Len(c) + 1 /\ Greetings(toClient'[k], m, "Response")
          /\ AnswersIn(toClient'[k], m) = Append(b, r)
      BY <2>2, <2>3, <3>1, <3>2, QueueGrows, AnswersGrow
    <3>4. Ungreeted(k, m)'
      <4>1. m \in 0..Len(toClient'[k])
        BY <2>3, <3>3
      <4> QED BY <3>2, <3>3, <4>1 DEF Ungreeted
    <3>5. Live(k)' => Live(k)
      BY <2>7, <3>2 DEF Live
    <3>6. Whole(a, Append(b, r), <<>>, Tail(s)) = Whole(a, b, <<r>>, Tail(s))
      <4> DEFINE u == Tail(s)
      <4>1. u \in Seq(Requests) /\ a \in Seq(Requests) /\ b \in Seq(Requests) /\ r \in Requests
        BY <2>3, <2>4
      <4> HIDE DEF a, b, s, r, u
      <4>2. Whole(a, Append(b, r), <<>>, u) = Whole(a, b, <<r>>, u)
        BY <4>1, ShiftAnswered
      <4> QED BY <4>2 DEF u
    <3>7. InOrder(k, m, n)' <=> Whole(a, Append(b, r), <<>>, Tail(s)) = asked[k]
      BY <1>1, <2>4, <3>2, <3>3 DEF InOrder, InHand, Kept
    <3> HIDE DEF a, b, s, r
    <3>8. Live(k)' => InOrder(k, m, n)'
      BY <2>5, <2>6, <3>5, <3>6, <3>7
    <3> QED BY <2>7, <2>8, <3>2, <3>4, <3>8, InOrderAgain
  <2>12. CASE r.id \in HandledRequests
    <3>1. /\ pc'[k] = "run" /\ toClient'[k] = c /\ job'[k] = r
          /\ is_connected'[k] = is_connected[k]
      BY <2>12 DEF ReadRequest, HandledRequests, LoggedRequests, TypeInv, TypeOK, ServerTypeOK
    <3>2. Live(k)' => Live(k)
      BY <2>7, <3>1 DEF Live
    <3>3. InOrder(k, m, n)' <=> Whole(a, b, <<r>>, Tail(s)) = asked[k]
      BY <1>1, <2>4, <3>1 DEF InOrder, InHand, Kept
    <3> HIDE DEF a, b, s, r
    <3>4. Live(k)' => InOrder(k, m, n)'
      BY <2>5, <2>6, <3>2, <3>3
    <3> QED BY <2>7, <2>8, <2>9, <3>1, <3>4, InOrderAgain
  <2>13. CASE r.id = "Empty"
    <3>1. pc'[k] = "loop" /\ toClient'[k] = c /\ unanswered'[k]
      BY <2>13 DEF ReadRequest, HandledRequests, LoggedRequests, TypeInv, TypeOK, ServerTypeOK
    <3>2. ~Live(k)'
      BY <3>1 DEF Live
    <3> QED BY <2>7, <2>8, <2>9, <3>1, <3>2, InOrderAgain
  <2> QED BY <2>10, <2>11, <2>12, <2>13
<1> QED BY <1>3, <1>4

\* An end of the session, or of the process, leaves no live session where it strikes.
LEMMA EndsKeepOrder ==
  ASSUME TypeInv, NEW k \in Conns, OrderAt(k), UNCHANGED peerVars, EndSession(k)
  PROVE  OrderAt(k)'
<1>1. clientEnd'[k] = clientEnd[k] /\ serverEnd'[k] = "closed" /\ pc[k] = "closing"
  BY DEF EndSession, ServerCloses, TypeInv, TypeOK, WireTypeOK
<1> QED BY <1>1, DownKeepsOrder DEF OrderAt, Up

LEMMA RestartKeepsOrder ==
  ASSUME TypeInv, NEW k \in Conns, OrderAt(k), UNCHANGED peerVars,
         NEW j \in Conns, NEW mode \in RestartModes, RestartFires(j, mode)
  PROVE  OrderAt(k)'
<1>1. CASE Die
  <2>1. /\ clientEnd'[k] = clientEnd[k] /\ serverEnd'[k] # "open"
        /\ serverEnd[k] = "unused" => serverEnd'[k] = "unused"
        /\ toClient'[k] = toClient[k] \/ toClient'[k] = <<>>
        /\ serverEnd[k] # "open" => pc'[k] = pc[k]
        /\ asked'[k] = asked[k] /\ got'[k] = got[k]
    BY <1>1 DEF Die, ServerDies, Destroyed, peerVars
  <2>2. ~Up(k)'
    BY <2>1 DEF Up
  <2> QED BY <2>1, <2>2 DEF OrderAt
<1>2. CASE ~Die
  BY <1>2, SameKeepsOrder DEF RestartFires, Same, wireVars, threadVars, historyVars, peerVars
<1> QED BY <1>1, <1>2

\* A step of one connection's peer or session leaves the other conversations alone.
LEMMA OthersSame ==
  ASSUME TypeInv, NEW k \in Conns, NEW j \in Conns \ {k},
         Peer(k) \/ (UNCHANGED peerVars /\ (Accept(k) \/ SessionStep(k)))
  PROVE  Same(j)
<1> USE DEF Same, TypeInv, TypeOK, WireTypeOK, ServerTypeOK, PeerTypeOK
<1>1. CASE Peer(k)
  <2>1. CASE Open(k)
    BY <2>1 DEF Open, ClientOpens, serverVars, threadVars, historyVars
  <2>2. CASE SendVersion(k)
    BY <2>2 DEF SendVersion, ClientSends, serverVars, threadVars, historyVars
  <2>3. CASE \E r \in Asked : Ask(k, r)
    BY <2>3 DEF Ask, ClientSends, serverVars, threadVars, historyVars
  <2>4. CASE Read(k)
    BY <2>4 DEF Read, ClientTakes, serverVars, threadVars, historyVars
  <2>5. CASE HangUp(k)
    BY <2>5 DEF HangUp, ClientCloses, serverVars, threadVars, historyVars, peerVars
  <2> QED BY <1>1, <2>1, <2>2, <2>3, <2>4, <2>5 DEF Peer
<1>2. CASE UNCHANGED peerVars /\ (Accept(k) \/ ReadWelcome(k) \/ ReadVersion(k) \/ TestLoop(k))
  <2> USE DEF ServerTakes, ServerSends, wireVars, historyVars, peerVars
  <2>1. CASE Accept(k) \/ TestLoop(k)
    BY <1>2, <2>1 DEF Accept, TestLoop
  <2>2. CASE ReadWelcome(k)
    BY <1>2, <2>2 DEF ReadWelcome
  <2>3. CASE ReadVersion(k)
    BY <1>2, <2>3 DEF ReadVersion
  <2> QED BY <1>2, <2>1, <2>2, <2>3
<1>3. CASE UNCHANGED peerVars /\ (ReadRequest(k) \/ ReadEnd(k))
  <2>1. CASE ReadRequest(k)
    <3>1. toServer'[j] = toServer[j] /\ toClient'[j] = toClient[j]
      BY <2>1 DEF ReadRequest, ServerTakes, ServerSends
    <3>2. pc'[j] = pc[j] /\ job'[j] = job[j] /\ is_connected'[j] = is_connected[j]
      BY <2>1 DEF ReadRequest
    <3> QED BY <1>3, <2>1, <3>1, <3>2 DEF ReadRequest, peerVars
  <2>2. CASE ReadEnd(k)
    BY <1>3, <2>2 DEF ReadEnd, wireVars, historyVars, peerVars
  <2> QED BY <1>3, <2>1, <2>2
<1>4. CASE UNCHANGED peerVars /\ EndSession(k)
  BY <1>4 DEF EndSession, ServerCloses, Destroyed, peerVars
<1>5. CASE UNCHANGED peerVars /\ Handler(k)
  <2> USE DEF Respond, HandlerDone, ServerSends, wireVars, historyVars, peerVars
  <2>1. CASE Refuse(k) \/ RunOther(k) \/ HandlerThrows(k)
    BY <1>5, <2>1 DEF Refuse, RunOther, HandlerThrows
  <2>2. CASE RunLogout(k) \/ RunRestart(k)
    BY <1>5, <2>2 DEF RunLogout, RunRestart
  <2>3. CASE GetUser(k)
    BY <1>5, <2>3 DEF GetUser
  <2>4. CASE CheckPassword(k)
    BY <1>5, <2>4 DEF CheckPassword
  <2> QED BY <1>5, <2>1, <2>2, <2>3, <2>4 DEF Handler
<1> QED BY <1>1, <1>2, <1>3, <1>4, <1>5 DEF SessionStep

LEMMA OrderStep ==
  TypeInv /\ OrderInv /\ [Next]_vars => OrderInv'
<1> SUFFICES ASSUME TypeInv, OrderInv, [Next]_vars, NEW j \in Conns PROVE OrderAt(j)'
  BY DEF OrderInv
<1>1. OrderAt(j)
  BY DEF OrderInv
<1>2. CASE UNCHANGED vars
  BY <1>1, <1>2, SameKeepsOrder DEF Same, vars, wireVars, serverVars, threadVars, historyVars,
     peerVars
<1>3. ASSUME NEW k \in Conns, Peer(k) PROVE OrderAt(j)'
  <2>1. CASE j = k
    BY <1>1, <1>3, <2>1, PeerKeepsOrder
  <2>2. CASE j # k
    BY <1>1, <1>3, <2>2, OthersSame, SameKeepsOrder
  <2> QED BY <2>1, <2>2
<1>4. ASSUME NEW k \in Conns, ServerStep(k), UNCHANGED peerVars PROVE OrderAt(j)'
  <2>1. CASE \E mode \in RestartModes : RestartFires(k, mode)
    BY <1>1, <1>4, <2>1, RestartKeepsOrder
  <2>2. CASE Accept(k) \/ SessionStep(k)
    <3>1. CASE j = k
      BY <1>1, <1>4, <2>2, <3>1, MovesKeepOrder, GreetingsKeepOrder, ReadRequestKeepsOrder,
         HandlersKeepOrder, EndsKeepOrder DEF SessionStep
    <3>2. CASE j # k
      BY <1>1, <1>4, <2>2, <3>2, OthersSame, SameKeepsOrder
    <3> QED BY <3>1, <3>2
  <2> QED BY <1>4, <2>1, <2>2 DEF ServerStep
<1> QED BY <1>2, <1>3, <1>4 DEF Next

\* Whatever the clients send, and however far ahead of the answers, on a live session the
\* responses come in the order of the requests, one for each.
THEOREM OrderSafe == Spec => []AnswersInOrder
<1>1. Init => OrderInv
  BY DEF Init, WireInit, ServerInit, OrderInv, OrderAt, Up
<1>2. OrderInv => AnswersInOrder
  BY DEF OrderInv, OrderAt, AnswersInOrder, Live, Unwelcomed, Ungreeted, InOrder, Whole
<1> QED BY <1>1, <1>2, OrderStep, TypeSafe, PTL DEF Spec
=============================================================================

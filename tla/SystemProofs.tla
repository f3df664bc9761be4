----------------------------- MODULE SystemProofs -----------------------------
(***************************************************************************)
(* Proofs about the shell clients and the server together, for every set   *)
(* of clients, connections, accounts and commands.                         *)
(***************************************************************************)
EXTENDS System, ServerSessionProofs, FiniteSetTheorems

-----------------------------------------------------------------------------
(* The invariant: where a client, its connection and its session are.      *)

\* A connection and the session at its end begin together and end apart.
Linked(k) ==
  /\ clientEnd[k] = "unused" <=> serverEnd[k] = "unused"
  /\ clientEnd[k] = "unused" => toServer[k] = <<>> /\ toClient[k] = <<>> /\ pc[k] = "none"
  /\ serverEnd[k] = "closed" <=> pc[k] = "ended"
  /\ serverEnd[k] = "closed" => toServer[k] = <<>>

\* A client has a connection as long as it waits on it, and shares it with no other.
Placed(c) ==
  /\ conn[c] # NoConn => clientEnd[conn[c]] = "open"
  /\ at[c] \in {"welcome", "version", "await"} => conn[c] # NoConn
  /\ at[c] \in {"connecting", "exited"} => conn[c] = NoConn
  /\ IF at[c] = "await" THEN pending[c] \in Commands ELSE pending[c] = NoRequest

Owned(c) ==
  /\ Placed(c)
  /\ \A d \in Clients : conn[c] # NoConn /\ conn[c] = conn[d] => c = d

\* How far the session can be while the client is at a place of its own, and which frames
\* that leaves between them.
InStep(c, k) ==
  /\ at[c] = "welcome" =>
       /\ pc[k] \notin {"loop", "read", "run", "check"}
       /\ pc[k] \in {"none", "welcome"} => toClient[k] = <<>>
       /\ pc[k] = "version" /\ toClient[k] # <<>> => Head(toClient[k]).ok
       /\ toClient[k] # <<>> => Head(toClient[k]).kind = "Welcome"
       /\ \A i \in 1..Len(toServer[k]) : toServer[k][i].kind # "Version"
  /\ at[c] = "version" =>
       /\ pc[k] \notin {"none", "welcome"}
       /\ pc[k] = "version" => toClient[k] = <<>>
       /\ toClient[k] # <<>> => Head(toClient[k]).kind = "Version"
  /\ at[c] = "prompt" => pc[k] \notin {"none", "welcome", "version"} /\ toClient[k] = <<>>
  /\ at[c] = "await" =>
       /\ pc[k] \notin {"none", "welcome", "version"}
       /\ toClient[k] # <<>> => Head(toClient[k]).kind = "Response"
                                /\ Head(toClient[k]).for = RequestOf(pending[c])
  /\ Len(toClient[k]) <= 1

\* The one command of the client is queued, in the session's hands or answered.
OneCommand(c, k) ==
  /\ \A i \in Asking(k) : at[c] = "await" /\ toServer[k][i].request = RequestOf(pending[c])
  /\ \A i, j \in Asking(k) : i = j
  /\ Handled(k) => at[c] = "await" /\ job[k] = RequestOf(pending[c]) /\ Asking(k) = {}
  /\ at[c] = "await" /\ toClient[k] # <<>> => Asking(k) = {} /\ ~Handled(k)

\* Nothing is lost as long as the session goes on.
Owed(c, k) ==
  at[c] = "await" =>
    \/ Asking(k) # {} \/ Handled(k) \/ toClient[k] # <<>>
    \/ pc[k] \in {"closing", "ended"} \/ ~is_connected[k] \/ unanswered[k]

\* An answer Ok is under way to a command of this kind.
Accepting(c, k, id) ==
  at[c] = "await" /\ pending[c].id = id /\ toClient[k] # <<>> /\ Head(toClient[k]).code = "Ok"

\* What the client believes of its login, or is about to, is what the session knows.
Believes(c, k) ==
  /\ logged[c] /\ serverEnd[k] = "open" => is_logged[k] \/ Accepting(c, k, "Logout")
  /\ Accepting(c, k, "Login") /\ serverEnd[k] = "open" => is_logged[k]
  /\ Accepting(c, k, "Login") /\ accepted[k] => user[k] = pending[c].name
  /\ logged[c] /\ accepted[k] => known[c] = user[k] \/ Accepting(c, k, "Login")

Together(c, k) == InStep(c, k) /\ OneCommand(c, k) /\ Owed(c, k) /\ Believes(c, k)

SystemInv ==
  /\ \A k \in Conns : Linked(k)
  /\ \A c \in Clients :
       /\ Owned(c)
       /\ at[c] = "connecting" => ~logged[c]
       /\ conn[c] # NoConn => Together(c, conn[c])

Inv == TypeOK /\ CheckingLogins /\ SystemInv

-----------------------------------------------------------------------------
(* Types.                                                                  *)

USE DEF Goto, Enter

LEMMA InitTypes == Init => TypeOK /\ CheckingLogins
<1> SUFFICES ASSUME Init PROVE TypeOK /\ CheckingLogins
  OBVIOUS
<1>1. WireTypeOK
  BY DEF Init, WireInit, WireTypeOK, EndStates
<1>2. ServerTypeOK
  BY RequestConstants DEF Init, ServerInit, ServerTypeOK, UsersInit, UsersTypeOK, Phases
<1>3. ClientTypeOK
  BY RequestConstants DEF Init, ClientInit, ClientTypeOK, Activities
<1>4. CheckingLogins
  BY DEF Init, ServerInit, CheckingLogins
<1> QED BY <1>1, <1>2, <1>3, <1>4 DEF TypeOK

\* Quit and the requests of the commands are frames a session understands.
LEMMA ClientFrames ==
  /\ Asks(Plain("Quit")) \in ToServerFrames
  /\ \A r \in Commands : RequestOf(r) \in Requests /\ Asks(RequestOf(r)) \in ToServerFrames
  /\ \A c \in Clients : VersionIs(ClientVersion[c]) \in ToServerFrames
<1>1. Plain("Quit") \in Requests /\ Restart("Program") \in Requests
  BY DEF Plain, Restart, NoRequest, Requests, RequestIds, HandledRequests, LoggedRequests, RestartModes
<1>2. \A r \in Commands : RequestOf(r) \in Requests
  BY <1>1, ClientAssumption DEF RequestOf
<1>3. \A r \in Requests : Asks(r) \in ToServerFrames
  BY DEF Asks, ToServerFrames
<1>4. \A c \in Clients : VersionIs(ClientVersion[c]) \in ToServerFrames
  BY ClientAssumption DEF VersionIs, ToServerFrames
<1>5. \A r \in Commands : Asks(RequestOf(r)) \in ToServerFrames
  BY <1>2, <1>3
<1> QED BY <1>1, <1>2, <1>3, <1>4, <1>5

\* A request that carries out a command is one a handler exists for.
LEMMA CommandsHandled ==
  ASSUME NEW r \in Commands
  PROVE  RequestOf(r).id = r.id /\ r.id \in HandledRequests
BY ClientAssumption DEF RequestOf, Restart

LEMMA WithQuitType ==
  ASSUME WireTypeOK, ClientTypeOK, NEW c \in Clients
  PROVE  WithQuit(c) \in [Conns -> Seq(ToServerFrames)]
BY ClientFrames DEF WithQuit, WireTypeOK, ClientTypeOK

LEMMA CloseSocketType ==
  ASSUME WireTypeOK, ClientTypeOK, NEW c \in Clients, NEW unread,
         NEW out \in [Conns -> Seq(ToServerFrames)], CloseSocket(c, out, unread)
  PROVE  /\ toServer' \in [Conns -> Seq(ToServerFrames)]
         /\ toClient' \in [Conns -> Seq(ToClientFrames)]
         /\ clientEnd' \in [Conns -> EndStates]
         /\ conn' \in [Clients -> Conns \cup {NoConn}]
<1>1. conn' \in [Clients -> Conns \cup {NoConn}]
  BY DEF CloseSocket, ClientTypeOK
<1>2. CASE conn[c] = NoConn
  BY <1>1, <1>2 DEF CloseSocket, WireTypeOK
<1>3. CASE conn[c] # NoConn
  <2>1. ClientCloses(conn[c], out, unread) /\ conn[c] \in Conns
    BY <1>3 DEF CloseSocket, ClientTypeOK
  <2>2. toServer' \in [Conns -> Seq(ToServerFrames)]
    <3>1. CASE toServer' = out
      BY <3>1
    <3>2. CASE toServer' = [out EXCEPT ![conn[c]] = <<>>]
      BY <2>1, <3>2
    <3> QED BY <2>1, <3>1, <3>2 DEF ClientCloses
  <2>3. toClient' \in [Conns -> Seq(ToClientFrames)] /\ clientEnd' \in [Conns -> EndStates]
    BY <2>1 DEF ClientCloses, WireTypeOK, EndStates
  <2> QED BY <1>1, <2>2, <2>3
<1> QED BY <1>2, <1>3

\* What the main thread does, and what the user and the signal handler do.
LEMMA ReadingKeepsTypes ==
  ASSUME WireTypeOK, ClientTypeOK, NEW c \in Clients, ClientStep(c)
  PROVE  WireTypeOK' /\ ClientTypeOK'
<1> USE DEF ClientTypeOK, Activities, CommandDone
<1>1. CASE Established(c)
  <2>1. PICK k \in Conns : ClientOpens(k) /\ conn' = [conn EXCEPT ![c] = k]
    BY <1>1 DEF Established
  <2>2. WireTypeOK'
    BY <1>1, <2>1, ClientOpensType DEF Established, WireTypeOK
  <2> QED BY <1>1, <2>1, <2>2 DEF Established
<1>2. CASE ConnectFails(c)
  BY <1>2 DEF ConnectFails, wireVars, WireTypeOK
<1>3. CASE ReadWelcomeReply(c)
  <2>1. conn[c] \in Conns
    BY <1>3 DEF ReadWelcomeReply
  <2>2. toClient' \in [Conns -> Seq(ToClientFrames)]
    BY <1>3, <2>1 DEF ReadWelcomeReply, ClientSees, ClientTakes, WireTypeOK
  <2>3. toServer' \in [Conns -> Seq(ToServerFrames)]
    <3>1. CASE UNCHANGED toServer
      BY <3>1 DEF WireTypeOK
    <3>2. CASE ClientSends(conn[c], VersionIs(ClientVersion[c]))
      BY <2>1, <3>2, ClientFrames, ClientSendsType
    <3> QED BY <1>3, <3>1, <3>2 DEF ReadWelcomeReply
  <2>4. WireTypeOK'
    BY <1>3, <2>2, <2>3 DEF ReadWelcomeReply, WireTypeOK
  <2> QED BY <1>3, <2>4 DEF ReadWelcomeReply
<1>4. CASE ReadVersions(c)
  <2>1. conn[c] \in Conns
    BY <1>4 DEF ReadVersions
  <2>2. WireTypeOK'
    BY <1>4, <2>1 DEF ReadVersions, ClientSees, ClientTakes, WireTypeOK
  <2> QED BY <1>4, <2>2 DEF ReadVersions
<1>5. CASE ReadFails(c)
  BY <1>5, RequestConstants DEF ReadFails, wireVars, WireTypeOK
<1>6. CASE ReadResponse(c)
  <2>1. conn[c] \in Conns
    BY <1>6 DEF ReadResponse
  <2>2. WireTypeOK'
    BY <1>6, <2>1 DEF ReadResponse, ClientSees, ClientTakes, WireTypeOK
  <2>3. pending[c].name \in Names \cup {NoUser}
    BY DEF Requests
  <2>4. logged' \in [Clients -> BOOLEAN] /\ known' \in [Clients -> Names \cup {NoUser}]
    BY <1>6, <2>3 DEF ReadResponse, Believe
  <2> QED BY <1>6, <2>2, <2>4, RequestConstants DEF ReadResponse
<1>7. CASE RestartAccepted(c)
  <2>1. CloseSocket(c, WithQuit(c), Tail(toClient[conn[c]]))
    BY <1>7 DEF RestartAccepted
  <2>2. WireTypeOK' /\ conn' \in [Clients -> Conns \cup {NoConn}]
    BY <1>7, <2>1, WithQuitType, CloseSocketType DEF RestartAccepted, WireTypeOK
  <2> QED BY <1>7, <2>2, RequestConstants DEF RestartAccepted, ResetState
<1>8. CASE InterruptExit(c)
  <2>1. CloseSocket(c, toServer, Unread(c)) /\ toServer \in [Conns -> Seq(ToServerFrames)]
    BY <1>8 DEF InterruptExit, WireTypeOK
  <2>2. WireTypeOK' /\ conn' \in [Clients -> Conns \cup {NoConn}]
    BY <1>8, <2>1, CloseSocketType DEF InterruptExit, WireTypeOK
  <2> QED BY <1>8, <2>2, RequestConstants DEF InterruptExit
<1> QED BY <1>1, <1>2, <1>3, <1>4, <1>5, <1>6, <1>7, <1>8 DEF ClientStep

LEMMA UserKeepsTypes ==
  ASSUME WireTypeOK, ClientTypeOK, NEW c \in Clients, User(c)
  PROVE  WireTypeOK' /\ ClientTypeOK'
<1> USE DEF ClientTypeOK, Activities, CommandDone, ResetState
<1>1. CASE Connect(c)
  <2>1. CASE UNCHANGED <<conn, clientEnd, toClient, toServer>>
    BY <1>1, <2>1 DEF Connect, WireTypeOK
  <2>2. CASE CloseSocket(c, toServer, Unread(c))
    <3>1. WireTypeOK' /\ conn' \in [Clients -> Conns \cup {NoConn}]
      BY <1>1, <2>2, CloseSocketType DEF Connect, WireTypeOK
    <3> QED BY <1>1, <3>1 DEF Connect
  <2> QED BY <1>1, <2>1, <2>2 DEF Connect
<1>2. CASE \E r \in Commands : Command(c, r)
  <2>1. PICK r \in Commands : Command(c, r)
    BY <1>2
  <2>2. conn[c] \in Conns /\ ClientSends(conn[c], Asks(RequestOf(r)))
    BY <2>1 DEF Command
  <2>3. WireTypeOK'
    BY <2>1, <2>2, ClientFrames, ClientSendsType DEF Command, WireTypeOK
  <2>4. pending' \in [Clients -> Requests] /\ at' \in [Clients -> Activities]
    BY <2>1, ClientAssumption, RequestConstants DEF Command
  <2> QED BY <2>1, <2>3, <2>4 DEF Command
<1>3. CASE Close(c)
  <2>1. WireTypeOK' /\ conn' \in [Clients -> Conns \cup {NoConn}]
    BY <1>3, WithQuitType, CloseSocketType DEF Close, WireTypeOK
  <2> QED BY <1>3, <2>1 DEF Close
<1>4. CASE Interrupt(c)
  <2>1. WireTypeOK'
    BY <1>4, WithQuitType DEF Interrupt, WireTypeOK
  <2> QED BY <1>4, <2>1 DEF Interrupt
<1> QED BY <1>1, <1>2, <1>3, <1>4 DEF User

LEMMA StepTypes == TypeOK /\ CheckingLogins /\ [Next]_vars => TypeOK' /\ CheckingLogins'
<1> SUFFICES ASSUME TypeOK, CheckingLogins, [Next]_vars PROVE TypeOK' /\ CheckingLogins'
  OBVIOUS
<1> USE DEF TypeOK
<1>1. ASSUME NEW k \in Conns, ServerStep(k), UNCHANGED clientVars PROVE TypeOK' /\ CheckingLogins'
  <2>1. WireTypeOK' /\ ServerTypeOK' /\ CheckingLogins'
    BY <1>1, SessionKeepsTypes, HandlerKeepsTypes, LoginKeepsTypes, RestartKeepsTypes
       DEF ServerStep, SessionStep, Handler
  <2> QED BY <1>1, <2>1 DEF ClientTypeOK, clientVars
<1>2. ASSUME NEW c \in Clients, User(c) \/ ClientStep(c), UNCHANGED serverVars
      PROVE  TypeOK' /\ CheckingLogins'
  <2>1. WireTypeOK' /\ ClientTypeOK'
    BY <1>2, ReadingKeepsTypes, UserKeepsTypes
  <2> QED BY <1>2, <2>1 DEF ServerTypeOK, UsersTypeOK, CheckingLogins, Checking, serverVars,
                            threadVars, historyVars, usersVars
<1>3. CASE UNCHANGED vars
  BY <1>3 DEF vars, wireVars, serverVars, threadVars, historyVars, usersVars, clientVars,
              WireTypeOK, ServerTypeOK, UsersTypeOK, ClientTypeOK, CheckingLogins, Checking
<1> QED BY <1>1, <1>2, <1>3 DEF Next

-----------------------------------------------------------------------------
(* Commands in a queue.                                                    *)

LEMMA CommandsOfAppend ==
  ASSUME NEW q \in Seq(ToServerFrames), NEW f \in ToServerFrames
  PROVE  /\ CommandsIn(Append(q, f))
              = CommandsIn(q) \cup (IF IsCommand(f) THEN {Len(q) + 1} ELSE {})
         /\ \A i \in 1..Len(q) : Append(q, f)[i] = q[i]
         /\ Append(q, f)[Len(q) + 1] = f
         /\ Len(Append(q, f)) = Len(q) + 1
BY DEF CommandsIn

LEMMA CommandsKept ==
  ASSUME NEW q \in Seq(ToServerFrames), NEW f \in ToServerFrames, ~IsCommand(f)
  PROVE  CommandsIn(Append(q, f)) = CommandsIn(q)
BY CommandsOfAppend

LEMMA CommandsOfTail ==
  ASSUME NEW q \in Seq(ToServerFrames), q # <<>>
  PROVE  /\ \A i \in CommandsIn(Tail(q)) : i + 1 \in CommandsIn(q) /\ Tail(q)[i] = q[i + 1]
         /\ IsCommand(Head(q)) => 1 \in CommandsIn(q)
         /\ ~IsCommand(Head(q)) /\ CommandsIn(q) # {} => CommandsIn(Tail(q)) # {}
         /\ Head(q) = q[1]
         /\ \A i \in 1..Len(Tail(q)) : i + 1 \in 1..Len(q) /\ Tail(q)[i] = q[i + 1]
<1>1. /\ Len(Tail(q)) = Len(q) - 1 /\ Len(q) \in Nat \ {0} /\ Head(q) = q[1]
      /\ \A i \in 1..Len(Tail(q)) : i + 1 \in 1..Len(q) /\ Tail(q)[i] = q[i + 1]
  OBVIOUS
<1>2. ASSUME ~IsCommand(Head(q)), CommandsIn(q) # {} PROVE CommandsIn(Tail(q)) # {}
  <2>1. PICK i \in CommandsIn(q) : TRUE
    BY <1>2
  <2>2. i \in 1..Len(q) /\ i # 1 /\ IsCommand(q[i])
    BY <1>1, <1>2, <2>1 DEF CommandsIn
  <2>3. i - 1 \in 1..Len(Tail(q)) /\ Tail(q)[i - 1] = q[i]
    BY <1>1, <2>2
  <2> QED BY <2>2, <2>3 DEF CommandsIn
<1> QED BY <1>1, <1>2 DEF CommandsIn

\* A command is served when its frame, the only one of its kind, is taken.
LEMMA CommandTaken ==
  ASSUME WireTypeOK, NEW k \in Conns, toServer[k] # <<>>, ServerTakes(k),
         \A i, j \in Asking(k) : i = j
  PROVE  /\ toServer'[k] = Tail(toServer[k])
         /\ \A i, j \in Asking(k)' : i = j
         /\ \A i \in Asking(k)' : \E j \in Asking(k) : toServer'[k][i] = toServer[k][j]
         /\ IsCommand(Head(toServer[k])) => Asking(k)' = {} /\ 1 \in Asking(k)
         /\ ~IsCommand(Head(toServer[k])) => (Asking(k)' = {} <=> Asking(k) = {})
<1> DEFINE q == toServer[k]
<1>1. q \in Seq(ToServerFrames) /\ toServer'[k] = Tail(q)
  BY DEF WireTypeOK, ServerTakes
<1> HIDE DEF q
<1>2. q # <<>> /\ \A i, j \in CommandsIn(q) : i = j
  BY DEF Asking, q
<1>3. /\ \A i \in CommandsIn(Tail(q)) : i + 1 \in CommandsIn(q) /\ Tail(q)[i] = q[i + 1]
      /\ IsCommand(Head(q)) => 1 \in CommandsIn(q)
      /\ ~IsCommand(Head(q)) /\ CommandsIn(q) # {} => CommandsIn(Tail(q)) # {}
  BY <1>1, <1>2, CommandsOfTail
<1>4. \A i, j \in CommandsIn(Tail(q)) : i = j
  BY <1>2, <1>3 DEF CommandsIn
<1>5. IsCommand(Head(q)) => CommandsIn(Tail(q)) = {}
  BY <1>2, <1>3 DEF CommandsIn
<1>6. Asking(k)' = CommandsIn(Tail(q)) /\ Asking(k) = CommandsIn(q)
  BY <1>1 DEF Asking, CommandsIn, q
<1> QED BY <1>1, <1>3, <1>4, <1>5, <1>6 DEF q

-----------------------------------------------------------------------------
(* A step of a session.  It leaves the clients and all other connections   *)
(* alone, so that only the client on its connection has to be looked at.   *)

\* Nothing happens on connection k.
Same(k) ==
  /\ toServer'[k] = toServer[k] /\ toClient'[k] = toClient[k]
  /\ clientEnd'[k] = clientEnd[k] /\ serverEnd'[k] = serverEnd[k]
  /\ pc'[k] = pc[k] /\ job'[k] = job[k] /\ is_connected'[k] = is_connected[k]
  /\ unanswered'[k] = unanswered[k] /\ is_logged'[k] = is_logged[k]
  /\ accepted'[k] = accepted[k] /\ user'[k] = user[k]

\* The main thread of c and what it believes stay as they are.
Idles(c) ==
  /\ at'[c] = at[c] /\ conn'[c] = conn[c] /\ pending'[c] = pending[c]
  /\ logged'[c] = logged[c] /\ known'[c] = known[c]

USE DEF Asking, Handled

LEMMA SameTogether ==
  ASSUME NEW c, NEW k, Same(k), Idles(c), Together(c, k)
  PROVE  Together(c, k)'
<1> USE DEF Same, Idles
<1>1. InStep(c, k)'
  BY DEF Together, InStep
<1>2. OneCommand(c, k)'
  BY DEF Together, OneCommand, CommandsIn
<1>3. Owed(c, k)'
  BY DEF Together, Owed, CommandsIn
<1>4. Believes(c, k)'
  BY DEF Together, Believes, Accepting
<1> QED BY <1>1, <1>2, <1>3, <1>4 DEF Together

\* The step is one on connection k and keeps the invariant there.
KeptAt(k) ==
  /\ \A j \in Conns \ {k} : Same(j)
  /\ Linked(k)' /\ clientEnd'[k] = clientEnd[k]
  /\ \A c \in Clients : conn[c] = k => Together(c, k)'

LEMMA SessionLocal ==
  ASSUME SystemInv, ClientTypeOK, NEW k \in Conns, KeptAt(k), UNCHANGED clientVars
  PROVE  SystemInv'
<1>1. \A c \in Clients : Idles(c)
  BY DEF clientVars, Idles
<1>2. ASSUME NEW j \in Conns PROVE Linked(j)'
  <2>1. CASE j = k
    BY <2>1 DEF KeptAt
  <2>2. CASE j # k
    <3>1. Same(j) /\ Linked(j)
      BY <2>2 DEF KeptAt, SystemInv
    <3> QED BY <3>1 DEF Same, Linked
  <2> QED BY <2>1, <2>2
<1>3. ASSUME NEW c \in Clients
      PROVE  /\ Owned(c)' /\ (at[c] = "connecting" => ~logged[c])'
             /\ (conn[c] # NoConn => Together(c, conn[c]))'
  <2>1. Owned(c) /\ (at[c] = "connecting" => ~logged[c])
    BY DEF SystemInv
  <2>2. \A j \in Conns : clientEnd'[j] = clientEnd[j]
    BY DEF KeptAt, Same
  <2>3. Owned(c)'
    BY <2>1, <2>2 DEF Owned, Placed, clientVars, ClientTypeOK
  <2>4. (at[c] = "connecting" => ~logged[c])'
    BY <2>1 DEF clientVars
  <2>5. ASSUME conn[c] # NoConn PROVE Together(c, conn[c])'
    <3>1. conn[c] \in Conns /\ Together(c, conn[c])
      BY <2>5 DEF ClientTypeOK, SystemInv
    <3> DEFINE j == conn[c]
    <3>2. CASE j = k
      <4>1. Together(c, k)'
        BY <3>2 DEF KeptAt
      <4> QED BY <1>1, <3>2, <4>1 DEF Idles, Together, InStep, OneCommand, Owed, Believes,
                                      Accepting, CommandsIn
    <3>3. CASE j # k
      <4>1. Same(j)
        BY <3>1, <3>3 DEF KeptAt
      <4> QED BY <1>1, <3>1, <4>1, SameTogether DEF Idles
    <3> QED BY <3>2, <3>3
  <2> QED BY <2>3, <2>4, <2>5 DEF clientVars
<1> QED BY <1>2, <1>3 DEF SystemInv

\* What is known of the client on connection k.
LEMMA OwnerKnown ==
  ASSUME SystemInv, NEW k \in Conns, NEW c \in Clients, conn[c] = k
  PROVE  /\ k # NoConn /\ clientEnd[k] = "open" /\ serverEnd[k] # "unused" /\ Owned(c)
         /\ InStep(c, k) /\ OneCommand(c, k) /\ Owed(c, k) /\ Believes(c, k) /\ Linked(k)
         /\ toClient[k] # <<>> => at[c] # "prompt"
<1>1. k # NoConn
  BY ClientAssumption
<1> QED BY <1>1 DEF SystemInv, Owned, Placed, Together, Linked, InStep

LEMMA AcceptKeeps ==
  ASSUME TypeOK, SystemInv, NEW k \in Conns, Accept(k), UNCHANGED clientVars
  PROVE  KeptAt(k)
<1> USE DEF TypeOK, ServerTypeOK
<1>1. \A j \in Conns \ {k} : Same(j)
  BY DEF Accept, wireVars, Same
<1>2. Linked(k)' /\ clientEnd'[k] = clientEnd[k]
  BY DEF Accept, wireVars, Linked, SystemInv
<1>3. ASSUME NEW c \in Clients, conn[c] = k PROVE Together(c, k)'
  <2>1. pc' = [pc EXCEPT ![k] = "welcome"] /\ pc[k] = "none" /\ clientEnd[k] = "open"
    BY <1>3, OwnerKnown DEF Accept
  <2>2. /\ InStep(c, k) /\ OneCommand(c, k) /\ Owed(c, k) /\ Believes(c, k)
    BY <1>3, OwnerKnown
  <2> QED BY <2>1, <2>2 DEF Accept, wireVars, clientVars, Together, InStep, OneCommand, Owed,
                          Believes, Accepting, CommandsIn
<1> QED BY <1>1, <1>2, <1>3 DEF KeptAt

LEMMA TestLoopKeeps ==
  ASSUME TypeOK, SystemInv, NEW k \in Conns, TestLoop(k), UNCHANGED clientVars
  PROVE  KeptAt(k)
<1> USE DEF TypeOK, ServerTypeOK
<1>1. \A j \in Conns \ {k} : Same(j)
  BY DEF TestLoop, wireVars, historyVars, Same
<1>2. Linked(k)' /\ clientEnd'[k] = clientEnd[k]
  BY DEF TestLoop, wireVars, Linked, SystemInv
<1>3. ASSUME NEW c \in Clients, conn[c] = k PROVE Together(c, k)'
  <2>1. pc[k] = "loop" /\ pc'[k] \in {"read", "closing"}
    BY DEF TestLoop
  <2>2. /\ InStep(c, k) /\ OneCommand(c, k) /\ Owed(c, k) /\ Believes(c, k)
    BY <1>3, OwnerKnown
  <2> QED BY <2>1, <2>2 DEF TestLoop, wireVars, historyVars, clientVars, Together, InStep,
                          OneCommand, Owed, Believes, Accepting, CommandsIn
<1> QED BY <1>1, <1>2, <1>3 DEF KeptAt

\* With a client at the other end a read does not meet the end of the stream.
LEMMA ReadEndKeeps ==
  ASSUME TypeOK, SystemInv, NEW k \in Conns, ReadEnd(k), UNCHANGED clientVars
  PROVE  KeptAt(k)
<1> USE DEF TypeOK, ServerTypeOK
<1>1. \A j \in Conns \ {k} : Same(j)
  BY DEF ReadEnd, wireVars, historyVars, Same
<1>2. Linked(k)' /\ clientEnd'[k] = clientEnd[k]
  BY DEF ReadEnd, wireVars, Linked, SystemInv
<1>3. ~\E c \in Clients : conn[c] = k
  BY OwnerKnown DEF ReadEnd, ServerSeesEnd
<1> QED BY <1>1, <1>2, <1>3 DEF KeptAt

\* A frame sent to a client that has nothing to read is the one it reads next.
LEMMA FrameSent ==
  ASSUME WireTypeOK, NEW k \in Conns, NEW f, clientEnd[k] = "open", toClient[k] = <<>>,
         ServerSends(k, f)
  PROVE  /\ toClient'[k] # <<>> /\ Head(toClient'[k]) = f /\ Len(toClient'[k]) = 1
<1>1. toClient'[k] = <<f>>
  BY DEF WireTypeOK, ServerSends
<1> QED BY <1>1

\* A session that reads the welcome message or the version has its client waiting for it.
LEMMA ReadWelcomeKeeps ==
  ASSUME TypeOK, SystemInv, NEW k \in Conns, ReadWelcome(k), UNCHANGED clientVars
  PROVE  KeptAt(k)
<1> USE DEF TypeOK, ServerTypeOK, WireTypeOK
<1>1. \A j \in Conns \ {k} : Same(j)
  BY DEF ReadWelcome, ServerTakes, ServerSends, historyVars, Same
<1>2. Linked(k)' /\ clientEnd'[k] = clientEnd[k]
  <2>1. pc[k] = "welcome" /\ pc'[k] \in {"version", "closing"}
    BY DEF ReadWelcome
  <2>2. serverEnd[k] = "open" /\ clientEnd[k] # "unused"
    BY <2>1 DEF Linked, SystemInv, EndStates
  <2> QED BY <2>1, <2>2 DEF ReadWelcome, Linked
<1>3. ASSUME NEW c \in Clients, conn[c] = k PROVE Together(c, k)'
  <2>1. /\ InStep(c, k) /\ OneCommand(c, k) /\ Owed(c, k) /\ Believes(c, k) /\ Owned(c)
        /\ clientEnd[k] = "open" /\ k # NoConn
    BY <1>3, OwnerKnown
  <2>2. at[c] = "welcome" /\ toClient[k] = <<>> /\ pc[k] = "welcome"
    BY <1>3, <2>1 DEF InStep, Owned, Placed, ReadWelcome, ClientTypeOK, Activities
  <2>3. UNCHANGED <<at, pending, logged, known, clientEnd, serverEnd, is_connected, is_logged,
                    accepted, unanswered, user>>
    BY DEF ReadWelcome, clientVars, historyVars
  <2>4. Asking(k) = {} /\ toServer[k] # <<>>
    BY <2>1, <2>2 DEF OneCommand, ReadWelcome, ServerSeesEnd
  <2>5. CASE /\ pc' = [pc EXCEPT ![k] = "version"] /\ ServerTakes(k)
             /\ ServerSends(k, WelcomeReply(TRUE))
    <3>1. Asking(k)' = {}
      BY <2>4, <2>5, CommandTaken
    <3>2. toClient'[k] # <<>> /\ Head(toClient'[k]) = WelcomeReply(TRUE) /\ Len(toClient'[k]) = 1
      BY <2>1, <2>2, <2>5, FrameSent
    <3>3. \A i \in 1..Len(toServer'[k]) : toServer'[k][i].kind # "Version"
      <4>1. toServer'[k] = Tail(toServer[k]) /\ toServer[k] \in Seq(ToServerFrames)
        BY <2>5 DEF ServerTakes
      <4> QED BY <2>1, <2>2, <2>4, <4>1, CommandsOfTail DEF InStep
    <3>4. InStep(c, k)'
      BY <2>2, <2>3, <2>5, <3>2, <3>3 DEF InStep, WelcomeReply
    <3>5. OneCommand(c, k)'
      BY <2>2, <2>3, <2>5, <3>1 DEF OneCommand
    <3>6. Owed(c, k)' /\ Believes(c, k)'
      BY <2>1, <2>2, <2>3 DEF Owed, Believes, Accepting
    <3> QED BY <3>4, <3>5, <3>6 DEF Together
  <2>6. CASE pc' = [pc EXCEPT ![k] = "closing"] /\ ServerSends(k, WelcomeReply(FALSE))
                /\ UNCHANGED toServer
    <3>1. toClient'[k] # <<>> /\ Head(toClient'[k]) = WelcomeReply(FALSE) /\ Len(toClient'[k]) = 1
      BY <2>1, <2>2, <2>6, FrameSent
    <3> QED BY <2>1, <2>2, <2>3, <2>4, <2>6, <3>1
            DEF Together, InStep, OneCommand, Owed, Believes, Accepting, WelcomeReply
  <2> QED BY <2>1, <2>5, <2>6 DEF ReadWelcome, ServerSeesEnd
<1> QED BY <1>1, <1>2, <1>3 DEF KeptAt

LEMMA ReadVersionKeeps ==
  ASSUME TypeOK, SystemInv, NEW k \in Conns, ReadVersion(k), UNCHANGED clientVars
  PROVE  KeptAt(k)
<1> USE DEF TypeOK, ServerTypeOK, WireTypeOK
<1>1. \A j \in Conns \ {k} : Same(j)
  BY DEF ReadVersion, ServerTakes, ServerSends, historyVars, Same
<1>2. Linked(k)' /\ clientEnd'[k] = clientEnd[k]
  <2>1. pc[k] = "version" /\ pc'[k] = "loop"
    BY DEF ReadVersion
  <2>2. serverEnd[k] = "open" /\ clientEnd[k] # "unused"
    BY <2>1 DEF Linked, SystemInv, EndStates
  <2> QED BY <2>1, <2>2 DEF ReadVersion, Linked
<1>3. ASSUME NEW c \in Clients, conn[c] = k PROVE Together(c, k)'
  <2>1. /\ InStep(c, k) /\ OneCommand(c, k) /\ Owed(c, k) /\ Believes(c, k) /\ Owned(c)
        /\ clientEnd[k] = "open" /\ k # NoConn
    BY <1>3, OwnerKnown
  <2>2. /\ toServer[k] # <<>> /\ Head(toServer[k]).kind = "Version" /\ ServerTakes(k)
        /\ ServerSends(k, ServerVersions) /\ pc[k] = "version" /\ pc' = [pc EXCEPT ![k] = "loop"]
    BY <2>1 DEF ReadVersion, ServerSees, ServerSeesEnd
  <2>3. at[c] = "version" /\ toClient[k] = <<>>
    <3>1. Head(toServer[k]) = toServer[k][1] /\ 1 \in 1..Len(toServer[k])
      BY <2>2
    <3> QED BY <1>3, <2>1, <2>2, <3>1 DEF InStep, Owned, Placed, ClientTypeOK, Activities
  <2>4. UNCHANGED <<at, pending, logged, known, clientEnd, serverEnd, is_connected, is_logged,
                    accepted, unanswered, user>>
    BY DEF ReadVersion, clientVars, historyVars
  <2>5. Asking(k)' = {}
    BY <2>1, <2>2, <2>3, CommandTaken DEF OneCommand
  <2>6. toClient'[k] # <<>> /\ Head(toClient'[k]) = ServerVersions /\ Len(toClient'[k]) = 1
    BY <2>1, <2>2, <2>3, FrameSent
  <2>7. InStep(c, k)'
    BY <2>2, <2>3, <2>4, <2>6 DEF InStep, ServerVersions
  <2>8. OneCommand(c, k)'
    BY <2>2, <2>3, <2>4, <2>5 DEF OneCommand
  <2>9. Owed(c, k)' /\ Believes(c, k)'
    BY <2>1, <2>3, <2>4 DEF Owed, Believes, Accepting
  <2> QED BY <2>7, <2>8, <2>9 DEF Together
<1> QED BY <1>1, <1>2, <1>3 DEF KeptAt

\* The request read is Quit, or the one command of the client, which waits for its answer.
LEMMA ReadRequestKeeps ==
  ASSUME TypeOK, SystemInv, NEW k \in Conns, ReadRequest(k), UNCHANGED clientVars
  PROVE  KeptAt(k)
<1> USE DEF TypeOK, ServerTypeOK, WireTypeOK
<1> DEFINE f == Head(toServer[k])
<1>0. /\ pc[k] = "read" /\ toServer[k] # <<>> /\ f.kind = "Request" /\ ServerTakes(k)
      /\ UNCHANGED <<clientEnd, serverEnd, at, conn, pending, logged, known, is_logged, user,
                     accepted>>
  BY DEF ReadRequest, ServerSees, clientVars
<1>1. \A j \in Conns \ {k} : Same(j)
  BY DEF ReadRequest, ServerTakes, ServerSends, Same
<1>2. Linked(k)' /\ clientEnd'[k] = clientEnd[k]
  <2>1. pc'[k] \in {"loop", "run"}
    BY DEF ReadRequest
  <2>2. serverEnd[k] = "open" /\ clientEnd[k] # "unused"
    BY <1>0 DEF Linked, SystemInv, EndStates
  <2> QED BY <1>0, <2>1, <2>2 DEF Linked
<1>3. ASSUME NEW c \in Clients, conn[c] = k PROVE Together(c, k)'
  <2>1. /\ InStep(c, k) /\ OneCommand(c, k) /\ Owed(c, k) /\ Believes(c, k) /\ Owned(c)
    BY <1>3, OwnerKnown
  <2>2. /\ \A i, j \in Asking(k)' : i = j
        /\ \A i \in Asking(k)' : \E j \in Asking(k) : toServer'[k][i] = toServer[k][j]
        /\ IsCommand(f) => Asking(k)' = {} /\ 1 \in Asking(k)
        /\ ~IsCommand(f) => (Asking(k)' = {} <=> Asking(k) = {})
    BY <1>0, <2>1, CommandTaken DEF OneCommand
  <2>3. f = toServer[k][1]
    BY <1>0
  <2> HIDE DEF f
  <2>4. CASE f.request.id = "Quit"
    <3>1. /\ is_connected' = [is_connected EXCEPT ![k] = FALSE]
          /\ pc' = [pc EXCEPT ![k] = "loop"] /\ UNCHANGED <<toClient, job, unanswered>>
      BY <2>4 DEF ReadRequest, HandledRequests, LoggedRequests, f
    <3>2. ~IsCommand(f)
      BY <2>4 DEF IsCommand
    <3>3. InStep(c, k)'
      BY <1>0, <2>1, <3>1 DEF InStep
    <3>4. OneCommand(c, k)'
      <4>1. \A i \in Asking(k)' :
              at[c] = "await" /\ toServer'[k][i].request = RequestOf(pending[c])
        <5> SUFFICES ASSUME NEW i \in Asking(k)'
                     PROVE  at[c] = "await" /\ toServer'[k][i].request = RequestOf(pending[c])
          OBVIOUS
        <5>1. PICK j \in Asking(k) : toServer'[k][i] = toServer[k][j]
          BY <2>2
        <5> QED BY <2>1, <5>1 DEF OneCommand
      <4>2. pc'[k] = "loop" /\ (Asking(k)' = {} <=> Asking(k) = {})
        BY <2>2, <3>1, <3>2
      <4>3. at[c] = "await" /\ toClient'[k] # <<>> => Asking(k)' = {}
        BY <2>1, <3>1, <4>2 DEF OneCommand
      <4> QED BY <1>0, <2>2, <4>1, <4>2, <4>3 DEF OneCommand
    <3>5. Owed(c, k)' /\ Believes(c, k)'
      BY <1>0, <2>1, <3>1 DEF Owed, Believes, Accepting
    <3> QED BY <3>3, <3>4, <3>5 DEF Together
  <2>5. CASE f.request.id # "Quit"
    <3>1. Asking(k)' = {} /\ 1 \in Asking(k)
      BY <1>0, <2>2, <2>5 DEF IsCommand, f
    <3>2. /\ at[c] = "await" /\ f.request = RequestOf(pending[c]) /\ pending[c] \in Commands
          /\ toClient[k] = <<>>
      BY <1>3, <2>1, <2>3, <3>1 DEF OneCommand, Owned, Placed
    <3>3. f.request.id \in HandledRequests
      BY <3>2, CommandsHandled
    <3>4. /\ job' = [job EXCEPT ![k] = f.request] /\ pc' = [pc EXCEPT ![k] = "run"]
          /\ UNCHANGED <<toClient, is_connected, unanswered>>
      BY <2>5, <3>3 DEF ReadRequest, HandledRequests, LoggedRequests, f
    <3>5. InStep(c, k)'
      BY <1>0, <2>1, <3>2, <3>4 DEF InStep
    <3>6. OneCommand(c, k)'
      BY <1>0, <3>1, <3>2, <3>4 DEF OneCommand
    <3>7. Owed(c, k)' /\ Believes(c, k)'
      BY <1>0, <2>1, <3>4 DEF Owed, Believes, Accepting
    <3> QED BY <3>5, <3>6, <3>7 DEF Together
  <2> QED BY <2>4, <2>5
<1> QED BY <1>1, <1>2, <1>3 DEF KeptAt

\* A session that has ended owes nothing; what it had sent may be lost or still be read.
LEMMA EndSessionKeeps ==
  ASSUME TypeOK, SystemInv, NEW k \in Conns, EndSession(k), UNCHANGED clientVars
  PROVE  KeptAt(k)
<1> USE DEF TypeOK, ServerTypeOK, WireTypeOK
<1>0. /\ pc[k] = "closing" /\ pc'[k] = "ended" /\ serverEnd'[k] = "closed" /\ toServer'[k] = <<>>
      /\ toClient'[k] \in {toClient[k], <<>>} /\ ~accepted'[k]
      /\ UNCHANGED <<clientEnd, at, conn, pending, logged, known>>
  BY DEF EndSession, ServerCloses, Destroyed, clientVars
<1>1. \A j \in Conns \ {k} : Same(j)
  BY DEF EndSession, ServerCloses, Destroyed, Same
<1>2. Linked(k)' /\ clientEnd'[k] = clientEnd[k]
  BY <1>0 DEF Linked, SystemInv
<1>3. ASSUME NEW c \in Clients, conn[c] = k PROVE Together(c, k)'
  <2>1. /\ InStep(c, k) /\ OneCommand(c, k) /\ Owed(c, k) /\ Believes(c, k) /\ Owned(c)
    BY <1>3, OwnerKnown
  <2>2. Asking(k)' = {} /\ Len(<<>>) = 0
    BY <1>0 DEF CommandsIn
  <2>3. InStep(c, k)'
    BY <1>0, <2>1, <2>2 DEF InStep
  <2>4. OneCommand(c, k)' /\ Owed(c, k)' /\ Believes(c, k)'
    BY <1>0, <2>2 DEF OneCommand, Owed, Believes, Accepting
  <2> QED BY <2>3, <2>4 DEF Together
<1> QED BY <1>1, <1>2, <1>3 DEF KeptAt

-----------------------------------------------------------------------------
(* The handlers: the client on the connection waits for what they answer.  *)

LEMMA HandlerKnown ==
  ASSUME SystemInv, NEW k \in Conns, Handled(k), NEW c \in Clients, conn[c] = k
  PROVE  /\ at[c] = "await" /\ pending[c] \in Commands /\ job[k] = RequestOf(pending[c])
         /\ Asking(k) = {} /\ toClient[k] = <<>> /\ clientEnd[k] = "open"
         /\ pending[c].id = job[k].id
         /\ job[k].id # "ServerRestart" => pending[c].name = job[k].name
<1>1. /\ at[c] = "await" /\ pending[c] \in Commands /\ job[k] = RequestOf(pending[c])
      /\ Asking(k) = {} /\ toClient[k] = <<>> /\ clientEnd[k] = "open"
  BY OwnerKnown DEF OneCommand, Owned, Placed
<1>2. pending[c].id = job[k].id
  BY <1>1, CommandsHandled
<1> QED BY <1>1, <1>2 DEF RequestOf

\* What a response changes whatever its code.
LEMMA RespondKeeps ==
  ASSUME TypeOK, SystemInv, NEW k \in Conns, NEW from \in {"run", "check"}, NEW code, NEW role,
         Respond(k, from, code, role), UNCHANGED <<toServer, clientEnd, serverEnd, clientVars>>
  PROVE  /\ \A j \in Conns \ {k} : /\ toClient'[j] = toClient[j]
                                   /\ pc'[j] = pc[j] /\ job'[j] = job[j]
         /\ Linked(k)' /\ pc[k] = from
         /\ \A c \in Clients : conn[c] = k =>
              /\ InStep(c, k)' /\ OneCommand(c, k)' /\ Owed(c, k)'
              /\ toClient'[k] # <<>> /\ Head(toClient'[k]).code = code
<1> USE DEF TypeOK, ServerTypeOK, WireTypeOK
<1>1. /\ pc[k] = from /\ pc' = [pc EXCEPT ![k] = "loop"] /\ job' = [job EXCEPT ![k] = NoRequest]
      /\ ServerSends(k, Answers(job[k], code, role))
  BY DEF Respond, HandlerDone
<1>2. \A j \in Conns \ {k} : toClient'[j] = toClient[j] /\ pc'[j] = pc[j] /\ job'[j] = job[j]
  BY <1>1 DEF ServerSends
<1>3. Linked(k)'
  BY <1>1 DEF Linked, SystemInv, EndStates
<1>4. ASSUME NEW c \in Clients, conn[c] = k
      PROVE  /\ InStep(c, k)' /\ OneCommand(c, k)' /\ Owed(c, k)'
             /\ toClient'[k] # <<>> /\ Head(toClient'[k]).code = code
  <2>1. /\ at[c] = "await" /\ job[k] = RequestOf(pending[c]) /\ Asking(k) = {}
        /\ toClient[k] = <<>> /\ clientEnd[k] = "open"
    BY <1>1, <1>4, HandlerKnown
  <2>2. /\ toClient'[k] # <<>> /\ Head(toClient'[k]) = Answers(job[k], code, role)
        /\ Len(toClient'[k]) = 1
    BY <1>1, <2>1, FrameSent
  <2>3. UNCHANGED <<at, pending>>
    BY DEF clientVars
  <2>4. InStep(c, k)'
    BY <1>1, <2>1, <2>2, <2>3 DEF InStep, Answers
  <2>5. OneCommand(c, k)' /\ Owed(c, k)'
    BY <1>1, <2>1, <2>2, <2>3 DEF OneCommand, Owed
  <2> QED BY <2>2, <2>4, <2>5 DEF Answers
<1> QED BY <1>1, <1>2, <1>3, <1>4

\* What the handler has made of the login when it responds.
LoginKept(k) == is_logged'[k] = is_logged[k] /\ accepted'[k] = accepted[k] /\ user'[k] = user[k]
LoginDone(k, code) ==
  /\ job[k].id = "Login" /\ is_logged'[k] /\ (accepted'[k] <=> code = "Ok")
  /\ code = "Ok" => user'[k] = job[k].name

LEMMA AnswerKeeps ==
  ASSUME TypeOK, SystemInv, NEW k \in Conns, NEW from \in {"run", "check"}, NEW code, NEW role,
         Respond(k, from, code, role),
         UNCHANGED <<toServer, clientEnd, serverEnd, is_connected, unanswered, clientVars>>,
         \A j \in Conns \ {k} : LoginKept(j),
         \/ LoginKept(k) /\ (code # "Ok" \/ job[k].id \notin {"Login", "Logout"})
         \/ LoginDone(k, code)
         \/ job[k].id = "Logout" /\ code = "Ok" /\ ~accepted'[k]
  PROVE  KeptAt(k)
<1>1. /\ \A j \in Conns \ {k} : toClient'[j] = toClient[j] /\ pc'[j] = pc[j] /\ job'[j] = job[j]
      /\ Linked(k)' /\ pc[k] = from
      /\ \A c \in Clients : conn[c] = k =>
           /\ InStep(c, k)' /\ OneCommand(c, k)' /\ Owed(c, k)'
           /\ toClient'[k] # <<>> /\ Head(toClient'[k]).code = code
  BY RespondKeeps
<1>2. \A j \in Conns \ {k} : Same(j)
  BY <1>1 DEF Same, LoginKept
<1>3. ASSUME NEW c \in Clients, conn[c] = k PROVE Believes(c, k)'
  <2>1. /\ Believes(c, k) /\ toClient[k] = <<>> /\ at[c] = "await" /\ pending[c].id = job[k].id
        /\ job[k].id = "Login" => pending[c].name = job[k].name
    BY <1>1, <1>3, OwnerKnown, HandlerKnown
  <2>2. at' = at /\ logged' = logged /\ known' = known /\ pending' = pending /\ serverEnd' = serverEnd
    BY DEF clientVars
  <2>3. /\ ~Accepting(c, k, "Login") /\ ~Accepting(c, k, "Logout")
        /\ Accepting(c, k, "Login")' <=> (job[k].id = "Login" /\ code = "Ok")
        /\ Accepting(c, k, "Logout")' <=> (job[k].id = "Logout" /\ code = "Ok")
    BY <1>1, <1>3, <2>1, <2>2 DEF Accepting
  <2>4. CASE LoginKept(k) /\ (code # "Ok" \/ job[k].id \notin {"Login", "Logout"})
    <3>1. ~Accepting(c, k, "Login")' /\ ~Accepting(c, k, "Logout")'
      BY <2>3, <2>4
    <3> QED BY <2>1, <2>2, <2>3, <2>4, <3>1, Zenon DEF Believes, LoginKept
  <2>5. CASE LoginDone(k, code)
    BY <2>1, <2>2, <2>3, <2>5 DEF Believes, LoginDone
  <2>6. CASE job[k].id = "Logout" /\ code = "Ok" /\ ~accepted'[k]
    <3>1. ~Accepting(c, k, "Login")' /\ Accepting(c, k, "Logout")'
      BY <2>3, <2>6
    <3> QED BY <2>6, <3>1 DEF Believes
  <2> QED BY <2>4, <2>5, <2>6
<1> QED BY <1>1, <1>2, <1>3 DEF KeptAt, Together

LEMMA HandlersKeep ==
  ASSUME TypeOK, CheckingLogins, SystemInv, NEW k \in Conns, UNCHANGED clientVars, Handler(k)
  PROVE  KeptAt(k)
<1> USE DEF historyVars, LoginKept, TypeOK, ServerTypeOK
<1>1. CASE Refuse(k)
  BY <1>1, AnswerKeeps DEF Refuse
<1>2. CASE RunOther(k)
  <2>1. PICK code : Respond(k, "run", code, RoleNone)
    BY <1>2 DEF RunOther
  <2> QED BY <1>2, <2>1, AnswerKeeps DEF RunOther, Runs, SessionRequests
<1>3. CASE HandlerThrows(k)
  <2>0. /\ pc[k] = "run" /\ pc' = [pc EXCEPT ![k] = "loop"] /\ job' = [job EXCEPT ![k] = NoRequest]
        /\ unanswered' = [unanswered EXCEPT ![k] = TRUE]
        /\ UNCHANGED <<wireVars, is_connected, is_logged, accepted, user, clientVars>>
    BY <1>3 DEF HandlerThrows, HandlerDone
  <2>1. \A j \in Conns \ {k} : Same(j)
    BY <2>0 DEF wireVars, Same
  <2>2. Linked(k)' /\ clientEnd'[k] = clientEnd[k]
    BY <2>0 DEF wireVars, Linked, SystemInv
  <2>3. ASSUME NEW c \in Clients, conn[c] = k PROVE Together(c, k)'
    <3>1. /\ at[c] = "await" /\ Asking(k) = {} /\ toClient[k] = <<>>
          /\ InStep(c, k) /\ Believes(c, k)
      BY <2>0, <2>3, HandlerKnown, OwnerKnown
    <3> QED BY <2>0, <3>1 DEF wireVars, clientVars, Together, InStep, OneCommand, Owed, Believes,
                            Accepting
  <2> QED BY <2>1, <2>2, <2>3 DEF KeptAt
<1>4. CASE RunLogout(k)
  <2>1. ~accepted'[k]
    BY <1>4 DEF RunLogout
  <2> QED BY <1>4, <2>1, AnswerKeeps DEF RunLogout, Runs
<1>5. CASE RunRestart(k)
  BY <1>5, AnswerKeeps DEF RunRestart, Runs
<1>6. CASE GetUser(k)
  <2>1. CASE ~Malformed(k) /\ Exists(job[k].name)
    <3>0. /\ pc[k] = "run" /\ pc' = [pc EXCEPT ![k] = "check"]
          /\ UNCHANGED <<toServer, toClient, clientEnd, serverEnd, is_connected, is_logged,
                         accepted, unanswered, user, job, clientVars>>
      BY <1>6, <2>1 DEF GetUser
    <3>1. \A j \in Conns \ {k} : Same(j)
      BY <3>0 DEF Same
    <3>2. Linked(k)' /\ clientEnd'[k] = clientEnd[k]
      BY <3>0 DEF Linked, SystemInv
    <3>3. ASSUME NEW c \in Clients, conn[c] = k PROVE Together(c, k)'
      <4>1. /\ at[c] = "await" /\ Asking(k) = {} /\ toClient[k] = <<>>
            /\ job[k] = RequestOf(pending[c]) /\ InStep(c, k) /\ Believes(c, k)
        BY <3>0, <3>3, HandlerKnown, OwnerKnown
      <4> QED BY <3>0, <4>1 DEF clientVars, Together, InStep, OneCommand, Owed, Believes, Accepting
    <3> QED BY <3>1, <3>2, <3>3 DEF KeptAt
  <2>2. CASE Malformed(k) \/ ~Exists(job[k].name)
    <3>1. PICK code \in {"UserNotExists", "InvalidRequestData"} :
          /\ Respond(k, "run", code, RoleNone) /\ BecomeUser(k, NoUser, code)
          /\ UNCHANGED <<toServer, clientEnd, serverEnd, is_connected, unanswered, clientVars>>
          /\ job[k].id = "Login"
      BY <1>6, <2>2 DEF GetUser, Runs
    <3>2. LoginDone(k, code) /\ \A j \in Conns \ {k} : LoginKept(j)
      BY <3>1 DEF BecomeUser, LoginDone
    <3> QED BY <3>1, <3>2, AnswerKeeps
  <2> QED BY <2>1, <2>2
<1>7. CASE CheckPassword(k)
  <2> DEFINE code == IF job[k].right THEN "Ok" ELSE "InvalidPassword"
  <2>1. /\ Respond(k, "check", code, RoleOf(job[k].name)) /\ BecomeUser(k, job[k].name, code)
        /\ UNCHANGED <<toServer, clientEnd, serverEnd, is_connected, unanswered, clientVars>>
        /\ pc[k] = "check"
    BY <1>7 DEF CheckPassword, Respond, HandlerDone
  <2>2. LoginDone(k, code) /\ \A j \in Conns \ {k} : LoginKept(j)
    BY <2>1 DEF BecomeUser, LoginDone, CheckingLogins, Checking
  <2> HIDE DEF code
  <2> QED BY <2>1, <2>2, AnswerKeeps
<1> QED BY <1>1, <1>2, <1>3, <1>4, <1>5, <1>6, <1>7 DEF Handler

-----------------------------------------------------------------------------
(* The death of the server: every session ends at once.                    *)

LEMMA TogetherAt ==
  ASSUME NEW c, NEW k, conn'[c] = k, Together(c, k)'
  PROVE  Together(c, conn[c])'
BY DEF Together, InStep, OneCommand, Owed, Believes, Accepting, CommandsIn

LEMMA DieKeeps ==
  ASSUME TypeOK, SystemInv, Die, UNCHANGED clientVars
  PROVE  SystemInv'
<1> USE DEF TypeOK, ServerTypeOK, WireTypeOK
<1>1. ASSUME NEW k \in Conns, serverEnd[k] = "open"
      PROVE  /\ pc'[k] = "ended" /\ serverEnd'[k] = "closed" /\ toServer'[k] = <<>>
             /\ toClient'[k] \in {toClient[k], <<>>} /\ ~accepted'[k]
             /\ clientEnd'[k] = clientEnd[k]
  BY <1>1 DEF Die, ServerDies, Destroyed
<1>2. ASSUME NEW k \in Conns, serverEnd[k] # "open" PROVE Same(k)
  <2>1. toServer[k] = <<>>
    BY <1>2 DEF SystemInv, Linked, EndStates
  <2> QED BY <1>2, <2>1 DEF Die, ServerDies, Destroyed, Same
<1>3. ASSUME NEW k \in Conns PROVE Linked(k)'
  <2>1. Linked(k)
    BY DEF SystemInv
  <2>2. CASE serverEnd[k] = "open"
    BY <1>1, <2>1, <2>2 DEF Linked
  <2>3. CASE serverEnd[k] # "open"
    BY <1>2, <2>1, <2>3 DEF Linked, Same
  <2> QED BY <2>2, <2>3
<1>4. ASSUME NEW c \in Clients, NEW k \in Conns, conn[c] = k PROVE Together(c, k)'
  <2>1. InStep(c, k) /\ OneCommand(c, k) /\ Owed(c, k) /\ Believes(c, k)
    BY <1>4, OwnerKnown
  <2>2. Idles(c)
    BY DEF Idles, clientVars
  <2>3. CASE serverEnd[k] = "open"
    <3>0. /\ pc'[k] = "ended" /\ serverEnd'[k] = "closed" /\ toServer'[k] = <<>>
          /\ toClient'[k] \in {toClient[k], <<>>} /\ ~accepted'[k]
      BY <1>1, <2>3
    <3>1. Asking(k)' = {} /\ Len(<<>>) = 0
      BY <3>0 DEF CommandsIn
    <3>2. InStep(c, k)'
      BY <2>1, <2>2, <3>0, <3>1 DEF InStep, Idles
    <3>3. OneCommand(c, k)' /\ Owed(c, k)' /\ Believes(c, k)'
      BY <3>0, <3>1 DEF OneCommand, Owed, Believes, Accepting
    <3> QED BY <3>2, <3>3 DEF Together
  <2>4. CASE serverEnd[k] # "open"
    BY <1>2, <2>1, <2>2, <2>4, SameTogether DEF Together
  <2> QED BY <2>3, <2>4
<1>5. ASSUME NEW c \in Clients PROVE Owned(c)' /\ (at[c] = "connecting" => ~logged[c])'
  BY DEF SystemInv, Owned, Placed, clientVars, Die, ServerDies
<1>6. UNCHANGED conn
  BY DEF clientVars
<1>7. ASSUME NEW c \in Clients, conn'[c] # NoConn PROVE Together(c, conn[c])'
  BY <1>4, <1>6, <1>7, TogetherAt DEF ClientTypeOK
<1> QED BY <1>3, <1>5, <1>6, <1>7 DEF SystemInv

LEMMA ServerKeeps ==
  ASSUME TypeOK, CheckingLogins, SystemInv, NEW k \in Conns, ServerStep(k), UNCHANGED clientVars
  PROVE  SystemInv'
<1>1. CASE KeptAt(k)
  BY <1>1, SessionLocal DEF TypeOK
<1>2. CASE \E m \in RestartModes : RestartFires(k, m)
  <2>1. CASE Die
    BY <2>1, DieKeeps
  <2>2. CASE UNCHANGED <<wireVars, usersVars, historyVars, threadVars>>
    <3>1. \A j \in Conns : Same(j)
      BY <2>2 DEF wireVars, historyVars, threadVars, Same
    <3>2. KeptAt(k)
      <4>1. Linked(k)'
        BY <3>1 DEF Same, Linked, SystemInv
      <4>2. \A c \in Clients : conn[c] = k => Together(c, k)'
        BY <3>1, OwnerKnown, SameTogether DEF Together, Idles, clientVars
      <4> QED BY <3>1, <4>1, <4>2 DEF KeptAt, Same
    <3> QED BY <3>2, SessionLocal DEF TypeOK
  <2> QED BY <1>2, <2>1, <2>2 DEF RestartFires
<1>3. CASE Accept(k)
  BY <1>1, <1>3, AcceptKeeps
<1>4. CASE SessionStep(k)
  BY <1>1, <1>4, ReadWelcomeKeeps, ReadVersionKeeps, TestLoopKeeps, ReadRequestKeeps, ReadEndKeeps,
     EndSessionKeeps, HandlersKeep DEF SessionStep
<1> QED BY <1>2, <1>3, <1>4 DEF ServerStep

-----------------------------------------------------------------------------
(* A step of a client.  It leaves the other clients alone and touches only *)
(* the connection it has, or the new one it takes.                         *)

LEMMA ClientLocal ==
  ASSUME SystemInv, ClientTypeOK, NEW c \in Clients,
         \A d \in Clients \ {c} : Idles(d),
         \A k \in Conns : k # conn[c] /\ k # conn'[c] => Same(k),
         \A k \in Conns : k = conn[c] \/ k = conn'[c] => Linked(k)',
         conn'[c] \in Conns \cup {NoConn},
         conn'[c] # NoConn => conn'[c] = conn[c] \/ clientEnd[conn'[c]] = "unused",
         Placed(c)', at'[c] = "connecting" => ~logged'[c],
         \A k \in Conns : conn'[c] = k => Together(c, k)'
  PROVE  SystemInv'
<1>1. ASSUME NEW k \in Conns PROVE Linked(k)'
  <2>1. CASE k # conn[c] /\ k # conn'[c]
    BY <2>1 DEF SystemInv, Same, Linked
  <2> QED BY <2>1
<1>2. ASSUME NEW d \in Clients \ {c}, conn[d] # NoConn
      PROVE  /\ conn[d] \in Conns /\ conn'[d] = conn[d] /\ Same(conn[d])
             /\ conn[d] # conn'[c]
  <2>1. conn[d] \in Conns /\ conn'[d] = conn[d] /\ clientEnd[conn[d]] = "open" /\ conn[d] # conn[c]
    BY <1>2 DEF SystemInv, Owned, Placed, ClientTypeOK, Idles
  <2>2. conn[d] # conn'[c]
    BY <2>1, ClientAssumption
  <2> QED BY <2>1, <2>2
<1>3. ASSUME NEW d \in Clients
      PROVE  /\ Owned(d)' /\ (at[d] = "connecting" => ~logged[d])'
             /\ (conn[d] # NoConn => Together(d, conn[d]))'
  <2>1. CASE d = c
    <3>1. \A e \in Clients : conn'[c] # NoConn /\ conn'[c] = conn'[e] => c = e
      BY <1>2 DEF Idles
    <3>2. (conn[c] # NoConn => Together(c, conn[c]))'
      BY TogetherAt
    <3> QED BY <2>1, <3>1, <3>2 DEF Owned
  <2>2. CASE d # c
    <3>0. Idles(d) /\ Owned(d) /\ (at[d] = "connecting" => ~logged[d])
      BY <2>2 DEF SystemInv
    <3>1. Placed(d)'
      <4>1. conn'[d] # NoConn => clientEnd'[conn'[d]] = "open"
        BY <1>2, <2>2, <3>0 DEF Same, Idles, Owned, Placed
      <4> QED BY <3>0, <4>1 DEF Idles, Owned, Placed
    <3>2. \A e \in Clients : conn'[d] # NoConn /\ conn'[d] = conn'[e] => d = e
      <4> SUFFICES ASSUME NEW e \in Clients, conn'[d] # NoConn, conn'[d] = conn'[e] PROVE d = e
        OBVIOUS
      <4>1. CASE e = c
        BY <1>2, <2>2, <3>0, <4>1 DEF Idles
      <4>2. CASE e # c
        BY <3>0, <4>2 DEF Idles, Owned
      <4> QED BY <4>1, <4>2
    <3>3. (conn[d] # NoConn => Together(d, conn[d]))'
      <4> SUFFICES ASSUME conn'[d] # NoConn PROVE Together(d, conn[d])'
        OBVIOUS
      <4>1. conn[d] # NoConn /\ Together(d, conn[d])
        BY <3>0 DEF Idles, SystemInv
      <4>2. PICK k \in Conns : k = conn[d]
        BY <1>2, <2>2, <4>1
      <4>3. Same(k) /\ Together(d, k) /\ conn'[d] = k
        BY <1>2, <2>2, <4>1, <4>2
      <4>4. Together(d, k)'
        BY <3>0, <4>3, SameTogether
      <4> QED BY <4>3, <4>4, TogetherAt
    <3> QED BY <3>0, <3>1, <3>2, <3>3 DEF Owned, Idles
  <2> QED BY <2>1, <2>2
<1> QED BY <1>1, <1>3 DEF SystemInv

\* What is known of the connection of a client.
LEMMA ConnKnown ==
  ASSUME TypeOK, SystemInv, NEW c \in Clients, NEW k, conn[c] = k, k # NoConn
  PROVE  /\ k \in Conns /\ clientEnd[k] = "open" /\ serverEnd[k] \in {"open", "closed"}
         /\ InStep(c, k) /\ OneCommand(c, k) /\ Owed(c, k) /\ Believes(c, k) /\ Linked(k)
         /\ toServer[k] \in Seq(ToServerFrames) /\ toClient[k] \in Seq(ToClientFrames)
         /\ at[c] \in {"prompt", "welcome", "version", "await"}
<1>1. k \in Conns
  BY DEF TypeOK, ClientTypeOK
<1>2. toServer[k] \in Seq(ToServerFrames) /\ toClient[k] \in Seq(ToClientFrames)
  BY <1>1 DEF TypeOK, WireTypeOK
<1>3. serverEnd[k] \in {"open", "closed"}
  BY <1>1, OwnerKnown DEF TypeOK, WireTypeOK, EndStates
<1>4. Owned(c)
  BY <1>1, OwnerKnown
<1>5. at[c] \in {"prompt", "welcome", "version", "await"}
  BY <1>4 DEF Owned, Placed, TypeOK, ClientTypeOK, Activities
<1> QED BY <1>1, <1>2, <1>3, <1>5, OwnerKnown

\* A frame that is read was the only one.
LEMMA FrameRead ==
  ASSUME NEW k \in Conns, WireTypeOK, toClient[k] # <<>>, Len(toClient[k]) <= 1, ClientTakes(k)
  PROVE  /\ toClient'[k] = <<>> /\ \A j \in Conns \ {k} : toClient'[j] = toClient[j]
         /\ Len(<<>>) = 0
<1>1. /\ toClient[k] \in Seq(ToClientFrames)
      /\ toClient' = [toClient EXCEPT ![k] = Tail(toClient[k])]
  BY DEF WireTypeOK, ClientTakes
<1>2. Tail(toClient[k]) = <<>>
  BY <1>1
<1> QED BY <1>1, <1>2 DEF WireTypeOK

LEMMA CloseSocketKeeps ==
  ASSUME TypeOK, SystemInv, NEW c \in Clients, NEW unread, NEW out,
         out \in [Conns -> Seq(ToServerFrames)],
         \A j \in Conns : j # conn[c] \/ serverEnd[j] = "closed" => out[j] = toServer[j],
         CloseSocket(c, out, unread), UNCHANGED <<serverEnd, serverVars>>
  PROVE  /\ conn' = [conn EXCEPT ![c] = NoConn] /\ conn'[c] = NoConn
         /\ \A k \in Conns : k # conn[c] => Same(k)
         /\ \A k \in Conns : k = conn[c] => Linked(k)'
<1> USE DEF TypeOK, ClientTypeOK, WireTypeOK, serverVars, threadVars, historyVars
<1>1. conn' = [conn EXCEPT ![c] = NoConn] /\ conn'[c] = NoConn
  BY DEF CloseSocket
<1>2. CASE conn[c] = NoConn
  BY <1>1, <1>2, ClientAssumption DEF CloseSocket, Same
<1>3. CASE conn[c] # NoConn
  <2>1. PICK k \in Conns : k = conn[c] /\ ClientCloses(k, out, unread)
    BY <1>3 DEF CloseSocket
  <2>2. Linked(k) /\ serverEnd[k] # "unused"
    BY <1>3, <2>1, ConnKnown
  <2>3. \A j \in Conns : j # conn[c] => Same(j)
    BY <2>1 DEF ClientCloses, Same
  <2>4. Linked(k)'
    BY <2>1, <2>2 DEF ClientCloses, Linked
  <2> QED BY <1>1, <2>1, <2>3, <2>4
<1> QED BY <1>2, <1>3

\* A client that has closed its socket is done with the connection.
LEMMA LeavingKeeps ==
  ASSUME TypeOK, SystemInv, NEW c \in Clients, NEW unread, NEW out \in {toServer, WithQuit(c)},
         CloseSocket(c, out, unread), UNCHANGED <<serverEnd, serverVars>>,
         \A d \in Clients \ {c} : conn'[d] = conn[d] => Idles(d),
         at'[c] \in {"prompt", "connecting", "exited"}, pending'[c] = NoRequest,
         at'[c] = "connecting" => ~logged'[c]
  PROVE  SystemInv'
<1>1. out \in [Conns -> Seq(ToServerFrames)]
  BY WithQuitType DEF TypeOK, WireTypeOK
<1>2. \A j \in Conns : j # conn[c] \/ serverEnd[j] = "closed" => out[j] = toServer[j]
  BY DEF WithQuit, TypeOK, WireTypeOK
<1>3. /\ conn' = [conn EXCEPT ![c] = NoConn] /\ conn'[c] = NoConn
      /\ \A k \in Conns : k # conn[c] => Same(k)
      /\ \A k \in Conns : k = conn[c] => Linked(k)'
  BY <1>1, <1>2, CloseSocketKeeps
<1>4. \A d \in Clients \ {c} : Idles(d)
  BY <1>3 DEF TypeOK, ClientTypeOK
<1>5. Placed(c)'
  BY <1>3, <1>4 DEF Placed
<1> QED BY <1>3, <1>4, <1>5, ClientLocal, ClientAssumption DEF TypeOK

LEMMA EstablishedKeeps ==
  ASSUME TypeOK, SystemInv, NEW c \in Clients, Established(c), UNCHANGED serverVars
  PROVE  SystemInv'
<1> USE DEF TypeOK, WireTypeOK, ClientTypeOK, serverVars, threadVars, historyVars
<1>1. PICK k \in Conns : ClientOpens(k) /\ conn' = [conn EXCEPT ![c] = k]
  BY DEF Established
<1>2. /\ at[c] = "connecting" /\ at' = [at EXCEPT ![c] = "welcome"]
      /\ UNCHANGED <<toClient, logged, known, pending>>
  BY DEF Established
<1>3. conn[c] = NoConn /\ ~logged[c] /\ pending[c] = NoRequest
  BY <1>2 DEF SystemInv, Owned, Placed
<1>4. /\ \A d \in Clients \ {c} : Idles(d)
      /\ at'[c] = "welcome" /\ conn'[c] = k /\ pending'[c] = NoRequest /\ ~logged'[c]
  BY <1>1, <1>2, <1>3 DEF Idles
<1>5. Linked(k) /\ clientEnd[k] = "unused"
  BY <1>1 DEF ClientOpens, SystemInv
<1>6. /\ clientEnd'[k] = "open" /\ serverEnd'[k] = "open" /\ toServer'[k] = <<Welcome>>
      /\ toClient'[k] = <<>> /\ pc'[k] = "none"
  BY <1>1, <1>2, <1>5 DEF ClientOpens, Linked
<1>7. \A j \in Conns : j # conn[c] /\ j # k => Same(j)
  BY <1>1, <1>2 DEF ClientOpens, Same
<1>8. Linked(k)' /\ Placed(c)'
  BY <1>1, <1>4, <1>6, ClientAssumption DEF Linked, Placed
<1>9. Together(c, k)'
  <2>1. /\ Len(<<Welcome>>) = 1 /\ <<Welcome>>[1] = Welcome /\ Welcome.kind = "Welcome"
        /\ Len(<<>>) = 0
    BY DEF Welcome
  <2>2. Asking(k)' = {}
    BY <1>6, <2>1 DEF CommandsIn, IsCommand
  <2>3. InStep(c, k)'
    BY <1>4, <1>6, <2>1 DEF InStep
  <2> QED BY <1>4, <1>6, <2>2, <2>3 DEF Together, OneCommand, Owed, Believes, Accepting
<1>10. \A j \in Conns : j = conn[c] \/ j = conn'[c] => Linked(j)'
  BY <1>3, <1>4, <1>8, ClientAssumption
<1> QED BY <1>3, <1>4, <1>5, <1>7, <1>8, <1>9, <1>10, ClientLocal

\* A step of a client that keeps its connection, k.
LEMMA StayingKeeps ==
  ASSUME TypeOK, SystemInv, NEW c \in Clients, NEW k \in Conns, conn[c] = k, UNCHANGED conn,
         UNCHANGED <<clientEnd, serverEnd, serverVars>>,
         \A j \in Conns \ {k} : toServer'[j] = toServer[j] /\ toClient'[j] = toClient[j],
         serverEnd[k] = "closed" => toServer'[k] = <<>>,
         \A d \in Clients \ {c} : Idles(d), at'[c] \in {"prompt", "welcome", "version", "await"},
         IF at'[c] = "await" THEN pending'[c] \in Commands ELSE pending'[c] = NoRequest,
         InStep(c, k)', OneCommand(c, k)', Owed(c, k)', Believes(c, k)'
  PROVE  SystemInv'
<1>0. k # NoConn
  BY ClientAssumption
<1>1. conn'[c] = k
  OBVIOUS
<1>3. \A j \in Conns : j # conn[c] /\ j # conn'[c] => Same(j)
  BY DEF Same, serverVars, threadVars, historyVars
<1>4. Linked(k) /\ clientEnd[k] = "open" /\ serverEnd[k] # "unused"
  BY <1>0, ConnKnown
<1>5. Linked(k)'
  BY <1>4 DEF Linked, serverVars, threadVars
<1>6. Placed(c)'
  BY <1>0, <1>1, <1>4 DEF Placed
<1>7. \A j \in Conns : conn'[c] = j => Together(c, j)'
  BY <1>1 DEF Together
<1> QED BY <1>1, <1>3, <1>5, <1>6, <1>7, ClientLocal DEF TypeOK

\* The answer to the welcome message or the version is all there is to read, and no
\* command has been sent yet.
LEMMA GreetingKeeps ==
  ASSUME TypeOK, SystemInv, NEW c \in Clients, ReadWelcomeReply(c) \/ ReadVersions(c),
         UNCHANGED serverVars
  PROVE  SystemInv'
<1> USE DEF TypeOK, ClientTypeOK
<1>1. PICK k \in Conns : conn[c] = k /\ k # NoConn /\ toClient[k] # <<>> /\ ClientTakes(k)
  BY DEF ReadWelcomeReply, ReadVersions, ClientSees
<1>2. /\ InStep(c, k) /\ OneCommand(c, k) /\ Owed(c, k) /\ Believes(c, k) /\ Linked(k)
      /\ serverEnd[k] \in {"open", "closed"} /\ toServer[k] \in Seq(ToServerFrames)
  BY <1>1, ConnKnown
<1>3. /\ toClient'[k] = <<>> /\ \A j \in Conns \ {k} : toClient'[j] = toClient[j]
      /\ Len(<<>>) = 0
  BY <1>1, <1>2, FrameRead DEF InStep
<1>4. /\ UNCHANGED <<clientEnd, serverEnd, conn, logged, known, pending>>
      /\ UNCHANGED <<pc, job, is_connected, unanswered, is_logged, accepted, user>>
  BY DEF ReadWelcomeReply, ReadVersions, serverVars, threadVars, historyVars
<1>5. at[c] \in {"welcome", "version"} /\ pending[c] = NoRequest
  BY DEF ReadWelcomeReply, ReadVersions, SystemInv, Owned, Placed
<1>6. \A d \in Clients \ {c} : Idles(d)
  BY DEF ReadWelcomeReply, ReadVersions, Idles
<1>7. CASE /\ at' = [at EXCEPT ![c] = "version"] /\ at[c] = "welcome"
           /\ ClientSends(k, VersionIs(ClientVersion[c]))
  <2>1. \A j \in Conns \ {k} : toServer'[j] = toServer[j]
    BY <1>7 DEF ClientSends, WireTypeOK
  <2>2. serverEnd[k] = "closed" => toServer'[k] = <<>>
    BY <1>2, <1>7 DEF ClientSends, Linked
  <2>3. Asking(k)' = Asking(k)
    <3>1. ~IsCommand(VersionIs(ClientVersion[c]))
      BY DEF IsCommand, VersionIs
    <3>2. CASE serverEnd[k] = "open"
      <4>1. toServer'[k] = Append(toServer[k], VersionIs(ClientVersion[c]))
        BY <1>7, <3>2 DEF ClientSends, WireTypeOK
      <4>2. CommandsIn(toServer'[k]) = CommandsIn(toServer[k])
        <5>1. VersionIs(ClientVersion[c]) \in ToServerFrames
          BY ClientFrames
        <5> QED BY <1>2, <3>1, <4>1, <5>1, CommandsKept
      <4> QED BY <4>2 DEF CommandsIn
    <3>3. CASE serverEnd[k] # "open"
      BY <1>7, <3>3 DEF ClientSends, CommandsIn
    <3> QED BY <3>2, <3>3
  <2>4. InStep(c, k)'
    BY <1>1, <1>2, <1>3, <1>4, <1>7 DEF InStep
  <2>5. OneCommand(c, k)' /\ Owed(c, k)' /\ Believes(c, k)'
    BY <1>2, <1>3, <1>4, <1>7, <2>3 DEF OneCommand, Owed, Believes, Accepting
  <2> QED BY <1>1, <1>3, <1>4, <1>5, <1>6, <1>7, <2>1, <2>2, <2>4, <2>5, StayingKeeps
<1>8. CASE /\ at' = [at EXCEPT ![c] = "prompt"] /\ UNCHANGED toServer
           /\ at[c] = "welcome" => ~Head(toClient[k]).ok
  <2>1. InStep(c, k)'
    BY <1>1, <1>2, <1>3, <1>4, <1>5, <1>8 DEF InStep
  <2>2. OneCommand(c, k)' /\ Owed(c, k)' /\ Believes(c, k)'
    BY <1>2, <1>3, <1>4, <1>5, <1>8 DEF OneCommand, Owed, Believes, Accepting, CommandsIn
  <2>3. serverEnd[k] = "closed" => toServer'[k] = <<>>
    BY <1>2, <1>8 DEF Linked
  <2> QED BY <1>1, <1>3, <1>4, <1>5, <1>6, <1>8, <2>1, <2>2, <2>3, StayingKeeps
<1> QED BY <1>1, <1>7, <1>8 DEF ReadWelcomeReply, ReadVersions

\* Reading to no avail, the answer to a command, and no connection at all.
LEMMA ReturnKeeps ==
  ASSUME TypeOK, SystemInv, NEW c \in Clients, ReadFails(c) \/ ReadResponse(c), UNCHANGED serverVars
  PROVE  SystemInv'
<1> USE DEF TypeOK, ClientTypeOK, CommandDone
<1>1. PICK k \in Conns : conn[c] = k /\ k # NoConn
  BY DEF ReadFails, ReadResponse
<1>2. /\ InStep(c, k) /\ OneCommand(c, k) /\ Owed(c, k) /\ Believes(c, k) /\ Linked(k)
  BY <1>1, ConnKnown
<1>3. /\ UNCHANGED <<toServer, clientEnd, serverEnd, conn>>
      /\ UNCHANGED <<pc, job, is_connected, unanswered, is_logged, accepted, user>>
      /\ at' = [at EXCEPT ![c] = "prompt"] /\ pending' = [pending EXCEPT ![c] = NoRequest]
      /\ at[c] \in {"welcome", "version", "await"}
  BY DEF ReadFails, ReadResponse, wireVars, serverVars, threadVars, historyVars
<1>4. \A d \in Clients \ {c} : Idles(d)
  BY DEF ReadFails, ReadResponse, Believe, Idles
<1>5. /\ toClient'[k] = <<>> /\ \A j \in Conns \ {k} : toClient'[j] = toClient[j]
      /\ Len(<<>>) = 0
  <2>1. CASE ReadFails(c)
    BY <1>1, <2>1 DEF ReadFails, ClientSeesEnd, wireVars
  <2>2. CASE ReadResponse(c)
    BY <1>1, <1>2, <2>2, FrameRead DEF ReadResponse, ClientSees, InStep
  <2> QED BY <2>1, <2>2
<1>6. pc[k] \notin {"none", "welcome", "version"} /\ Asking(k) = {} /\ ~Handled(k)
  <2>1. CASE ReadFails(c)
    <3>1. toServer[k] = <<>> /\ pc[k] = "ended"
      BY <1>1, <1>2, <2>1 DEF ReadFails, ClientSeesEnd, Linked
    <3> QED BY <1>5, <3>1 DEF CommandsIn
  <2>2. CASE ReadResponse(c)
    BY <1>1, <1>2, <2>2 DEF ReadResponse, ClientSees, InStep, OneCommand
  <2> QED BY <2>1, <2>2
<1>7. Believes(c, k)'
  <2>1. ~Accepting(c, k, "Login")' /\ ~Accepting(c, k, "Logout")'
    BY <1>3 DEF Accepting
  <2>2. CASE ReadFails(c)
    <3>1. ~Accepting(c, k, "Login") /\ serverEnd[k] = "closed"
      BY <1>1, <2>2 DEF ReadFails, ClientSeesEnd, Accepting
    <3>2. UNCHANGED <<logged, known>>
      BY <2>2 DEF ReadFails
    <3> QED BY <1>2, <1>3, <2>1, <3>1, <3>2 DEF Believes
  <2>3. CASE ReadResponse(c)
    <3>0. at[c] = "await" /\ toClient[k] # <<>>
      BY <1>1, <2>3 DEF ReadResponse, ClientSees
    <3>1. CASE /\ Head(toClient[k]).code = "Ok" /\ pending[c].id = "Login"
               /\ Believe(c, TRUE, pending[c].name)
      <4>1. Accepting(c, k, "Login") /\ known'[c] = pending[c].name
        BY <3>0, <3>1 DEF Accepting, Believe
      <4> QED BY <1>2, <1>3, <2>1, <4>1 DEF Believes
    <3>2. CASE Believe(c, FALSE, NoUser)
      <4>1. ~logged'[c]
        BY <3>2 DEF Believe
      <4> QED BY <2>1, <4>1 DEF Believes
    <3>3. CASE /\ Head(toClient[k]).code # "Ok" \/ pending[c].id \notin {"Login", "Logout"}
               /\ UNCHANGED <<logged, known>>
      <4>1. ~Accepting(c, k, "Login") /\ ~Accepting(c, k, "Logout")
        BY <3>3 DEF Accepting
      <4> QED BY <1>2, <1>3, <2>1, <3>3, <4>1 DEF Believes
    <3> QED BY <1>1, <2>3, <3>1, <3>2, <3>3 DEF ReadResponse
  <2> QED BY <2>2, <2>3
<1>8. InStep(c, k)' /\ OneCommand(c, k)' /\ Owed(c, k)'
  BY <1>3, <1>5, <1>6 DEF InStep, OneCommand, Owed, CommandsIn
<1>9. serverEnd[k] = "closed" => toServer'[k] = <<>>
  BY <1>2, <1>3 DEF Linked
<1> QED BY <1>1, <1>3, <1>4, <1>5, <1>7, <1>8, <1>9, StayingKeeps

\* A command is sent on a quiet connection.
LEMMA CommandKeeps ==
  ASSUME TypeOK, SystemInv, NEW c \in Clients, NEW r \in Commands, Command(c, r),
         UNCHANGED serverVars
  PROVE  SystemInv'
<1> USE DEF TypeOK, ClientTypeOK, CommandDone
<1>1. PICK k \in Conns : conn[c] = k /\ k # NoConn
  BY DEF Command
<1>2. /\ InStep(c, k) /\ OneCommand(c, k) /\ Owed(c, k) /\ Believes(c, k) /\ Linked(k)
      /\ toServer[k] \in Seq(ToServerFrames) /\ serverEnd[k] \in {"open", "closed"}
  BY <1>1, ConnKnown
<1>3. /\ UNCHANGED <<toClient, clientEnd, serverEnd, conn, logged, known>>
      /\ UNCHANGED <<pc, job, is_connected, unanswered, is_logged, accepted, user>>
      /\ at[c] = "prompt" /\ ClientSends(k, Asks(RequestOf(r)))
      /\ \/ at' = [at EXCEPT ![c] = "await"] /\ pending' = [pending EXCEPT ![c] = r]
         \/ /\ at' = [at EXCEPT ![c] = "prompt"] /\ pending' = [pending EXCEPT ![c] = NoRequest]
            /\ serverEnd[k] = "closed"
  BY <1>1 DEF Command, serverVars, threadVars, historyVars
<1>4. \A d \in Clients \ {c} : Idles(d)
  BY <1>3 DEF Idles
<1>5. /\ toClient[k] = <<>> /\ Asking(k) = {} /\ ~Handled(k)
      /\ pc[k] \notin {"none", "welcome", "version"}
      /\ ~Accepting(c, k, "Login") /\ ~Accepting(c, k, "Logout")
  BY <1>2, <1>3 DEF InStep, OneCommand, Accepting
<1>6. \A j \in Conns \ {k} : toServer'[j] = toServer[j]
  BY <1>3 DEF ClientSends, WireTypeOK
<1>7. serverEnd[k] = "closed" => toServer'[k] = <<>> /\ pc[k] = "ended" /\ Asking(k)' = {}
  BY <1>2, <1>3 DEF ClientSends, Linked, CommandsIn
<1>8. serverEnd[k] = "open" => /\ Asking(k)' = {Len(toServer[k]) + 1}
                               /\ toServer'[k][Len(toServer[k]) + 1] = Asks(RequestOf(r))
  <2> SUFFICES ASSUME serverEnd[k] = "open" PROVE /\ Asking(k)' = {Len(toServer[k]) + 1}
                               /\ toServer'[k][Len(toServer[k]) + 1] = Asks(RequestOf(r))
    OBVIOUS
  <2>1. toServer'[k] = Append(toServer[k], Asks(RequestOf(r)))
    BY <1>3 DEF ClientSends, WireTypeOK
  <2>2. IsCommand(Asks(RequestOf(r))) /\ Asks(RequestOf(r)) \in ToServerFrames
    <3>1. RequestOf(r).id \in HandledRequests /\ "Quit" \notin HandledRequests
      BY CommandsHandled DEF HandledRequests, LoggedRequests
    <3> QED BY <3>1, ClientFrames DEF IsCommand, Asks
  <2>3. /\ CommandsIn(Append(toServer[k], Asks(RequestOf(r)))) = {Len(toServer[k]) + 1}
        /\ Append(toServer[k], Asks(RequestOf(r)))[Len(toServer[k]) + 1] = Asks(RequestOf(r))
    BY <1>2, <1>5, <2>2, CommandsOfAppend
  <2> QED BY <2>1, <2>3 DEF CommandsIn
<1>9. InStep(c, k)'
  BY <1>2, <1>3, <1>5 DEF InStep
<1>10. OneCommand(c, k)'
  <2>1. CASE serverEnd[k] = "open"
    BY <1>3, <1>5, <1>8, <2>1 DEF OneCommand, Asks
  <2>2. CASE serverEnd[k] = "closed"
    BY <1>3, <1>5, <1>7, <2>2 DEF OneCommand
  <2> QED BY <1>2, <2>1, <2>2
<1>11. Owed(c, k)'
  BY <1>2, <1>3, <1>7, <1>8 DEF Owed
<1>12. Believes(c, k)'
  <2>1. ~Accepting(c, k, "Login")' /\ ~Accepting(c, k, "Logout")'
    BY <1>3, <1>5 DEF Accepting
  <2> QED BY <1>2, <1>3, <1>5, <2>1 DEF Believes
<1> QED BY <1>1, <1>3, <1>4, <1>6, <1>7, <1>9, <1>10, <1>11, <1>12, StayingKeeps

\* What happens to a connection when Quit is written on it.
LEMMA QuitKeeps ==
  ASSUME TypeOK, SystemInv, NEW c \in Clients, NEW k \in Conns, conn[c] = k,
         toServer' \in {toServer, WithQuit(c)}, ~logged'[c], at'[c] = at[c], pending'[c] = pending[c],
         UNCHANGED <<toClient, clientEnd, serverEnd, serverVars, conn>>,
         \A d \in Clients \ {c} : Idles(d)
  PROVE  SystemInv'
<1> USE DEF TypeOK, ClientTypeOK
<1>0. k # NoConn
  BY ClientAssumption
<1>1. /\ InStep(c, k) /\ OneCommand(c, k) /\ Owed(c, k) /\ Believes(c, k) /\ Linked(k)
      /\ toServer[k] \in Seq(ToServerFrames) /\ serverEnd[k] \in {"open", "closed"}
      /\ at[c] \in {"prompt", "welcome", "version", "await"}
  BY <1>0, ConnKnown
<1>2. UNCHANGED <<pc, job, is_connected, unanswered, is_logged, accepted, user>>
  BY DEF serverVars, threadVars, historyVars
<1>3. \A j \in Conns \ {k} : toServer'[j] = toServer[j]
  BY DEF WithQuit, WireTypeOK
<1>4. serverEnd[k] = "closed" => toServer'[k] = <<>>
  BY <1>1 DEF WithQuit, Linked
<1>5. /\ Asking(k)' = Asking(k) /\ \A i \in 1..Len(toServer[k]) : toServer'[k][i] = toServer[k][i]
      /\ \A i \in 1..Len(toServer'[k]) :
           i \in 1..Len(toServer[k]) \/ toServer'[k][i] = Asks(Plain("Quit"))
  <2>1. CASE toServer'[k] = toServer[k]
    BY <2>1 DEF CommandsIn
  <2>2. CASE toServer'[k] = Append(toServer[k], Asks(Plain("Quit")))
    <3>1. ~IsCommand(Asks(Plain("Quit"))) /\ Asks(Plain("Quit")) \in ToServerFrames
      BY ClientFrames DEF IsCommand, Asks, Plain, NoRequest
    <3> DEFINE q == Append(toServer[k], Asks(Plain("Quit")))
    <3>2. /\ CommandsIn(q) = CommandsIn(toServer[k]) /\ Len(q) = Len(toServer[k]) + 1
          /\ \A i \in 1..Len(toServer[k]) : q[i] = toServer[k][i]
          /\ q[Len(toServer[k]) + 1] = Asks(Plain("Quit")) /\ Len(toServer[k]) \in Nat
      BY <1>1, <3>1, CommandsKept, CommandsOfAppend
    <3>3. CommandsIn(toServer'[k]) = CommandsIn(toServer[k])
      BY <2>2, <3>2
    <3>4. \A i \in 1..Len(q) : i \in 1..Len(toServer[k]) \/ i = Len(toServer[k]) + 1
      BY <3>2
    <3> QED BY <2>2, <3>2, <3>3, <3>4 DEF CommandsIn
  <2> QED BY <1>0, <2>1, <2>2 DEF WithQuit, WireTypeOK
<1>6. InStep(c, k)'
  <2>1. ASSUME at[c] = "welcome", NEW i \in 1..Len(toServer'[k]) PROVE toServer'[k][i].kind # "Version"
    BY <1>1, <1>5, <2>1 DEF InStep, Asks
  <2> QED BY <1>1, <1>2, <2>1 DEF InStep
<1>7. OneCommand(c, k)'
  <2>1. \A i \in Asking(k)' : at'[c] = "await" /\ toServer'[k][i].request = RequestOf(pending'[c])
    BY <1>1, <1>5 DEF OneCommand, CommandsIn
  <2> QED BY <1>1, <1>2, <1>5, <2>1 DEF OneCommand
<1>8. Owed(c, k)'
  BY <1>1, <1>2, <1>5 DEF Owed
<1>9. Believes(c, k)'
  BY <1>1, <1>2 DEF Believes, Accepting
<1>10. IF at'[c] = "await" THEN pending'[c] \in Commands ELSE pending'[c] = NoRequest
  BY DEF SystemInv, Owned, Placed
<1> QED BY <1>1, <1>3, <1>4, <1>6, <1>7, <1>8, <1>9, <1>10, StayingKeeps

\* A step without a connection that does not touch any.
LEMMA AloneKeeps ==
  ASSUME TypeOK, SystemInv, NEW c \in Clients, conn[c] = NoConn,
         UNCHANGED <<wireVars, serverVars, conn, pending>>, \A d \in Clients \ {c} : Idles(d),
         at'[c] \in {at[c], "prompt"}, ~logged'[c] \/ (logged'[c] = logged[c])
  PROVE  SystemInv'
<1> USE DEF TypeOK, ClientTypeOK
<1>1. \A k \in Conns : Same(k) /\ Linked(k) /\ k # NoConn
  BY ClientAssumption DEF Same, wireVars, serverVars, threadVars, historyVars, SystemInv
<1>2. \A k \in Conns : Linked(k)'
  BY <1>1 DEF Same, Linked
<1>3. Owned(c) /\ (at[c] = "connecting" => ~logged[c])
  BY DEF SystemInv
<1>4. Placed(c)' /\ (at'[c] = "connecting" => ~logged'[c])
  BY <1>3 DEF Owned, Placed
<1> QED BY <1>1, <1>2, <1>4, ClientLocal

LEMMA ClientKeeps ==
  ASSUME TypeOK, SystemInv, NEW c \in Clients, User(c) \/ ClientStep(c), UNCHANGED serverVars
  PROVE  SystemInv'
<1> USE DEF TypeOK, ClientTypeOK, CommandDone, ResetState
<1>0. \A k \in Conns : conn[c] = k => k # NoConn
  BY ClientAssumption
<1>1. CASE Established(c)
  BY <1>1, EstablishedKeeps
<1>2. CASE ConnectFails(c)
  <2>1. conn[c] = NoConn
    BY <1>2 DEF ConnectFails, SystemInv, Owned, Placed
  <2>2. \A d \in Clients \ {c} : Idles(d)
    BY <1>2 DEF ConnectFails, Idles
  <2> QED BY <1>2, <2>1, <2>2, AloneKeeps DEF ConnectFails
<1>3. CASE ReadWelcomeReply(c) \/ ReadVersions(c)
  BY <1>3, GreetingKeeps
<1>4. CASE ReadFails(c) \/ ReadResponse(c)
  BY <1>4, ReturnKeeps
<1>5. CASE RestartAccepted(c)
  <2>1. CloseSocket(c, WithQuit(c), Tail(toClient[conn[c]])) /\ UNCHANGED serverEnd
    BY <1>5 DEF RestartAccepted
  <2>2. /\ \A d \in Clients \ {c} : conn'[d] = conn[d] => Idles(d)
        /\ at'[c] = "prompt" /\ pending'[c] = NoRequest
    BY <1>5 DEF RestartAccepted, Idles
  <2> QED BY <2>1, <2>2, LeavingKeeps
<1>6. CASE InterruptExit(c)
  <2>1. CloseSocket(c, toServer, Unread(c)) /\ UNCHANGED serverEnd
    BY <1>6 DEF InterruptExit
  <2>2. /\ \A d \in Clients \ {c} : conn'[d] = conn[d] => Idles(d)
        /\ at'[c] = "exited" /\ pending'[c] = NoRequest
    BY <1>6 DEF InterruptExit, Idles
  <2> QED BY <2>1, <2>2, LeavingKeeps
<1>7. CASE Connect(c)
  <2>1. at[c] = "prompt" /\ pending[c] = NoRequest /\ UNCHANGED <<pending, serverEnd>> /\ ~logged'[c]
    BY <1>7 DEF Connect, SystemInv, Owned, Placed
  <2>2. \A d \in Clients \ {c} : conn'[d] = conn[d] => Idles(d)
    BY <1>7 DEF Connect, Idles
  <2>3. CASE at'[c] = "prompt" /\ UNCHANGED <<conn, clientEnd, toClient, toServer>>
    <3>1. CASE conn[c] = NoConn
      BY <1>7, <2>1, <2>2, <2>3, <3>1, AloneKeeps DEF Connect, wireVars
    <3>2. CASE conn[c] # NoConn
      BY <2>1, <2>2, <2>3, <3>2, QuitKeeps
    <3> QED BY <3>1, <3>2
  <2>4. CASE at'[c] = "connecting" /\ CloseSocket(c, toServer, Unread(c))
    BY <2>1, <2>2, <2>4, LeavingKeeps
  <2> QED BY <1>7, <2>3, <2>4 DEF Connect
<1>8. CASE \E r \in Commands : Command(c, r)
  BY <1>8, CommandKeeps
<1>9. CASE Close(c)
  <2>1. CloseSocket(c, WithQuit(c), Unread(c)) /\ UNCHANGED serverEnd
    BY <1>9 DEF Close
  <2>2. /\ \A d \in Clients \ {c} : conn'[d] = conn[d] => Idles(d)
        /\ at'[c] \in {"prompt", "exited"} /\ pending'[c] = NoRequest
    BY <1>9 DEF Close, Idles, SystemInv, Owned, Placed
  <2> QED BY <2>1, <2>2, LeavingKeeps
<1>10. CASE Interrupt(c)
  <2>1. /\ toServer' = WithQuit(c) /\ ~logged'[c]
        /\ UNCHANGED <<toClient, clientEnd, serverEnd, listening, at, conn, pending>>
    BY <1>10 DEF Interrupt
  <2>2. \A d \in Clients \ {c} : Idles(d)
    BY <1>10 DEF Interrupt, Idles
  <2>3. CASE conn[c] = NoConn
    <3>1. UNCHANGED toServer
      BY <2>1, <2>3 DEF WithQuit
    <3> QED BY <2>1, <2>2, <2>3, <3>1, AloneKeeps DEF wireVars
  <2>4. CASE conn[c] # NoConn
    BY <2>1, <2>2, <2>4, QuitKeeps
  <2> QED BY <2>3, <2>4
<1> QED BY <1>1, <1>2, <1>3, <1>4, <1>5, <1>6, <1>7, <1>8, <1>9, <1>10 DEF User, ClientStep

-----------------------------------------------------------------------------
(* The invariant, and what follows from it.                                *)

LEMMA InitInv == Init => Inv
<1> SUFFICES ASSUME Init PROVE Inv
  OBVIOUS
<1>1. \A k \in Conns : Linked(k)
  BY DEF Init, WireInit, ServerInit, Linked
<1>2. \A c \in Clients : Owned(c) /\ conn[c] = NoConn /\ ~logged[c]
  BY DEF Init, ClientInit, Owned, Placed
<1>3. SystemInv
  BY <1>1, <1>2 DEF SystemInv
<1> QED BY <1>3, InitTypes DEF Inv

LEMMA StepInv == Inv /\ [Next]_vars => Inv'
<1> SUFFICES ASSUME Inv, [Next]_vars PROVE Inv'
  OBVIOUS
<1>1. TypeOK' /\ CheckingLogins'
  BY StepTypes DEF Inv
<1>2. SystemInv'
  <2>1. ASSUME NEW k \in Conns, ServerStep(k), UNCHANGED clientVars PROVE SystemInv'
    BY <2>1, ServerKeeps DEF Inv
  <2>2. ASSUME NEW c \in Clients, User(c) \/ ClientStep(c), UNCHANGED serverVars PROVE SystemInv'
    BY <2>2, ClientKeeps DEF Inv
  <2>3. CASE UNCHANGED vars
    <3>1. UNCHANGED wireVars /\ UNCHANGED serverVars /\ UNCHANGED clientVars
      BY <2>3 DEF vars
    <3>2. \A k \in Conns : Same(k)
      BY <3>1 DEF Same, wireVars, serverVars, threadVars, historyVars
    <3>3. \A k \in Conns : Linked(k)'
      BY <3>2 DEF Inv, SystemInv, Same, Linked
    <3>4. \A c \in Clients : Idles(c)
      BY <3>1 DEF Idles, clientVars
    <3>5. \A c \in Clients : Owned(c)' /\ (at[c] = "connecting" => ~logged[c])'
      BY <3>1 DEF Inv, SystemInv, Owned, Placed, clientVars, wireVars
    <3>6. ASSUME NEW c \in Clients, conn'[c] # NoConn PROVE Together(c, conn[c])'
      <4>1. PICK k \in Conns : conn[c] = k /\ Together(c, k) /\ conn'[c] = k
        BY <3>4, <3>6 DEF Inv, TypeOK, ClientTypeOK, SystemInv, Idles
      <4>2. Together(c, k)'
        BY <3>2, <3>4, <4>1, SameTogether
      <4> QED BY <4>1, <4>2, TogetherAt
    <3> QED BY <3>3, <3>5, <3>6 DEF SystemInv
  <2> QED BY <2>1, <2>2, <2>3 DEF Next
<1> QED BY <1>1, <1>2 DEF Inv

\* Every variable of the clients, the connections and the sessions keeps its type: the
\* request in a handler's hands is one of the protocol, a code that is answered is a code.
THEOREM Types == Spec => []TypeOK
<1>1. Inv => TypeOK
  BY DEF Inv
<1> QED BY <1>1, InitInv, StepInv, PTL DEF Spec

\* The one frame of an invariant connection, in numbers.
LEMMA InNumbers ==
  ASSUME Inv, NEW c \in Clients, NEW k \in Conns, conn[c] = k
  PROVE  /\ Outstanding(k) \in {0, 1}
         /\ Outstanding(k) = 1 <=> Asking(k) # {} \/ Handled(k) \/ Answered(k)
         /\ Outstanding(k) = 1 => at[c] = "await"
         /\ at[c] = "await" => (Answered(k) <=> toClient[k] # <<>>)
<1>1. /\ InStep(c, k) /\ OneCommand(c, k) /\ toClient[k] \in Seq(ToClientFrames)
      /\ at[c] \in {"prompt", "welcome", "version", "await"}
  BY OwnerKnown, ConnKnown DEF Inv
<1>2. Asking(k) = {} \/ \E i : Asking(k) = {i}
  <2> SUFFICES ASSUME NEW i \in Asking(k) PROVE Asking(k) = {i}
    OBVIOUS
  <2>1. \A j \in Asking(k) : j = i
    BY <1>1 DEF OneCommand
  <2> QED BY <2>1
<1>3. Cardinality(Asking(k)) = IF Asking(k) = {} THEN 0 ELSE 1
  BY <1>2, FS_EmptySet, FS_Singleton
<1>4. Answering(k) \subseteq {1} /\ (1 \in Answering(k) => Head(toClient[k]).kind = "Response")
  BY <1>1 DEF Answering, InStep
<1>5. Cardinality(Answering(k)) = IF Answering(k) = {} THEN 0 ELSE 1
  <2>1. Answering(k) = {} \/ Answering(k) = {1}
    BY <1>4
  <2> QED BY <2>1, FS_EmptySet, FS_Singleton
<1>6. Answering(k) # {} => at[c] = "await" /\ toClient[k] # <<>>
  BY <1>1, <1>4 DEF InStep, Answering
<1>7. at[c] = "await" /\ toClient[k] # <<>> => Answering(k) # {}
  BY <1>1 DEF InStep, Answering
<1>8. /\ Asking(k) # {} => at[c] = "await" /\ ~Handled(k) /\ Answering(k) = {}
      /\ Handled(k) => at[c] = "await" /\ Asking(k) = {} /\ Answering(k) = {}
  BY <1>1, <1>6 DEF OneCommand
<1> QED BY <1>3, <1>5, <1>6, <1>7, <1>8 DEF Outstanding, Answered, Count

\* A client never takes the response to an earlier command for the response to the one it
\* is running: of its commands at most one is queued, being handled or answered, and none
\* when it does not wait; and the response it is about to read is to the command it waits for.
THEOREM OneOutstandingHolds == Spec => []OneOutstanding
<1>1. ASSUME Inv PROVE OneOutstanding
  <2> SUFFICES ASSUME NEW c \in Clients, NEW k \in Conns, conn[c] = k
               PROVE  /\ Outstanding(k) <= Count(at[c] = "await")
                      /\ at[c] = "await" /\ Answered(k) => Head(toClient[k]).for = RequestOf(pending[c])
    BY <1>1 DEF OneOutstanding, Inv, TypeOK, ClientTypeOK
  <2>1. Outstanding(k) <= Count(at[c] = "await")
    BY <1>1, InNumbers DEF Count
  <2>2. at[c] = "await" /\ Answered(k) => Head(toClient[k]).for = RequestOf(pending[c])
    BY <1>1, InNumbers, OwnerKnown DEF Inv, InStep
  <2> QED BY <2>1, <2>2
<1> QED BY <1>1, InitInv, StepInv, PTL DEF Spec

\* A client that waits waits for something: its command is queued, in a handler's hands or
\* answered, unless the session is over or on its way out, or the handler has thrown.
THEOREM AnswerOwedHolds == Spec => []AnswerOwed
<1>1. ASSUME Inv PROVE AnswerOwed
  <2> SUFFICES ASSUME NEW c \in Clients, at[c] = "await", NEW k \in Conns, conn[c] = k
               PROVE  \/ Outstanding(k) = 1 \/ pc[k] \in {"closing", "ended"}
                      \/ ~is_connected[k] \/ unanswered[k]
    BY <1>1 DEF AnswerOwed, Inv, TypeOK, ClientTypeOK, SystemInv, Owned, Placed
  <2>1. Owed(c, k)
    BY <1>1, OwnerKnown DEF Inv
  <2> QED BY <1>1, <2>1, InNumbers DEF Owed
<1> QED BY <1>1, InitInv, StepInv, PTL DEF Spec

\* While a client believes it is logged, so is its session, a logout under way excepted.
THEOREM BelievedLoggedHolds == Spec => []BelievedLogged
<1>1. ASSUME Inv PROVE BelievedLogged
  <2> SUFFICES ASSUME NEW c \in Clients, NEW k \in Conns, conn[c] = k, logged[c],
                      serverEnd[k] = "open"
               PROVE  is_logged[k] \/ (at[c] = "await" /\ pending[c].id = "Logout")
    BY <1>1 DEF BelievedLogged, Inv, TypeOK, ClientTypeOK
  <2> QED BY <1>1, OwnerKnown DEF Inv, Believes, Accepting
<1> QED BY <1>1, InitInv, StepInv, PTL DEF Spec

\* ... and as the user the client thinks it is, unless the last login was refused.
THEOREM BelievedUserHolds == Spec => []BelievedUser
<1>1. ASSUME Inv PROVE BelievedUser
  <2> SUFFICES ASSUME NEW c \in Clients, NEW k \in Conns, conn[c] = k, logged[c],
                      at[c] = "prompt", accepted[k]
               PROVE  known[c] = user[k]
    BY <1>1 DEF BelievedUser, Inv, TypeOK, ClientTypeOK
  <2> QED BY <1>1, OwnerKnown DEF Inv, Believes, Accepting
<1> QED BY <1>1, InitInv, StepInv, PTL DEF Spec

-----------------------------------------------------------------------------
(* The clients and the server implement the calls of Rpc: whatever happens *)
(* to frames, connections and threads, what a client sees of its commands  *)
(* is one of the behaviours of calls that are served at most once.         *)

Verdict(c) == CallOf(c) = "answered" /\ Head(toClient[conn[c]]).code = "Ok"

-----------------------------------------------------------------------------
(* The actions of Rpc, one client at a time.                               *)

\* Nothing is seen to happen to the call of client d.
Unmoved(d) ==
  /\ CallOf(d)' = CallOf(d) /\ Verdict(d)' = Verdict(d)
  /\ pending'[d].id = pending[d].id /\ logged'[d] = logged[d]

\* The call of client c moves, and nothing is seen to happen to the others.
Moves(c, from, to, id) ==
  /\ CallOf(c) \in from /\ CallOf(c)' = to /\ pending'[c].id = id
  /\ \A d \in Clients \ {c} : Unmoved(d)

USE DEF Calls!vars

LEMMA MapsServe ==
  ASSUME ClientTypeOK, ClientTypeOK', NEW c \in Clients,
         Moves(c, {"pending"}, "answered", pending[c].id), logged'[c] = logged[c]
  PROVE  Calls!Serve(c)
<1> USE DEF Moves, Unmoved, ClientTypeOK
<1>1. CallOf(c) = "pending"
  OBVIOUS
<1>2. [d \in Clients |-> CallOf(d)'] = [[d \in Clients |-> CallOf(d)] EXCEPT ![c] = "answered"]
  OBVIOUS
<1>3. [d \in Clients |-> Verdict(d)'] = [[d \in Clients |-> Verdict(d)] EXCEPT ![c] = Verdict(c)']
  BY Zenon
<1>4. Verdict(c)' \in BOOLEAN
  BY DEF Verdict
<1>5. [d \in Clients |-> pending'[d].id] = [d \in Clients |-> pending[d].id]
  OBVIOUS
<1>6. logged' = logged
  OBVIOUS
<1> HIDE DEF Moves, Unmoved, ClientTypeOK
<1> QED BY <1>1, <1>2, <1>3, <1>4, <1>5, <1>6 DEF Calls!Serve, Verdict

LEMMA MapsInvoke ==
  ASSUME ClientTypeOK, ClientTypeOK', NEW c \in Clients, NEW id \in HandledRequests,
         NEW to \in {"pending", "lost"}, Moves(c, {"idle"}, to, id), logged'[c] = logged[c]
  PROVE  Calls!Invoke(c)
<1> USE DEF Moves, Unmoved, ClientTypeOK
<1>1. CallOf(c) = "idle"
  OBVIOUS
<1>2. [d \in Clients |-> CallOf(d)'] = [[d \in Clients |-> CallOf(d)] EXCEPT ![c] = to]
  OBVIOUS
<1>3. \A d \in Clients : Verdict(d)' = Verdict(d)
  BY DEF Verdict
<1>4. [d \in Clients |-> Verdict(d)'] = [d \in Clients |-> Verdict(d)]
  BY <1>3, Zenon
<1>5. [d \in Clients |-> pending'[d].id] = [[d \in Clients |-> pending[d].id] EXCEPT ![c] = id]
  OBVIOUS
<1>6. logged' = logged
  OBVIOUS
<1> HIDE DEF Moves, Unmoved, ClientTypeOK
<1> QED BY <1>1, <1>2, <1>4, <1>5, <1>6 DEF Calls!Invoke, Verdict

LEMMA MapsReturn ==
  ASSUME ClientTypeOK, ClientTypeOK', NEW c \in Clients,
         Moves(c, {"answered"}, "idle", NoRequest.id),
         logged'[c] = IF Head(toClient[conn[c]]).code # "Ok" THEN logged[c]
                      ELSE IF pending[c].id = "Login" THEN TRUE
                      ELSE IF pending[c].id \in {"Logout", "ServerRestart"} THEN FALSE
                      ELSE logged[c]
  PROVE  Calls!Return(c)
<1> USE DEF Moves, Unmoved, ClientTypeOK
<1>1. CallOf(c) = "answered"
  OBVIOUS
<1>2. [d \in Clients |-> CallOf(d)'] = [[d \in Clients |-> CallOf(d)] EXCEPT ![c] = "idle"]
  OBVIOUS
<1>3. Verdict(c)' = FALSE /\ (Verdict(c) <=> Head(toClient[conn[c]]).code = "Ok")
  BY DEF Verdict
<1>4. [d \in Clients |-> Verdict(d)'] = [[d \in Clients |-> Verdict(d)] EXCEPT ![c] = FALSE]
  BY <1>3, Zenon
<1>5. [d \in Clients |-> pending'[d].id]
        = [[d \in Clients |-> pending[d].id] EXCEPT ![c] = NoRequest.id]
  OBVIOUS
<1>6. logged'[c] = Calls!LoggedAfter(c)
  BY <1>3 DEF Calls!LoggedAfter, Verdict
<1>7. logged' = [logged EXCEPT ![c] = Calls!LoggedAfter(c)]
  BY <1>6
<1> HIDE DEF Moves, Unmoved, ClientTypeOK
<1> QED BY <1>1, <1>2, <1>4, <1>5, <1>7 DEF Calls!Return, Calls!BecomeIdle, Verdict

LEMMA MapsFail ==
  ASSUME ClientTypeOK, ClientTypeOK', NEW c \in Clients,
         Moves(c, {"lost"}, "idle", NoRequest.id), logged'[c] = logged[c]
  PROVE  Calls!Fail(c)
<1> USE DEF Moves, Unmoved, ClientTypeOK
<1>1. CallOf(c) = "lost"
  OBVIOUS
<1>2. [d \in Clients |-> CallOf(d)'] = [[d \in Clients |-> CallOf(d)] EXCEPT ![c] = "idle"]
  OBVIOUS
<1>3. Verdict(c)' = FALSE
  BY DEF Verdict
<1>4. [d \in Clients |-> Verdict(d)'] = [[d \in Clients |-> Verdict(d)] EXCEPT ![c] = FALSE]
  BY <1>3, Zenon
<1>5. [d \in Clients |-> pending'[d].id]
        = [[d \in Clients |-> pending[d].id] EXCEPT ![c] = NoRequest.id]
  OBVIOUS
<1>6. logged' = logged
  OBVIOUS
<1> HIDE DEF Moves, Unmoved, ClientTypeOK
<1> QED BY <1>1, <1>2, <1>4, <1>5, <1>6 DEF Calls!Fail, Calls!BecomeIdle, Verdict

LEMMA MapsExit ==
  ASSUME ClientTypeOK, ClientTypeOK', NEW c \in Clients, CallOf(c)' = "gone",
         pending'[c].id = NoRequest.id, \A d \in Clients \ {c} : Unmoved(d),
         logged'[c] = logged[c] \/ ~logged'[c]
  PROVE  Calls!Exit(c)
<1> USE DEF Unmoved, ClientTypeOK
<1>2. [d \in Clients |-> CallOf(d)'] = [[d \in Clients |-> CallOf(d)] EXCEPT ![c] = "gone"]
  OBVIOUS
<1>3. Verdict(c)' = FALSE
  BY DEF Verdict
<1>4. [d \in Clients |-> Verdict(d)'] = [[d \in Clients |-> Verdict(d)] EXCEPT ![c] = FALSE]
  BY <1>3, Zenon
<1>5. [d \in Clients |-> pending'[d].id]
        = [[d \in Clients |-> pending[d].id] EXCEPT ![c] = NoRequest.id]
  OBVIOUS
<1>6. logged' = logged \/ logged' = [logged EXCEPT ![c] = FALSE]
  <2>1. CASE logged'[c] = logged[c]
    BY <2>1
  <2>2. CASE logged'[c] = FALSE
    BY <2>2
  <2> QED BY <2>1, <2>2
<1> HIDE DEF Unmoved, ClientTypeOK
<1> QED BY <1>2, <1>4, <1>5, <1>6 DEF Calls!Exit, Verdict

LEMMA MapsDrop ==
  ASSUME ClientTypeOK, ClientTypeOK', NEW c \in Clients, CallOf(c) # "gone",
         CallOf(c)' = CallOf(c), Verdict(c)' = Verdict(c), pending'[c].id = pending[c].id,
         \A d \in Clients \ {c} : Unmoved(d), ~logged'[c]
  PROVE  Calls!Drop(c)
<1> USE DEF Unmoved, ClientTypeOK
<1>1. [d \in Clients |-> CallOf(d)'] = [d \in Clients |-> CallOf(d)]
  OBVIOUS
<1>2. [d \in Clients |-> Verdict(d)'] = [d \in Clients |-> Verdict(d)]
  BY Zenon
<1>3. [d \in Clients |-> pending'[d].id] = [d \in Clients |-> pending[d].id]
  OBVIOUS
<1>4. logged' = [logged EXCEPT ![c] = FALSE]
  OBVIOUS
<1> HIDE DEF Unmoved, ClientTypeOK
<1> QED BY <1>1, <1>2, <1>3, <1>4 DEF Calls!Drop, Verdict

\* Losing no call at all is doing nothing.
Loses(d) ==
  /\ CallOf(d) \in {"pending", "answered"} /\ CallOf(d)' = "lost"
  /\ pending'[d].id = pending[d].id /\ logged'[d] = logged[d]

LEMMA MapsLose ==
  ASSUME ClientTypeOK, ClientTypeOK', \A d \in Clients : Unmoved(d) \/ Loses(d)
  PROVE  \E S \in SUBSET Clients : Calls!Lose(S)
<1> USE DEF Unmoved, Loses, ClientTypeOK
<1> DEFINE S == {d \in Clients : Loses(d)}
<1>1. \A d \in S : CallOf(d) \in {"pending", "answered"}
  OBVIOUS
<1>2. [d \in Clients |-> CallOf(d)'] = [d \in Clients |-> IF d \in S THEN "lost" ELSE CallOf(d)]
  OBVIOUS
<1>3. \A d \in S : Verdict(d)' = FALSE
  BY DEF Verdict
<1>4. \A d \in Clients \ S : Verdict(d)' = Verdict(d)
  OBVIOUS
<1>5. [d \in Clients |-> Verdict(d)'] = [d \in Clients |-> IF d \in S THEN FALSE ELSE Verdict(d)]
  <2> HIDE DEF S
  <2> QED BY <1>3, <1>4, Zenon
<1>6. [d \in Clients |-> pending'[d].id] = [d \in Clients |-> pending[d].id]
  OBVIOUS
<1>7. logged' = logged
  OBVIOUS
<1>8. S \subseteq Clients
  OBVIOUS
<1> HIDE DEF S, Unmoved, Loses, ClientTypeOK
<1> QED BY <1>1, <1>2, <1>5, <1>6, <1>7, <1>8 DEF Calls!Lose, Verdict

-----------------------------------------------------------------------------
(* The progress of a call, in the terms of the invariant.                  *)

Waiting(k)  == Asking(k) # {} \/ Handled(k)
Received(k) == toClient[k] # <<>>

CallsSeen ==
  \A c \in Clients :
    /\ at[c] = "exited" <=> CallOf(c) = "gone"
    /\ at[c] \notin {"await", "exited"} <=> CallOf(c) = "idle"
    /\ \A k \in Conns : at[c] = "await" /\ conn[c] = k =>
         /\ Received(k) => CallOf(c) = "answered"
         /\ ~Received(k) /\ Waiting(k) => CallOf(c) = "pending"
         /\ ~Received(k) /\ ~Waiting(k) => CallOf(c) = "lost"
         /\ Verdict(c) <=> Received(k) /\ Head(toClient[k]).code = "Ok"
    /\ at[c] = "await" => conn[c] \in Conns
    /\ at[c] # "await" => pending[c].id = NoRequest.id /\ ~Verdict(c)

LEMMA CallsAreSeen == Inv => CallsSeen
<1> SUFFICES ASSUME Inv, NEW c \in Clients
             PROVE
    /\ at[c] = "exited" <=> CallOf(c) = "gone"
    /\ at[c] \notin {"await", "exited"} <=> CallOf(c) = "idle"
    /\ \A k \in Conns : at[c] = "await" /\ conn[c] = k =>
         /\ Received(k) => CallOf(c) = "answered"
         /\ ~Received(k) /\ Waiting(k) => CallOf(c) = "pending"
         /\ ~Received(k) /\ ~Waiting(k) => CallOf(c) = "lost"
         /\ Verdict(c) <=> Received(k) /\ Head(toClient[k]).code = "Ok"
    /\ at[c] = "await" => conn[c] \in Conns
    /\ at[c] # "await" => pending[c].id = NoRequest.id /\ ~Verdict(c)
  BY DEF CallsSeen
<1>1. Owned(c) /\ conn[c] \in Conns \cup {NoConn}
  BY DEF Inv, SystemInv, TypeOK, ClientTypeOK
<1>2. at[c] = "await" => conn[c] \in Conns
  BY <1>1 DEF Owned, Placed
<1>3. at[c] # "await" => pending[c].id = NoRequest.id /\ ~Verdict(c)
  BY <1>1 DEF Owned, Placed, Verdict, CallOf
<1>4. ASSUME NEW k \in Conns, at[c] = "await", conn[c] = k
      PROVE  /\ Received(k) => CallOf(c) = "answered"
             /\ ~Received(k) /\ Waiting(k) => CallOf(c) = "pending"
             /\ ~Received(k) /\ ~Waiting(k) => CallOf(c) = "lost"
             /\ Verdict(c) <=> Received(k) /\ Head(toClient[k]).code = "Ok"
  <2>1. /\ Outstanding(k) \in {0, 1}
        /\ Outstanding(k) = 1 <=> Waiting(k) \/ Answered(k)
        /\ Answered(k) <=> Received(k)
    BY <1>4, InNumbers DEF Waiting, Received
  <2> QED BY <1>4, <2>1 DEF CallOf, Verdict
<1>5. /\ at[c] = "exited" <=> CallOf(c) = "gone"
      /\ at[c] \notin {"await", "exited"} <=> CallOf(c) = "idle"
  <2>1. CASE at[c] = "await"
    BY <1>2, <1>4, <2>1
  <2>2. CASE at[c] # "await"
    BY <2>2 DEF CallOf
  <2> QED BY <2>1, <2>2
<1> QED BY <1>2, <1>3, <1>4, <1>5

LEMMA CallsAreSeenNext == Inv' => CallsSeen'
BY CallsAreSeen, PTL

\* The call of a client that idles moves only with the frames of its connection.
LEMMA UnmovedAt ==
  ASSUME CallsSeen, CallsSeen', NEW d \in Clients, Idles(d),
         \A k \in Conns : at[d] = "await" /\ conn[d] = k =>
           /\ toClient'[k] = toClient[k] /\ (Waiting(k)' <=> Waiting(k))
  PROVE  Unmoved(d)
<1>1. CASE at[d] = "await"
  <2>1. PICK k \in Conns : conn[d] = k
    BY <1>1 DEF CallsSeen
  <2>2. /\ Received(k) => CallOf(d) = "answered"
        /\ ~Received(k) /\ Waiting(k) => CallOf(d) = "pending"
        /\ ~Received(k) /\ ~Waiting(k) => CallOf(d) = "lost"
        /\ Verdict(d) <=> Received(k) /\ Head(toClient[k]).code = "Ok"
    BY <1>1, <2>1 DEF CallsSeen
  <2>3. /\ Received(k)' => CallOf(d)' = "answered"
        /\ ~Received(k)' /\ Waiting(k)' => CallOf(d)' = "pending"
        /\ ~Received(k)' /\ ~Waiting(k)' => CallOf(d)' = "lost"
        /\ Verdict(d)' <=> Received(k)' /\ Head(toClient'[k]).code = "Ok"
    BY <1>1, <2>1 DEF CallsSeen, Idles
  <2>4. toClient'[k] = toClient[k] /\ (Waiting(k)' <=> Waiting(k)) /\ (Received(k)' <=> Received(k))
    BY <1>1, <2>1 DEF Received
  <2>5. CallOf(d)' = CallOf(d)
    BY <2>2, <2>3, <2>4
  <2>6. Verdict(d)' <=> Verdict(d)
    BY <2>2, <2>3, <2>4
  <2> QED BY <2>5, <2>6 DEF Unmoved, Idles, Verdict
<1>2. CASE at[d] # "await"
  <2>1. CallOf(d)' = CallOf(d) /\ ~Verdict(d) /\ ~Verdict(d)'
    <3>1. at'[d] = at[d]
      BY DEF Idles
    <3>2. ~Verdict(d) /\ ~Verdict(d)'
      BY <1>2, <3>1 DEF CallsSeen
    <3>3. CASE at[d] = "exited"
      BY <3>1, <3>3 DEF CallsSeen
    <3>4. CASE at[d] # "exited"
      BY <1>2, <3>1, <3>4 DEF CallsSeen
    <3> QED BY <3>2, <3>3, <3>4
  <2> QED BY <2>1 DEF Unmoved, Idles, Verdict
<1> QED BY <1>1, <1>2

\* A session that has nothing of its client's any more, and perhaps not even delivers what
\* it had sent.
LEMMA EndedAt ==
  ASSUME CallsSeen, CallsSeen', NEW d \in Clients, NEW k \in Conns, Idles(d), at[d] = "await",
         conn[d] = k, toClient'[k] \in {toClient[k], <<>>}, ~Waiting(k)'
  PROVE  Unmoved(d) \/ Loses(d)
<1>1. /\ Received(k) => CallOf(d) = "answered"
      /\ ~Received(k) /\ Waiting(k) => CallOf(d) = "pending"
      /\ ~Received(k) /\ ~Waiting(k) => CallOf(d) = "lost"
      /\ Verdict(d) <=> Received(k) /\ Head(toClient[k]).code = "Ok"
  BY DEF CallsSeen
<1>2. /\ Received(k)' => CallOf(d)' = "answered"
      /\ ~Received(k)' => CallOf(d)' = "lost"
      /\ Verdict(d)' <=> Received(k)' /\ Head(toClient'[k]).code = "Ok"
  BY DEF CallsSeen, Idles
<1>3. CASE Received(k) /\ toClient'[k] = toClient[k]
  <2>1. CallOf(d)' = CallOf(d) /\ (Verdict(d)' <=> Verdict(d))
    BY <1>1, <1>2, <1>3 DEF Received
  <2> QED BY <2>1 DEF Unmoved, Idles, Verdict
<1>4. CASE ~Received(k) \/ toClient'[k] # toClient[k]
  <2>1. ~Received(k)'
    BY <1>4 DEF Received
  <2>2. CallOf(d)' = "lost" /\ ~Verdict(d)'
    BY <1>2, <2>1
  <2>3. CASE CallOf(d) = "lost"
    <3>1. ~Verdict(d)
      BY <2>3 DEF Verdict
    <3> QED BY <2>2, <2>3, <3>1 DEF Unmoved, Idles, Verdict
  <2>4. CASE CallOf(d) \in {"pending", "answered"}
    BY <2>2, <2>4 DEF Loses, Idles
  <2> QED BY <1>1, <2>3, <2>4
<1> QED BY <1>3, <1>4

-----------------------------------------------------------------------------
(* Steps of the server.                                                    *)

USE DEF Goto, Enter, Asking, Handled

Losing == \E S \in SUBSET Clients : Calls!Lose(S)

\* On connection k nothing is seen to happen.
LEMMA QuietAt ==
  ASSUME Inv, Inv', CallsSeen, CallsSeen', NEW k \in Conns, UNCHANGED clientVars, KeptAt(k),
         \A c \in Clients : at[c] = "await" /\ conn[c] = k =>
            toClient'[k] = toClient[k] /\ (Waiting(k)' <=> Waiting(k))
  PROVE  Losing
<1>1. ASSUME NEW d \in Clients PROVE Unmoved(d)
  <2>1. Idles(d)
    BY DEF Idles, clientVars
  <2>2. ASSUME NEW j \in Conns, at[d] = "await", conn[d] = j
        PROVE  toClient'[j] = toClient[j] /\ (Waiting(j)' <=> Waiting(j))
    <3>1. CASE j = k
      BY <2>2, <3>1
    <3>2. CASE j # k
      BY <3>2 DEF KeptAt, Same, Waiting, CommandsIn
    <3> QED BY <3>1, <3>2
  <2> QED BY <2>1, <2>2, UnmovedAt
<1> QED BY <1>1, MapsLose DEF Losing, Inv, TypeOK

\* On connection k a session ends, or a handler does without an answer.
LEMMA EndAt ==
  ASSUME Inv, Inv', CallsSeen, CallsSeen', NEW k \in Conns, UNCHANGED clientVars, KeptAt(k),
         toClient'[k] \in {toClient[k], <<>>},
         \A c \in Clients : at[c] = "await" /\ conn[c] = k => ~Waiting(k)'
  PROVE  Losing
<1>1. ASSUME NEW d \in Clients PROVE Unmoved(d) \/ Loses(d)
  <2>1. Idles(d)
    BY DEF Idles, clientVars
  <2>2. CASE at[d] = "await" /\ conn[d] = k
    BY <2>1, <2>2, EndedAt
  <2>3. CASE ~(at[d] = "await" /\ conn[d] = k)
    <3>1. \A j \in Conns : at[d] = "await" /\ conn[d] = j =>
            toClient'[j] = toClient[j] /\ (Waiting(j)' <=> Waiting(j))
      BY <2>3 DEF KeptAt, Same, Waiting, CommandsIn
    <3> QED BY <2>1, <3>1, UnmovedAt
  <2> QED BY <2>2, <2>3
<1> QED BY <1>1, MapsLose DEF Losing, Inv, TypeOK

\* A response serves the call of the client on the connection.
LEMMA RespondServes ==
  ASSUME Inv, Inv', CallsSeen, CallsSeen', NEW k \in Conns, UNCHANGED <<clientEnd, clientVars>>,
         KeptAt(k), NEW from \in {"run", "check"}, NEW code, NEW role, Respond(k, from, code, role)
  PROVE  Losing \/ \E c \in Clients : Calls!Serve(c)
<1>1. Handled(k) /\ ServerSends(k, Answers(job[k], code, role))
  BY DEF Respond, HandlerDone
<1>2. CASE ~\E c \in Clients : conn[c] = k
  BY <1>2, QuietAt
<1>3. ASSUME NEW c \in Clients, conn[c] = k PROVE Calls!Serve(c)
  <2>1. at[c] = "await" /\ toClient[k] = <<>> /\ clientEnd[k] = "open"
    BY <1>1, <1>3, HandlerKnown DEF Inv
  <2>2. toClient'[k] # <<>>
    BY <1>1, <2>1, FrameSent DEF Inv, TypeOK
  <2>3. CallOf(c) = "pending" /\ CallOf(c)' = "answered"
    <3>1. ~Received(k) /\ Waiting(k) /\ Received(k)' /\ at'[c] = "await" /\ conn'[c] = k
      BY <1>1, <1>3, <2>1, <2>2 DEF Received, Waiting, clientVars
    <3> QED BY <1>3, <2>1, <3>1 DEF CallsSeen
  <2>4. ASSUME NEW d \in Clients \ {c} PROVE Unmoved(d)
    <3>1. Idles(d)
      BY DEF Idles, clientVars
    <3>2. conn[d] # k
      BY <1>3, OwnerKnown DEF Inv, Owned
    <3>3. \A j \in Conns : at[d] = "await" /\ conn[d] = j =>
            toClient'[j] = toClient[j] /\ (Waiting(j)' <=> Waiting(j))
      BY <3>2 DEF KeptAt, Same, Waiting, CommandsIn
    <3> QED BY <3>1, <3>3, UnmovedAt
  <2>5. Moves(c, {"pending"}, "answered", pending[c].id)
    BY <2>3, <2>4 DEF Moves, clientVars
  <2> QED BY <2>5, MapsServe DEF clientVars, Inv, TypeOK
<1> QED BY <1>2, <1>3

LEMMA ServerMaps ==
  ASSUME Inv, Inv', CallsSeen, CallsSeen', NEW k \in Conns, ServerStep(k), UNCHANGED clientVars
  PROVE  Losing \/ \E c \in Clients : Calls!Serve(c)
<1> USE DEF Inv, TypeOK
<1>1. CASE Accept(k) \/ TestLoop(k) \/ ReadEnd(k)
  <2>1. KeptAt(k)
    BY <1>1, AcceptKeeps, TestLoopKeeps, ReadEndKeeps
  <2>2. toClient' = toClient /\ toServer' = toServer /\ ~Handled(k) /\ ~Handled(k)'
    BY <1>1 DEF Accept, TestLoop, ReadEnd, wireVars, ServerTypeOK
  <2>3. Waiting(k)' <=> Waiting(k)
    BY <2>2 DEF Waiting, CommandsIn
  <2> QED BY <2>1, <2>2, <2>3, QuietAt
<1>2. CASE ReadWelcome(k) \/ ReadVersion(k)
  <2>1. KeptAt(k)
    BY <1>2, ReadWelcomeKeeps, ReadVersionKeeps
  <2>2. pc[k] \in {"welcome", "version"}
    BY <1>2 DEF ReadWelcome, ReadVersion
  <2>3. ~\E c \in Clients : at[c] = "await" /\ conn[c] = k
    BY <2>2, OwnerKnown DEF InStep
  <2> QED BY <2>1, <2>3, QuietAt
<1>3. CASE ReadRequest(k)
  <2>1. KeptAt(k)
    BY <1>3, ReadRequestKeeps
  <2> DEFINE f == Head(toServer[k])
  <2>2. /\ pc[k] = "read" /\ toServer[k] # <<>> /\ f.kind = "Request" /\ ServerTakes(k)
    BY <1>3 DEF ReadRequest, ServerSees
  <2>3. ASSUME NEW c \in Clients, at[c] = "await", conn[c] = k
        PROVE  toClient'[k] = toClient[k] /\ (Waiting(k)' <=> Waiting(k))
    <3>1. OneCommand(c, k) /\ pending[c] \in Commands
      BY <2>3, OwnerKnown DEF Owned, Placed
    <3>2. /\ IsCommand(f) => Asking(k)' = {} /\ 1 \in Asking(k)
          /\ ~IsCommand(f) => (Asking(k)' = {} <=> Asking(k) = {})
      BY <2>2, <3>1, CommandTaken DEF OneCommand
    <3>3. f = toServer[k][1]
      BY <2>2 DEF WireTypeOK
    <3> HIDE DEF f
    <3>4. CASE f.request.id = "Quit"
      <4>1. toClient' = toClient /\ pc' = [pc EXCEPT ![k] = "loop"]
        BY <1>3, <3>4 DEF ReadRequest, HandledRequests, LoggedRequests, f
      <4>2. ~IsCommand(f)
        BY <3>4 DEF IsCommand
      <4>3. Waiting(k)' <=> Waiting(k)
        BY <2>2, <3>2, <4>1, <4>2 DEF Waiting, ServerTypeOK
      <4> QED BY <4>1, <4>3
    <3>5. CASE f.request.id # "Quit"
      <4>1. Asking(k)' = {} /\ 1 \in Asking(k)
        BY <2>2, <3>2, <3>5 DEF IsCommand, f
      <4>2. f.request.id \in HandledRequests
        BY <3>1, <3>3, <4>1, CommandsHandled DEF OneCommand
      <4>3. toClient' = toClient /\ pc' = [pc EXCEPT ![k] = "run"]
        BY <1>3, <3>5, <4>2 DEF ReadRequest, HandledRequests, LoggedRequests, f
      <4>4. Waiting(k)' /\ Waiting(k)
        BY <4>1, <4>3 DEF Waiting, ServerTypeOK
      <4> QED BY <4>3, <4>4
    <3> QED BY <3>4, <3>5
  <2> QED BY <2>1, <2>3, QuietAt
<1>4. CASE EndSession(k)
  <2>1. KeptAt(k)
    BY <1>4, EndSessionKeeps
  <2>2. toServer'[k] = <<>> /\ pc'[k] = "ended" /\ toClient'[k] \in {toClient[k], <<>>}
    BY <1>4 DEF EndSession, ServerCloses, Destroyed, WireTypeOK
  <2>3. ~Waiting(k)'
    BY <2>2 DEF Waiting, CommandsIn
  <2> QED BY <2>1, <2>2, <2>3, EndAt
<1>5. CASE HandlerThrows(k)
  <2>1. KeptAt(k)
    BY <1>5, HandlersKeep DEF Handler
  <2>2. /\ pc[k] = "run" /\ pc'[k] = "loop" /\ UNCHANGED <<toServer, toClient>>
    BY <1>5 DEF HandlerThrows, HandlerDone, Runs, wireVars, ServerTypeOK
  <2>3. \A c \in Clients : at[c] = "await" /\ conn[c] = k => ~Waiting(k)'
    <3> SUFFICES ASSUME NEW c \in Clients, conn[c] = k PROVE ~Waiting(k)'
      OBVIOUS
    <3>1. Asking(k) = {}
      BY <2>2, HandlerKnown
    <3> QED BY <2>2, <3>1 DEF Waiting, CommandsIn
  <2> QED BY <2>1, <2>2, <2>3, EndAt
<1>6. CASE Handler(k) /\ ~HandlerThrows(k)
  <2>1. KeptAt(k)
    BY <1>6, HandlersKeep
  <2>2. CASE \E from \in {"run", "check"} : \E code, role :
               Respond(k, from, code, role) /\ UNCHANGED clientEnd
    BY <2>1, <2>2, RespondServes
  <2>3. CASE GetUser(k) /\ ~Malformed(k) /\ Exists(job[k].name)
    <3>1. /\ pc[k] = "run" /\ pc' = [pc EXCEPT ![k] = "check"]
          /\ UNCHANGED <<toServer, toClient>>
      BY <2>3 DEF GetUser
    <3>2. Waiting(k)' /\ Waiting(k)
      BY <3>1 DEF Waiting, ServerTypeOK
    <3> QED BY <2>1, <3>1, <3>2, QuietAt
  <2> QED BY <1>6, <2>2, <2>3 DEF Handler, Refuse, RunOther, RunLogout, RunRestart, GetUser,
                                CheckPassword
<1>7. CASE \E m \in RestartModes : RestartFires(k, m)
  <2>1. ASSUME NEW d \in Clients PROVE Unmoved(d) \/ Loses(d)
    <3>0. Idles(d)
      BY DEF Idles, clientVars
    <3>1. CASE UNCHANGED <<wireVars, threadVars>>
      <4>1. \A j \in Conns : at[d] = "await" /\ conn[d] = j =>
              toClient'[j] = toClient[j] /\ (Waiting(j)' <=> Waiting(j))
        BY <3>1 DEF wireVars, threadVars, Waiting, CommandsIn
      <4> QED BY <3>0, <4>1, UnmovedAt
    <3>2. CASE Die
      <4>1. CASE at[d] = "await"
        <5>1. PICK j \in Conns : conn[d] = j
          BY <4>1 DEF CallsSeen
        <5>2. toServer'[j] = <<>> /\ toClient'[j] \in {toClient[j], <<>>}
          BY <3>2 DEF Die, ServerDies, WireTypeOK
        <5>3. serverEnd[j] \in {"open", "closed"}
          BY <5>1, ConnKnown, OwnerKnown
        <5>4. pc'[j] = "ended"
          BY <3>2, <5>3 DEF Die, Destroyed, SystemInv, Linked
        <5>5. ~Waiting(j)'
          BY <5>2, <5>4 DEF Waiting, CommandsIn
        <5> QED BY <3>0, <4>1, <5>1, <5>2, <5>5, EndedAt
      <4>2. CASE at[d] # "await"
        BY <3>0, <4>2, UnmovedAt
      <4> QED BY <4>1, <4>2
    <3> QED BY <1>7, <3>1, <3>2 DEF RestartFires
  <2> QED BY <2>1, MapsLose DEF Losing
<1> QED BY <1>1, <1>2, <1>3, <1>4, <1>5, <1>6, <1>7 DEF ServerStep, SessionStep

-----------------------------------------------------------------------------
(* Steps of a client.                                                      *)

\* The others have connections of their own.
LEMMA OthersUnmoved ==
  ASSUME Inv, Inv', CallsSeen, CallsSeen', NEW c \in Clients, UNCHANGED serverVars,
         \A d \in Clients \ {c} : Idles(d),
         \A k \in Conns : clientEnd[k] = "open" /\ k # conn[c] =>
           toClient'[k] = toClient[k] /\ toServer'[k] = toServer[k]
  PROVE  \A d \in Clients \ {c} : Unmoved(d)
<1> SUFFICES ASSUME NEW d \in Clients \ {c} PROVE Unmoved(d)
  OBVIOUS
<1>1. ASSUME NEW k \in Conns, at[d] = "await", conn[d] = k
      PROVE  toClient'[k] = toClient[k] /\ (Waiting(k)' <=> Waiting(k))
  <2>1. clientEnd[k] = "open" /\ k # conn[c]
    BY <1>1, OwnerKnown DEF Inv, Owned
  <2>2. toClient'[k] = toClient[k] /\ toServer'[k] = toServer[k] /\ pc' = pc
    BY <2>1 DEF serverVars, threadVars
  <2> QED BY <2>2 DEF Waiting, CommandsIn
<1> QED BY <1>1, UnmovedAt

LEMMA SocketClosed ==
  ASSUME TypeOK, NEW c \in Clients, NEW unread, CloseSocket(c, toServer, unread)
                                                \/ CloseSocket(c, WithQuit(c), unread)
  PROVE  \A k \in Conns : clientEnd[k] = "open" /\ k # conn[c] =>
           toClient'[k] = toClient[k] /\ toServer'[k] = toServer[k]
<1> USE DEF TypeOK, WireTypeOK, ClientTypeOK
<1>1. \A k \in Conns : k # conn[c] => WithQuit(c)[k] = toServer[k]
  BY DEF WithQuit
<1>2. WithQuit(c) \in [Conns -> Seq(ToServerFrames)]
  BY WithQuitType
<1>3. CASE conn[c] = NoConn
  BY <1>3 DEF CloseSocket
<1>4. CASE conn[c] # NoConn
  BY <1>1, <1>2, <1>4 DEF CloseSocket, ClientCloses
<1> QED BY <1>3, <1>4

LEMMA ClientAlone ==
  ASSUME Inv, Inv', CallsSeen, CallsSeen', NEW c \in Clients, User(c) \/ ClientStep(c),
         UNCHANGED serverVars
  PROVE  \A d \in Clients \ {c} : Unmoved(d)
<1> USE DEF Inv, TypeOK, ClientTypeOK, WireTypeOK, CommandDone, ResetState
<1>0. /\ Idles(c) \/ ~Idles(c)
      /\ conn[c] # NoConn => conn[c] \in Conns
  OBVIOUS
<1> DEFINE Local == \A k \in Conns : clientEnd[k] = "open" /\ k # conn[c] =>
                      toClient'[k] = toClient[k] /\ toServer'[k] = toServer[k]
<1>1. ASSUME Local, UNCHANGED conn \/ (\E n : conn' = [conn EXCEPT ![c] = n]),
             \A d \in Clients \ {c} : /\ at'[d] = at[d] /\ pending'[d] = pending[d]
                                      /\ logged'[d] = logged[d] /\ known'[d] = known[d]
      PROVE  \A d \in Clients \ {c} : Unmoved(d)
  <2>1. \A d \in Clients \ {c} : Idles(d)
    BY <1>1 DEF Idles
  <2> QED BY <1>1, <2>1, OthersUnmoved
<1>2. CASE Established(c)
  <2>1. PICK k \in Conns : ClientOpens(k) /\ conn' = [conn EXCEPT ![c] = k]
    BY <1>2 DEF Established
  <2>2. Local
    BY <1>2, <2>1 DEF Established, ClientOpens
  <2> QED BY <1>1, <1>2, <2>1, <2>2 DEF Established
<1>3. CASE ConnectFails(c) \/ ReadFails(c)
  BY <1>1, <1>3 DEF ConnectFails, ReadFails, wireVars
<1>4. CASE ReadWelcomeReply(c) \/ ReadVersions(c) \/ ReadResponse(c)
  <2>1. Local
    BY <1>0, <1>4 DEF ReadWelcomeReply, ReadVersions, ReadResponse, ClientTakes, ClientSends
  <2> QED BY <1>1, <1>4, <2>1 DEF ReadWelcomeReply, ReadVersions, ReadResponse, Believe
<1>5. CASE RestartAccepted(c) \/ InterruptExit(c) \/ Close(c)
  <2>1. Local
    BY <1>5, SocketClosed DEF RestartAccepted, InterruptExit, Close
  <2> QED BY <1>1, <1>5, <2>1 DEF RestartAccepted, InterruptExit, Close, CloseSocket
<1>6. CASE Connect(c)
  <2>1. Local
    BY <1>6, SocketClosed DEF Connect
  <2> QED BY <1>1, <1>6, <2>1 DEF Connect, CloseSocket
<1>7. CASE \E r \in Commands : Command(c, r)
  <2>1. PICK r \in Commands : Command(c, r)
    BY <1>7
  <2>2. Local
    BY <1>0, <2>1 DEF Command, ClientSends
  <2> QED BY <1>1, <2>1, <2>2 DEF Command
<1>8. CASE Interrupt(c)
  <2>1. Local
    BY <1>0, <1>8 DEF Interrupt, WithQuit
  <2> QED BY <1>1, <1>8, <2>1 DEF Interrupt
<1> QED BY <1>2, <1>3, <1>4, <1>5, <1>6, <1>7, <1>8 DEF User, ClientStep

LEMMA ClientMaps ==
  ASSUME Inv, Inv', CallsSeen, CallsSeen', NEW c \in Clients, User(c) \/ ClientStep(c),
         UNCHANGED serverVars
  PROVE  \/ Losing
         \/ Calls!Invoke(c) \/ Calls!Return(c) \/ Calls!Fail(c) \/ Calls!Drop(c) \/ Calls!Exit(c)
<1> USE DEF Inv, TypeOK, ClientTypeOK, CommandDone
<1>0. \A d \in Clients \ {c} : Unmoved(d)
  BY ClientAlone
<1>1. ASSUME Unmoved(c) PROVE Losing
  BY <1>0, <1>1, MapsLose DEF Losing
<1>2. CASE /\ at[c] \notin {"await", "exited"} /\ at'[c] \notin {"await", "exited"}
           /\ logged'[c] = logged[c]
  <2>1. CallOf(c) = "idle" /\ CallOf(c)' = "idle" /\ ~Verdict(c) /\ ~Verdict(c)'
    BY <1>2 DEF CallsSeen
  <2>2. pending[c].id = NoRequest.id /\ pending'[c].id = NoRequest.id
    BY <1>2 DEF CallsSeen
  <2> QED BY <1>1, <1>2, <2>1, <2>2 DEF Unmoved, Verdict
<1>3. CASE Established(c) \/ ConnectFails(c) \/ ReadWelcomeReply(c) \/ ReadVersions(c)
  BY <1>2, <1>3 DEF Established, ConnectFails, ReadWelcomeReply, ReadVersions
<1>4. CASE ReadFails(c)
  <2>1. CASE at[c] # "await"
    BY <1>2, <1>4, <2>1 DEF ReadFails
  <2>2. CASE at[c] = "await"
    <3>1. PICK k \in Conns : conn[c] = k
      BY <2>2 DEF CallsSeen
    <3>2. toClient[k] = <<>> /\ serverEnd[k] = "closed"
      BY <1>4, <3>1 DEF ReadFails, ClientSeesEnd
    <3>3. pc[k] = "ended" /\ toServer[k] = <<>>
      BY <3>2 DEF SystemInv, Linked
    <3>4. ~Received(k) /\ ~Waiting(k)
      BY <3>2, <3>3 DEF Received, Waiting, CommandsIn
    <3>5. CallOf(c) = "lost"
      BY <2>2, <3>1, <3>4 DEF CallsSeen
    <3>6. CallOf(c)' = "idle" /\ pending'[c].id = NoRequest.id /\ logged'[c] = logged[c]
      BY <1>4 DEF ReadFails, CallsSeen
    <3> QED BY <1>0, <3>5, <3>6, MapsFail DEF Moves
  <2> QED BY <2>1, <2>2
<1>5. CASE ReadResponse(c) \/ RestartAccepted(c)
  <2>1. PICK k \in Conns : conn[c] = k /\ toClient[k] # <<>> /\ at[c] = "await"
    BY <1>5 DEF ReadResponse, RestartAccepted, ClientSees
  <2>2. CallOf(c) = "answered"
    BY <2>1 DEF CallsSeen, Received
  <2>3. CallOf(c)' = "idle" /\ pending'[c].id = NoRequest.id
    BY <1>5 DEF ReadResponse, RestartAccepted, CallsSeen
  <2>4. logged'[c] = IF Head(toClient[k]).code # "Ok" THEN logged[c]
                     ELSE IF pending[c].id = "Login" THEN TRUE
                     ELSE IF pending[c].id \in {"Logout", "ServerRestart"} THEN FALSE
                     ELSE logged[c]
    BY <1>5, <2>1 DEF ReadResponse, RestartAccepted, Believe, ResetState
  <2> QED BY <1>0, <2>1, <2>2, <2>3, <2>4, MapsReturn DEF Moves
<1>6. CASE InterruptExit(c)
  <2>1. CallOf(c)' = "gone" /\ pending'[c].id = NoRequest.id /\ logged'[c] = logged[c]
    BY <1>6 DEF InterruptExit, CallsSeen
  <2> QED BY <1>0, <2>1, MapsExit
<1>7. CASE Connect(c) \/ (Close(c) /\ at'[c] = "prompt")
  <2>1. CallOf(c) = "idle" /\ CallOf(c)' = "idle" /\ ~Verdict(c) /\ ~Verdict(c)' /\ ~logged'[c]
    BY <1>7 DEF Connect, Close, ResetState, CallsSeen
  <2>2. pending'[c].id = pending[c].id
    BY <1>7 DEF Connect, Close
  <2> QED BY <1>0, <2>1, <2>2, MapsDrop DEF Verdict
<1>8. CASE Close(c) /\ at'[c] = "exited"
  <2>1. CallOf(c)' = "gone" /\ ~logged'[c] /\ pending'[c].id = NoRequest.id
    BY <1>8 DEF Close, ResetState, CallsSeen
  <2> QED BY <1>0, <2>1, MapsExit
<1>9. CASE \E r \in Commands : Command(c, r)
  <2>1. PICK r \in Commands : Command(c, r)
    BY <1>9
  <2>2. CASE at'[c] = "prompt"
    BY <1>2, <2>1, <2>2 DEF Command
  <2>3. CASE at'[c] = "await"
    <3>1. at[c] = "prompt" /\ pending'[c] = r /\ r.id \in HandledRequests /\ logged'[c] = logged[c]
      BY <2>1, <2>3, ClientAssumption DEF Command
    <3>2. PICK k \in Conns : conn[c] = k /\ conn'[c] = k /\ toClient' = toClient
      BY <2>1 DEF Command
    <3>3. ~Received(k)'
      BY <3>1, <3>2, OwnerKnown DEF Received
    <3>4. CallOf(c) = "idle" /\ CallOf(c)' \in {"pending", "lost"}
      <4>1. CallOf(c) = "idle"
        BY <3>1 DEF CallsSeen
      <4>2. /\ Waiting(k)' => CallOf(c)' = "pending"
            /\ ~Waiting(k)' => CallOf(c)' = "lost"
        BY <2>3, <3>2, <3>3 DEF CallsSeen
      <4> QED BY <4>1, <4>2
    <3>5. PICK to \in {"pending", "lost"} : CallOf(c)' = to
      BY <3>4
    <3>6. Moves(c, {"idle"}, to, r.id)
      BY <1>0, <3>1, <3>4, <3>5 DEF Moves
    <3> QED BY <3>1, <3>6, MapsInvoke
  <2> QED BY <2>1, <2>2, <2>3 DEF Command
<1>10. CASE Interrupt(c)
  <2>1. /\ at' = at /\ conn' = conn /\ pending' = pending /\ ~logged'[c] /\ at[c] # "exited"
        /\ toServer' = WithQuit(c) /\ toClient' = toClient
    BY <1>10 DEF Interrupt, ResetState
  <2>2. CallOf(c)' = CallOf(c) /\ (Verdict(c)' <=> Verdict(c))
    <3>1. CASE at[c] # "await"
      BY <2>1, <3>1 DEF CallsSeen
    <3>2. CASE at[c] = "await"
      <4>1. PICK k \in Conns : conn[c] = k
        BY <3>2 DEF CallsSeen
      <4>2. Waiting(k)' <=> Waiting(k)
        <5>1. Asking(k)' = Asking(k)
          <6>1. CASE toServer'[k] = toServer[k]
            BY <6>1 DEF CommandsIn
          <6>2. CASE toServer'[k] = Append(toServer[k], Asks(Plain("Quit")))
            <7>1. ~IsCommand(Asks(Plain("Quit"))) /\ Asks(Plain("Quit")) \in ToServerFrames
              BY ClientFrames DEF IsCommand, Asks, Plain, NoRequest
            <7>2. toServer[k] \in Seq(ToServerFrames)
              BY DEF WireTypeOK
            <7>3. CommandsIn(toServer'[k]) = CommandsIn(toServer[k])
              BY <6>2, <7>1, <7>2, CommandsKept
            <7> QED BY <7>3 DEF CommandsIn
          <6> QED BY <2>1, <4>1, <6>1, <6>2 DEF WithQuit, WireTypeOK
        <5>2. pc' = pc
          BY DEF serverVars, threadVars
        <5> QED BY <5>1, <5>2 DEF Waiting
      <4>3. Received(k)' <=> Received(k)
        BY <2>1 DEF Received
      <4>4. CallOf(c)' = CallOf(c)
        BY <2>1, <3>2, <4>1, <4>2, <4>3 DEF CallsSeen
      <4>5. Verdict(c)' <=> Verdict(c)
        BY <2>1, <3>2, <4>1, <4>3 DEF CallsSeen
      <4> QED BY <4>4, <4>5
    <3> QED BY <3>1, <3>2
  <2>3. CallOf(c) # "gone"
    BY <2>1 DEF CallsSeen
  <2> QED BY <1>0, <2>1, <2>2, <2>3, MapsDrop DEF Verdict
<1> QED BY <1>3, <1>4, <1>5, <1>6, <1>7, <1>8, <1>9, <1>10 DEF User, ClientStep, Close

-----------------------------------------------------------------------------
(* The refinement.                                                         *)

LEMMA InitMaps == Init => Calls!Init
<1> SUFFICES ASSUME Init PROVE Calls!Init
  OBVIOUS
<1>1. /\ at = [c \in Clients |-> "prompt"] /\ pending = [c \in Clients |-> NoRequest]
      /\ logged = [c \in Clients |-> FALSE]
  BY DEF Init, ClientInit
<1>2. \A c \in Clients : CallOf(c) = "idle"
  BY <1>1 DEF CallOf
<1> QED BY <1>1, <1>2 DEF Calls!Init

LEMMA NextMaps == Inv /\ Inv' /\ CallsSeen /\ CallsSeen' /\ [Next]_vars => [Calls!Next]_(Calls!vars)
<1> SUFFICES ASSUME Inv, Inv', CallsSeen, CallsSeen', [Next]_vars
             PROVE  [Calls!Next]_(Calls!vars)
  OBVIOUS
<1>1. ASSUME NEW k \in Conns, ServerStep(k), UNCHANGED clientVars PROVE Calls!Next
  BY <1>1, ServerMaps DEF Losing, Calls!Next
<1>2. ASSUME NEW c \in Clients, User(c) \/ ClientStep(c), UNCHANGED serverVars PROVE Calls!Next
  BY <1>2, ClientMaps DEF Losing, Calls!Next
<1>3. CASE UNCHANGED vars
  <2>1. UNCHANGED wireVars /\ UNCHANGED serverVars /\ UNCHANGED clientVars
    BY <1>3 DEF vars
  <2>2. ASSUME NEW d \in Clients PROVE Unmoved(d)
    <3>1. \A k \in Conns : toClient'[k] = toClient[k] /\ (Waiting(k)' <=> Waiting(k))
      BY <2>1 DEF wireVars, serverVars, threadVars, Waiting, CommandsIn
    <3>2. Idles(d)
      BY <2>1 DEF Idles, clientVars
    <3> QED BY <3>1, <3>2, UnmovedAt
  <2>3. Losing
    BY <2>2, MapsLose DEF Losing, Inv, TypeOK
  <2> QED BY <2>3 DEF Losing, Calls!Next
<1> QED BY <1>1, <1>2, <1>3 DEF Next

\* Every behaviour of the clients and the server is one of Rpc: a command is one call, served
\* at most once, whose verdict is the answer to that very command; a call may be lost, and
\* then fails; and a client is logged exactly when the verdicts it returned say so.
THEOREM CallsImplemented == Spec => ImplementsRpc
<1>1. CallsSeen /\ CallsSeen' /\ Inv /\ Inv' /\ [Next]_vars => [Calls!Next]_(Calls!vars)
  BY NextMaps
<1>2. Inv => CallsSeen
  BY CallsAreSeen
<1> QED BY <1>1, <1>2, InitMaps, InitInv, StepInv, PTL DEF Spec, ImplementsRpc, Calls!Spec
=============================================================================

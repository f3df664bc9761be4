----------------------------- MODULE ShellClient -----------------------------
(***************************************************************************)
(* The shell clients (src/network/client.cpp, src/shell.cpp and the        *)
(* commands that reach the network).  The main thread of a client runs one *)
(* command at a time and blocks for every answer; the handler of Ctrl-C    *)
(* runs on a thread of its own and closes the connection under it.         *)
(*                                                                         *)
(* Commands that only print, and everything about local files, are left    *)
(* out: they change nothing the server or the session sees.                *)
(***************************************************************************)
EXTENDS Wire

CONSTANTS
  Clients,
  NoConn,         \* the socket is closed
  ClientVersion,  \* constants::VERSION of each client
  Commands        \* the requests the users' commands send, with their data

ASSUME ClientAssumption ==
  /\ NoConn \notin Conns
  /\ ClientVersion \in [Clients -> Nat]
  /\ Commands \subseteq Requests
  /\ \A r \in Commands : r.id \in HandledRequests

VARIABLES
  at,         \* what the main thread is doing
  conn,       \* the connection the socket is open on
  connected,  \* Client::is_connected
  logged,     \* Client::is_logged
  known,      \* Client::user
  pending,    \* the command whose response is awaited
  closing     \* the signal handler has sent Quit and is about to exit

clientVars == <<at, conn, connected, logged, known, pending, closing>>

Activities == {"prompt", "connecting", "welcome", "version", "await", "exited"}

ClientTypeOK ==
  /\ at \in [Clients -> Activities]
  /\ conn \in [Clients -> Conns \cup {NoConn}]
  /\ connected \in [Clients -> BOOLEAN]
  /\ logged \in [Clients -> BOOLEAN]
  /\ known \in [Clients -> Names \cup {NoUser}]
  /\ pending \in [Clients -> Requests]
  /\ closing \in [Clients -> BOOLEAN]

ClientInit ==
  /\ at = [c \in Clients |-> "prompt"]
  /\ conn = [c \in Clients |-> NoConn]
  /\ connected = [c \in Clients |-> FALSE]
  /\ logged = [c \in Clients |-> FALSE]
  /\ known = [c \in Clients |-> NoUser]
  /\ pending = [c \in Clients |-> NoRequest]
  /\ closing = [c \in Clients |-> FALSE]

Enter(c, from, to) == at[c] = from /\ at' = [at EXCEPT ![c] = to]

\* MUTANT: the login survives the connection.
ResetConnectionOnly(c) == connected' = [connected EXCEPT ![c] = FALSE] /\ UNCHANGED <<logged, known>>

\* Client::resetState.
ResetState(c) ==
  /\ connected' = [connected EXCEPT ![c] = FALSE]
  /\ logged' = [logged EXCEPT ![c] = FALSE]
  /\ known' = [known EXCEPT ![c] = NoUser]

\* The queues to the server after Quit was written on the socket of c.
WithQuit(c) ==
  IF conn[c] # NoConn /\ serverEnd[conn[c]] = "open"
  THEN [toServer EXCEPT ![conn[c]] = Append(@, Asks(Plain("Quit")))]
  ELSE toServer

\* What the client has received and not read.
Unread(c) == IF conn[c] = NoConn THEN <<>> ELSE toClient[conn[c]]

\* The socket of c is closed, when it was open, after a last write.
CloseSocket(c, out, unread) ==
  /\ conn' = [conn EXCEPT ![c] = NoConn]
  /\ IF conn[c] = NoConn THEN UNCHANGED <<clientEnd, toClient, toServer>>
     ELSE ClientCloses(conn[c], out, unread)

-----------------------------------------------------------------------------
(* Connecting.                                                             *)

\* "client connect", or the connection made at launch: the state is reset, then the
\* address is resolved.  When that fails connect() returns with the old socket as it
\* was; otherwise boost::asio::connect closes the old socket, without a Quit, before
\* it opens another.
Connect(c) ==
  /\ ResetState(c)
  /\ \/ Enter(c, "prompt", "prompt") /\ UNCHANGED <<conn, clientEnd, toClient, toServer>>
     \/ Enter(c, "prompt", "connecting") /\ CloseSocket(c, toServer, Unread(c))
  /\ UNCHANGED <<serverEnd, listening, pending, closing>>

\* The connection is made and the welcome message written.
Established(c) ==
  /\ Enter(c, "connecting", "welcome")
  /\ \E k \in Conns : ClientOpens(k) /\ conn' = [conn EXCEPT ![c] = k]
  /\ connected' = [connected EXCEPT ![c] = TRUE]
  /\ UNCHANGED <<toClient, listening, logged, known, pending, closing>>

\* Nobody listens, or the server cannot be reached.
ConnectFails(c) ==
  /\ Enter(c, "connecting", "prompt")
  /\ UNCHANGED <<wireVars, conn, connected, logged, known, pending, closing>>

\* The answer to the welcome message.  A refusal leaves is_connected set.  connect()
\* does not look at what checkVersion returns: a version that cannot be sent is like one
\* that is never answered.
ReadWelcomeReply(c) ==
  LET k == conn[c] IN
  /\ k # NoConn /\ ClientSees(k, "Welcome")
  /\ ClientTakes(k)
  /\ \/ /\ Head(toClient[k]).ok
        /\ Enter(c, "welcome", "version")
        /\ ClientSends(k, VersionIs(ClientVersion[c]))
     \/ /\ ~Head(toClient[k]).ok
        /\ Enter(c, "welcome", "prompt") /\ UNCHANGED toServer
  /\ UNCHANGED <<clientEnd, serverEnd, listening, conn, connected, logged, known, pending, closing>>

ReadVersions(c) ==
  LET k == conn[c] IN
  /\ k # NoConn /\ ClientSees(k, "Version")
  /\ Enter(c, "version", "prompt")
  /\ ClientTakes(k)
  /\ UNCHANGED <<toServer, clientEnd, serverEnd, listening, conn, connected, logged, known, pending, closing>>

\* The command returns and its handler, when it had one, is gone.
CommandDone(c, from) == Enter(c, from, "prompt") /\ pending' = [pending EXCEPT ![c] = NoRequest]

\* Any blocking read ends when the server's end is closed: the command fails, the
\* client's own state stays.
ReadFails(c) ==
  /\ at[c] \in {"welcome", "version", "await"} /\ CommandDone(c, at[c])
  /\ conn[c] # NoConn /\ ClientSeesEnd(conn[c])
  /\ UNCHANGED <<wireVars, conn, connected, logged, known, closing>>

-----------------------------------------------------------------------------
(* Commands that send a request.                                           *)

\* canExecuteCmdInstance, and canRestart for the restart option: "login" and
\* "server version" ask for nothing, every other command for a logged client.  None
\* looks at is_connected.
MayRun(c, r) ==
  \/ r.id \in {"Login", "GetVersion"}
  \/ logged[c] /\ RoleOf(known[c]) >= MinRole(r.id)

\* runRestartSubOption asks for a restart of the program whatever the user asked for.
RequestOf(r) == IF r.id = "ServerRestart" THEN Restart("Program") ELSE r

\* RH::run up to the blocking read.  The write may already fail when the server's end is
\* gone; on a closed socket it always does, and the command ends where it began.
Command(c, r) ==
  /\ MayRun(c, r) /\ conn[c] # NoConn
  /\ \/ Enter(c, "prompt", "await") /\ pending' = [pending EXCEPT ![c] = r]
     \/ serverEnd[conn[c]] = "closed" /\ CommandDone(c, "prompt")
  /\ ClientSends(conn[c], Asks(RequestOf(r)))
  /\ UNCHANGED <<toClient, clientEnd, serverEnd, listening, conn, connected, logged, known, closing>>

\* What the command does with an Ok: the state the client believes it is in.  The role
\* comes with the response; it is the account's.
Believe(c, isLogged, u) ==
  /\ logged' = [logged EXCEPT ![c] = isLogged]
  /\ known' = [known EXCEPT ![c] = u]

\* The response to anything but a restart.
ReadResponse(c) ==
  LET k == conn[c] IN
  /\ k # NoConn /\ ClientSees(k, "Response")
  /\ CommandDone(c, "await")
  /\ pending[c].id # "ServerRestart" \/ Head(toClient[k]).code # "Ok"
  /\ ClientTakes(k)
  /\ \/ Head(toClient[k]).code = "Ok" /\ pending[c].id = "Login" /\ Believe(c, TRUE, pending[c].name)
     \/ Head(toClient[k]).code = "Ok" /\ pending[c].id = "Logout" /\ Believe(c, FALSE, NoUser)
     \/ /\ Head(toClient[k]).code # "Ok" \/ pending[c].id \notin {"Login", "Logout"}
        /\ UNCHANGED <<logged, known>>
  /\ UNCHANGED <<toServer, clientEnd, serverEnd, listening, conn, connected, closing>>

\* A restart that was answered Ok ends with a close.
RestartAccepted(c) ==
  LET k == conn[c] IN
  /\ k # NoConn /\ ClientSees(k, "Response")
  /\ CommandDone(c, "await")
  /\ pending[c].id = "ServerRestart" /\ Head(toClient[k]).code = "Ok"
  /\ ResetState(c) /\ CloseSocket(c, WithQuit(c), Tail(toClient[k]))
  /\ UNCHANGED <<serverEnd, listening, closing>>

-----------------------------------------------------------------------------
(* Leaving.                                                                *)

\* "client disconnect", and "quit": Client::close.
Close(c) ==
  /\ Enter(c, "prompt", "prompt") \/ Enter(c, "prompt", "exited")
  /\ ResetState(c) /\ CloseSocket(c, WithQuit(c), Unread(c))
  /\ UNCHANGED <<serverEnd, listening, pending, closing>>

\* Ctrl-C, on the signal thread: Client::close has reset the state and written Quit...
Interrupt(c) ==
  /\ at[c] # "exited" /\ ~closing[c]
  /\ closing' = [closing EXCEPT ![c] = TRUE]
  /\ ResetState(c) /\ toServer' = WithQuit(c)
  /\ UNCHANGED <<toClient, clientEnd, serverEnd, listening, at, conn, pending>>

\* ... and then closes the socket and exits, wherever the main thread has got to.
InterruptExit(c) ==
  /\ closing[c] /\ at[c] # "exited" /\ Enter(c, at[c], "exited")
  /\ pending' = [pending EXCEPT ![c] = NoRequest]
  /\ CloseSocket(c, toServer, Unread(c))
  /\ UNCHANGED <<serverEnd, listening, connected, logged, known, closing>>

-----------------------------------------------------------------------------

\* The steps that follow by themselves; what the user decides on is left to the System.
ClientStep(c) ==
  \/ Established(c) \/ ConnectFails(c) \/ ReadWelcomeReply(c) \/ ReadVersions(c) \/ ReadFails(c)
  \/ ReadResponse(c) \/ RestartAccepted(c) \/ InterruptExit(c)
=============================================================================

---------------------------- MODULE ServerSession ----------------------------
(***************************************************************************)
(* The session threads of the server (Server/src/network/client.cpp), the  *)
(* request handlers they run and the detached restart threads.             *)
(*                                                                         *)
(* A thread per connection reads the welcome message, exchanges versions   *)
(* and then alternates between testing its loop condition, a blocking read *)
(* and running one handler.  The threads share the users, the shutdown     *)
(* flag and nothing else.                                                  *)
(*                                                                         *)
(* The file system the handlers work on is not part of this module: a file *)
(* request answers Ok or an error, or throws when it is in ThrowingRequests*)
(***************************************************************************)
EXTENDS Wire, Users

CONSTANT
  ThrowingRequests   \* requests whose handler may end in an exception

ASSUME ThrowingAssumption ==
  ThrowingRequests \subseteq HandledRequests \ {"Login", "Logout", "ServerRestart"}

VARIABLES
  pc,            \* where the thread of the connection is
  is_connected,  \* Client::is_connected
  is_logged,     \* Client::is_logged
  user,          \* Client::user
  version,       \* Client::version, 0 until read
  job,           \* the request being handled
  copy,          \* the wrong_password_count in LoginRH::user
  stale,         \* history: the account was written since the copy was taken
  shutdown_requested,
  restarting,    \* modes of the detached restart threads the session started
  late,          \* history: requests read after shutdown was requested
  bornLate,      \* history: the session was accepted after shutdown was requested
  accepted,      \* history: the session's last login or logout was a login answered Ok
  unanswered     \* history: a request of the session got no response: its handler
                 \* threw, or it was empty

threadVars == <<pc, is_connected, is_logged, user, version, job, copy>>
historyVars == <<stale, late, bornLate, accepted, unanswered>>
serverVars == <<threadVars, historyVars, shutdown_requested, restarting, usersVars>>

Phases == {"none", "welcome", "version", "loop", "read", "run", "check", "closing", "ended"}

ServerTypeOK ==
  /\ UsersTypeOK
  /\ pc \in [Conns -> Phases]
  /\ is_connected \in [Conns -> BOOLEAN]
  /\ is_logged \in [Conns -> BOOLEAN]
  /\ user \in [Conns -> Accounts \cup {NoUser}]
  /\ version \in [Conns -> Nat]
  /\ job \in [Conns -> Requests]
  /\ copy \in [Conns -> Nat]
  /\ shutdown_requested \in BOOLEAN
  /\ restarting \in [Conns -> SUBSET RestartModes]
  /\ stale \in [Conns -> BOOLEAN]
  /\ late \in [Conns -> Nat]
  /\ bornLate \in [Conns -> BOOLEAN]
  /\ accepted \in [Conns -> BOOLEAN]
  /\ unanswered \in [Conns -> BOOLEAN]

ServerInit ==
  /\ UsersInit
  /\ pc = [k \in Conns |-> "none"]
  /\ is_connected = [k \in Conns |-> TRUE]
  /\ is_logged = [k \in Conns |-> FALSE]
  /\ user = [k \in Conns |-> NoUser]
  /\ version = [k \in Conns |-> 0]
  /\ job = [k \in Conns |-> NoRequest]
  /\ copy = [k \in Conns |-> 0]
  /\ shutdown_requested = FALSE
  /\ restarting = [k \in Conns |-> {}]
  /\ stale = [k \in Conns |-> FALSE]
  /\ late = [k \in Conns |-> 0]
  /\ bornLate = [k \in Conns |-> FALSE]
  /\ accepted = [k \in Conns |-> FALSE]
  /\ unanswered = [k \in Conns |-> FALSE]

Goto(k, from, to) == pc[k] = from /\ pc' = [pc EXCEPT ![k] = to]

-----------------------------------------------------------------------------
(* Connection, welcome message and versions.                               *)

\* acceptConnections, handleClient and the head of Client::start.  printLocation
\* asks the socket for its peer outside the try block: it may throw when the peer
\* is already gone, and the thread then ends.
Accept(k) ==
  /\ listening /\ serverEnd[k] = "open"
  /\ \/ Goto(k, "none", "welcome")
     \/ clientEnd[k] = "closed" /\ Goto(k, "none", "closing")
  /\ bornLate' = [bornLate EXCEPT ![k] = shutdown_requested]
  /\ UNCHANGED <<wireVars, usersVars, is_connected, is_logged, user, version, job, copy,
                 shutdown_requested, restarting, stale, late, accepted, unanswered>>

\* checkWelcomeMessage, then the answer.  read_some may return less than the three
\* bytes: the message is then refused and its rest stays unread.  The session ends
\* too when the read fails or the acceptance cannot be sent.
ReadWelcome(k) ==
  /\ \/ /\ toServer[k] # <<>>
        /\ \/ /\ Goto(k, "welcome", "version")
              /\ ServerTakes(k) /\ ServerSends(k, WelcomeReply(TRUE))
           \/ /\ Goto(k, "welcome", "closing")
              /\ ServerSends(k, WelcomeReply(FALSE)) /\ UNCHANGED toServer
           \/ /\ Goto(k, "welcome", "closing") /\ clientEnd[k] = "closed"
              /\ ServerTakes(k) /\ UNCHANGED toClient
     \/ ServerSeesEnd(k) /\ Goto(k, "welcome", "closing") /\ UNCHANGED <<toServer, toClient>>
  /\ UNCHANGED <<clientEnd, serverEnd, listening, usersVars, historyVars, is_connected, is_logged,
                 user, version, job, copy, shutdown_requested, restarting>>

\* Client::checkVersion returns nothing: whatever happens the request loop follows.
\* A client that is interrupted before it sent its version writes Quit in its place,
\* which is shorter: the read then ends with the stream, and all that was sent is lost.
ReadVersion(k) ==
  /\ Goto(k, "version", "loop")
  /\ \/ /\ ServerSees(k, "Version")
        /\ ServerTakes(k)
        /\ version' = [version EXCEPT ![k] = Head(toServer[k]).version]
        /\ ServerSends(k, ServerVersions)
     \/ /\ ServerSeesEnd(k) \/ (ServerSees(k, "Request") /\ clientEnd[k] = "closed")
        /\ toServer' = [toServer EXCEPT ![k] = <<>>]
        /\ UNCHANGED <<toClient, version>>
  /\ UNCHANGED <<clientEnd, serverEnd, listening, usersVars, historyVars, is_connected, is_logged,
                 user, job, copy, shutdown_requested, restarting>>

-----------------------------------------------------------------------------
(* The request loop.                                                       *)

\* MUTANT: the loop never looks at the shutdown flag.
TestLoopForever(k) ==
  /\ Goto(k, "loop", IF is_connected[k] THEN "read" ELSE "closing")
  /\ UNCHANGED <<wireVars, usersVars, historyVars, is_connected, is_logged, user, version, job,
                 copy, shutdown_requested, restarting>>

\* The loop condition.  The flag is read here and the thread then blocks in a read:
\* a shutdown requested meanwhile is not seen until the next test.
TestLoop(k) ==
  /\ Goto(k, "loop", IF is_connected[k] /\ ~shutdown_requested THEN "read" ELSE "closing")
  /\ UNCHANGED <<wireVars, usersVars, historyVars, is_connected, is_logged, user, version, job,
                 copy, shutdown_requested, restarting>>

\* handleNewRequest and processReceivedRequest up to the choice of the handler.  An empty
\* frame is logged and has no answer.
ReadRequest(k) ==
  /\ pc[k] = "read" /\ ServerSees(k, "Request")
  /\ ServerTakes(k)
  /\ LET r == Head(toServer[k]).request IN
     \/ /\ r.id = "Quit"
        /\ is_connected' = [is_connected EXCEPT ![k] = FALSE]
        /\ pc' = [pc EXCEPT ![k] = "loop"]
        /\ UNCHANGED <<toClient, job, late, unanswered>>
     \/ /\ r.id = "Empty"
        /\ unanswered' = [unanswered EXCEPT ![k] = TRUE]
        /\ pc' = [pc EXCEPT ![k] = "loop"]
        /\ UNCHANGED <<toClient, is_connected, job, late>>
     \/ /\ r.id \notin HandledRequests \cup {"Quit", "Empty"}
        /\ ServerSends(k, Answers(r, "UnknownRequest", RoleNone))
        /\ pc' = [pc EXCEPT ![k] = "loop"]
        /\ UNCHANGED <<is_connected, job, late, unanswered>>
     \/ /\ r.id \in HandledRequests
        /\ job' = [job EXCEPT ![k] = r]
        /\ late' = [late EXCEPT ![k] = IF shutdown_requested THEN @ + 1 ELSE @]
        /\ pc' = [pc EXCEPT ![k] = "run"]
        /\ UNCHANGED <<toClient, is_connected, unanswered>>
  /\ UNCHANGED <<clientEnd, serverEnd, listening, usersVars, is_logged, user, version, copy,
                 shutdown_requested, restarting, stale, bornLate, accepted>>

\* MUTANT: a read that fails is retried.
ReadEndRetried(k) ==
  /\ Goto(k, "read", "loop") /\ ServerSeesEnd(k)
  /\ UNCHANGED <<wireVars, usersVars, historyVars, is_connected, is_logged, user, version, job,
                 copy, shutdown_requested, restarting>>

\* readBuffer fails.
ReadEnd(k) ==
  /\ Goto(k, "read", "loop") /\ ServerSeesEnd(k)
  /\ is_connected' = [is_connected EXCEPT ![k] = FALSE]
  /\ UNCHANGED <<wireVars, usersVars, historyVars, is_logged, user, version, job, copy,
                 shutdown_requested, restarting>>

\* The sessions of S and the handlers they may be running are destroyed; the values
\* stand for objects that no longer exist.
Destroyed(S) ==
  /\ pc' = [k \in Conns |-> IF k \in S THEN "ended" ELSE pc[k]]
  /\ is_connected' = [k \in Conns |-> k \notin S /\ is_connected[k]]
  /\ is_logged' = [k \in Conns |-> k \notin S /\ is_logged[k]]
  /\ accepted' = [k \in Conns |-> k \notin S /\ accepted[k]]
  /\ unanswered' = [k \in Conns |-> k \notin S /\ unanswered[k]]
  /\ stale' = [k \in Conns |-> k \notin S /\ stale[k]]
  /\ user' = [k \in Conns |-> IF k \in S THEN NoUser ELSE user[k]]
  /\ version' = [k \in Conns |-> IF k \in S THEN 0 ELSE version[k]]
  /\ job' = [k \in Conns |-> IF k \in S THEN NoRequest ELSE job[k]]
  /\ copy' = [k \in Conns |-> IF k \in S THEN 0 ELSE copy[k]]
  /\ UNCHANGED <<late, bornLate>>

\* startCommunication has returned: the thread ends and takes its Client, and with it
\* the socket, along.
EndSession(k) ==
  /\ pc[k] = "closing"
  /\ ServerCloses(k) /\ Destroyed({k})
  /\ UNCHANGED <<clientEnd, listening, usersVars, shutdown_requested, restarting>>

-----------------------------------------------------------------------------
(* The handlers.  RH::run checks the requirements, runs the handler when   *)
(* they hold and sends the one response.                                   *)

Refusal(k) == RequirementError(job[k].id, version[k], is_logged[k], user[k])

\* The handler is destroyed and the loop goes on.  Constrains pc' and job'.
HandlerDone(k, from) == Goto(k, from, "loop") /\ job' = [job EXCEPT ![k] = NoRequest]

\* MUTANT: a handler that has sent its response lets run() send another.
RespondTwice(k, from, code, role) ==
  /\ HandlerDone(k, from)
  /\ toClient' = [toClient EXCEPT ![k] = @ \o <<Answers(job[k], code, role), Answers(job[k], code, role)>>]

\* sendResponse at the end of RH::run.  Constrains pc', job' and toClient'.
Respond(k, from, code, role) ==
  HandlerDone(k, from) /\ ServerSends(k, Answers(job[k], code, role))

\* MUTANT: run() returns early instead of sending the error.
RefuseSilently(k) ==
  /\ Refusal(k) # "Ok"
  /\ HandlerDone(k, "run")
  /\ UNCHANGED <<wireVars, usersVars, historyVars, is_connected, is_logged, user, version, copy,
                 shutdown_requested, restarting>>

Refuse(k) ==
  /\ Refusal(k) # "Ok"
  /\ Respond(k, "run", Refusal(k), RoleNone)
  /\ UNCHANGED <<toServer, clientEnd, serverEnd, listening, usersVars, historyVars, is_connected,
                 is_logged, user, version, copy, shutdown_requested, restarting>>

Runs(k, ids) == pc[k] = "run" /\ job[k].id \in ids /\ Refusal(k) = "Ok"

\* The data cannot be read; a handler that reads none does not notice.
Malformed(k) == job[k].cut /\ job[k].id \notin {"GetVersion", "Logout"}

SessionRequests == {"Login", "Logout", "ServerRestart"}

\* Every handler that leaves the session's own state alone.
RunOther(k) ==
  /\ Runs(k, HandledRequests \ SessionRequests)
  /\ \/ ~Malformed(k) /\ Respond(k, "run", "Ok", RoleNone)
     \/ ~Malformed(k) /\ job[k].id # "GetVersion" /\ Respond(k, "run", "IOError", RoleNone)
     \/ Malformed(k) /\ Respond(k, "run", "InvalidRequestData", RoleNone)
  /\ UNCHANGED <<toServer, clientEnd, serverEnd, listening, usersVars, historyVars, is_connected,
                 is_logged, user, version, copy, shutdown_requested, restarting>>

\* The catch of processReceivedRequest logs and returns: nothing is sent.
HandlerThrows(k) ==
  /\ Runs(k, ThrowingRequests) /\ ~Malformed(k) /\ HandlerDone(k, "run")
  /\ unanswered' = [unanswered EXCEPT ![k] = TRUE]
  /\ UNCHANGED <<wireVars, usersVars, is_connected, is_logged, user, version, copy,
                 shutdown_requested, restarting, stale, late, bornLate, accepted>>

RunLogout(k) ==
  /\ Runs(k, {"Logout"})
  /\ Respond(k, "run", "Ok", RoleNone)
  /\ is_logged' = [is_logged EXCEPT ![k] = FALSE]
  /\ user' = [user EXCEPT ![k] = NoUser]
  /\ accepted' = [accepted EXCEPT ![k] = FALSE]
  /\ UNCHANGED <<toServer, clientEnd, serverEnd, listening, usersVars, is_connected, version,
                 copy, shutdown_requested, restarting, stale, late, bornLate, unanswered>>

\* The thread that will carry out the restart is started before the response is sent, and
\* not at all without a mode that is known.
RunRestart(k) ==
  /\ Runs(k, {"ServerRestart"})
  /\ \/ /\ ~Malformed(k) /\ job[k].mode \in RestartModes
        /\ Respond(k, "run", "Ok", RoleNone)
        /\ restarting' = [restarting EXCEPT ![k] = @ \cup {job[k].mode}]
     \/ /\ ~Malformed(k) /\ job[k].mode \notin RestartModes
        /\ Respond(k, "run", "UnknownRestartMode", RoleNone) /\ UNCHANGED restarting
     \/ Malformed(k) /\ Respond(k, "run", "InvalidRequestData", RoleNone) /\ UNCHANGED restarting
  /\ UNCHANGED <<toServer, clientEnd, serverEnd, listening, usersVars, historyVars, is_connected,
                 is_logged, user, version, copy, shutdown_requested>>

\* MUTANT: the session keeps the user it had.
BecomeNobody(k, u, code) ==
  /\ is_logged' = [is_logged EXCEPT ![k] = TRUE]
  /\ accepted' = [accepted EXCEPT ![k] = code = "Ok"]
  /\ UNCHANGED user

\* The end of LoginRH::_run, which is reached whether the login was accepted or not:
\* the user looked up (or the invalid one) and is_logged are stored in the session.
BecomeUser(k, u, code) ==
  /\ user' = [user EXCEPT ![k] = u]
  /\ is_logged' = [is_logged EXCEPT ![k] = TRUE]
  /\ accepted' = [accepted EXCEPT ![k] = code = "Ok"]

\* extractUsername, extractPassword and getUserFromUsername: the record is copied out of the
\* shared vector.
GetUser(k) ==
  /\ Runs(k, {"Login"})
  /\ \/ /\ Malformed(k)
        /\ Respond(k, "run", "InvalidRequestData", RoleNone)
        /\ BecomeUser(k, NoUser, "InvalidRequestData")
        /\ UNCHANGED <<copy, stale>>
     \/ /\ ~Malformed(k) /\ ~Exists(job[k].name)
        /\ Respond(k, "run", "UserNotExists", RoleNone)
        /\ BecomeUser(k, NoUser, "UserNotExists")
        /\ UNCHANGED <<copy, stale>>
     \/ /\ ~Malformed(k) /\ Exists(job[k].name)
        /\ Goto(k, "run", "check")
        /\ copy' = [copy EXCEPT ![k] = wrong_password_count[job[k].name]]
        /\ stale' = [stale EXCEPT ![k] = FALSE]
        /\ UNCHANGED <<toClient, user, is_logged, accepted, job>>
  /\ UNCHANGED <<toServer, clientEnd, serverEnd, listening, usersVars, is_connected, version,
                 shutdown_requested, restarting, late, bornLate, unanswered>>

\* checkPassword: a right password writes the record back with a zero count, a wrong
\* one sleeps count * count seconds first and writes back the count of the copy plus
\* one.  Either write makes the other sessions' copies of the account stale.
CheckPassword(k) ==
  LET u    == job[k].name
      code == IF job[k].right THEN "Ok" ELSE "InvalidPassword"
  IN
  /\ Respond(k, "check", code, RoleOf(u))
  /\ BecomeUser(k, u, code)
  /\ \/ job[k].right  /\ RecordRight(u, stale[k])
     \/ ~job[k].right /\ RecordWrong(u, copy[k], stale[k])
  /\ stale' = [j \in Conns |-> j # k /\ (stale[j] \/ (pc[j] = "check" /\ job[j].name = u))]
  /\ copy' = [copy EXCEPT ![k] = 0]
  /\ UNCHANGED <<toServer, clientEnd, serverEnd, listening, is_connected, version,
                 shutdown_requested, restarting, late, bornLate, unanswered>>

-----------------------------------------------------------------------------
(* The detached restart threads.                                           *)

\* The process dies and every session with it.
Die ==
  /\ ServerDies /\ Destroyed({k \in Conns : serverEnd[k] = "open"})
  /\ restarting' = [k \in Conns |-> {}]
  /\ UNCHANGED <<usersVars, shutdown_requested>>

\* The restart thread has slept its second.  Its handler was destroyed when the
\* response had been sent, so that the call through "this" is undefined: it may reach
\* the function it was meant for or bring the process down.  restartProgram only sets
\* the flag; restartMachine fails without the privilege and otherwise reboots.
RestartFires(k, m) ==
  /\ listening /\ m \in restarting[k]
  /\ \/ /\ m = "Program"
        /\ shutdown_requested' = TRUE
        /\ restarting' = [restarting EXCEPT ![k] = @ \ {m}]
        /\ UNCHANGED <<wireVars, usersVars, historyVars, threadVars>>
     \/ /\ m = "Machine"
        /\ restarting' = [restarting EXCEPT ![k] = @ \ {m}]
        /\ UNCHANGED <<wireVars, usersVars, historyVars, threadVars, shutdown_requested>>
     \/ Die

-----------------------------------------------------------------------------

Handler(k) ==
  \/ Refuse(k) \/ RunOther(k) \/ HandlerThrows(k) \/ RunLogout(k) \/ RunRestart(k)
  \/ GetUser(k) \/ CheckPassword(k)

SessionStep(k) ==
  \/ ReadWelcome(k) \/ ReadVersion(k) \/ TestLoop(k) \/ ReadRequest(k) \/ ReadEnd(k)
  \/ EndSession(k) \/ Handler(k)

ServerStep(k) == Accept(k) \/ SessionStep(k) \/ \E m \in RestartModes : RestartFires(k, m)

\* Threads are scheduled, reads return when data or an end of stream is there, and the
\* sleeps of a wrong login and of a restart are finite.
ServerFairness ==
  \A k \in Conns :
    /\ WF_<<wireVars, serverVars>>(Accept(k))
    /\ WF_<<wireVars, serverVars>>(SessionStep(k))
    /\ \A m \in RestartModes : WF_<<wireVars, serverVars>>(RestartFires(k, m))
=============================================================================

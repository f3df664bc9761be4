------------------------- MODULE ServerSessionProofs -------------------------
(***************************************************************************)
(* Facts about the frames, the connections and the sessions of the server, *)
(* whatever is at the other end of the connections: the modules that prove *)
(* something of the server with its clients rest on them.                  *)
(***************************************************************************)
EXTENDS ServerSession, TLAPS

\* Frames have the fields their kind announces.
LEMMA ToServerFrameFields ==
  ASSUME NEW f \in ToServerFrames
  PROVE  /\ f.kind = "Version" => f.version \in Nat
         /\ f.kind = "Request" => f.request \in Requests
BY DEF ToServerFrames

LEMMA ToClientFrameFields ==
  ASSUME NEW f \in ToClientFrames, f.kind = "Response"
  PROVE  f.for \in Requests
BY DEF ToClientFrames

LEMMA RequestConstants ==
  /\ NoRequest \in Requests
  /\ RequestIds # {}
BY DEF NoRequest, Requests, RequestIds, HandledRequests, LoggedRequests, RestartModes

LEMMA AnswersAreFrames ==
  ASSUME NEW r \in Requests, NEW code \in ResponseCodes, NEW role \in Roles
  PROVE  Answers(r, code, role) \in ToClientFrames
BY DEF Answers, ToClientFrames

LEMMA RefusalIsCode ==
  ASSUME NEW k
  PROVE  Refusal(k) \in ResponseCodes
BY DEF Refusal, RequirementError, ResponseCodes

LEMMA RolesOfAccounts ==
  ASSUME NEW u \in Accounts
  PROVE  RoleOf(u) \in Roles
BY AccountsAssumption DEF RoleOf, Roles

-----------------------------------------------------------------------------
(* The queues keep their types.                                            *)

LEMMA ServerSendsType ==
  ASSUME WireTypeOK, NEW k \in Conns, NEW f \in ToClientFrames, ServerSends(k, f)
  PROVE  toClient' \in [Conns -> Seq(ToClientFrames)]
BY DEF WireTypeOK, ServerSends

LEMMA ServerTakesType ==
  ASSUME WireTypeOK, NEW k \in Conns, toServer[k] # <<>>, ServerTakes(k)
  PROVE  /\ toServer' \in [Conns -> Seq(ToServerFrames)]
         /\ Head(toServer[k]) \in ToServerFrames
BY DEF WireTypeOK, ServerTakes

LEMMA ServerClosesType ==
  ASSUME WireTypeOK, NEW k \in Conns, ServerCloses(k)
  PROVE  /\ toServer' \in [Conns -> Seq(ToServerFrames)]
         /\ toClient' \in [Conns -> Seq(ToClientFrames)]
         /\ serverEnd' \in [Conns -> EndStates]
<1>1. toServer' \in [Conns -> Seq(ToServerFrames)]
  BY DEF WireTypeOK, ServerCloses
<1>2. toClient' \in [Conns -> Seq(ToClientFrames)]
  <2>1. CASE toClient' = toClient
    BY <2>1 DEF WireTypeOK
  <2>2. CASE toClient' = [toClient EXCEPT ![k] = <<>>]
    BY <2>2 DEF WireTypeOK
  <2> QED BY <2>1, <2>2 DEF ServerCloses
<1>3. serverEnd' \in [Conns -> EndStates]
  BY DEF WireTypeOK, ServerCloses, EndStates
<1> QED BY <1>1, <1>2, <1>3

LEMMA ServerDiesType ==
  ASSUME WireTypeOK, ServerDies
  PROVE  WireTypeOK'
<1>1. toServer' \in [Conns -> Seq(ToServerFrames)]
  BY DEF WireTypeOK, ServerDies
<1>2. toClient' \in [Conns -> Seq(ToClientFrames)]
  <2>1. PICK lost \in SUBSET {k \in Conns : toServer[k] # <<>>} :
          toClient' = [k \in Conns |-> IF k \in lost THEN <<>> ELSE toClient[k]]
    BY DEF ServerDies
  <2> QED BY <2>1 DEF WireTypeOK
<1>3. serverEnd' \in [Conns -> EndStates]
  BY DEF WireTypeOK, ServerDies, EndStates
<1> QED BY <1>1, <1>2, <1>3 DEF WireTypeOK, ServerDies

LEMMA ClientSendsType ==
  ASSUME WireTypeOK, NEW k \in Conns, NEW f \in ToServerFrames, ClientSends(k, f)
  PROVE  toServer' \in [Conns -> Seq(ToServerFrames)]
BY DEF WireTypeOK, ClientSends

LEMMA ClientClosesType ==
  ASSUME WireTypeOK, NEW k \in Conns, ClientCloses(k, toServer, toClient[k])
  PROVE  /\ toServer' \in [Conns -> Seq(ToServerFrames)]
         /\ toClient' \in [Conns -> Seq(ToClientFrames)]
         /\ clientEnd' \in [Conns -> EndStates]
<1>1. toServer' \in [Conns -> Seq(ToServerFrames)]
  <2>1. CASE toServer' = toServer
    BY <2>1 DEF WireTypeOK
  <2>2. CASE toServer' = [toServer EXCEPT ![k] = <<>>]
    BY <2>2 DEF WireTypeOK
  <2> QED BY <2>1, <2>2 DEF ClientCloses
<1>2. toClient' \in [Conns -> Seq(ToClientFrames)]
  BY DEF WireTypeOK, ClientCloses
<1>3. clientEnd' \in [Conns -> EndStates]
  BY DEF WireTypeOK, ClientCloses, EndStates
<1> QED BY <1>1, <1>2, <1>3

LEMMA ClientOpensType ==
  ASSUME WireTypeOK, NEW k \in Conns, ClientOpens(k)
  PROVE  /\ toServer' \in [Conns -> Seq(ToServerFrames)]
         /\ clientEnd' \in [Conns -> EndStates]
         /\ serverEnd' \in [Conns -> EndStates]
<1>1. Welcome \in ToServerFrames
  BY DEF Welcome, ToServerFrames
<1> QED BY <1>1 DEF WireTypeOK, ClientOpens, EndStates

-----------------------------------------------------------------------------
(* Types.  A password is only checked for an account that exists: without  *)
(* this the session's user would not be one.                               *)

Checking(k) == job[k].id = "Login" /\ job[k].name \in Accounts
CheckingLogins == \A k \in Conns : pc[k] = "check" => Checking(k)


USE DEF Goto

LEMMA DestroyedType ==
  ASSUME ServerTypeOK, CheckingLogins, NEW S \in SUBSET Conns, Destroyed(S),
         UNCHANGED <<usersVars, shutdown_requested>>,
         restarting' \in [Conns -> SUBSET RestartModes]
  PROVE  ServerTypeOK' /\ CheckingLogins'
<1>1. ServerTypeOK'
  BY RequestConstants DEF ServerTypeOK, Destroyed, usersVars, UsersTypeOK, Phases
<1>2. CheckingLogins'
  BY DEF CheckingLogins, Checking, Destroyed
<1> QED BY <1>1, <1>2

\* Connecting, reading and ending.
LEMMA SessionKeepsTypes ==
  ASSUME WireTypeOK, ServerTypeOK, CheckingLogins, NEW k \in Conns,
         Accept(k) \/ ReadWelcome(k) \/ ReadVersion(k) \/ TestLoop(k) \/ ReadRequest(k)
           \/ ReadEnd(k) \/ EndSession(k)
  PROVE  WireTypeOK' /\ ServerTypeOK' /\ CheckingLogins'
<1> USE DEF ServerTypeOK, UsersTypeOK, CheckingLogins, Checking, usersVars, historyVars, Phases
<1>1. CASE Accept(k)
  BY <1>1 DEF Accept, wireVars, WireTypeOK
<1>2. CASE ReadWelcome(k)
  <2>1. WelcomeReply(TRUE) \in ToClientFrames /\ WelcomeReply(FALSE) \in ToClientFrames
    BY DEF WelcomeReply, ToClientFrames
  <2>2. toClient' \in [Conns -> Seq(ToClientFrames)]
    BY <1>2, <2>1, ServerSendsType DEF ReadWelcome, WireTypeOK
  <2>3. toServer' \in [Conns -> Seq(ToServerFrames)]
    BY <1>2, ServerTakesType DEF ReadWelcome, WireTypeOK
  <2>4. WireTypeOK'
    BY <1>2, <2>2, <2>3 DEF ReadWelcome, WireTypeOK
  <2>5. ServerTypeOK' /\ CheckingLogins'
    BY <1>2 DEF ReadWelcome
  <2> QED BY <2>4, <2>5
<1>3. CASE ReadVersion(k)
  <2>1. ServerVersions \in ToClientFrames
    BY DEF ServerVersions, ToClientFrames
  <2>2. WireTypeOK' /\ version' \in [Conns -> Nat]
    <3>1. CASE ServerSees(k, "Version") /\ ServerTakes(k) /\ ServerSends(k, ServerVersions)
                 /\ version' = [version EXCEPT ![k] = Head(toServer[k]).version]
      <4>1. Head(toServer[k]).version \in Nat
        BY <3>1, ServerTakesType, ToServerFrameFields DEF ServerSees
      <4>2. WireTypeOK'
        BY <1>3, <3>1, <2>1, ServerTakesType, ServerSendsType DEF ReadVersion, ServerSees, WireTypeOK
      <4> QED BY <3>1, <4>1, <4>2
    <3>2. CASE toServer' = [toServer EXCEPT ![k] = <<>>] /\ UNCHANGED <<toClient, version>>
      BY <1>3, <3>2 DEF ReadVersion, WireTypeOK
    <3> QED BY <1>3, <3>1, <3>2 DEF ReadVersion
  <2>3. ServerTypeOK' /\ CheckingLogins'
    BY <1>3, <2>2 DEF ReadVersion
  <2> QED BY <2>2, <2>3
<1>4. CASE TestLoop(k)
  BY <1>4 DEF TestLoop, wireVars, WireTypeOK
<1>5. CASE ReadRequest(k)
  <2> DEFINE r == Head(toServer[k]).request
  <2>1. toServer' \in [Conns -> Seq(ToServerFrames)] /\ r \in Requests
    BY <1>5, ServerTakesType, ToServerFrameFields DEF ReadRequest, ServerSees
  <2>2. Answers(r, "UnknownRequest", RoleNone) \in ToClientFrames
    BY <2>1, AnswersAreFrames DEF ResponseCodes, Roles
  <2>3. toClient' \in [Conns -> Seq(ToClientFrames)]
    BY <1>5, <2>2, ServerSendsType DEF ReadRequest, WireTypeOK
  <2>4. WireTypeOK'
    BY <1>5, <2>1, <2>3 DEF ReadRequest, WireTypeOK
  <2>5. /\ job' = job \/ job' = [job EXCEPT ![k] = r]
        /\ pc' = [pc EXCEPT ![k] = "loop"] \/ pc' = [pc EXCEPT ![k] = "run"]
        /\ is_connected' = is_connected \/ is_connected' = [is_connected EXCEPT ![k] = FALSE]
        /\ late' = late \/ late' = [late EXCEPT ![k] = IF shutdown_requested THEN @ + 1 ELSE @]
        /\ unanswered' = unanswered \/ unanswered' = [unanswered EXCEPT ![k] = TRUE]
        /\ UNCHANGED <<usersVars, is_logged, user, version, copy, shutdown_requested, restarting,
                       stale, bornLate, accepted>>
    BY <1>5 DEF ReadRequest
  <2> HIDE DEF r
  <2>6. pc' \in [Conns -> Phases]
    BY <2>5
  <2>7. job' \in [Conns -> Requests]
    BY <2>1, <2>5
  <2>8. ServerTypeOK'
    <3>1. is_connected' \in [Conns -> BOOLEAN]
      BY <2>5
    <3>2. late' \in [Conns -> Nat]
      BY <2>5
    <3> QED BY <2>5, <2>6, <2>7, <3>1, <3>2
  <2>9. CheckingLogins'
    <3> SUFFICES ASSUME NEW j \in Conns, pc'[j] = "check" PROVE Checking(j)'
      BY DEF CheckingLogins
    <3>1. j # k /\ pc[j] = "check"
      BY <2>5
    <3> QED BY <2>5, <3>1
  <2> QED BY <2>4, <2>8, <2>9
<1>6. CASE ReadEnd(k)
  BY <1>6 DEF ReadEnd, wireVars, WireTypeOK
<1>7. CASE EndSession(k)
  <2>1. WireTypeOK'
    BY <1>7, ServerClosesType DEF EndSession, WireTypeOK
  <2>2. ServerTypeOK' /\ CheckingLogins'
    BY <1>7, DestroyedType, {k} \in SUBSET Conns DEF EndSession
  <2> QED BY <2>1, <2>2
<1> QED BY <1>1, <1>2, <1>3, <1>4, <1>5, <1>6, <1>7

\* A response leaves the queues typed and no password check behind.
LEMMA RespondType ==
  ASSUME WireTypeOK, ServerTypeOK, CheckingLogins, NEW k \in Conns, NEW from,
         NEW code \in ResponseCodes, NEW role \in Roles, Respond(k, from, code, role)
  PROVE  /\ toClient' \in [Conns -> Seq(ToClientFrames)]
         /\ pc' \in [Conns -> Phases]
         /\ job' \in [Conns -> Requests]
         /\ CheckingLogins'
<1>1. Answers(job[k], code, role) \in ToClientFrames
  BY AnswersAreFrames DEF ServerTypeOK
<1>2. toClient' \in [Conns -> Seq(ToClientFrames)]
  BY <1>1, ServerSendsType DEF Respond
<1>3. pc' = [pc EXCEPT ![k] = "loop"] /\ job' = [job EXCEPT ![k] = NoRequest]
  BY DEF Respond, HandlerDone
<1>4. pc' \in [Conns -> Phases] /\ job' \in [Conns -> Requests]
  BY <1>3, RequestConstants DEF ServerTypeOK, Phases
<1>5. CheckingLogins'
  <2> SUFFICES ASSUME NEW j \in Conns, pc'[j] = "check" PROVE Checking(j)'
    BY DEF CheckingLogins
  <2>1. j # k /\ pc[j] = "check"
    BY <1>3 DEF ServerTypeOK
  <2> QED BY <1>3, <2>1 DEF CheckingLogins, Checking, ServerTypeOK
<1> QED BY <1>2, <1>4, <1>5

\* Every handler but the two halves of a login.
LEMMA HandlerKeepsTypes ==
  ASSUME WireTypeOK, ServerTypeOK, CheckingLogins, NEW k \in Conns,
         Refuse(k) \/ RunOther(k) \/ HandlerThrows(k) \/ RunLogout(k) \/ RunRestart(k)
  PROVE  WireTypeOK' /\ ServerTypeOK' /\ CheckingLogins'
<1> USE DEF usersVars, historyVars
<1>0. /\ {"Ok", "IOError", "InvalidRequestData", "UnknownRestartMode"} \subseteq ResponseCodes
      /\ RoleNone \in Roles
  BY DEF ResponseCodes, Roles
<1>1. CASE Refuse(k)
  <2>1. Respond(k, "run", Refusal(k), RoleNone)
    BY <1>1 DEF Refuse
  <2> QED BY <1>0, <1>1, <2>1, RespondType, RefusalIsCode
          DEF Refuse, WireTypeOK, ServerTypeOK, UsersTypeOK
<1>2. CASE RunOther(k)
  <2>1. \/ Respond(k, "run", "Ok", RoleNone) \/ Respond(k, "run", "IOError", RoleNone)
        \/ Respond(k, "run", "InvalidRequestData", RoleNone)
    BY <1>2 DEF RunOther
  <2>2. /\ toClient' \in [Conns -> Seq(ToClientFrames)] /\ pc' \in [Conns -> Phases]
        /\ job' \in [Conns -> Requests] /\ CheckingLogins'
    BY <1>0, <2>1, RespondType
  <2> QED BY <1>2, <2>2 DEF RunOther, WireTypeOK, ServerTypeOK, UsersTypeOK
<1>3. CASE HandlerThrows(k)
  <2>1. pc' = [pc EXCEPT ![k] = "loop"] /\ job' = [job EXCEPT ![k] = NoRequest]
    BY <1>3 DEF HandlerThrows, HandlerDone
  <2>2. WireTypeOK'
    BY <1>3 DEF HandlerThrows, wireVars, WireTypeOK
  <2>3. ServerTypeOK'
    BY <1>3, <2>1, RequestConstants DEF HandlerThrows, ServerTypeOK, UsersTypeOK, Phases
  <2>4. CheckingLogins'
    BY <2>1 DEF ServerTypeOK, CheckingLogins, Checking
  <2> QED BY <2>2, <2>3, <2>4
<1>4. CASE RunLogout(k)
  <2>1. /\ toClient' \in [Conns -> Seq(ToClientFrames)] /\ pc' \in [Conns -> Phases]
        /\ job' \in [Conns -> Requests] /\ CheckingLogins'
    BY <1>0, <1>4, RespondType DEF RunLogout
  <2> QED BY <1>4, <2>1 DEF RunLogout, WireTypeOK, ServerTypeOK, UsersTypeOK
<1>5. CASE RunRestart(k)
  <2>1. /\ toClient' \in [Conns -> Seq(ToClientFrames)] /\ pc' \in [Conns -> Phases]
        /\ job' \in [Conns -> Requests] /\ CheckingLogins'
    BY <1>0, <1>5, RespondType DEF RunRestart
  <2>3. restarting' \in [Conns -> SUBSET RestartModes]
    <3>1. \/ UNCHANGED restarting
          \/ /\ job[k].mode \in RestartModes
             /\ restarting' = [restarting EXCEPT ![k] = @ \cup {job[k].mode}]
      BY <1>5 DEF RunRestart
    <3> QED BY <3>1 DEF ServerTypeOK
  <2> QED BY <1>5, <2>1, <2>3 DEF RunRestart, WireTypeOK, ServerTypeOK, UsersTypeOK
<1> QED BY <1>1, <1>2, <1>3, <1>4, <1>5

\* The first half of a login leaves a copy behind, the second a user.
LEMMA LoginKeepsTypes ==
  ASSUME WireTypeOK, ServerTypeOK, CheckingLogins, NEW k \in Conns,
         GetUser(k) \/ CheckPassword(k)
  PROVE  WireTypeOK' /\ ServerTypeOK' /\ CheckingLogins'
<1> USE DEF usersVars, historyVars
<1>0. /\ {"Ok", "UserNotExists", "InvalidPassword", "InvalidRequestData"} \subseteq ResponseCodes
      /\ RoleNone \in Roles
  BY DEF ResponseCodes, Roles
<1>1. CASE GetUser(k)
  <2>1. CASE Malformed(k) \/ ~Exists(job[k].name)
    <3>1. \E code \in {"UserNotExists", "InvalidRequestData"} :
            Respond(k, "run", code, RoleNone) /\ BecomeUser(k, NoUser, code) /\ UNCHANGED <<copy, stale>>
      BY <1>1, <2>1 DEF GetUser
    <3>2. /\ toClient' \in [Conns -> Seq(ToClientFrames)] /\ pc' \in [Conns -> Phases]
          /\ job' \in [Conns -> Requests] /\ CheckingLogins'
      BY <1>0, <3>1, RespondType
    <3> QED BY <1>1, <3>1, <3>2 DEF GetUser, BecomeUser, WireTypeOK, ServerTypeOK, UsersTypeOK
  <2>2. CASE ~Malformed(k) /\ Exists(job[k].name)
    <3>1. /\ pc' = [pc EXCEPT ![k] = "check"]
          /\ copy' = [copy EXCEPT ![k] = wrong_password_count[job[k].name]]
          /\ stale' = [stale EXCEPT ![k] = FALSE]
          /\ UNCHANGED <<toClient, user, is_logged, accepted, job>>
      BY <1>1, <2>2 DEF GetUser
    <3>2. job[k].name \in Accounts /\ job[k].id = "Login"
      BY <1>1, <2>2 DEF GetUser, Exists, Runs
    <3>3. wrong_password_count[job[k].name] \in Nat
      BY <3>2 DEF ServerTypeOK, UsersTypeOK
    <3>4. CheckingLogins'
      BY <3>1, <3>2 DEF CheckingLogins, Checking, ServerTypeOK
    <3>5. pc' \in [Conns -> Phases] /\ copy' \in [Conns -> Nat] /\ stale' \in [Conns -> BOOLEAN]
      BY <3>1, <3>3 DEF ServerTypeOK, Phases
    <3> QED BY <1>1, <3>1, <3>4, <3>5 DEF GetUser, WireTypeOK, ServerTypeOK, UsersTypeOK
  <2> QED BY <2>1, <2>2
<1>2. CASE CheckPassword(k)
  <2> DEFINE u    == job[k].name
             code == IF job[k].right THEN "Ok" ELSE "InvalidPassword"
  <2>1. pc[k] = "check" /\ Respond(k, "check", code, RoleOf(u)) /\ BecomeUser(k, u, code)
    BY <1>2 DEF CheckPassword, Respond, HandlerDone
  <2>2. u \in Accounts
    BY <2>1 DEF CheckingLogins, Checking
  <2>3. /\ toClient' \in [Conns -> Seq(ToClientFrames)] /\ pc' \in [Conns -> Phases]
        /\ job' \in [Conns -> Requests] /\ CheckingLogins'
    <3>1. code \in ResponseCodes /\ RoleOf(u) \in Roles
      BY <1>0, <2>2, RolesOfAccounts
    <3> HIDE DEF code, u
    <3> QED BY <2>1, <3>1, RespondType
  <2>4. UsersTypeOK'
    <3>1. CASE RecordRight(u, stale[k])
      BY <3>1 DEF RecordRight, SetCount, ServerTypeOK, UsersTypeOK
    <3>2. CASE RecordWrong(u, copy[k], stale[k])
      BY <2>2, <3>2 DEF RecordWrong, SetCount, ServerTypeOK, UsersTypeOK
    <3> QED BY <1>2, <3>1, <3>2 DEF CheckPassword
  <2>5. /\ user' \in [Conns -> Accounts \cup {NoUser}] /\ is_logged' \in [Conns -> BOOLEAN]
        /\ accepted' \in [Conns -> BOOLEAN]
    BY <2>1, <2>2 DEF BecomeUser, ServerTypeOK
  <2>6. copy' \in [Conns -> Nat] /\ stale' \in [Conns -> BOOLEAN]
    BY <1>2 DEF CheckPassword, ServerTypeOK
  <2> HIDE DEF u, code
  <2> QED BY <1>2, <2>3, <2>4, <2>5, <2>6 DEF CheckPassword, WireTypeOK, ServerTypeOK
<1> QED BY <1>1, <1>2

LEMMA RestartKeepsTypes ==
  ASSUME WireTypeOK, ServerTypeOK, CheckingLogins, NEW k \in Conns, NEW m \in RestartModes,
         RestartFires(k, m)
  PROVE  WireTypeOK' /\ ServerTypeOK' /\ CheckingLogins'
<1>1. CASE Die
  <2>1. WireTypeOK'
    BY <1>1, ServerDiesType DEF Die
  <2>2. restarting' \in [Conns -> SUBSET RestartModes]
    BY <1>1 DEF Die
  <2>3. {j \in Conns : serverEnd[j] = "open"} \in SUBSET Conns
    OBVIOUS
  <2>4. ServerTypeOK' /\ CheckingLogins'
    BY <1>1, <2>2, <2>3, DestroyedType DEF Die
  <2> QED BY <2>1, <2>4
<1>2. CASE ~Die
  <2>1. /\ restarting' = [restarting EXCEPT ![k] = @ \ {m}]
        /\ shutdown_requested' \in BOOLEAN
        /\ UNCHANGED <<wireVars, usersVars, historyVars, threadVars>>
    BY <1>2 DEF RestartFires, ServerTypeOK
  <2>2. restarting' \in [Conns -> SUBSET RestartModes]
    BY <2>1 DEF ServerTypeOK
  <2> QED
    BY <2>1, <2>2 DEF wireVars, usersVars, historyVars, threadVars, WireTypeOK, ServerTypeOK,
                      UsersTypeOK, CheckingLogins, Checking
<1> QED BY <1>1, <1>2
=============================================================================

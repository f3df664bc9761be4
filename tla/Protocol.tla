------------------------------ MODULE Protocol ------------------------------
(***************************************************************************)
(* What the two programs agree on before any byte is exchanged: roles,     *)
(* request identifiers, the requirements of every request handler, the     *)
(* response codes and the frames that travel on a connection.              *)
(*                                                                         *)
(* A user name, a password or a path is never spelled out: an account is   *)
(* an element of Accounts, a name nobody has is an element of Names that   *)
(* is not in Accounts, a password is right or wrong.                       *)
(***************************************************************************)
EXTENDS Naturals

CONSTANTS
  Names,        \* the user names clients may type
  Accounts,     \* the names UsersManager knows
  AccountRole,  \* the role stored in each account's UIF file
  NoUser,       \* the default-constructed User of either program
  MinVersion    \* requirements.min_version, the same (1.0.0) for every handler

RoleUser      == 0
RoleAdmin     == 1
RoleDeveloper == 2
RoleNone      == 255

ASSUME AccountsAssumption ==
  /\ Accounts \subseteq Names
  /\ NoUser \notin Names
  /\ AccountRole \in [Accounts -> {RoleUser, RoleAdmin, RoleDeveloper}]
  /\ MinVersion \in Nat

\* User::role; a default-constructed User has Role::None.
RoleOf(u) == IF u = NoUser THEN RoleNone ELSE AccountRole[u]

-----------------------------------------------------------------------------
(* Requests and the requirements their handlers declare.                   *)

LoggedRequests ==
  { "Logout", "RunSyscmd", "ServerRestart",
    "IOFileExists", "IOGetDirContent", "IOGetFileType", "IOGetFileSize",
    "IOGetRealPath", "IOSetFileName", "IOCreateFile", "IOCreateDirectory", "IODeleteFile" }

\* The keys of handler_map, without IOGetFileContent and IOSetFileContent: their responses
\* are followed by frames of data, which are the business of Transfer.
HandledRequests == LoggedRequests \cup { "GetVersion", "Login", "IOMoveFile", "IOCopyFile" }

\* "Unknown" stands for every identifier that is neither in handler_map nor Quit, "Empty" for
\* a frame without content, which has no identifier.
RequestIds == HandledRequests \cup { "Quit", "Unknown", "Empty" }

MinRole(id) ==
  IF id \in { "RunSyscmd", "ServerRestart" } THEN RoleDeveloper ELSE RoleUser

RestartModes == { "Program", "Machine" }

\* The data of a request the properties tell apart: Login names a user and carries a right
\* or wrong password, ServerRestart carries a mode; of any request the data may be cut, so
\* that its handler cannot read it.
Requests == [id : RequestIds, name : Names \cup {NoUser}, right : BOOLEAN,
             mode : RestartModes \cup {"Other"}, cut : BOOLEAN]

\* What a handler that does not exist is handling.
NoRequest ==
  [id |-> "Unknown", name |-> NoUser, right |-> FALSE, mode |-> "Program", cut |-> FALSE]

Plain(id)         == [NoRequest EXCEPT !.id = id]
LoginAs(u, right) == [NoRequest EXCEPT !.id = "Login", !.name = u, !.right = right]
Restart(m)        == [NoRequest EXCEPT !.id = "ServerRestart", !.mode = m]
Cut(id)           == [NoRequest EXCEPT !.id = id, !.cut = TRUE]

\* "IOError" stands for the error codes the file operations answer with; "Ok" is
\* ResponseType::Ok.
ResponseCodes ==
  { "Ok", "VersionTooOld", "InvalidRequestData", "UnknownRequest", "NotLogged",
    "InvalidPermissions", "InvalidPassword", "UserNotExists", "UnknownRestartMode", "IOError" }

\* RH::checkVersion && RH::checkMustBeLogged && RH::checkMinRole, in that order:
\* the response code they leave behind.
RequirementError(id, version, logged, u) ==
  IF version < MinVersion THEN "VersionTooOld"
  ELSE IF id \in LoggedRequests /\ ~logged THEN "NotLogged"
  ELSE IF RoleOf(u) < MinRole(id) THEN "InvalidPermissions"
  ELSE "Ok"

-----------------------------------------------------------------------------
(* Frames.  A frame is one complete send of either side; the field "for"   *)
(* of a response is not on the wire: it names the request being answered.  *)

Welcome      == [kind |-> "Welcome"]
VersionIs(v) == [kind |-> "Version", version |-> v]
Asks(r)      == [kind |-> "Request", request |-> r]
ToServerFrames ==
  [kind : {"Welcome"}] \cup [kind : {"Version"}, version : Nat]
    \cup [kind : {"Request"}, request : Requests]

WelcomeReply(ok)         == [kind |-> "Welcome", ok |-> ok]
ServerVersions           == [kind |-> "Version"]
Answers(r, code, role)   == [kind |-> "Response", for |-> r, code |-> code, role |-> role]
Roles == { RoleUser, RoleAdmin, RoleDeveloper, RoleNone }
ToClientFrames ==
  [kind : {"Welcome"}, ok : BOOLEAN] \cup [kind : {"Version"}]
    \cup [kind : {"Response"}, for : Requests, code : ResponseCodes, role : Roles]
=============================================================================

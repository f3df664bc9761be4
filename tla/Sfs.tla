-------------------------------- MODULE Sfs --------------------------------
(***************************************************************************)
(* The server's secured file system (SFS) and the requests that change the *)
(* tree of files: create, delete, rename, move, copy, and the two requests *)
(* of chdir.  Every session is logged in; a handler checks the paths of    *)
(* its request and then works on the tree, with the handlers of other      *)
(* sessions in between.                                                    *)
(*                                                                         *)
(* An absolute path is a sequence of names from the root of the drive; a   *)
(* path that a client sends is relative to what its role may see, and may  *)
(* contain "..".  The operations of the operating system are atomic, and   *)
(* fail either for a reason the tree shows or for one it does not.         *)
(***************************************************************************)
EXTENDS Naturals, Sequences, SequencesExt, Functions

CONSTANTS
  Names,         \* what files and directories may be called, and ".."
  Sessions,
  Role,          \* the role of the user of each session
  PersoName,     \* "perso." + user.name
  Drive,         \* the tree when the server starts
  Args,          \* what the user of each session types for a path
  NewNames,      \* what users type for a new name; a slash makes two names of it
  MaxDepth,      \* bound on the depth of the tree
  MaxRequests    \* bound on the requests of each session

\* Directories, empty files and files that hold data.
Dir == "dir"
Empty == "empty"
Data == "data"
Kinds == {Dir, Empty, Data}

\* Every entry but the root lies in a directory.
Rooted(t) ==
  /\ <<>> \in DOMAIN t /\ t[<<>>] = Dir
  /\ \A p \in DOMAIN t \ {<<>>} : Front(p) \in DOMAIN t /\ t[Front(p)] = Dir

ASSUME SfsAssumption ==
  /\ {"strg", "users", "network", "shared"} \subseteq Names
  /\ Role \in [Sessions -> {"User", "Admin"}] /\ PersoName \in [Sessions -> Names]
  /\ Rooted(Drive)
  /\ \A p \in DOMAIN Drive :
       p \in Seq(Names \ {".."}) /\ Len(p) <= MaxDepth /\ Drive[p] \in Kinds
  /\ \A s \in Sessions : \A a \in Args[s] \cup NewNames : a \in Seq(Names) \ {<<>>}
  /\ MaxDepth \in Nat /\ MaxRequests \in [Sessions -> Nat]

\* dirs::strg and what setStorage derives from it.
Strg == <<"strg">>
SUsers == Strg \o <<"users">>
SNetwork == Strg \o <<"network">>
SShared == SNetwork \o <<"shared">>
Perso(s) == SNetwork \o <<PersoName[s]>>

-----------------------------------------------------------------------------
(* Paths.                                                                  *)

\* lexically_normal; the root is its own parent.
Normal(p) ==
  FoldLeft(LAMBDA q, n : IF n = ".." THEN SubSeq(q, 1, Len(q) - 1) ELSE Append(q, n),
           <<>>, p)

\* SFS::absoluteFromUserScope: what the paths of a user start from.
Scope(s) == IF Role[s] = "User" THEN SNetwork ELSE Strg
Absolute(s, p) == Scope(s) \o p

\* MUTANT: relative to the storage directory, whatever the role.
RelativeToStorage(s, p) == SubSeq(p, Len(Strg) + 1, Len(p))

\* SFS::relativeToUserScope of a normal path inside the scope.
Relative(s, p) == SubSeq(p, Len(Scope(s)) + 1, Len(p))

\* MUTANT: the path is compared as it was sent.
IsInAsSent(p, d) == IsPrefix(d, p)

\* SFS::isInDirectory; without links, the real path is the normal one.
IsIn(p, d) == IsPrefix(d, Normal(p))

\* SFS::isValidName, of names that stand for a separator, a reserved word and others.
IsValidName(n) == Len(n) = 1 /\ n[1] \notin {"con", ".."}

-----------------------------------------------------------------------------

VARIABLES
  tree,      \* the files of the server: a function from normal absolute paths
  cwd,       \* current_dir of the client's user
  at,        \* where the handler of the session is
  req,       \* the request in hand: what, from where, to where
  answer,    \* the last answer of each session
  touched,   \* history: the last request has changed the tree
  stale,     \* history: another session has changed the tree since the checks
  asked      \* requests made so far

vars == <<tree, cwd, at, req, answer, touched, stale, asked>>

Operations == {"mkfile", "mkdir", "delete", "rename", "move", "copy", "chdir"}
NoRequest == [op |-> "none", path |-> <<>>, target |-> <<>>, valid |-> TRUE]

Answers == {"Ok", "InvalidPermissions", "IOFileNotExists", "IOFileAlreadyExists",
            "IOInvalidFileName", "IORenameError", "IOMoveError", "IOCopyError",
            "IOCreateDirError", "IOCreateFileError", "IODeleteError", "NotDirectory"}

IsEntry(p) == Normal(p) \in DOMAIN tree
IsDir(p) == IsEntry(p) /\ tree[Normal(p)] = Dir
Under(p) == {q \in DOMAIN tree : IsPrefix(p, q)}

\* SFS::isUIFFile: the ".uif" of a directory of the users.  (No directory is called so.)
IsUIFFile(p) ==
  /\ p # <<>> /\ Last(p) = ".uif"
  /\ IsIn(Front(p), SUsers) /\ Front(p) # SUsers /\ IsDir(Front(p))

\* MUTANT: the files of the users are storage like any other.
CanAccessStorage(s, p) ==
  IF Role[s] = "User"
    THEN Normal(p) = SNetwork \/ IsIn(p, Perso(s)) \/ IsIn(p, SShared)
    ELSE IsIn(p, Strg)

\* SFS::canLexicallyAccess
CanAccess(s, p) ==
  IF Role[s] = "User"
    THEN Normal(p) = SNetwork \/ IsIn(p, Perso(s)) \/ IsIn(p, SShared)
    ELSE IsIn(p, Strg) /\ ~IsUIFFile(Normal(p))

\* SFS::exists
Exists(s, p) == IsEntry(p) /\ CanAccess(s, p)

\* MUTANT: what already exists is not looked for.
CheckAlreadyExistNot(s, p) == IF CanAccess(s, p) THEN "Ok" ELSE "InvalidPermissions"

\* SFS::checkPathAlreadyExist, as the answer it leads to.
CheckAlreadyExist(s, p) ==
  IF ~CanAccess(s, p) THEN "InvalidPermissions"
  ELSE IF IsEntry(p) THEN "IOFileAlreadyExists"
  ELSE "Ok"

\* SFS::checkPathNotExist: a path out of reach does not exist.
CheckNotExist(s, p) == IF Exists(s, p) THEN "Ok" ELSE "IOFileNotExists"

-----------------------------------------------------------------------------
(* The operating system.                                                   *)

Ancestors(p) == {SubSeq(p, 1, n) : n \in 0..Len(p)}

\* What f holds, and beside it what g holds.
Over(f, g) == [p \in DOMAIN f \cup DOMAIN g |-> IF p \in DOMAIN f THEN f[p] ELSE g[p]]

\* create_directories: what is missing of d and of the directories above it.
CanMakeDirs(d) == \A p \in Ancestors(d) \cap DOMAIN tree : tree[p] = Dir
MakeDirs(d) == Over(tree, [p \in Ancestors(d) |-> Dir])

\* fs::rename and fs::copy: the entries under "from" as entries under "to".
Grafted(from, to) ==
  [q \in {to \o SubSeq(p, Len(from) + 1, Len(p)) : p \in Under(from)} |->
     tree[from \o SubSeq(q, Len(to) + 1, Len(q))]]

\* A file may replace a file; a directory replaces nothing and does not go into itself.
CanRename(from, to) ==
  /\ from \in DOMAIN tree \ {<<>>} /\ to # <<>> /\ IsDir(Front(to))
  /\ to \in DOMAIN tree => to = from \/ (tree[from] # Dir /\ tree[to] # Dir)
  /\ ~IsStrictPrefix(from, to)
Renamed(from, to) == Over(Grafted(from, to), Restrict(tree, DOMAIN tree \ Under(from)))

\* Copying a file onto a directory puts it there; directories are merged.
CopyPlace(from, to) ==
  IF from # <<>> /\ tree[from] # Dir /\ IsDir(to) THEN Append(to, Last(from)) ELSE to
CanCopy(from, to) ==
  LET new == Grafted(from, CopyPlace(from, to)) IN
  /\ from # CopyPlace(from, to) /\ to # <<>> /\ IsDir(Front(to))
  /\ \A q \in DOMAIN new \cap DOMAIN tree : (new[q] = Dir) <=> (tree[q] = Dir)

Copied(from, to) == Over(Grafted(from, CopyPlace(from, to)), tree)

\* A copy that fails has copied some of the entries.
PartlyCopied(from, to) ==
  {t \in {Over(Restrict(new, done), tree) :
            new \in {Grafted(from, CopyPlace(from, to))},
            done \in SUBSET DOMAIN Grafted(from, CopyPlace(from, to))} :
     Rooted(t) /\ \A q \in DOMAIN tree : (t[q] = Dir) <=> (tree[q] = Dir)}

\* remove_all that fails has removed some of the entries, and not p.
PartlyRemoved(p) ==
  {t \in {Restrict(tree, DOMAIN tree \ gone) : gone \in SUBSET (Under(p) \ {p})} : Rooted(t)}

-----------------------------------------------------------------------------

TypeOK ==
  /\ \A p \in DOMAIN tree : tree[p] \in Kinds /\ Len(p) <= MaxDepth
  /\ Rooted(tree)
  /\ at \in [Sessions -> {"idle", "checked", "placed", "real", "lost"}]
  /\ answer \in [Sessions -> Answers]
  /\ \A s \in Sessions : req[s].op \in Operations \cup {"none"}
  /\ touched \in [Sessions -> BOOLEAN] /\ stale \in [Sessions -> BOOLEAN]
  /\ \A s \in Sessions : asked[s] \in 0..MaxRequests[s]

\* LoginRH of the client puts the user into its personal directory.
Home(s) == IF Role[s] = "User" THEN <<PersoName[s]>> ELSE <<"network", PersoName[s]>>

Init ==
  /\ tree = Drive
  /\ cwd = [s \in Sessions |-> Home(s)]
  /\ at = [s \in Sessions |-> "idle"]
  /\ req = [s \in Sessions |-> NoRequest]
  /\ answer = [s \in Sessions |-> "Ok"]
  /\ touched = [s \in Sessions |-> FALSE]
  /\ stale = [s \in Sessions |-> FALSE]
  /\ asked = [s \in Sessions |-> 0]

\* The handler of s leaves the tree as t.
Write(s, t) ==
  /\ \A p \in DOMAIN t : Len(p) <= MaxDepth
  /\ tree' = t
  /\ touched' = [touched EXCEPT ![s] = @ \/ t # tree]
  /\ stale' = [k \in Sessions |-> stale[k] \/ (k # s /\ t # tree /\ at[k] # "idle")]

\* The handler of s ends with this answer.
Respond(s, code) ==
  /\ at' = [at EXCEPT ![s] = "idle"]
  /\ answer' = [answer EXCEPT ![s] = code]
  /\ UNCHANGED <<cwd, req, asked>>

\* A request whose checks lead to "code": it is refused, or goes on.
Begin(s, r, code, next) ==
  /\ at[s] = "idle" /\ asked[s] < MaxRequests[s]
  /\ asked' = [asked EXCEPT ![s] = @ + 1]
  /\ touched' = [touched EXCEPT ![s] = FALSE]
  /\ stale' = [stale EXCEPT ![s] = FALSE]
  /\ at' = [at EXCEPT ![s] = IF code = "Ok" THEN next ELSE "idle"]
  /\ answer' = [answer EXCEPT ![s] = code]
  /\ req' = [req EXCEPT ![s] = IF code = "Ok" THEN r ELSE NoRequest]
  /\ UNCHANGED <<tree, cwd>>

\* user.current_dir / args[0], as the server understands it.
Typed(s, a) == Absolute(s, cwd[s] \o a)

Request(op, p, t) == [op |-> op, path |-> p, target |-> t, valid |-> TRUE]

In(s, where, op) == at[s] = where /\ req[s].op = op

-----------------------------------------------------------------------------
(* Creating and deleting.                                                  *)

AskCreate(s) == \E a \in Args[s], op \in {"mkfile", "mkdir"} :
  LET p == Typed(s, a) IN
  /\ op = "mkdir" => Last(a) # ".uif"
  /\ Begin(s, Request(op, p, p), CheckAlreadyExist(s, p), "checked")

Created(p) == Over([q \in {p} |-> Empty], MakeDirs(Front(p)))

\* createFile: the error of create_directories is ignored, an existing file is truncated.
CreateFile(s) == LET p == Normal(req[s].path) IN
  /\ In(s, "checked", "mkfile")
  /\ \/ /\ p # <<>> /\ CanMakeDirs(Front(p)) /\ ~IsDir(p)
        /\ Write(s, Created(p))
        /\ Respond(s, "Ok")
     \/ /\ \/ Write(s, tree)
           \/ p # <<>> /\ CanMakeDirs(Front(p)) /\ Write(s, MakeDirs(Front(p)))
        /\ Respond(s, "IOCreateFileError")

\* createDirectory: it is an error if nothing had to be created.
CreateDirectory(s) == LET p == Normal(req[s].path) IN
  /\ In(s, "checked", "mkdir")
  /\ \/ /\ CanMakeDirs(p) /\ p \notin DOMAIN tree
        /\ Write(s, MakeDirs(p))
        /\ Respond(s, "Ok")
     \/ /\ \/ Write(s, tree)
           \/ \E d \in Ancestors(p) \ {p} : CanMakeDirs(d) /\ Write(s, MakeDirs(d))
        /\ Respond(s, "IOCreateDirError")

AskDelete(s) == \E a \in Args[s] :
  LET p == Typed(s, a) IN Begin(s, Request("delete", p, p), CheckNotExist(s, p), "checked")

\* MUTANT: what lies below a directory is forgotten.
RemovedAlone(p) == Restrict(tree, DOMAIN tree \ {p})

\* remove_all of a path that has vanished removes nothing and succeeds.
Removed(p) == Restrict(tree, DOMAIN tree \ Under(p))

DeleteFile(s) == LET p == Normal(req[s].path) IN
  /\ In(s, "checked", "delete") /\ p # <<>>
  /\ \/ Write(s, Removed(p)) /\ Respond(s, "Ok")
     \/ \E t \in PartlyRemoved(p) : Write(s, t) /\ Respond(s, "IODeleteError")

-----------------------------------------------------------------------------
(* Renaming.                                                               *)

\* The new name goes with the path as it was sent.
AskRename(s) == \E a \in Args[s], n \in NewNames :
  LET p == Typed(s, a) IN
  Begin(s, [Request("rename", p, Front(p) \o n) EXCEPT !.valid = IsValidName(n)],
        CheckNotExist(s, p), "checked")

\* SFS::rename: an invalid name is reported, and the renaming goes on.
RenameFile(s) == LET r == req[s] IN
  /\ In(s, "checked", "rename")
  /\ IF CanAccess(s, r.path) /\ CanAccess(s, Front(r.path)) /\ CanAccess(s, r.target)
       THEN \/ /\ CanRename(Normal(r.path), Normal(r.target))
               /\ Write(s, Renamed(Normal(r.path), Normal(r.target)))
               /\ Respond(s, IF r.valid THEN "Ok" ELSE "IOInvalidFileName")
            \/ Write(s, tree) /\ Respond(s, "IORenameError")
       ELSE Write(s, tree) /\ Respond(s, "InvalidPermissions")

-----------------------------------------------------------------------------
(* Moving and copying.                                                     *)

\* beginCopyOrMove up to the directories.
CheckCopyOrMove(s, from, to) ==
  IF CanAccess(s, from) /\ CanAccess(s, to)
    THEN CheckNotExist(s, from)
    ELSE "InvalidPermissions"

\* The target has the last name of the input, as it was sent, in the output directory.
AskCopyOrMove(s) == \E a, b \in Args[s], op \in {"copy", "move"} :
  LET from == Typed(s, a)
      to == Append(Normal(Typed(s, b)), Last(from)) IN
  Begin(s, Request(op, from, to), CheckCopyOrMove(s, from, to), "checked")

\* The directories of the target.  The fs::exists before them throws when it cannot tell,
\* and nothing is answered then.
Place(s) == LET d == Normal(Front(req[s].target)) IN
  /\ at[s] = "checked" /\ req[s].op \in {"copy", "move"}
  /\ \/ /\ IF IsEntry(d) THEN Write(s, tree) ELSE CanMakeDirs(d) /\ Write(s, MakeDirs(d))
        /\ at' = [at EXCEPT ![s] = "placed"]
        /\ UNCHANGED <<cwd, req, answer, asked>>
     \/ /\ ~IsEntry(d)
        /\ \/ Write(s, tree)
           \/ \E e \in Ancestors(d) \ {d} : CanMakeDirs(e) /\ Write(s, MakeDirs(e))
        /\ Respond(s, "IOCreateDirError")
     \/ /\ Write(s, tree)
        /\ at' = [at EXCEPT ![s] = "lost"]
        /\ UNCHANGED <<cwd, req, answer, asked>>

MoveFile(s) == LET from == Normal(req[s].path)  to == Normal(req[s].target) IN
  /\ In(s, "placed", "move")
  /\ \/ CanRename(from, to) /\ Write(s, Renamed(from, to)) /\ Respond(s, "Ok")
     \/ Write(s, tree) /\ Respond(s, "IOMoveError")

\* A directory is not copied into itself (bound).
CopyFile(s) == LET from == Normal(req[s].path)  to == Normal(req[s].target) IN
  /\ In(s, "placed", "copy") /\ ~IsStrictPrefix(from, to)
  /\ \/ /\ from \in DOMAIN tree /\ CanCopy(from, to)
        /\ Write(s, Copied(from, to))
        /\ Respond(s, "Ok")
     \/ /\ \/ Write(s, tree)
           \/ from \in DOMAIN tree /\ IsDir(Front(to))
              /\ \E t \in PartlyCopied(from, to) : Write(s, t)
        /\ Respond(s, "IOCopyError")

-----------------------------------------------------------------------------
(* chdir: the real path, then its type, then the client moves.             *)

AskRealPath(s) == \E a \in Args[s] :
  LET p == Typed(s, a) IN
  Begin(s, Request("chdir", p, Relative(s, Normal(p))), CheckNotExist(s, p), "real")

\* The client asks for the type of the path it was given.
ChangeDir(s) == LET p == Absolute(s, req[s].target) IN
  /\ In(s, "real", "chdir")
  /\ at' = [at EXCEPT ![s] = "idle"]
  /\ IF Exists(s, p) /\ IsDir(p)
       THEN cwd' = [cwd EXCEPT ![s] = req[s].target] /\ UNCHANGED answer
       ELSE answer' = [answer EXCEPT ![s] = "NotDirectory"] /\ UNCHANGED cwd
  /\ UNCHANGED <<tree, req, touched, stale, asked>>

-----------------------------------------------------------------------------

Step(s) ==
  \/ AskCreate(s) \/ CreateFile(s) \/ CreateDirectory(s)
  \/ AskDelete(s) \/ DeleteFile(s)
  \/ AskRename(s) \/ RenameFile(s)
  \/ AskCopyOrMove(s) \/ Place(s) \/ MoveFile(s) \/ CopyFile(s)
  \/ AskRealPath(s) \/ ChangeDir(s)

Next == \E s \in Sessions : Step(s)

Spec == Init /\ [][Next]_vars

-----------------------------------------------------------------------------
(* Properties.                                                             *)

\* The entry p of the tree is, or is not, what it was.
Kept(p) ==
  /\ p \in DOMAIN tree <=> p \in DOMAIN tree'
  /\ p \in DOMAIN tree => tree[p] = tree'[p]

\* A user's requests change nothing outside the network directory, and an admin's nothing
\* outside the storage, however many ".." their paths and the names of their files hold
\* and whatever other sessions did since the paths were checked.  Missing directories
\* above are the exception: create_directories creates them.
Confined ==
  [][\A s \in Sessions : at'[s] # at[s] =>
       \A p \in DOMAIN tree \cup DOMAIN tree' :
         \/ IsPrefix(Scope(s), p) \/ Kept(p)
         \/ p \notin DOMAIN tree /\ tree'[p] = Dir /\ IsPrefix(p, Scope(s))]_vars

\* The file of a user (README.md:33 of the server) is replaced or removed only by a request
\* that is about a directory it lies in, unless another session changed the tree after the
\* check.  (One that is not there yet is created by whoever is first to make its directory.)
UserFilesGuarded ==
  [][\A s \in Sessions : at'[s] # at[s] /\ ~stale[s] =>
       \A p \in DOMAIN tree : tree[p] # Dir /\ IsUIFFile(p) =>
         \/ Kept(p)
         \/ IsStrictPrefix(Normal(req[s].path), p)
         \/ IsStrictPrefix(Normal(req[s].target), p)]_vars

\* Creating a file or a directory leaves every file with what it holds, although opening
\* truncates, unless another session changed the tree after the check.
CreateKeepsContent ==
  [][\A s \in Sessions :
       at[s] = "checked" /\ at'[s] = "idle" /\ req[s].op \in {"mkfile", "mkdir"} /\ ~stale[s]
       => \A p \in DOMAIN tree : p \in DOMAIN tree' /\ tree'[p] = tree[p]]_vars

\* A chdir to a directory leads there, although the path goes to the client and back in
\* terms relative to the role, unless another session changed the tree meanwhile; and
\* whatever happens meanwhile, it leads nowhere else.
ArrivesWhereAsked ==
  [][\A s \in Sessions : In(s, "real", "chdir") /\ at'[s] = "idle" =>
       LET there == Normal(req[s].path)
           here == Normal(Absolute(s, cwd'[s])) IN
       /\ ~stale[s] /\ IsDir(there) => here = there
       /\ cwd'[s] # cwd[s] => here = there /\ IsDir(there)]_vars
=============================================================================

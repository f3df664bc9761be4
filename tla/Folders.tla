------------------------------- MODULE Folders -------------------------------
(***************************************************************************)
(* The commands download and upload, given a file or a folder: what is to  *)
(* be copied is listed first, one request per directory, then copied file  *)
(* by file, and the first failure ends the command (DownloadCommand,       *)
(* UploadCommand, GetDirContentRecursively, IOGetDirContentRH,             *)
(* IOGetFileTypeRH, SFS).                                                  *)
(*                                                                         *)
(* Other sessions create, rewrite and delete files of the server between   *)
(* any two requests.  How one file is copied is the business of Transfer;  *)
(* here a copy succeeds, breaks half way, or is spoilt by another session. *)
(*                                                                         *)
(* A path is the sequence of its names from the directory the command      *)
(* works in, and a tree a function from the paths that exist.              *)
(***************************************************************************)
EXTENDS Naturals, Sequences, SequencesExt, FiniteSets, TLC

CONSTANTS
  Paths,        \* the paths of the server that other sessions touch
  Contents,     \* what files hold
  ServerTrees, LocalTrees,  \* what may be there before the command
  Inputs,       \* the paths that are typed
  MaxChanges    \* bound on what the other sessions do

Dir  == "dir"   \* what a path that is a directory holds
None == "none"  \* there is no such path
Part == "part"  \* not the whole of a file, at first nothing

At(t, p)       == IF p \in DOMAIN t THEN t[p] ELSE None
IsFile(t, p)   == At(t, p) \in Contents \cup {Part}
Children(t, p) == {q \in DOMAIN t : Len(q) = Len(p) + 1 /\ IsPrefix(p, q)}
Above(p)       == {SubSeq(p, 1, n) : n \in 1..(Len(p) - 1)}

\* The tree with v at p.
With(t, p, v)  == [q \in DOMAIN t \cup {p} |-> IF q = p THEN v ELSE t[q]]

\* What exists is in directories that exist.
Rooted(t) == \A p \in DOMAIN t : p # <<>> /\ \A q \in Above(p) : At(t, q) = Dir

\* Trees of files that are whole.
ASSUME FoldersAssumption ==
  /\ {Dir, None, Part} \cap Contents = {}
  /\ Inputs \cup Paths \subseteq Seq(STRING) \ {<<>>}
  /\ \A t \in ServerTrees \cup LocalTrees :
       /\ Rooted(t) /\ IsFiniteSet(DOMAIN t) /\ DOMAIN t \subseteq Seq(STRING)
       /\ \A p \in DOMAIN t : t[p] \in Contents \cup {Dir}
  /\ MaxChanges \in Nat

VARIABLES
  server, local,  \* the files of the server and of the client
  cmd,            \* the command; todo has the directories to list and the files to copy
  during,         \* history: what each path of the source has held during the command
  meddled,        \* history: what other sessions have changed on the server meanwhile
  lossy,          \* history: a listing or a write was not complete and nobody was told
  changes         \* changes by other sessions, for the bound

folders == <<server, local, cmd, during, meddled, lossy, changes>>

NoCommand == [at |-> "idle", op |-> "download", input |-> <<>>, slash |-> FALSE, relative |-> FALSE,
              todo |-> <<>>, spoilt |-> FALSE, result |-> "none"]

FoldersInit ==
  /\ server \in ServerTrees /\ local \in LocalTrees
  /\ cmd = NoCommand
  /\ during = [p \in Paths |-> {}]
  /\ meddled = {}
  /\ lossy = FALSE
  /\ changes = 0

Uploads == cmd.op = "upload"
From  == IF Uploads THEN local ELSE server
Into  == IF Uploads THEN server ELSE local

\* The tree the command writes becomes t.  Constrains server' and local'.
IntoBecomes(t) ==
  IF Uploads THEN server' = t /\ UNCHANGED local ELSE local' = t /\ UNCHANGED server

\* The command ends and says so.  Constrains cmd'.
Ends(result) == cmd' = [cmd EXCEPT !.at = "over", !.result = result, !.todo = <<>>, !.spoilt = FALSE]

\* MUTANT: the loop goes on to the next file.
FailsAlone == cmd' = [cmd EXCEPT !.at = "copy", !.todo = Tail(@)]

\* A file cannot be copied: no other one is.
Fails == Ends("Error")

-----------------------------------------------------------------------------
(* What is to be copied.                                                   *)

\* getInputPath, getPathsFromArgs.  A slash at the end survives lexically_normal.
Type == \E op \in {"download", "upload"}, p \in Inputs, slash, relative \in BOOLEAN :
  /\ cmd.at = "idle"
  /\ relative => op = "upload"
  /\ cmd' = [NoCommand EXCEPT !.at = "type", !.op = op, !.input = p, !.slash = slash,
                              !.relative = relative]
  /\ during' = [q \in Paths |-> {At(IF op = "upload" THEN local ELSE server, q)}]
  /\ UNCHANGED <<server, local, meddled, lossy, changes>>

Item(p, kind) == [path |-> p, folder |-> kind = Dir]

\* SFS::getFileType for the one command, fs::exists and is_regular_file for the other.
FindInput == LET kind == At(From, cmd.input) IN
  /\ cmd.at = "type"
  /\ IF kind = None THEN Ends("Error")
     ELSE cmd' = [cmd EXCEPT !.at = "listing", !.todo = <<Item(cmd.input, kind)>>]
  /\ UNCHANGED <<server, local, during, meddled, lossy, changes>>

\* The first directory of the list.
IsNextFolder(n) == cmd.todo[n].folder /\ \A m \in 1..(n - 1) : ~cmd.todo[m].folder

\* The path of an entry q of d: path / name in a listing of the server.  pushDirContentIn
\* appends to d a path that has d in it already: it replaces d if it is absolute, and
\* comes twice if it is not.
Joined(d, q) == IF cmd.relative THEN d \o q ELSE q

\* MUTANT: what follows the directory is lost.
SplicedLast(n, items) == SubSeq(cmd.todo, 1, n - 1) \o items

\* The entries of a directory take its place: files are found depth first.
Spliced(n, items) == SplicedLast(n, items) \o SubSeq(cmd.todo, n + 1, Len(cmd.todo))

\* One request of GetDirContentRecursively, one call of pushDirContentIn.  A directory that
\* is gone or became a file fails the command.  The server skips what it cannot look at,
\* and answers Ok with what it has when the iteration fails.
ListFolder == \E n \in DOMAIN cmd.todo :
  /\ cmd.at = "listing" /\ IsNextFolder(n)
  /\ LET d == cmd.todo[n].path IN
     IF At(From, d) # Dir THEN Fails /\ UNCHANGED lossy
     ELSE \E some \in SUBSET Children(From, d) :
            /\ some # Children(From, d) => ~Uploads
            /\ lossy' = (lossy \/ some # Children(From, d))
            /\ \E order \in SetToSeqs(some) :
                 cmd' = [cmd EXCEPT !.todo = Spliced(n,
                   [i \in DOMAIN order |-> Item(Joined(d, order[i]), At(From, order[i]))])]
  /\ UNCHANGED <<server, local, during, meddled, changes>>

Listed ==
  /\ cmd.at = "listing" /\ \A n \in DOMAIN cmd.todo : ~cmd.todo[n].folder
  /\ cmd' = [cmd EXCEPT !.at = "copy"]
  /\ UNCHANGED <<server, local, during, meddled, lossy, changes>>

-----------------------------------------------------------------------------
(* Copying.                                                                *)

File == Head(cmd.todo).path

\* getOutputPathFor: relative(path, input_path.parent_path()).  The parent of "d/" is d; that
\* of a bare name is empty, from where nothing leads to a local file: the result is empty too.
Place(p) ==
  IF cmd.relative /\ ~cmd.slash /\ Len(cmd.input) = 1 THEN <<>>
  ELSE SubSeq(p, Len(cmd.input) + (IF cmd.slash THEN 1 ELSE 0), Len(p))
Output   == Place(File)

\* create_directories, then an open that truncates.
MadeAbove(t, p) == [q \in DOMAIN t \cup Above(p) |-> IF q \in DOMAIN t THEN t[q] ELSE Dir]
Opened(t, p)  == MadeAbove(With(t, p, Part), p)
CanOpen(t, p) == p # <<>> /\ At(t, p) # Dir /\ \A q \in Above(p) : At(t, q) \in {Dir, None}

\* initStreamFor: the local file is emptied before the server is asked.
OpenOutput ==
  /\ cmd.at = "copy" /\ cmd.todo # <<>> /\ ~Uploads
  /\ \/ /\ CanOpen(local, Output)
        /\ IntoBecomes(Opened(local, Output))
        /\ cmd' = [cmd EXCEPT !.at = "asked"]
     \/ /\ ~CanOpen(local, Output)
        /\ Ends("Error") /\ UNCHANGED <<server, local>>
  /\ UNCHANGED <<during, meddled, lossy, changes>>

\* IOGetFileContentRH::openFile.
AskContent ==
  /\ cmd.at = "asked"
  /\ IF IsFile(server, File) THEN cmd' = [cmd EXCEPT !.at = "copying"] ELSE Fails
  /\ UNCHANGED <<server, local, during, meddled, lossy, changes>>

\* openFile of the command, then openFile of IOSetFileContentRH.
OpenInput ==
  /\ cmd.at = "copy" /\ cmd.todo # <<>> /\ Uploads
  /\ \/ /\ IsFile(local, File) /\ CanOpen(server, Output)
        /\ IntoBecomes(Opened(server, Output))
        /\ cmd' = [cmd EXCEPT !.at = "copying"]
     \/ /\ ~IsFile(local, File) \/ ~CanOpen(server, Output)
        /\ Fails /\ UNCHANGED <<server, local>>
  /\ UNCHANGED <<during, meddled, lossy, changes>>

\* What the open target may hold when the copy is over, if its path still leads to it.
Holds(v) == IntoBecomes(IF IsFile(Into, Output) THEN [Into EXCEPT ![Output] = v] ELSE Into)

\* The last buffer is through.  Neither side looks at the state of the stream it writes
\* to: on a full disk the file is cut short and the command goes on.
Copied ==
  /\ cmd.at = "copying"
  /\ cmd' = [cmd EXCEPT !.at = "copy", !.todo = Tail(@), !.spoilt = FALSE]
  /\ \/ ~cmd.spoilt /\ Holds(At(From, File)) /\ UNCHANGED lossy
     \/ cmd.spoilt /\ (\E v \in Contents \cup {Part} : Holds(v)) /\ UNCHANGED lossy
     \/ Holds(Part) /\ lossy' = TRUE
  /\ UNCHANGED <<during, meddled, changes>>

Succeed ==
  /\ cmd.at = "copy" /\ cmd.todo = <<>>
  /\ Ends("Success")
  /\ UNCHANGED <<server, local, during, meddled, lossy, changes>>

\* A request is refused, a file cannot be opened, the connection fails or Ctrl-C ends the
\* client.  The file that is being copied keeps what was written of it.
Break ==
  /\ cmd.at \in {"type", "listing", "copy", "asked", "copying"}
  /\ IF cmd.at \in {"asked", "copying"} THEN Fails ELSE Ends("Error")
  /\ \/ UNCHANGED <<server, local>>
     \/ cmd.at = "copying" /\ ~cmd.spoilt /\ Holds(At(From, File))
     \/ /\ cmd.at = "copy" /\ cmd.todo # <<>> /\ CanOpen(Into, Output)
        /\ IntoBecomes(MadeAbove(Into, Output))
  /\ UNCHANGED <<during, meddled, lossy, changes>>

-----------------------------------------------------------------------------

\* Another session leaves v at p.
Changed(p, v) ==
  IF v = None THEN Restrict(server, {q \in DOMAIN server : ~IsPrefix(p, q)}) ELSE With(server, p, v)

Meddle == \E p \in Paths, v \in Contents \cup {Dir, None} :
  LET t == Changed(p, v)
      differing == {q \in Paths \cup DOMAIN server : At(t, q) # At(server, q)} IN
  /\ cmd.at \notin {"idle", "over"}
  /\ changes < MaxChanges /\ changes' = changes + 1
  /\ v # At(server, p) /\ (v \in Contents => At(server, p) # Dir) /\ (v = Dir => At(server, p) = None)
  /\ Len(p) > 1 => At(server, Front(p)) = Dir
  /\ server' = t
  /\ during' = IF Uploads THEN during ELSE [q \in Paths |-> during[q] \cup {At(t, q)}]
  /\ meddled' = meddled \cup differing
  /\ cmd' = [cmd EXCEPT !.spoilt = @ \/ (cmd.at = "copying"
                                         /\ (IF Uploads THEN Output ELSE File) \in differing)]
  /\ UNCHANGED <<local, lossy>>

FoldersNext ==
  \/ Type \/ FindInput \/ ListFolder \/ Listed \/ OpenOutput \/ AskContent \/ OpenInput
  \/ Copied \/ Succeed \/ Break \/ Meddle

FoldersSpec == FoldersInit /\ [][FoldersNext]_folders

-----------------------------------------------------------------------------
(* Properties.                                                             *)

\* Types of the state: what exists is in a directory that exists.
FoldersTypeOK ==
  /\ \A t \in {server, local} : Rooted(t) /\ \A p \in DOMAIN t : t[p] \in Contents \cup {Dir, Part}
  /\ cmd.at \in {"idle", "type", "listing", "copy", "asked", "copying", "over"}
  /\ cmd.result \in {"none", "Success", "Error"}
  /\ DOMAIN during = Paths
  /\ changes \in 0..MaxChanges

\* No other session has touched what the target's path p has come from, or p itself.
Untouched(p) ==
  IF Uploads THEN p \notin meddled ELSE \A q \in meddled : IsPrefix(cmd.input, q) => Place(q) # p

\* Emptying a file before its new content is sure (download.cpp:83, io_set_file_content.cpp:75)
\* loses one file at the most, whatever fails: between two files and after a success there is
\* none that is not whole, unless another session has a hand in it or the disk is full.
OneFileAtRisk ==
  ~lossy =>
    LET risked == {p \in DOMAIN Into : Into[p] = Part /\ Untouched(p)} IN
    /\ \A p, q \in risked : p = q
    /\ cmd.at = "copy" \/ cmd.result = "Success" => risked = {}

\* What the source's path p has held during the command is at its place.
Brought(p) ==
  \A c \in Contents :
    during[p] = {c} /\ IsPrefix(cmd.input, p) /\ Untouched(Place(p)) => At(Into, Place(p)) = c

\* A command that succeeded has copied every file that stayed what it is while the command
\* ran: what other sessions do to other files and directories between the listings and the
\* copies hides none, unless a listing was not complete.  (For a folder that is typed as a
\* relative path, see UploadTakesInput.)
SuccessComplete ==
  cmd.result = "Success" /\ ~lossy =>
    \A p \in Paths : (cmd.relative => p = cmd.input) => Brought(p)

\* "usage: upload <input path (client)>" (en_US.smcl:205): an upload that succeeded has sent
\* what the input path names.
UploadTakesInput == cmd.result = "Success" /\ ~lossy /\ Uploads => \A p \in Paths : Brought(p)
=============================================================================

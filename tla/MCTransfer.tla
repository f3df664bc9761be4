----------------------------- MODULE MCTransfer -----------------------------
(***************************************************************************)
(* Instances of Transfer and Folders for TLC: a session alone that         *)
(* transfers files of several sizes; two that transfer one file at a time, *)
(* once each, with Ctrl-C for one of them; or one command on folders.      *)
(***************************************************************************)
EXTENDS Transfer, Folders

CONSTANTS a, b
VARIABLE mode

\* The buffer of b divides some of the sizes.
Buffers == (a :> 1) @@ (b :> 2)

Shared == 3  \* the size of what two sessions upload

\* d has a file, and a folder e with another; or d is a file itself.
Full(c)  == (<<"d">> :> Dir) @@ (<<"d", "x">> :> c) @@ (<<"d", "e">> :> Dir) @@ (<<"d", "e", "y">> :> c)
Single   == <<"d">> :> "one"
Trees    == {Full("one"), Single}
\* What the output meets: nothing, files to replace, a file where a folder has to be.
Others   == Trees \cup {<<>>, Full("two"), (<<"e">> :> "two") @@ (<<"x">> :> "two")}
\* A folder whose name comes again twice in it.
Doubled  == {(<<"d">> :> Dir) @@ (<<"d", "x">> :> "one") @@ (<<"d", "d">> :> Dir)
             @@ (<<"d", "d", "x">> :> "two") @@ (<<"d", "d", "d">> :> Dir)}
Nothing  == {<<>>}
Touched  == {<<"d">>, <<"d", "x">>, <<"d", "e">>, <<"d", "e", "y">>, <<"x">>}
Typed    == {<<"d">>, <<"d", "x">>, <<"d", "e">>}

MCInit ==
  /\ Init /\ FoldersInit
  /\ mode \in {"alone", "together", "folders"}
  /\ mode # "folders" => server = Single /\ local = Single

Alone == client'[a] = client[a] /\ closing'[a] = closing[a]
Together ==
  /\ closing'[a] = closing[a]
  /\ \A k \in Sessions : made'[k] <= 1 /\ (client'[k].op = "upload" => client'[k].size = Shared)

MCNext ==
  /\ UNCHANGED mode
  /\ \/ mode = "alone" /\ Next /\ Alone /\ UNCHANGED folders
     \/ mode = "together" /\ Next /\ Together /\ UNCHANGED folders
     \/ mode = "folders" /\ FoldersNext /\ UNCHANGED vars

\* The session that may be alone is the one fairness is about.
MCSpec ==
  MCInit /\ [][MCNext]_<<vars, folders, mode>> /\ WF_vars(ClientStep(b)) /\ WF_vars(ServerStep(b))

\* TransferEnds and HandlerEnds for a session that is alone: both sides of a transfer come
\* to its end.
TransfersEnd == mode = "alone" => TransferEnds(b) /\ HandlerEnds(b)
=============================================================================

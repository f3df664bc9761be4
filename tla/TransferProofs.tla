--------------------------- MODULE TransferProofs ---------------------------
(***************************************************************************)
(* What uploads and downloads keep: first the commands over files and      *)
(* folders (Folders), for all trees, inputs and changes by other sessions, *)
(* then one file buffer by buffer (Transfer), for every number of          *)
(* sessions, every size of file and every length of buffer.                *)
(***************************************************************************)
EXTENDS Folders, Transfer, SequenceTheorems, FiniteSetTheorems, TLAPS

-----------------------------------------------------------------------------
(* The commands over files and folders.  First the types of their state.   *)

Names == Seq(STRING)
Holdings == Contents \cup {Dir, Part}

-----------------------------------------------------------------------------
(* The inductive invariant.                                                *)

\* A tree of files and directories.
IsTree(t) ==
  /\ Rooted(t) /\ IsFiniteSet(DOMAIN t) /\ DOMAIN t \subseteq Names
  /\ \A p \in DOMAIN t : t[p] \in Holdings

\* No file is cut short.
Uncut(t) == \A p \in DOMAIN t : t[p] # Part

Items == [path : Names, folder : BOOLEAN]
Commands ==
  [at : {"idle", "type", "listing", "copy", "asked", "copying", "over"},
   op : {"download", "upload"}, input : Names, slash : BOOLEAN, relative : BOOLEAN,
   todo : Seq(Items), spoilt : BOOLEAN, result : {"none", "Success", "Error"}]

FolderTypes ==
  /\ IsTree(server) /\ IsTree(local)
  /\ cmd \in Commands
  /\ during \in [Paths -> SUBSET (Holdings \cup {None})] /\ meddled \subseteq Names
  /\ changes \in 0..MaxChanges

Works == cmd.at \notin {"idle", "over"}
Writes == cmd.at \in {"asked", "copying"}

\* What the source and the target have at p.
Here(p)  == At(From, p)
There(p) == At(Into, p)

\* The paths of what is listed are those of the source.
Direct == ~cmd.relative \/ Here(cmd.input) # Dir

\* What the command knows while it goes on: downloads are never relative, and what is listed
\* is the input or below it.
Proceeds ==
  /\ cmd.at = "idle" => cmd = NoCommand /\ Uncut(server) /\ Uncut(local)
  /\ cmd.at # "over" => cmd.result = "none"
  /\ cmd.at # "idle" => cmd.input # <<>>
  /\ cmd.relative => Uploads
  /\ Direct => \A i \in DOMAIN cmd.todo : IsPrefix(cmd.input, cmd.todo[i].path)
  /\ Writes => cmd.todo # <<>>
  /\ cmd.at = "asked" => ~Uploads
  /\ cmd.at # "copying" => ~cmd.spoilt
  /\ Uncut(From)

\* The file that is being copied is a whole one, and the target is the one that was opened,
\* unless another session has changed it.
Copies ==
  /\ cmd.at = "copying" /\ ~cmd.spoilt => Here(File) \in Contents
  /\ cmd.at = "copying" /\ cmd.spoilt => ~Untouched(Output)
  /\ Writes => Output # <<>> /\ (Untouched(Output) => There(Output) = Part)

\* A file of the target that is cut short by no fault of other sessions.
Risked(p) == There(p) = Part /\ Untouched(p)

AtRisk ==
  ~lossy =>
    /\ Writes => \A p : Risked(p) => p = Output
    /\ ~Writes /\ (Works \/ cmd.result # "Error") => \A p : ~Risked(p)
    /\ \A p, q : Risked(p) /\ Risked(q) => p = q

\* The file p is still to be copied, or is in a folder that is still to be listed.
Pending(p) ==
  \E i \in DOMAIN cmd.todo :
    \/ cmd.todo[i].path = p
    \/ /\ cmd.at = "listing" /\ cmd.todo[i].folder
       /\ IsPrefix(cmd.todo[i].path, p) /\ cmd.todo[i].path # p

\* A file that stayed what it is, and that nobody else has touched at the target.
Stays(p, c) ==
  /\ cmd.relative => p = cmd.input
  /\ during[p] = {c} /\ IsPrefix(cmd.input, p) /\ Untouched(Place(p))

Covers ==
  ~lossy =>
    \A p \in Paths, c \in Contents :
      Stays(p, c) =>
        /\ cmd.at \in {"listing", "copy", "asked", "copying"} =>
             Pending(p) \/ There(Place(p)) = c
        /\ cmd.result = "Success" => There(Place(p)) = c

\* What the source has at the paths that are watched is on record.
Recorded == Works => \A p \in Paths : Here(p) \in during[p]

FoldersInv == FolderTypes /\ Proceeds /\ Copies /\ AtRisk /\ Recorded /\ Covers

-----------------------------------------------------------------------------
(* Paths.                                                                  *)

LEMMA StringsDiffer == Dir # None /\ Part # None /\ Part # Dir /\ None \notin Holdings
BY FoldersAssumption DEF Dir, Part, None, Holdings

LEMMA PathsAre == Paths \subseteq Names /\ Inputs \subseteq Names /\ <<>> \notin Paths \cup Inputs
BY FoldersAssumption DEF Names

LEMMA LengthIs == \A p \in Names : Len(p) \in Nat /\ (p = <<>> <=> Len(p) = 0)
BY DEF Names

LEMMA PrefixIs ==
  ASSUME NEW s \in Names, NEW t \in Names
  PROVE  IsPrefix(s, t) <=> Len(s) <= Len(t) /\ \A i \in 1..Len(s) : s[i] = t[i]
<1>1. PICK m, n : m = Len(s) /\ n = Len(t)
  OBVIOUS
<1>2. m \in Nat /\ n \in Nat /\ s \in Seq(STRING) /\ t \in Seq(STRING)
  BY <1>1 DEF Names
<1>3. SubSeq(s, 1, m) = s
  BY <1>1, <1>2, SubSeqFull
<1>4. CASE m <= n
  <2>1. /\ SubSeq(t, 1, m) \in Seq(STRING) /\ Len(SubSeq(t, 1, m)) = m
        /\ \A i \in 1..m : SubSeq(t, 1, m)[i] = t[i]
    BY <1>1, <1>2, <1>4
  <2>2. s = SubSeq(t, 1, m) <=> \A i \in 1..m : s[i] = t[i]
    <3>1. ASSUME \A i \in 1..m : s[i] = t[i] PROVE s = SubSeq(t, 1, m)
      BY <1>1, <1>2, <2>1, <3>1, SeqEqual
    <3> QED BY <2>1, <3>1
  <2> QED BY <1>1, <1>3, <1>4, <2>2 DEF IsPrefix
<1> QED BY <1>1, <1>2, <1>4 DEF IsPrefix

LEMMA PrefixSame ==
  ASSUME NEW s \in Names, NEW t \in Names, IsPrefix(s, t), Len(s) = Len(t)
  PROVE  s = t
<1>1. \A i \in 1..Len(s) : s[i] = t[i]
  BY PrefixIs
<1> QED BY <1>1, SeqEqual DEF Names

LEMMA PrefixTransitive ==
  ASSUME NEW r \in Names, NEW s \in Names, NEW t \in Names, IsPrefix(r, s), IsPrefix(s, t)
  PROVE  IsPrefix(r, t)
<1>1. Len(r) \in Nat /\ Len(s) \in Nat /\ Len(t) \in Nat
  BY LengthIs
<1>2. Len(r) <= Len(s) /\ \A i \in 1..Len(r) : r[i] = s[i]
  BY PrefixIs
<1>3. Len(s) <= Len(t) /\ \A i \in 1..Len(s) : s[i] = t[i]
  BY PrefixIs
<1>4. Len(r) <= Len(t) /\ \A i \in 1..Len(r) : r[i] = t[i]
  BY <1>1, <1>2, <1>3
<1> QED BY <1>4, PrefixIs

\* The directories above a path are its strict prefixes.
LEMMA AboveIs ==
  ASSUME NEW p \in Names, NEW q
  PROVE  q \in Above(p) <=> q \in Names /\ q # <<>> /\ IsPrefix(q, p) /\ q # p
<1>1. PICK n : n = Len(p)
  OBVIOUS
<1>2. n \in Nat /\ p \in Seq(STRING)
  BY <1>1, LengthIs DEF Names
<1>3. ASSUME NEW m \in 1..(n - 1), q = SubSeq(p, 1, m)
      PROVE  q \in Names /\ q # <<>> /\ IsPrefix(q, p) /\ q # p
  <2>1. m \in Nat /\ m >= 1 /\ m < n
    BY <1>2
  <2>2. q \in Seq(STRING) /\ Len(q) = m /\ \A i \in 1..m : q[i] = p[i]
    BY <1>1, <1>2, <1>3, <2>1
  <2> QED BY <1>1, <2>1, <2>2, PrefixIs DEF Names
<1>4. ASSUME q \in Names, q # <<>>, IsPrefix(q, p), q # p PROVE q \in Above(p)
  <2>1. PICK m : m = Len(q)
    OBVIOUS
  <2>2. m \in Nat /\ m # 0 /\ m <= n
    BY <1>1, <1>4, <2>1, LengthIs DEF IsPrefix
  <2>3. m # n
    BY <1>1, <1>4, <2>1, PrefixSame
  <2>4. m \in 1..(n - 1)
    BY <1>2, <2>2, <2>3
  <2>5. SubSeq(q, 1, m) = q
    BY <1>4, <2>1, SubSeqFull DEF Names
  <2>6. q = SubSeq(p, 1, m)
    BY <1>4, <2>1, <2>5 DEF IsPrefix
  <2> QED BY <1>1, <2>4, <2>6 DEF Above
<1>5. q \in Above(p) => \E m \in 1..(n - 1) : q = SubSeq(p, 1, m)
  BY <1>1 DEF Above
<1> QED BY <1>3, <1>4, <1>5

LEMMA AboveAbove ==
  ASSUME NEW p \in Names, NEW q \in Above(p), NEW r \in Above(q)
  PROVE  r \in Above(p)
<1>1. q \in Names /\ IsPrefix(q, p) /\ q # p
  BY AboveIs
<1>2. r \in Names /\ r # <<>> /\ IsPrefix(r, q) /\ r # q
  BY <1>1, AboveIs
<1>3. IsPrefix(r, p)
  BY <1>1, <1>2, PrefixTransitive
<1>4. r # p
  <2>1. Len(r) \in Nat /\ Len(q) \in Nat /\ Len(p) \in Nat
    BY <1>1, <1>2, LengthIs
  <2>2. Len(r) <= Len(q) /\ Len(q) <= Len(p)
    BY <1>1, <1>2 DEF IsPrefix
  <2>3. Len(r) # Len(q)
    BY <1>1, <1>2, PrefixSame
  <2> QED BY <2>1, <2>2, <2>3
<1> QED BY <1>2, <1>3, <1>4, AboveIs

\* The parent, and what is above it.
LEMMA AboveParent ==
  ASSUME NEW p \in Names, NEW q \in Above(p)
  PROVE  Len(p) > 1 /\ (q = Front(p) \/ q \in Above(Front(p)))
<1>1. PICK n : n = Len(p)
  OBVIOUS
<1>2. PICK m \in 1..(n - 1) : q = SubSeq(p, 1, m)
  BY <1>1 DEF Above
<1>3. n \in Nat /\ m \in Nat /\ m >= 1 /\ m <= n - 1 /\ n > 1
  BY <1>1, LengthIs
<1>4. CASE m = n - 1
  BY <1>1, <1>2, <1>3, <1>4 DEF Front
<1>5. CASE m # n - 1
  <2>1. PICK f : f = Front(p)
    OBVIOUS
  <2>2. f \in Seq(STRING) /\ Len(f) = n - 1 /\ \A i \in 1..(n - 1) : f[i] = p[i]
    BY <1>1, <1>3, <2>1 DEF Front, Names
  <2>3. m \in 1..(Len(f) - 1)
    BY <1>3, <1>5, <2>2
  <2>4. SubSeq(f, 1, m) = q
    <3>1. /\ SubSeq(f, 1, m) \in Seq(STRING) /\ Len(SubSeq(f, 1, m)) = m
          /\ \A i \in 1..m : SubSeq(f, 1, m)[i] = f[i]
      BY <1>3, <2>2
    <3>2. q \in Seq(STRING) /\ Len(q) = m /\ \A i \in 1..m : q[i] = p[i]
      BY <1>1, <1>2, <1>3 DEF Names
    <3>3. \A i \in 1..m : SubSeq(f, 1, m)[i] = q[i]
      BY <1>3, <2>2, <3>1, <3>2
    <3> QED BY <3>1, <3>2, <3>3, SeqEqual
  <2> QED BY <1>1, <1>3, <2>1, <2>3, <2>4 DEF Above
<1> QED BY <1>4, <1>5

LEMMA AboveFinite ==
  ASSUME NEW p \in Names
  PROVE  IsFiniteSet(Above(p))
<1>1. PICK n : n = Len(p)
  OBVIOUS
<1>2. n \in Nat
  BY <1>1, LengthIs
<1> DEFINE f == [m \in 1..(n - 1) |-> SubSeq(p, 1, m)]
<1>3. f \in Surjection(1..(n - 1), Above(p))
  BY <1>1 DEF Above, Surjection
<1>4. IsFiniteSet(1..(n - 1))
  BY <1>2, FS_Interval
<1> QED BY <1>3, <1>4, FS_Surjection

-----------------------------------------------------------------------------
(* Trees.                                                                  *)

\* What is in a tree, seen from its paths.
LEMMA TreeAt ==
  ASSUME NEW t, IsTree(t), NEW p
  PROVE  /\ p \in DOMAIN t <=> At(t, p) # None
         /\ At(t, p) # None => p \in Names /\ p # <<>> /\ At(t, p) = t[p] /\ At(t, p) \in Holdings
         /\ At(t, p) # None => \A q \in Above(p) : At(t, q) = Dir
         /\ At(t, p) \in Holdings \cup {None}
BY StringsDiffer DEF IsTree, At, Rooted

\* A tree by its paths.
LEMMA TreeIs ==
  ASSUME NEW t, IsFiniteSet(DOMAIN t),
         \A p \in DOMAIN t : /\ p \in Names /\ p # <<>> /\ t[p] \in Holdings
                             /\ \A q \in Above(p) : At(t, q) = Dir
  PROVE  IsTree(t)
BY DEF IsTree, Rooted

LEMMA FileIs == \A t, p : IsTree(t) => (IsFile(t, p) <=> At(t, p) \notin {Dir, None})
<1> SUFFICES ASSUME NEW t, NEW p, IsTree(t) PROVE IsFile(t, p) <=> At(t, p) \notin {Dir, None}
  OBVIOUS
<1>1. At(t, p) \in Holdings \cup {None}
  BY TreeAt
<1> QED BY <1>1, FoldersAssumption, StringsDiffer DEF IsFile, Holdings

LEMMA MadeAboveAt ==
  ASSUME NEW t, IsTree(t), NEW p \in Names, \A q \in Above(p) : At(t, q) \in {Dir, None}
  PROVE  /\ IsTree(MadeAbove(t, p))
         /\ \A q : At(MadeAbove(t, p), q) =
                     IF At(t, q) # None THEN At(t, q) ELSE IF q \in Above(p) THEN Dir ELSE None
<1> DEFINE u == MadeAbove(t, p)
<1>1. /\ DOMAIN u = DOMAIN t \cup Above(p)
      /\ \A q \in DOMAIN u : u[q] = IF q \in DOMAIN t THEN t[q] ELSE Dir
  BY DEF MadeAbove
<1>2. \A q : At(u, q) = IF At(t, q) # None THEN At(t, q) ELSE IF q \in Above(p) THEN Dir ELSE None
  BY <1>1, TreeAt DEF At
<1>3. IsFiniteSet(DOMAIN u)
  BY <1>1, AboveFinite, FS_Union DEF IsTree
<1>4. ASSUME NEW q \in DOMAIN u
      PROVE  /\ q \in Names /\ q # <<>> /\ u[q] \in Holdings
             /\ \A r \in Above(q) : At(u, r) = Dir
  <2>1. CASE q \in DOMAIN t
    <3>1. \A r \in Above(q) : At(t, r) = Dir
      BY <2>1, TreeAt
    <3>2. q \in Names /\ q # <<>> /\ t[q] \in Holdings
      BY <2>1 DEF IsTree, Rooted
    <3> QED BY <1>1, <1>2, <2>1, <3>1, <3>2, StringsDiffer
  <2>2. CASE q \notin DOMAIN t
    <3>1. q \in Above(p) /\ u[q] = Dir
      BY <1>1, <2>2
    <3>2. q \in Names /\ q # <<>>
      BY <3>1, AboveIs
    <3>3. \A r \in Above(q) : r \in Above(p)
      BY <3>1, AboveAbove
    <3>4. ASSUME NEW r \in Above(q) PROVE At(u, r) = Dir
      BY <1>2, <3>3
    <3> QED BY <3>1, <3>2, <3>4 DEF Holdings
  <2> QED BY <2>1, <2>2
<1>5. IsTree(u)
  <2> HIDE DEF u
  <2> QED BY <1>3, <1>4, TreeIs
<1> QED BY <1>2, <1>5

\* A file is put into a directory that exists, or written anew.
LEMMA PutAt ==
  ASSUME NEW t, IsTree(t), NEW p \in Names, p # <<>>, NEW v \in Holdings, v # Dir \/ At(t, p) = None,
         At(t, p) # Dir, \A q \in Above(p) : At(t, q) = Dir
  PROVE  /\ IsTree(With(t, p, v))
         /\ \A q : At(With(t, p, v), q) = IF q = p THEN v ELSE At(t, q)
<1> DEFINE u == With(t, p, v)
<1>1. /\ DOMAIN u = DOMAIN t \cup {p}
      /\ \A q \in DOMAIN u : u[q] = IF q = p THEN v ELSE t[q]
  BY DEF With
<1>2. \A q : At(u, q) = IF q = p THEN v ELSE At(t, q)
  BY <1>1 DEF At
<1>3. IsFiniteSet(DOMAIN u)
  BY <1>1, FS_AddElement DEF IsTree
<1>4. ASSUME NEW q \in DOMAIN u
      PROVE  /\ q \in Names /\ q # <<>> /\ u[q] \in Holdings
             /\ \A r \in Above(q) : At(u, r) = Dir
  <2>1. p \notin Above(p)
    BY AboveIs
  <2>2. CASE q = p
    BY <1>1, <1>2, <2>1, <2>2
  <2>3. CASE q # p
    <3>1. q \in DOMAIN t
      BY <1>1, <2>3
    <3>2. \A r \in Above(q) : At(t, r) = Dir
      BY <3>1, TreeAt
    <3>3. q \in Names /\ q # <<>> /\ t[q] \in Holdings
      BY <3>1 DEF IsTree, Rooted
    <3>4. \A r \in Above(q) : r # p
      BY <3>2
    <3> QED BY <1>1, <1>2, <2>3, <3>2, <3>3, <3>4
  <2> QED BY <2>2, <2>3
<1>5. IsTree(u)
  <2> HIDE DEF u
  <2> QED BY <1>3, <1>4, TreeIs
<1> QED BY <1>2, <1>5

LEMMA OpenedAt ==
  ASSUME NEW t, IsTree(t), NEW p \in Names, CanOpen(t, p)
  PROVE  /\ IsTree(Opened(t, p))
         /\ \A q : At(Opened(t, p), q) =
              IF q = p THEN Part
              ELSE IF At(t, q) # None THEN At(t, q) ELSE IF q \in Above(p) THEN Dir ELSE None
<1> DEFINE u == Opened(t, p)
<1>1. p # <<>> /\ At(t, p) # Dir /\ \A q \in Above(p) : At(t, q) \in {Dir, None}
  BY DEF CanOpen
<1>2. p \notin Above(p)
  BY AboveIs
<1>3. /\ DOMAIN u = DOMAIN t \cup {p} \cup Above(p)
      /\ \A q \in DOMAIN u : u[q] = IF q = p THEN Part ELSE IF q \in DOMAIN t THEN t[q] ELSE Dir
  BY DEF Opened, MadeAbove, With
<1>4. \A q : At(u, q) = IF q = p THEN Part
              ELSE IF At(t, q) # None THEN At(t, q) ELSE IF q \in Above(p) THEN Dir ELSE None
  BY <1>3, TreeAt DEF At
<1>5. IsFiniteSet(DOMAIN u)
  <2>1. IsFiniteSet(DOMAIN t \cup {p})
    BY FS_AddElement DEF IsTree
  <2> QED BY <1>3, <2>1, AboveFinite, FS_Union
<1>6. \A q \in Above(p) : At(u, q) = Dir
  BY <1>1, <1>2, <1>4
<1>7. ASSUME NEW q \in DOMAIN u
      PROVE  /\ q \in Names /\ q # <<>> /\ u[q] \in Holdings
             /\ \A r \in Above(q) : At(u, r) = Dir
  <2>1. CASE q = p
    BY <1>1, <1>3, <1>6, <2>1 DEF Holdings
  <2>2. CASE q # p /\ q \in DOMAIN t
    <3>1. \A r \in Above(q) : At(t, r) = Dir
      BY <2>2, TreeAt
    <3>2. q \in Names /\ q # <<>> /\ t[q] \in Holdings
      BY <2>2 DEF IsTree, Rooted
    <3>3. \A r \in Above(q) : r # p
      BY <1>1, <3>1
    <3> QED BY <1>3, <1>4, <2>2, <3>1, <3>2, <3>3, StringsDiffer
  <2>3. CASE q # p /\ q \notin DOMAIN t
    <3>1. q \in Above(p) /\ u[q] = Dir
      BY <1>3, <2>3
    <3>2. q \in Names /\ q # <<>>
      BY <3>1, AboveIs
    <3>3. \A r \in Above(q) : r \in Above(p)
      BY <3>1, AboveAbove
    <3> QED BY <1>6, <3>1, <3>2, <3>3 DEF Holdings
  <2> QED BY <2>1, <2>2, <2>3
<1>8. IsTree(u)
  <2> HIDE DEF u
  <2> QED BY <1>5, <1>7, TreeIs
<1> QED BY <1>4, <1>8

Rewritten(t, p, v) == [t EXCEPT ![p] = v]

LEMMA RewrittenAt ==
  ASSUME NEW t, IsTree(t), NEW p, IsFile(t, p), NEW v \in Contents \cup {Part},
         NEW u, u = Rewritten(t, p, v)
  PROVE  IsTree(u) /\ \A q : At(u, q) = IF q = p THEN v ELSE At(t, q)
<1>0. u = [t EXCEPT ![p] = v]
  BY DEF Rewritten
<1>1. p \in DOMAIN t /\ At(t, p) # Dir
  BY FileIs, TreeAt
<1>2. DOMAIN u = DOMAIN t /\ \A q \in DOMAIN u : u[q] = IF q = p THEN v ELSE t[q]
  BY <1>0
<1>3. \A q : At(u, q) = IF q = p THEN v ELSE At(t, q)
  BY <1>1, <1>2 DEF At
<1>4. ASSUME NEW q \in DOMAIN u
      PROVE  /\ q \in Names /\ q # <<>> /\ u[q] \in Holdings
             /\ \A r \in Above(q) : At(u, r) = Dir
  <2>1. q \in Names /\ q # <<>> /\ t[q] \in Holdings /\ \A r \in Above(q) : At(t, r) = Dir
    BY <1>2 DEF IsTree, Rooted
  <2>2. \A r \in Above(q) : r # p
    BY <1>1, <2>1
  <2> QED BY <1>2, <1>3, <2>1, <2>2 DEF Holdings
<1>5. IsTree(u)
  <2>1. IsFiniteSet(DOMAIN u)
    BY <1>2 DEF IsTree
  <2> QED BY <1>4, <2>1, TreeIs
<1> QED BY <1>3, <1>5

\* What other sessions do to the server.
LEMMA ChangedAt ==
  ASSUME IsTree(server), NEW p \in Paths, NEW v \in Contents \cup {Dir, None},
         v \in Contents => At(server, p) # Dir, v = Dir => At(server, p) = None,
         Len(p) > 1 => At(server, Front(p)) = Dir
  PROVE  /\ IsTree(Changed(p, v))
         /\ \A q : At(Changed(p, v), q) \in {At(server, q), v}
<1>1. p \in Names /\ p # <<>>
  BY PathsAre
<1>2. CASE v # None
  <2>1. Changed(p, v) = With(server, p, v)
    BY <1>2 DEF Changed
  <2>2. ASSUME NEW q \in Above(p) PROVE At(server, q) = Dir
    <3>1. Len(p) > 1 /\ (q = Front(p) \/ q \in Above(Front(p)))
      BY <1>1, AboveParent
    <3> QED BY <3>1, TreeAt, StringsDiffer
  <2>3. v \in Holdings /\ (v # Dir \/ At(server, p) = None) /\ At(server, p) # Dir
    BY <1>2, StringsDiffer, FoldersAssumption DEF Holdings
  <2> QED BY <1>1, <2>1, <2>2, <2>3, PutAt
<1>3. CASE v = None
  <2> DEFINE u == Restrict(server, {q \in DOMAIN server : ~IsPrefix(p, q)})
  <2>1. Changed(p, v) = u
    BY <1>3 DEF Changed
  <2>2. /\ DOMAIN u \subseteq DOMAIN server
        /\ \A q : q \in DOMAIN u <=> q \in DOMAIN server /\ ~IsPrefix(p, q)
        /\ \A q \in DOMAIN u : u[q] = server[q]
    BY DEF Restrict
  <2>3. \A q : At(u, q) \in {At(server, q), v}
    BY <1>3, <2>2 DEF At
  <2>4. IsFiniteSet(DOMAIN u)
    BY <2>2, FS_Subset DEF IsTree
  <2>5. ASSUME NEW q \in DOMAIN u
        PROVE  /\ q \in Names /\ q # <<>> /\ u[q] \in Holdings
               /\ \A r \in Above(q) : At(u, r) = Dir
    <3>1. /\ q \in Names /\ q # <<>> /\ server[q] \in Holdings
          /\ \A r \in Above(q) : At(server, r) = Dir
      BY <2>2 DEF IsTree, Rooted
    <3>2. ASSUME NEW r \in Above(q) PROVE At(u, r) = Dir
      <4>1. r \in Names /\ IsPrefix(r, q)
        BY <3>1, AboveIs
      <4>2. ~IsPrefix(p, r)
        BY <1>1, <2>2, <3>1, <4>1, PrefixTransitive
      <4>3. r \in DOMAIN server /\ server[r] = Dir
        BY <3>1, StringsDiffer DEF At
      <4> QED BY <2>2, <4>2, <4>3 DEF At
    <3> QED BY <2>2, <3>1, <3>2
  <2>6. IsTree(u)
    <3> HIDE DEF u
    <3> QED BY <2>4, <2>5, TreeIs
  <2> QED BY <2>1, <2>3, <2>6
<1> QED BY <1>2, <1>3

-----------------------------------------------------------------------------
(* What the steps have in common.                                          *)

SameCommand ==
  /\ cmd'.op = cmd.op /\ cmd'.input = cmd.input /\ cmd'.slash = cmd.slash
  /\ cmd'.relative = cmd.relative

LEMMA CommandIs ==
  ASSUME FolderTypes
  PROVE  /\ cmd \in Commands /\ cmd.input \in Names /\ cmd.slash \in BOOLEAN
         /\ cmd.relative \in BOOLEAN /\ cmd.op \in {"download", "upload"}
         /\ cmd.todo \in Seq(Items) /\ cmd.spoilt \in BOOLEAN
         /\ IsTree(From) /\ IsTree(Into)
BY DEF FolderTypes, Commands, From, Into

LEMMA ItemIs ==
  ASSUME FolderTypes, NEW i \in DOMAIN cmd.todo
  PROVE  cmd.todo[i] \in Items /\ cmd.todo[i].path \in Names /\ cmd.todo[i].folder \in BOOLEAN
<1>1. cmd.todo \in Seq(Items)
  BY CommandIs
<1>2. cmd.todo[i] \in Items
  BY <1>1, ElementOfSeq, LenProperties
<1> QED BY <1>2 DEF Items

LEMMA FirstItem ==
  ASSUME FolderTypes, cmd.todo # <<>>
  PROVE  1 \in DOMAIN cmd.todo /\ File = cmd.todo[1].path /\ File \in Names
<1>1. cmd.todo \in Seq(Items)
  BY CommandIs
<1>2. 1 \in DOMAIN cmd.todo /\ Head(cmd.todo) = cmd.todo[1]
  BY <1>1
<1> QED BY <1>2, ItemIs DEF File

\* Places keep their meaning while the command does.
LEMMA PlaceKept ==
  ASSUME SameCommand
  PROVE  /\ \A p : Place(p)' = Place(p)
         /\ Uploads' <=> Uploads
BY DEF SameCommand, Place, Uploads

LEMMA UntouchedKept ==
  ASSUME SameCommand, meddled \subseteq meddled', NEW p, Untouched(p)'
  PROVE  Untouched(p)
<1>1. (\A q : Place(q)' = Place(q)) /\ (Uploads' <=> Uploads) /\ cmd'.input = cmd.input
  BY PlaceKept DEF SameCommand
<1>2. CASE Uploads
  BY <1>1, <1>2 DEF Untouched
<1>3. CASE ~Uploads
  <2>1. \A q \in meddled' : IsPrefix(cmd.input, q) => Place(q) # p
    BY <1>1, <1>3 DEF Untouched
  <2> QED BY <1>3, <2>1 DEF Untouched
<1> QED BY <1>2, <1>3

LEMMA UntouchedSame ==
  ASSUME SameCommand, UNCHANGED meddled, NEW p
  PROVE  Untouched(p)' <=> Untouched(p)
<1>1. (\A q : Place(q)' = Place(q)) /\ (Uploads' <=> Uploads) /\ cmd'.input = cmd.input
  BY PlaceKept DEF SameCommand
<1>2. CASE Uploads
  BY <1>1, <1>2 DEF Untouched
<1>3. CASE ~Uploads
  <2>1. Untouched(p)' <=> \A q \in meddled : IsPrefix(cmd.input, q) => Place(q) # p
    BY <1>1, <1>3 DEF Untouched
  <2> QED BY <1>3, <2>1 DEF Untouched
<1> QED BY <1>2, <1>3

LEMMA StaysSame ==
  ASSUME SameCommand, UNCHANGED <<meddled, during>>, NEW p, NEW c
  PROVE  Stays(p, c)' <=> Stays(p, c)
<1>1. Place(p)' = Place(p) /\ cmd'.input = cmd.input /\ cmd'.relative = cmd.relative
  BY PlaceKept DEF SameCommand
<1>2. PICK q : q = Place(p)
  OBVIOUS
<1>3. Untouched(q)' <=> Untouched(q)
  BY UntouchedSame
<1>4. Untouched(Place(p))' <=> Untouched(Place(p))
  BY <1>1, <1>2, <1>3
<1> QED BY <1>1, <1>4 DEF Stays

\* Nothing is copied onto the place of another path, where anything is copied at all.
LEMMA PlaceIs ==
  ASSUME FolderTypes, cmd.input # <<>>, NEW p \in Names
  PROVE  \E from \in Nat :
           /\ from >= 1 /\ from <= Len(cmd.input) + 1
           /\ Place(p) # <<>> => Place(p) = SubSeq(p, from, Len(p))
           /\ from = IF cmd.slash THEN Len(cmd.input) + 1 ELSE Len(cmd.input)
<1>1. PICK l : l = Len(cmd.input)
  OBVIOUS
<1>2. l \in Nat /\ l # 0
  BY <1>1, CommandIs, LengthIs
<1>3. CASE cmd.slash
  <2>1. Place(p) # <<>> => Place(p) = SubSeq(p, l + 1, Len(p))
    BY <1>1, <1>3 DEF Place
  <2>2. l + 1 \in Nat /\ l + 1 >= 1 /\ l + 1 <= l + 1
    BY <1>2
  <2>3. l + 1 = IF cmd.slash THEN l + 1 ELSE l
    BY <1>3
  <2> WITNESS l + 1 \in Nat
  <2> QED BY <1>1, <2>1, <2>2, <2>3
<1>4. CASE ~cmd.slash
  <2>1. l + 0 = l
    BY <1>2
  <2>2. Place(p) # <<>> => Place(p) = SubSeq(p, l, Len(p))
    BY <1>1, <1>4, <2>1 DEF Place
  <2>3. l >= 1 /\ l <= l + 1 /\ l = IF cmd.slash THEN l + 1 ELSE l
    BY <1>2, <1>4
  <2> WITNESS l \in Nat
  <2> QED BY <1>1, <2>2, <2>3
<1> QED BY <1>3, <1>4

\* The end of a path.
LEMMA EndOf ==
  ASSUME NEW p \in Names, NEW from \in Nat, from >= 1, from <= Len(p) + 1
  PROVE  /\ SubSeq(p, from, Len(p)) \in Names
         /\ Len(SubSeq(p, from, Len(p))) = Len(p) - from + 1
         /\ \A i \in 1..(Len(p) - from + 1) : SubSeq(p, from, Len(p))[i] = p[from + i - 1]
<1>1. p \in Seq(STRING) /\ Len(p) \in Nat
  BY LengthIs DEF Names
<1> QED BY <1>1, SubSeqProperties DEF Names

LEMMA PlaceApart ==
  ASSUME FolderTypes, cmd.input # <<>>, NEW p \in Names, NEW q \in Names,
         IsPrefix(cmd.input, p), IsPrefix(cmd.input, q), Place(p) = Place(q), Place(p) # <<>>
  PROVE  p = q
<1>1. PICK m, n, l : m = Len(p) /\ n = Len(q) /\ l = Len(cmd.input)
  OBVIOUS
<1>2. m \in Nat /\ n \in Nat /\ l \in Nat
  BY <1>1, CommandIs, LengthIs
<1>3. l <= m /\ l <= n /\ (\A i \in 1..l : p[i] = cmd.input[i]) /\ (\A i \in 1..l : q[i] = cmd.input[i])
  BY <1>1, CommandIs, PrefixIs
<1>4. PICK from \in Nat : /\ from >= 1 /\ from <= l + 1
                          /\ Place(p) = SubSeq(p, from, m) /\ Place(q) = SubSeq(q, from, n)
  BY <1>1, PlaceIs
<1>5. /\ Len(SubSeq(p, from, m)) = m - from + 1
      /\ \A i \in 1..(m - from + 1) : SubSeq(p, from, m)[i] = p[from + i - 1]
  <2>1. from <= m + 1
    BY <1>2, <1>3, <1>4
  <2> QED BY <1>1, <2>1, EndOf
<1>6. /\ Len(SubSeq(q, from, n)) = n - from + 1
      /\ \A i \in 1..(n - from + 1) : SubSeq(q, from, n)[i] = q[from + i - 1]
  <2>1. from <= n + 1
    BY <1>2, <1>3, <1>4
  <2> QED BY <1>1, <2>1, EndOf
<1>7. m = n
  <2>1. m - from + 1 = n - from + 1
    BY <1>4, <1>5, <1>6
  <2> QED BY <1>2, <2>1
<1>8. ASSUME NEW i \in 1..m PROVE p[i] = q[i]
  <2>1. CASE i <= l
    <3>1. i \in 1..l
      BY <1>2, <2>1
    <3> QED BY <1>3, <3>1
  <2>2. CASE i > l
    <3>1. PICK j : j = i - from + 1
      OBVIOUS
    <3>2. j \in 1..(m - from + 1) /\ from + j - 1 = i
      BY <1>2, <1>4, <2>2, <3>1
    <3>3. SubSeq(p, from, m)[j] = p[i] /\ SubSeq(q, from, n)[j] = q[i]
      BY <1>5, <1>6, <1>7, <3>2
    <3> QED BY <1>4, <3>3
  <2> QED BY <1>2, <2>1, <2>2
<1> QED BY <1>1, <1>7, <1>8, SeqEqual DEF Names

LEMMA OutputType ==
  ASSUME FolderTypes, Proceeds, cmd.todo # <<>>, cmd.at # "idle"
  PROVE  Output \in Names
<1>1. File \in Names /\ cmd.input \in Names /\ cmd.input # <<>>
  BY FirstItem, CommandIs DEF Proceeds
<1>2. PICK from \in Nat : from >= 1 /\ (Output # <<>> => Output = SubSeq(File, from, Len(File)))
  BY <1>1, PlaceIs DEF Output
<1>3. Len(File) \in Nat /\ <<>> \in Names
  BY <1>1, LengthIs DEF Names
<1>4. PICK f : f = File
  OBVIOUS
<1>5. SubSeq(f, from, Len(f)) \in Names
  <2>1. f \in Names /\ Len(f) \in Nat
    BY <1>1, <1>3, <1>4
  <2>2. CASE from <= Len(f) + 1
    BY ONLY <2>1, <2>2, <1>2, EndOf
  <2>3. CASE ~(from <= Len(f) + 1)
    <3>1. SubSeq(f, from, Len(f)) = <<>>
      <4>1. Len(f) < from
        BY <2>1, <2>3
      <4> QED BY <2>1, <4>1, SubSeqEmpty
    <3> QED BY <1>3, <3>1
  <2> QED BY <2>2, <2>3
<1> QED BY <1>2, <1>3, <1>4, <1>5

LEMMA IntoIs ==
  ASSUME FolderTypes, SameCommand, NEW t, IsTree(t), IntoBecomes(t)
  PROVE  /\ IsTree(server)' /\ IsTree(local)'
         /\ \A p : There(p)' = At(t, p) /\ Here(p)' = Here(p)
         /\ Uncut(From)' <=> Uncut(From)
<1>1. Uploads' <=> Uploads
  BY PlaceKept
<1>2. CASE Uploads
  <2>1. server' = t /\ local' = local
    BY <1>2 DEF IntoBecomes
  <2>2. Into' = t /\ From' = From
    BY <1>1, <1>2, <2>1 DEF Into, From
  <2>3. IsTree(server)' /\ IsTree(local)'
    BY <2>1 DEF FolderTypes, IsTree, Rooted, At
  <2>4. \A p : There(p)' = At(t, p) /\ Here(p)' = Here(p)
    BY <2>2 DEF There, Here, At
  <2> QED BY <2>2, <2>3, <2>4 DEF Uncut
<1>3. CASE ~Uploads
  <2>1. local' = t /\ server' = server
    BY <1>3 DEF IntoBecomes
  <2>2. Into' = t /\ From' = From
    BY <1>1, <1>3, <2>1 DEF Into, From
  <2>3. IsTree(server)' /\ IsTree(local)'
    BY <2>1 DEF FolderTypes, IsTree, Rooted, At
  <2>4. \A p : There(p)' = At(t, p) /\ Here(p)' = Here(p)
    BY <2>2 DEF There, Here, At
  <2> QED BY <2>2, <2>3, <2>4 DEF Uncut
<1> QED BY <1>2, <1>3

LEMMA TreesSame ==
  ASSUME FolderTypes, SameCommand, UNCHANGED <<server, local>>
  PROVE  /\ IsTree(server)' /\ IsTree(local)'
         /\ \A p : There(p)' = There(p) /\ Here(p)' = Here(p)
         /\ Uncut(From)' <=> Uncut(From)
<1>1. Uploads' <=> Uploads
  BY PlaceKept
<1>2. Into' = Into /\ From' = From
  BY <1>1 DEF Into, From
<1>3. IsTree(server)' /\ IsTree(local)'
  BY DEF FolderTypes, IsTree, Rooted, At
<1>4. \A p : There(p)' = There(p) /\ Here(p)' = Here(p)
  BY <1>2 DEF There, Here, At
<1> QED BY <1>2, <1>3, <1>4 DEF Uncut

LEMMA RiskedSame ==
  ASSUME SameCommand, UNCHANGED meddled, NEW p
  PROVE  Risked(p)' <=> There(p)' = Part /\ Untouched(p)
BY UntouchedSame DEF Risked, Part

\* A command that ends with an error leaves no more files cut short than there were.
LEMMA EndKeeps ==
  ASSUME FoldersInv, Works, Ends("Error"), UNCHANGED <<during, meddled, lossy, changes>>,
         IsTree(server)', IsTree(local)', Uncut(From)',
         \A p : There(p)' = Part => There(p) = Part
  PROVE  FoldersInv'
<1>1. /\ cmd' \in Commands /\ SameCommand /\ cmd'.at = "over" /\ cmd'.todo = <<>> /\ ~cmd'.spoilt
      /\ cmd'.result = "Error"
  <2>1. cmd \in Commands
    BY DEF FoldersInv, FolderTypes
  <2>2. /\ cmd'.at = "over" /\ cmd'.todo = <<>> /\ ~cmd'.spoilt /\ cmd'.result = "Error"
        /\ SameCommand
    BY <2>1 DEF Commands, SameCommand, Ends
  <2>3. <<>> \in Seq(Items)
    OBVIOUS
  <2>4. cmd' \in Commands
    BY <2>1, <2>3 DEF Commands, Ends
  <2> QED BY <2>2, <2>4
<1>2. FolderTypes'
  BY <1>1 DEF FoldersInv, FolderTypes
<1>3. ~Works' /\ ~Writes'
  BY <1>1 DEF Works, Writes
<1>4. Proceeds'
  <2>1. cmd.input # <<>> /\ (cmd.relative => Uploads)
    BY DEF FoldersInv, Proceeds, Works
  <2>2. cmd'.input # <<>> /\ (cmd'.relative => Uploads')
    BY <1>1, <2>1, PlaceKept DEF SameCommand
  <2>3. DOMAIN cmd'.todo = {}
    BY <1>1
  <2> QED BY <1>1, <1>3, <2>2, <2>3 DEF Proceeds
<1>5. Copies'
  BY <1>1, <1>3 DEF Copies
<1>6. AtRisk'
  <2>1. SUFFICES ASSUME ~lossy, NEW p, NEW q, Risked(p)', Risked(q)' PROVE p = q
    BY <1>1, <1>3 DEF AtRisk
  <2>2. Risked(p) /\ Risked(q)
    BY <1>1, <2>1, RiskedSame DEF Risked
  <2> QED BY <2>1, <2>2 DEF FoldersInv, AtRisk
<1>7. Recorded'
  BY <1>3 DEF Recorded
<1>8. Covers'
  BY <1>1 DEF Covers
<1> QED BY <1>2, <1>4, <1>5, <1>6, <1>7, <1>8 DEF FoldersInv

\* A file that stays what it is is at its source.
LEMMA StaysHere ==
  ASSUME Recorded, Works, NEW p \in Paths, NEW c \in Contents, Stays(p, c)
  PROVE  Here(p) = c /\ c \notin {Dir, None, Part} /\ Direct
<1>1. Here(p) = c
  BY DEF Recorded, Stays
<1>2. c \notin {Dir, None, Part}
  BY FoldersAssumption
<1> QED BY <1>1, <1>2 DEF Direct, Stays

-----------------------------------------------------------------------------
(* The steps.                                                              *)

LEMMA InitInv == FoldersInit => FoldersInv
<1> SUFFICES ASSUME FoldersInit PROVE FoldersInv
  OBVIOUS
<1>1. /\ IsTree(server) /\ IsTree(local) /\ Uncut(server) /\ Uncut(local)
  <2>1. ASSUME NEW t \in ServerTrees \cup LocalTrees PROVE IsTree(t) /\ Uncut(t)
    BY FoldersAssumption, StringsDiffer DEF IsTree, Uncut, Names, Holdings
  <2> QED BY <2>1 DEF FoldersInit
<1>2. /\ cmd \in Commands /\ cmd.at = "idle" /\ cmd.result = "none" /\ cmd.todo = <<>>
      /\ ~cmd.relative /\ ~cmd.spoilt
  <2>1. <<>> \in Seq(Items) /\ <<>> \in Names
    BY DEF Names
  <2> QED BY <2>1 DEF FoldersInit, NoCommand, Commands
<1>3. FolderTypes
  BY <1>1, <1>2, FoldersAssumption DEF FoldersInit, FolderTypes
<1>4. ~Works /\ ~Writes
  BY <1>2 DEF Works, Writes
<1>5. Proceeds
  <2>1. DOMAIN cmd.todo = {}
    BY <1>2
  <2>2. Uncut(From)
    BY <1>1 DEF From
  <2>3. cmd = NoCommand
    BY DEF FoldersInit
  <2> QED BY <1>1, <1>2, <1>4, <2>1, <2>2, <2>3 DEF Proceeds
<1>6. \A p : ~Risked(p)
  BY <1>1, StringsDiffer DEF Risked, There, At, Into, Uncut
<1> QED BY <1>2, <1>3, <1>4, <1>5, <1>6 DEF FoldersInv, Copies, AtRisk, Recorded, Covers

LEMMA TypeKeeps == FoldersInv /\ Type => FoldersInv'
<1> SUFFICES ASSUME FoldersInv, Type PROVE FoldersInv'
  OBVIOUS
<1>1. PICK op \in {"download", "upload"}, input \in Inputs, slash \in BOOLEAN, relative \in BOOLEAN :
        /\ cmd.at = "idle"
        /\ relative => op = "upload"
        /\ cmd' = [NoCommand EXCEPT !.at = "type", !.op = op, !.input = input, !.slash = slash,
                                    !.relative = relative]
        /\ during' = [q \in Paths |-> {At(IF op = "upload" THEN local ELSE server, q)}]
        /\ UNCHANGED <<server, local, meddled, lossy, changes>>
  BY DEF Type
<1>2. /\ cmd'.at = "type" /\ cmd'.op = op /\ cmd'.input = input /\ cmd'.slash = slash
      /\ cmd'.relative = relative /\ cmd'.todo = <<>> /\ ~cmd'.spoilt /\ cmd'.result = "none"
  BY <1>1 DEF NoCommand
<1>3. input \in Names /\ input # <<>>
  BY PathsAre
<1>4. cmd' \in Commands
  <2>1. <<>> \in Seq(Items)
    OBVIOUS
  <2> QED BY <1>1, <1>3, <2>1 DEF NoCommand, Commands
<1>5. IsTree(server) /\ IsTree(local) /\ Uncut(server) /\ Uncut(local)
  BY <1>1 DEF FoldersInv, FolderTypes, Proceeds
<1>6. FolderTypes'
  <2>1. \A q \in Paths : {At(IF op = "upload" THEN local ELSE server, q)} \subseteq Holdings \cup {None}
    BY <1>5, TreeAt
  <2>2. during' \in [Paths -> SUBSET (Holdings \cup {None})]
    BY <1>1, <2>1
  <2>3. IsTree(server)' /\ IsTree(local)'
    BY <1>1, <1>5 DEF IsTree, Rooted, At
  <2> QED BY <1>1, <1>4, <2>2, <2>3 DEF FoldersInv, FolderTypes
<1>7. Uncut(From)' /\ Uncut(Into)'
  BY <1>1, <1>5 DEF From, Into, Uncut
<1>8. Works' /\ ~Writes'
  BY <1>2 DEF Works, Writes
<1>9. Proceeds'
  <2>1. DOMAIN cmd'.todo = {}
    BY <1>2
  <2> QED BY <1>1, <1>2, <1>3, <1>7, <1>8, <2>1 DEF Proceeds, Uploads
<1>10. \A p : ~Risked(p)'
  BY <1>7, StringsDiffer DEF Risked, There, At, Uncut
<1>11. Recorded'
  <2>1. From' = IF op = "upload" THEN local ELSE server
    BY <1>1, <1>2 DEF From, Uploads
  <2> QED BY <1>1, <2>1 DEF Recorded, Here, At
<1> QED BY <1>2, <1>6, <1>8, <1>9, <1>10, <1>11 DEF FoldersInv, Copies, AtRisk, Covers

LEMMA FindInputKeeps == FoldersInv /\ FindInput => FoldersInv'
<1> SUFFICES ASSUME FoldersInv, FindInput PROVE FoldersInv'
  OBVIOUS
<1>1. cmd.at = "type" /\ Works /\ ~Writes /\ UNCHANGED <<server, local, during, meddled, lossy, changes>>
  BY DEF FindInput, Works, Writes
<1>2. CASE Here(cmd.input) = None
  <2>1. Ends("Error")
    BY <1>2 DEF FindInput, Here
  <2>2. SameCommand
    BY <2>1, CommandIs DEF FoldersInv, Ends, SameCommand, Commands
  <2> QED BY <1>1, <2>1, <2>2, TreesSame, EndKeeps DEF FoldersInv, Proceeds
<1>3. CASE Here(cmd.input) # None
  <2>1. PICK item : item = Item(cmd.input, Here(cmd.input))
    OBVIOUS
  <2>2. item \in Items /\ item.path = cmd.input /\ (item.folder <=> Here(cmd.input) = Dir)
    BY <2>1, CommandIs DEF Item, Items, FoldersInv
  <2>3. cmd' = [cmd EXCEPT !.at = "listing", !.todo = <<item>>]
    BY <1>3, <2>1 DEF FindInput, Here
  <2>4. <<item>> \in Seq(Items) /\ DOMAIN <<item>> = {1} /\ <<item>>[1] = item
    BY <2>2
  <2>5. /\ cmd'.at = "listing" /\ cmd'.todo = <<item>> /\ cmd'.spoilt = cmd.spoilt
        /\ cmd'.result = cmd.result /\ SameCommand /\ cmd' \in Commands
    <3>1. cmd \in Commands
      BY DEF FoldersInv, FolderTypes
    <3> HIDE DEF Items
    <3> QED BY <2>3, <2>4, <3>1 DEF SameCommand, Commands
  <2>6. /\ IsTree(server)' /\ IsTree(local)' /\ (Uncut(From)' <=> Uncut(From))
        /\ \A p : There(p)' = There(p) /\ Here(p)' = Here(p)
    BY <1>1, <2>5, TreesSame DEF FoldersInv
  <2>7. FolderTypes'
    BY <1>1, <2>5, <2>6 DEF FoldersInv, FolderTypes
  <2>8. Works' /\ ~Writes'
    BY <2>5 DEF Works, Writes
  <2>9. Proceeds'
    <3>1. IsPrefix(cmd.input, cmd.input) /\ cmd.input # <<>> /\ (cmd.relative => Uploads)
      <4>1. cmd.input # <<>> /\ (cmd.relative => Uploads)
        BY <1>1 DEF FoldersInv, Proceeds
      <4>2. Len(cmd.input) \in Nat /\ cmd.input \in Names
        BY CommandIs, LengthIs DEF FoldersInv
      <4> QED BY <4>1, <4>2, PrefixIs
    <3>2. \A i \in DOMAIN cmd'.todo : IsPrefix(cmd'.input, cmd'.todo[i].path)
      BY <2>2, <2>4, <2>5, <3>1 DEF SameCommand
    <3>3. cmd'.result = "none" /\ ~cmd'.spoilt /\ Uncut(From)'
      BY <1>1, <2>5, <2>6 DEF FoldersInv, Proceeds
    <3>4. cmd'.input # <<>> /\ (cmd'.relative => Uploads')
      BY <2>5, <3>1, PlaceKept DEF SameCommand
    <3> QED BY <2>5, <2>8, <3>2, <3>3, <3>4 DEF Proceeds
  <2>10. Copies'
    BY <2>5, <2>8 DEF Copies
  <2>11. AtRisk'
    <3>1. \A p : Risked(p)' <=> Risked(p)
      BY <1>1, <2>5, <2>6, RiskedSame DEF Risked
    <3>2. ~lossy => \A p : ~Risked(p)
      BY <1>1 DEF FoldersInv, AtRisk
    <3> QED BY <1>1, <2>8, <3>1, <3>2 DEF AtRisk
  <2>12. Recorded'
    BY <1>1, <2>6 DEF FoldersInv, Recorded
  <2>13. ASSUME NEW p \in Paths, NEW c \in Contents, Stays(p, c)' PROVE Pending(p)'
    <3>1. Stays(p, c)
      BY <1>1, <2>5, <2>13, StaysSame
    <3>2. Here(p) = c /\ c \notin {Dir, None, Part}
      BY <1>1, <3>1, StaysHere DEF FoldersInv
    <3>3. IsPrefix(cmd.input, p) /\ p \in Names
      BY <3>1, PathsAre DEF Stays
    <3>4. CASE p = cmd.input
      BY <2>2, <2>4, <2>5, <3>4 DEF Pending
    <3>5. CASE p # cmd.input
      <4>1. cmd.input \in Above(p)
        BY <1>1, <3>3, <3>5, AboveIs, CommandIs DEF FoldersInv, Proceeds
      <4>2. Here(cmd.input) = Dir
        BY <3>2, <4>1, TreeAt, CommandIs DEF Here, FoldersInv
      <4> QED BY <2>2, <2>4, <2>5, <3>3, <3>5, <4>2 DEF Pending
    <3> QED BY <3>4, <3>5
  <2>14. Covers'
    <3>1. cmd'.result # "Success"
      BY <1>1, <2>5 DEF FoldersInv, Proceeds
    <3> QED BY <2>13, <3>1 DEF Covers
  <2> QED BY <2>7, <2>9, <2>10, <2>11, <2>12, <2>14 DEF FoldersInv
<1> QED BY <1>2, <1>3

LEMMA ListedKeeps == FoldersInv /\ Listed => FoldersInv'
<1> SUFFICES ASSUME FoldersInv, Listed PROVE FoldersInv'
  OBVIOUS
<1>1. /\ cmd.at = "listing" /\ Works /\ ~Writes
      /\ UNCHANGED <<server, local, during, meddled, lossy, changes>>
      /\ \A n \in DOMAIN cmd.todo : ~cmd.todo[n].folder
  BY DEF Listed, Works, Writes
<1>2. /\ cmd'.at = "copy" /\ cmd'.todo = cmd.todo /\ cmd'.spoilt = cmd.spoilt
      /\ cmd'.result = cmd.result /\ SameCommand /\ cmd' \in Commands
  BY CommandIs DEF FoldersInv, Listed, SameCommand, Commands
<1>3. /\ IsTree(server)' /\ IsTree(local)' /\ (Uncut(From)' <=> Uncut(From))
      /\ \A p : There(p)' = There(p) /\ Here(p)' = Here(p)
  BY <1>1, <1>2, TreesSame DEF FoldersInv
<1>4. FolderTypes'
  BY <1>1, <1>2, <1>3 DEF FoldersInv, FolderTypes
<1>5. Works' /\ ~Writes'
  BY <1>2 DEF Works, Writes
<1>6. Proceeds'
  <2>1. Direct' <=> Direct
    BY <1>2, <1>3 DEF Direct, SameCommand
  <2> QED BY <1>1, <1>2, <1>3, <1>5, <2>1, PlaceKept DEF FoldersInv, Proceeds, SameCommand
<1>7. Copies'
  BY <1>2, <1>5 DEF Copies
<1>8. AtRisk'
  <2>1. \A p : Risked(p)' <=> Risked(p)
    BY <1>1, <1>2, <1>3, RiskedSame DEF Risked
  <2>2. ~lossy => \A p : ~Risked(p)
    BY <1>1 DEF FoldersInv, AtRisk
  <2> QED BY <1>1, <1>5, <2>1, <2>2 DEF AtRisk
<1>9. Recorded'
  BY <1>1, <1>3 DEF FoldersInv, Recorded
<1>10. ASSUME ~lossy, NEW p \in Paths, NEW c \in Contents, Stays(p, c)'
       PROVE  Pending(p)' \/ There(Place(p))' = c
  <2>1. Stays(p, c) /\ Place(p)' = Place(p)
    BY <1>1, <1>2, <1>10, StaysSame, PlaceKept
  <2>2. Pending(p) \/ There(Place(p)) = c
    BY <1>1, <1>10, <2>1 DEF FoldersInv, Covers
  <2>3. Pending(p) => Pending(p)'
    BY <1>1, <1>2 DEF Pending
  <2>4. There(Place(p)) = c => There(Place(p))' = c
    <3>1. PICK r : r = Place(p)
      OBVIOUS
    <3>2. There(r)' = There(r)
      BY <1>3
    <3> QED BY <2>1, <3>1, <3>2 DEF There
  <2> QED BY <2>2, <2>3, <2>4
<1>11. Covers'
  <2>1. cmd'.result # "Success"
    BY <1>1, <1>2 DEF FoldersInv, Proceeds
  <2> QED BY <1>1, <1>10, <2>1 DEF Covers
<1> QED BY <1>4, <1>6, <1>7, <1>8, <1>9, <1>11 DEF FoldersInv

LEMMA AskContentKeeps == FoldersInv /\ AskContent => FoldersInv'
<1> SUFFICES ASSUME FoldersInv, AskContent PROVE FoldersInv'
  OBVIOUS
<1>1. /\ cmd.at = "asked" /\ Works /\ Writes /\ ~Uploads /\ ~cmd.spoilt /\ cmd.todo # <<>>
      /\ UNCHANGED <<server, local, during, meddled, lossy, changes>>
  BY DEF FoldersInv, Proceeds, AskContent, Works, Writes
<1>2. CASE ~IsFile(server, File)
  <2>1. Ends("Error")
    BY <1>2 DEF AskContent, Fails
  <2>2. SameCommand
    BY <2>1, CommandIs DEF FoldersInv, Ends, SameCommand, Commands
  <2> QED BY <1>1, <2>1, <2>2, TreesSame, EndKeeps DEF FoldersInv, Proceeds
<1>3. CASE IsFile(server, File)
  <2>1. /\ cmd'.at = "copying" /\ cmd'.todo = cmd.todo /\ cmd'.spoilt = cmd.spoilt
        /\ cmd'.result = cmd.result /\ SameCommand /\ cmd' \in Commands
    BY <1>3, CommandIs DEF FoldersInv, AskContent, SameCommand, Commands
  <2>2. /\ IsTree(server)' /\ IsTree(local)' /\ (Uncut(From)' <=> Uncut(From))
        /\ \A p : There(p)' = There(p) /\ Here(p)' = Here(p)
    BY <1>1, <2>1, TreesSame DEF FoldersInv
  <2>3. FolderTypes'
    BY <1>1, <2>1, <2>2 DEF FoldersInv, FolderTypes
  <2>4. Works' /\ Writes'
    BY <2>1 DEF Works, Writes
  <2>5. Proceeds'
    <3>1. Direct' <=> Direct
      BY <2>1, <2>2 DEF Direct, SameCommand
    <3> QED BY <1>1, <2>1, <2>2, <3>1, PlaceKept DEF FoldersInv, Proceeds, SameCommand
  <2>6. File' = File /\ Output' = Output
    <3>1. File' = File
      BY <2>1 DEF File
    <3>2. PICK f : f = File
      OBVIOUS
    <3>3. Place(f)' = Place(f)
      BY <2>1, PlaceKept
    <3> QED BY <2>1, <3>1, <3>2, <3>3 DEF Output, Place, SameCommand
  <2>7. Copies'
    <3>1. Here(File) \in Contents
      <4>1. server[File] # Part /\ File \in DOMAIN server
        BY <1>1, <1>3, StringsDiffer, FoldersAssumption
        DEF FoldersInv, Proceeds, Uncut, From, IsFile, At
      <4> QED BY <1>1, <1>3, <4>1 DEF Here, From, IsFile, At
    <3>2. Here(File)' \in Contents
      <4>1. PICK f : f = File
        OBVIOUS
      <4>2. Here(f)' = Here(f)
        BY <2>2
      <4> QED BY <2>6, <3>1, <4>1, <4>2 DEF Here
    <3>3. Output # <<>> /\ (Untouched(Output) => There(Output) = Part)
      BY <1>1 DEF FoldersInv, Copies
    <3>4. Output' # <<>> /\ (Untouched(Output)' => There(Output)' = Part)
      <4>1. PICK r : r = Output
        OBVIOUS
      <4>2. There(r)' = There(r) /\ (Untouched(r)' <=> Untouched(r))
        BY <1>1, <2>1, <2>2, UntouchedSame
      <4>3. There(Output)' = There(r)' /\ (Untouched(Output)' <=> Untouched(r)')
        BY <2>6, <4>1 DEF There, Untouched
      <4> QED BY <2>6, <3>3, <4>1, <4>2, <4>3, StringsDiffer DEF Part
    <3> QED BY <1>1, <2>1, <2>4, <3>2, <3>4 DEF Copies
  <2>8. AtRisk'
    <3>1. \A p : Risked(p)' <=> Risked(p)
      BY <1>1, <2>1, <2>2, RiskedSame DEF Risked
    <3>2. ~lossy => \A p : Risked(p) => p = Output
      BY <1>1 DEF FoldersInv, AtRisk
    <3> QED BY <1>1, <2>4, <2>6, <3>1, <3>2 DEF AtRisk
  <2>9. Recorded'
    BY <1>1, <2>2 DEF FoldersInv, Recorded
  <2>10. ASSUME ~lossy, NEW p \in Paths, NEW c \in Contents, Stays(p, c)'
         PROVE  Pending(p)' \/ There(Place(p))' = c
    <3>1. Stays(p, c) /\ Place(p)' = Place(p)
      BY <1>1, <2>1, <2>10, StaysSame, PlaceKept
    <3>2. Pending(p) \/ There(Place(p)) = c
      BY <1>1, <2>10, <3>1 DEF FoldersInv, Covers
    <3>3. Pending(p) => Pending(p)'
      BY <1>1, <2>1 DEF Pending
    <3>4. There(Place(p)) = c => There(Place(p))' = c
      <4>1. PICK r : r = Place(p)
        OBVIOUS
      <4>2. There(r)' = There(r)
        BY <2>2
      <4> QED BY <3>1, <4>1, <4>2 DEF There
    <3> QED BY <3>2, <3>3, <3>4
  <2>11. Covers'
    <3>1. cmd'.result # "Success"
      BY <1>1, <2>1 DEF FoldersInv, Proceeds
    <3> QED BY <1>1, <2>10, <3>1 DEF Covers
  <2> QED BY <2>3, <2>5, <2>7, <2>8, <2>9, <2>11 DEF FoldersInv
<1> QED BY <1>2, <1>3

LEMMA SucceedKeeps == FoldersInv /\ Succeed => FoldersInv'
<1> SUFFICES ASSUME FoldersInv, Succeed PROVE FoldersInv'
  OBVIOUS
<1>1. /\ cmd.at = "copy" /\ Works /\ ~Writes /\ cmd.todo = <<>>
      /\ UNCHANGED <<server, local, during, meddled, lossy, changes>>
  BY DEF Succeed, Works, Writes
<1>2. /\ cmd'.at = "over" /\ cmd'.todo = <<>> /\ ~cmd'.spoilt /\ SameCommand /\ cmd' \in Commands
  <2>1. cmd \in Commands /\ <<>> \in Seq(Items)
    BY CommandIs DEF FoldersInv
  <2>2. /\ cmd'.at = "over" /\ cmd'.todo = <<>> /\ ~cmd'.spoilt /\ SameCommand
    BY <2>1 DEF Succeed, Ends, SameCommand, Commands
  <2>3. cmd' \in Commands
    BY <2>1 DEF Succeed, Ends, Commands
  <2> QED BY <2>2, <2>3
<1>3. /\ IsTree(server)' /\ IsTree(local)' /\ (Uncut(From)' <=> Uncut(From))
      /\ \A p : There(p)' = There(p) /\ Here(p)' = Here(p)
  BY <1>1, <1>2, TreesSame DEF FoldersInv
<1>4. FolderTypes'
  BY <1>1, <1>2, <1>3 DEF FoldersInv, FolderTypes
<1>5. ~Works' /\ ~Writes'
  BY <1>2 DEF Works, Writes
<1>6. Proceeds'
  <2>1. DOMAIN cmd'.todo = {}
    BY <1>2
  <2>2. cmd.input # <<>> /\ (cmd.relative => Uploads) /\ Uncut(From)
    BY <1>1 DEF FoldersInv, Proceeds
  <2>3. cmd'.input # <<>> /\ (cmd'.relative => Uploads')
    BY <1>2, <2>2, PlaceKept DEF SameCommand
  <2> QED BY <1>2, <1>3, <1>5, <2>1, <2>2, <2>3 DEF Proceeds
<1>7. Copies'
  BY <1>2, <1>5 DEF Copies
<1>8. AtRisk'
  <2>1. \A p : Risked(p)' <=> Risked(p)
    BY <1>1, <1>2, <1>3, RiskedSame DEF Risked
  <2>2. ~lossy => \A p : ~Risked(p)
    BY <1>1 DEF FoldersInv, AtRisk
  <2> QED BY <1>1, <1>5, <2>1, <2>2 DEF AtRisk
<1>9. Recorded'
  BY <1>5 DEF Recorded
<1>10. ASSUME ~lossy, NEW p \in Paths, NEW c \in Contents, Stays(p, c)' PROVE There(Place(p))' = c
  <2>1. Stays(p, c) /\ Place(p)' = Place(p)
    BY <1>1, <1>2, <1>10, StaysSame, PlaceKept
  <2>2. Pending(p) \/ There(Place(p)) = c
    BY <1>1, <1>10, <2>1 DEF FoldersInv, Covers
  <2>3. ~Pending(p)
    <3>1. DOMAIN cmd.todo = {}
      BY <1>1
    <3> QED BY <3>1 DEF Pending
  <2>4. PICK r : r = Place(p)
    OBVIOUS
  <2>5. There(r)' = There(r)
    BY <1>3
  <2> QED BY <2>1, <2>2, <2>3, <2>4, <2>5 DEF There
<1>11. Covers'
  BY <1>1, <1>2, <1>10 DEF Covers
<1> QED BY <1>4, <1>6, <1>7, <1>8, <1>9, <1>11 DEF FoldersInv

\* The command opens the target of the next file.
LEMMA OpenKeeps ==
  ASSUME FoldersInv, cmd.at = "copy", cmd.todo # <<>>, CanOpen(Into, Output),
         IntoBecomes(Opened(Into, Output)), UNCHANGED <<during, meddled, lossy, changes>>,
         NEW at \in {"asked", "copying"}, cmd' = [cmd EXCEPT !.at = at],
         at = "asked" => ~Uploads, at = "copying" => Here(File) \in Contents
  PROVE  FoldersInv'
<1>1. Works /\ ~Writes /\ ~cmd.spoilt /\ cmd.result = "none" /\ cmd.input # <<>>
  BY DEF FoldersInv, Proceeds, Works, Writes
<1>2. /\ cmd'.at = at /\ cmd'.todo = cmd.todo /\ cmd'.spoilt = cmd.spoilt
      /\ cmd'.result = cmd.result /\ SameCommand /\ cmd' \in Commands
  BY CommandIs DEF FoldersInv, SameCommand, Commands
<1>3. PICK r, f : r = Output /\ f = File
  OBVIOUS
<1>4. r = Place(f) /\ r # <<>> /\ f \in Names /\ r \in Names
  BY <1>1, <1>3, FirstItem, OutputType DEF FoldersInv, Output, CanOpen
<1>5. PICK t : t = Opened(Into, r)
  OBVIOUS
<1>6. /\ IsTree(t)
      /\ \A q : At(t, q) =
           IF q = r THEN Part
           ELSE IF There(q) # None THEN There(q) ELSE IF q \in Above(r) THEN Dir ELSE None
  <2>1. IsTree(Into) /\ CanOpen(Into, r)
    BY <1>3, CommandIs DEF FoldersInv
  <2>2. PICK i : i = Into
    OBVIOUS
  <2> QED BY <1>4, <1>5, <2>1, <2>2, OpenedAt DEF There
<1>7. /\ IsTree(server)' /\ IsTree(local)' /\ (Uncut(From)' <=> Uncut(From))
      /\ \A p : There(p)' = At(t, p) /\ Here(p)' = Here(p)
  <2>1. IntoBecomes(t)
    BY <1>3, <1>5 DEF IntoBecomes
  <2> QED BY <1>2, <1>6, <2>1, IntoIs DEF FoldersInv
<1>8. FolderTypes'
  BY <1>2, <1>7 DEF FoldersInv, FolderTypes
<1>9. Works' /\ Writes'
  BY <1>2 DEF Works, Writes
<1>10. Proceeds'
  <2>1. Direct' <=> Direct
    BY <1>2, <1>7 DEF Direct, SameCommand
  <2>2. cmd'.at = "asked" => ~Uploads'
    BY <1>2, PlaceKept
  <2> QED BY <1>1, <1>2, <1>7, <1>9, <2>1, <2>2, PlaceKept DEF FoldersInv, Proceeds, SameCommand
<1>11. File' = f /\ Output' = r
  <2>1. File' = File
    BY <1>2 DEF File
  <2>2. Place(f)' = Place(f)
    BY <1>2, PlaceKept
  <2> QED BY <1>2, <1>3, <1>4, <2>1, <2>2 DEF Output, Place, SameCommand
<1>12. There(r)' = Part
  BY <1>6, <1>7
<1>13. Copies'
  <2>1. There(Output)' = Part
    BY <1>11, <1>12 DEF There
  <2>2. cmd'.at = "copying" => Here(File)' \in Contents
    <3>1. Here(f)' = Here(f)
      BY <1>7
    <3> QED BY <1>2, <1>3, <1>11, <3>1 DEF Here
  <2> QED BY <1>1, <1>2, <1>4, <1>11, <2>1, <2>2 DEF Copies, Part
<1>14. AtRisk'
  <2>1. ASSUME ~lossy, NEW p, Risked(p)' PROVE p = r
    <3>1. There(p)' = Part /\ Untouched(p)
      BY <1>2, <2>1, RiskedSame
    <3>2. p # r => There(p) = Part
      BY <1>6, <1>7, <3>1, StringsDiffer
    <3>3. ~Risked(p)
      BY <1>1, <2>1 DEF FoldersInv, AtRisk
    <3> QED BY <3>1, <3>2, <3>3 DEF Risked
  <2>2. SUFFICES ASSUME ~lossy'
                 PROVE  /\ \A p : Risked(p)' => p = Output'
                        /\ \A p, q : Risked(p)' /\ Risked(q)' => p = q
    BY <1>9 DEF AtRisk
  <2>3. \A p : Risked(p)' => p = r
    BY <2>1, <2>2
  <2> QED BY <1>11, <2>3
<1>15. Recorded'
  BY <1>1, <1>7 DEF FoldersInv, Recorded
<1>16. ASSUME ~lossy, NEW p \in Paths, NEW c \in Contents, Stays(p, c)'
       PROVE  Pending(p)' \/ There(Place(p))' = c
  <2>1. Stays(p, c) /\ Place(p)' = Place(p)
    BY <1>2, <1>16, StaysSame, PlaceKept
  <2>2. Pending(p) \/ There(Place(p)) = c
    BY <1>16, <2>1 DEF FoldersInv, Covers
  <2>3. Pending(p) => Pending(p)'
    BY <1>2 DEF Pending
  <2>4. c \notin {Dir, None, Part} /\ Direct
    BY <1>1, <2>1, StaysHere DEF FoldersInv
  <2>5. CASE Place(p) = r
    <3>1. 1 \in DOMAIN cmd.todo /\ f = cmd.todo[1].path
      BY <1>3, FirstItem DEF FoldersInv
    <3>2. IsPrefix(cmd.input, f) /\ IsPrefix(cmd.input, p) /\ p \in Names
      BY <2>1, <2>4, <3>1, PathsAre DEF FoldersInv, Proceeds, Stays
    <3>3. f = p
      BY <1>1, <1>4, <2>5, <3>2, PlaceApart DEF FoldersInv
    <3> QED BY <2>3, <3>1, <3>3 DEF Pending
  <2>6. CASE Place(p) # r
    <3>1. PICK s : s = Place(p)
      OBVIOUS
    <3>2. There(s) = c => There(s)' = c
      BY <1>6, <1>7, <2>4, <2>6, <3>1
    <3> QED BY <2>1, <2>2, <2>3, <3>1, <3>2 DEF There
  <2> QED BY <2>5, <2>6
<1>17. Covers'
  <2>1. cmd'.result # "Success"
    BY <1>1, <1>2
  <2> QED BY <1>16, <2>1 DEF Covers
<1> QED BY <1>8, <1>10, <1>13, <1>14, <1>15, <1>17 DEF FoldersInv

LEMMA FailFields ==
  ASSUME FoldersInv, Ends("Error")
  PROVE  SameCommand
BY CommandIs DEF FoldersInv, Ends, SameCommand, Commands

LEMMA OpenOutputKeeps == FoldersInv /\ OpenOutput => FoldersInv'
<1> SUFFICES ASSUME FoldersInv, OpenOutput PROVE FoldersInv'
  OBVIOUS
<1>1. /\ cmd.at = "copy" /\ cmd.todo # <<>> /\ ~Uploads /\ Works
      /\ UNCHANGED <<during, meddled, lossy, changes>> /\ Into = local
  BY DEF OpenOutput, Works, Into
<1>2. CASE /\ CanOpen(local, Output) /\ IntoBecomes(Opened(local, Output))
           /\ cmd' = [cmd EXCEPT !.at = "asked"]
  BY <1>1, <1>2, OpenKeeps
<1>3. CASE Ends("Error") /\ UNCHANGED <<server, local>>
  BY <1>1, <1>3, FailFields, TreesSame, EndKeeps DEF FoldersInv, Proceeds
<1> QED BY <1>2, <1>3 DEF OpenOutput

LEMMA OpenInputKeeps == FoldersInv /\ OpenInput => FoldersInv'
<1> SUFFICES ASSUME FoldersInv, OpenInput PROVE FoldersInv'
  OBVIOUS
<1>1. /\ cmd.at = "copy" /\ cmd.todo # <<>> /\ Uploads /\ Works
      /\ UNCHANGED <<during, meddled, lossy, changes>> /\ Into = server /\ From = local
  BY DEF OpenInput, Works, Into, From
<1>2. CASE /\ IsFile(local, File) /\ CanOpen(server, Output)
           /\ IntoBecomes(Opened(server, Output)) /\ cmd' = [cmd EXCEPT !.at = "copying"]
  <2>1. Here(File) \in Contents
    <3>1. local[File] # Part /\ File \in DOMAIN local
      BY <1>1, <1>2, StringsDiffer, FoldersAssumption
      DEF FoldersInv, Proceeds, Uncut, IsFile, At
    <3> QED BY <1>1, <1>2, <3>1 DEF Here, IsFile, At
  <2> QED BY <1>1, <1>2, <2>1, OpenKeeps
<1>3. CASE Fails /\ UNCHANGED <<server, local>>
  BY <1>1, <1>3, FailFields, TreesSame, EndKeeps DEF FoldersInv, Proceeds, Fails
<1> QED BY <1>2, <1>3 DEF OpenInput

\* What the target has when the stream is closed.
LEMMA HoldsAt ==
  ASSUME FolderTypes, SameCommand, NEW v \in Contents \cup {Part}, Holds(v)
  PROVE  /\ IsTree(server)' /\ IsTree(local)' /\ (Uncut(From)' <=> Uncut(From))
         /\ \A p : Here(p)' = Here(p)
         /\ \A p : There(p)' = IF p = Output /\ IsFile(Into, Output) THEN v ELSE There(p)
<1>1. PICK r, i : r = Output /\ i = Into
  OBVIOUS
<1>2. IsTree(i)
  BY <1>1, CommandIs
<1>3. PICK t : t = IF IsFile(i, r) THEN [i EXCEPT ![r] = v] ELSE i
  OBVIOUS
<1>4. IsTree(t) /\ \A p : At(t, p) = IF p = r /\ IsFile(i, r) THEN v ELSE At(i, p)
  <2>1. CASE IsFile(i, r)
    <3>1. t = Rewritten(i, r, v)
      BY <1>3, <2>1 DEF Rewritten
    <3> QED BY <1>2, <2>1, <3>1, RewrittenAt
  <2>2. CASE ~IsFile(i, r)
    BY <1>2, <1>3, <2>2
  <2> QED BY <2>1, <2>2
<1>5. IntoBecomes(t)
  BY <1>1, <1>3 DEF Holds, IntoBecomes
<1>6. /\ IsTree(server)' /\ IsTree(local)' /\ (Uncut(From)' <=> Uncut(From))
      /\ \A p : There(p)' = At(t, p) /\ Here(p)' = Here(p)
  BY <1>4, <1>5, IntoIs
<1> QED BY <1>1, <1>4, <1>6 DEF There

LEMMA BreakKeeps == FoldersInv /\ Break => FoldersInv'
<1> SUFFICES ASSUME FoldersInv, Break PROVE FoldersInv'
  OBVIOUS
<1>1. /\ Works /\ Ends("Error") /\ UNCHANGED <<during, meddled, lossy, changes>> /\ SameCommand
      /\ FolderTypes /\ Proceeds /\ Copies
  <2>1. Works /\ Ends("Error") /\ UNCHANGED <<during, meddled, lossy, changes>>
    BY DEF Break, Fails, Works
  <2> QED BY <2>1, FailFields DEF FoldersInv
<1>2. Uncut(From)
  BY <1>1 DEF Proceeds
<1>3. CASE UNCHANGED <<server, local>>
  BY <1>1, <1>2, <1>3, TreesSame, EndKeeps
<1>4. CASE cmd.at = "copying" /\ ~cmd.spoilt /\ Holds(At(From, File))
  <2>1. At(From, File) \in Contents
    BY <1>1, <1>4 DEF Copies, Here
  <2>2. PICK v : v = At(From, File)
    OBVIOUS
  <2>3. v \in Contents /\ v # Part /\ Holds(v)
    BY <1>4, <2>1, <2>2, FoldersAssumption DEF Holds, IntoBecomes
  <2>4. /\ IsTree(server)' /\ IsTree(local)' /\ Uncut(From)'
        /\ \A p : There(p)' = IF p = Output /\ IsFile(Into, Output) THEN v ELSE There(p)
    BY <1>1, <1>2, <2>3, HoldsAt
  <2>5. \A p : There(p)' = Part => There(p) = Part
    BY <2>3, <2>4
  <2> QED BY <1>1, <2>4, <2>5, EndKeeps
<1>5. CASE /\ cmd.at = "copy" /\ cmd.todo # <<>> /\ CanOpen(Into, Output)
           /\ IntoBecomes(MadeAbove(Into, Output))
  <2>1. PICK r, i, t : r = Output /\ i = Into /\ t = MadeAbove(i, r)
    OBVIOUS
  <2>2. IsTree(i) /\ r \in Names /\ \A q \in Above(r) : At(i, q) \in {Dir, None}
    BY <1>1, <1>5, <2>1, CommandIs, OutputType DEF CanOpen
  <2>3. /\ IsTree(t)
        /\ \A q : At(t, q) = IF At(i, q) # None THEN At(i, q)
                             ELSE IF q \in Above(r) THEN Dir ELSE None
    BY <2>1, <2>2, MadeAboveAt
  <2>4. IntoBecomes(t)
    BY <1>5, <2>1 DEF IntoBecomes
  <2>5. /\ IsTree(server)' /\ IsTree(local)' /\ Uncut(From)' /\ \A p : There(p)' = At(t, p)
    BY <1>1, <1>2, <2>3, <2>4, IntoIs
  <2>6. \A p : There(p)' = Part => There(p) = Part
    BY <2>1, <2>3, <2>5, StringsDiffer DEF There
  <2> QED BY <1>1, <2>5, <2>6, EndKeeps
<1> QED BY <1>3, <1>4, <1>5 DEF Break

LEMMA CopiedKeeps == FoldersInv /\ Copied => FoldersInv'
<1> SUFFICES ASSUME FoldersInv, Copied PROVE FoldersInv'
  OBVIOUS
<1>1. /\ cmd.at = "copying" /\ Works /\ Writes /\ cmd.todo # <<>> /\ cmd.result = "none"
      /\ cmd.input # <<>> /\ UNCHANGED <<during, meddled, changes>> /\ FolderTypes
  BY DEF FoldersInv, Proceeds, Copied, Works, Writes
<1>2. cmd.todo \in Seq(Items) /\ Tail(cmd.todo) \in Seq(Items)
  BY <1>1, CommandIs
<1>3. /\ cmd'.at = "copy" /\ cmd'.todo = Tail(cmd.todo) /\ ~cmd'.spoilt
      /\ cmd'.result = cmd.result /\ SameCommand /\ cmd' \in Commands
  <2>1. cmd \in Commands
    BY <1>1 DEF FolderTypes
  <2>2. cmd' = [cmd EXCEPT !.at = "copy", !.todo = Tail(cmd.todo), !.spoilt = FALSE]
    BY <2>1 DEF Copied, Commands
  <2>3. PICK rest \in Seq(Items) : rest = Tail(cmd.todo)
    BY <1>2
  <2>4. cmd'.at = "copy" /\ cmd'.todo = rest /\ ~cmd'.spoilt /\ cmd'.result = cmd.result /\ SameCommand
    BY <2>1, <2>2, <2>3 DEF SameCommand, Commands
  <2>5. cmd' \in Commands
    BY <2>1, <2>2, <2>3 DEF Commands
  <2> QED BY <2>3, <2>4, <2>5
<1>4. PICK r, f : r = Output /\ f = File
  OBVIOUS
<1>5. /\ r = Place(f) /\ r # <<>> /\ f \in Names /\ 1 \in DOMAIN cmd.todo /\ f = cmd.todo[1].path
      /\ (Untouched(r) => There(r) = Part)
  BY <1>1, <1>4, FirstItem DEF FoldersInv, Copies, Output
<1>6. PICK v \in Contents \cup {Part} :
        /\ Holds(v)
        /\ \/ ~cmd.spoilt /\ v = Here(f) /\ v \in Contents /\ lossy' = lossy
           \/ cmd.spoilt /\ ~Untouched(r) /\ lossy' = lossy
           \/ lossy'
  <2>1. CASE ~cmd.spoilt /\ Holds(At(From, File)) /\ UNCHANGED lossy
    <3>1. At(From, File) \in Contents
      BY <1>1, <2>1 DEF FoldersInv, Copies, Here
    <3> QED BY <1>4, <2>1, <3>1 DEF Here
  <2>2. CASE cmd.spoilt /\ (\E v \in Contents \cup {Part} : Holds(v)) /\ UNCHANGED lossy
    <3>1. ~Untouched(r)
      BY <1>1, <1>4, <2>2 DEF FoldersInv, Copies, Untouched
    <3> QED BY <2>2, <3>1
  <2>3. CASE Holds(Part) /\ lossy' = TRUE
    BY <2>3
  <2> QED BY <2>1, <2>2, <2>3 DEF Copied
<1>7. /\ IsTree(server)' /\ IsTree(local)' /\ (Uncut(From)' <=> Uncut(From))
      /\ \A p : Here(p)' = Here(p)
      /\ \A p : There(p)' = IF p = r /\ IsFile(Into, r) THEN v ELSE There(p)
  BY <1>1, <1>3, <1>4, <1>6, HoldsAt
<1>8. FolderTypes'
  BY <1>1, <1>3, <1>7 DEF FolderTypes
<1>9. Works' /\ ~Writes'
  BY <1>3 DEF Works, Writes
<1>10. Proceeds'
  <2>1. (Direct' <=> Direct) /\ cmd'.input = cmd.input
    BY <1>3, <1>7 DEF Direct, SameCommand
  <2>2. ASSUME Direct, NEW i \in DOMAIN cmd'.todo PROVE IsPrefix(cmd.input, cmd'.todo[i].path)
    <3>1. i \in Nat /\ i + 1 \in DOMAIN cmd.todo /\ cmd'.todo[i] = cmd.todo[i + 1]
      BY <1>1, <1>2, <1>3
    <3> QED BY <2>2, <3>1 DEF FoldersInv, Proceeds
  <2>3. (cmd.relative => Uploads) /\ Uncut(From)
    BY DEF FoldersInv, Proceeds
  <2>4. cmd'.relative => Uploads'
    BY <1>3, <2>3, PlaceKept DEF SameCommand
  <2> QED BY <1>1, <1>3, <1>7, <1>9, <2>1, <2>2, <2>3, <2>4 DEF Proceeds
<1>11. Copies'
  BY <1>3, <1>9 DEF Copies
<1>12. ASSUME ~lossy', NEW p PROVE ~Risked(p)'
  <2>1. ~lossy /\ (lossy' = lossy)
    BY <1>12 DEF Copied
  <2>2. CASE p # r
    <3>1. There(p)' = There(p)
      BY <1>7, <2>2
    <3>2. ~Risked(p)
      BY <1>1, <1>4, <2>1, <2>2 DEF FoldersInv, AtRisk
    <3> QED BY <1>1, <1>3, <3>1, <3>2, RiskedSame DEF Risked
  <2>3. CASE p = r
    <3>1. SUFFICES ASSUME There(r)' = Part, Untouched(r) PROVE FALSE
      BY <1>1, <1>3, <2>3, RiskedSame
    <3>2. v \in Contents
      BY <1>6, <1>12, <3>1
    <3>3. ~IsFile(Into, r)
      BY <1>7, <3>1, <3>2, FoldersAssumption
    <3>4. There(r) = Part
      BY <1>7, <3>1, <3>3
    <3>5. IsFile(Into, r)
      BY <3>4 DEF IsFile, There
    <3> QED BY <3>3, <3>5
  <2> QED BY <2>2, <2>3
<1>13. AtRisk'
  BY <1>9, <1>12 DEF AtRisk
<1>14. Recorded'
  BY <1>1, <1>7 DEF FoldersInv, Recorded
<1>15. ASSUME ~lossy', NEW p \in Paths, NEW c \in Contents, Stays(p, c)'
       PROVE  Pending(p)' \/ There(Place(p))' = c
  <2>1. Stays(p, c) /\ Place(p)' = Place(p) /\ ~lossy
    BY <1>1, <1>3, <1>15, StaysSame, PlaceKept DEF Copied
  <2>2. Pending(p) \/ There(Place(p)) = c
    BY <1>1, <2>1 DEF FoldersInv, Covers
  <2>3. Here(p) = c /\ c \notin {Dir, None, Part} /\ Direct
    BY <1>1, <2>1, StaysHere DEF FoldersInv
  <2>4. PICK s : s = Place(p)
    OBVIOUS
  <2>5. SUFFICES Pending(p)' \/ There(s)' = c
    BY <2>1, <2>4 DEF There
  <2>6. CASE s = r
    <3>1. IsPrefix(cmd.input, f) /\ IsPrefix(cmd.input, p) /\ p \in Names
      BY <1>5, <2>1, <2>3, PathsAre DEF FoldersInv, Proceeds, Stays
    <3>2. f = p
      BY <1>1, <1>5, <2>4, <2>6, <3>1, PlaceApart
    <3>3. Untouched(r)
      BY <2>1, <2>4, <2>6 DEF Stays
    <3>4. IsFile(Into, r)
      BY <1>5, <3>3 DEF IsFile, There
    <3>5. v = c
      BY <1>6, <1>15, <2>3, <3>2, <3>3
    <3> QED BY <1>7, <2>6, <3>4, <3>5
  <2>7. CASE s # r
    <3>1. There(s)' = There(s)
      BY <1>7, <2>7
    <3>2. ASSUME Pending(p) PROVE Pending(p)'
      <4>1. PICK i \in DOMAIN cmd.todo : cmd.todo[i].path = p
        BY <1>1, <3>2 DEF Pending
      <4>2. i # 1
        BY <1>5, <2>4, <2>7, <4>1
      <4>3. i - 1 \in DOMAIN Tail(cmd.todo) /\ Tail(cmd.todo)[i - 1] = cmd.todo[i]
        BY <1>1, <1>2, <4>1, <4>2
      <4> QED BY <1>3, <4>1, <4>3 DEF Pending
    <3> QED BY <2>2, <2>4, <3>1, <3>2
  <2> QED BY <2>6, <2>7
<1>16. Covers'
  <2>1. cmd'.result # "Success"
    BY <1>1, <1>3
  <2> QED BY <1>15, <2>1 DEF Covers
<1> QED BY <1>8, <1>10, <1>11, <1>13, <1>14, <1>16 DEF FoldersInv

-----------------------------------------------------------------------------
(* Listing a directory.                                                    *)

LEMMA RangeConcat ==
  ASSUME NEW S, NEW a \in Seq(S), NEW b \in Seq(S)
  PROVE  a \o b \in Seq(S) /\ Range(a \o b) = Range(a) \cup Range(b)
<1>1. PICK u, m, n : u = a \o b /\ m = Len(a) /\ n = Len(b)
  OBVIOUS
<1>2. m \in Nat /\ n \in Nat /\ DOMAIN a = 1..m /\ DOMAIN b = 1..n
  BY <1>1
<1>3. /\ u \in Seq(S) /\ DOMAIN u = 1..(m + n)
      /\ \A i \in 1..(m + n) : u[i] = IF i <= m THEN a[i] ELSE b[i - m]
  BY <1>1, <1>2, ConcatProperties
<1>4. ASSUME NEW x \in Range(u) PROVE x \in Range(a) \cup Range(b)
  <2>1. PICK i \in 1..(m + n) : u[i] = x
    BY <1>3, <1>4 DEF Range
  <2>2. CASE i <= m
    <3>1. i \in 1..m
      BY <1>2, <2>2
    <3> QED BY <1>2, <1>3, <2>1, <2>2, <3>1 DEF Range
  <2>3. CASE ~(i <= m)
    <3>1. i - m \in 1..n
      BY <1>2, <2>3
    <3> QED BY <1>2, <1>3, <2>1, <2>3, <3>1 DEF Range
  <2> QED BY <2>2, <2>3
<1>5. ASSUME NEW x \in Range(a) PROVE x \in Range(u)
  <2>1. PICK i \in 1..m : a[i] = x
    BY <1>2, <1>5 DEF Range
  <2>2. i \in 1..(m + n) /\ i <= m
    BY <1>2
  <2> QED BY <1>3, <2>1, <2>2 DEF Range
<1>6. ASSUME NEW x \in Range(b) PROVE x \in Range(u)
  <2>1. PICK i \in 1..n : b[i] = x
    BY <1>2, <1>6 DEF Range
  <2>2. i + m \in 1..(m + n) /\ ~(i + m <= m) /\ (i + m) - m = i
    BY <1>2
  <2>3. u[i + m] = x
    BY <1>3, <2>1, <2>2
  <2> QED BY <1>3, <2>2, <2>3 DEF Range
<1> QED BY <1>1, <1>3, <1>4, <1>5, <1>6

LEMMA RangePart ==
  ASSUME NEW S, NEW s \in Seq(S), NEW n \in DOMAIN s
  PROVE  /\ SubSeq(s, 1, n - 1) \in Seq(S) /\ SubSeq(s, n + 1, Len(s)) \in Seq(S)
         /\ Range(s) = Range(SubSeq(s, 1, n - 1)) \cup {s[n]} \cup Range(SubSeq(s, n + 1, Len(s)))
<1>1. PICK a, b, l : a = SubSeq(s, 1, n - 1) /\ b = SubSeq(s, n + 1, l) /\ l = Len(s)
  OBVIOUS
<1>2. l \in Nat /\ DOMAIN s = 1..l /\ n \in 1..l /\ \A i \in 1..l : s[i] \in S
  BY <1>1
<1>3. a \in Seq(S) /\ DOMAIN a = 1..(n - 1) /\ \A i \in 1..(n - 1) : a[i] = s[i]
  <2>1. 1 \in Int /\ n - 1 \in Int /\ \A i \in 1..(n - 1) : s[i] \in S
    BY <1>2
  <2>2. /\ a \in Seq(S) /\ Len(a) = IF 1 <= n - 1 THEN (n - 1) - 1 + 1 ELSE 0
        /\ \A i \in 1..((n - 1) - 1 + 1) : a[i] = s[1 + i - 1]
    BY <1>1, <2>1, SubSeqProperties
  <2>3. Len(a) = n - 1 /\ \A i \in 1..(n - 1) : a[i] = s[i]
    BY <1>2, <2>2
  <2> QED BY <2>2, <2>3
<1>4. b \in Seq(S) /\ DOMAIN b = 1..(l - n) /\ \A i \in 1..(l - n) : b[i] = s[n + i]
  <2>1. n + 1 \in Int /\ l \in Int /\ \A i \in (n + 1)..l : s[i] \in S
    BY <1>2
  <2>2. /\ b \in Seq(S) /\ Len(b) = IF n + 1 <= l THEN l - (n + 1) + 1 ELSE 0
        /\ \A i \in 1..(l - (n + 1) + 1) : b[i] = s[(n + 1) + i - 1]
    BY <1>1, <2>1, SubSeqProperties
  <2>3. Len(b) = l - n
    BY <1>2, <2>2
  <2>4. ASSUME NEW i \in 1..(l - n) PROVE b[i] = s[n + i]
    <3>1. i \in 1..(l - (n + 1) + 1) /\ (n + 1) + i - 1 = n + i
      BY <1>2
    <3> QED BY <2>2, <3>1
  <2> QED BY <2>2, <2>3, <2>4
<1>5. ASSUME NEW x \in Range(s) PROVE x \in Range(a) \cup {s[n]} \cup Range(b)
  <2>1. PICK i \in 1..l : s[i] = x
    BY <1>2, <1>5 DEF Range
  <2>2. CASE i < n
    <3>1. i \in 1..(n - 1)
      BY <1>2, <2>2
    <3> QED BY <1>3, <2>1, <3>1 DEF Range
  <2>3. CASE i = n
    BY <2>1, <2>3
  <2>4. CASE i > n
    <3>1. i - n \in 1..(l - n) /\ n + (i - n) = i
      BY <1>2, <2>4
    <3>2. b[i - n] = x
      BY <1>4, <2>1, <3>1
    <3> QED BY <1>4, <3>1, <3>2 DEF Range
  <2> QED BY <1>2, <2>2, <2>3, <2>4
<1>6. ASSUME NEW x \in Range(a) PROVE x \in Range(s)
  <2>1. PICK i \in 1..(n - 1) : a[i] = x
    BY <1>3, <1>6 DEF Range
  <2>2. i \in 1..l
    BY <1>2
  <2> QED BY <1>2, <1>3, <2>1, <2>2 DEF Range
<1>7. ASSUME NEW x \in Range(b) PROVE x \in Range(s)
  <2>1. PICK i \in 1..(l - n) : b[i] = x
    BY <1>4, <1>7 DEF Range
  <2>2. n + i \in 1..l
    BY <1>2
  <2> QED BY <1>2, <1>4, <2>1, <2>2 DEF Range
<1>8. s[n] \in Range(s)
  BY <1>2 DEF Range
<1> QED BY <1>1, <1>3, <1>4, <1>5, <1>6, <1>7, <1>8

\* The directory is replaced by its entries.
LEMMA SplicedIs ==
  ASSUME cmd.todo \in Seq(Items), NEW n \in DOMAIN cmd.todo, NEW items \in Seq(Items)
  PROVE  /\ Spliced(n, items) \in Seq(Items)
         /\ Range(cmd.todo) \subseteq Range(Spliced(n, items)) \cup {cmd.todo[n]}
         /\ Range(Spliced(n, items)) \subseteq Range(cmd.todo) \cup Range(items)
         /\ Range(items) \subseteq Range(Spliced(n, items))
<1>1. PICK s, a, b : /\ s = cmd.todo /\ a = SubSeq(s, 1, n - 1) /\ b = SubSeq(s, n + 1, Len(s))
  OBVIOUS
<1>2. /\ a \in Seq(Items) /\ b \in Seq(Items)
      /\ Range(s) = Range(a) \cup {s[n]} \cup Range(b)
  BY <1>1, RangePart
<1>3. PICK c : c = a \o items
  OBVIOUS
<1>4. c \in Seq(Items) /\ Range(c) = Range(a) \cup Range(items)
  BY <1>2, <1>3, RangeConcat
<1>5. PICK u : u = c \o b
  OBVIOUS
<1>6. u \in Seq(Items) /\ Range(u) = Range(c) \cup Range(b)
  BY <1>2, <1>4, <1>5, RangeConcat
<1>7. Spliced(n, items) = u
  BY <1>1, <1>3, <1>5 DEF Spliced, SplicedLast
<1> QED BY <1>1, <1>2, <1>4, <1>6, <1>7

LEMMA OrderIs ==
  ASSUME NEW S, IsFiniteSet(S), NEW order \in SetToSeqs(S)
  PROVE  /\ DOMAIN order = 1..Cardinality(S) /\ Cardinality(S) \in Nat
         /\ \A i \in DOMAIN order : order[i] \in S
         /\ \A q \in S : \E i \in DOMAIN order : order[i] = q
<1>1. PICK n : n = Cardinality(S)
  OBVIOUS
<1>2. n \in Nat
  BY <1>1, FS_CardinalityType
<1>3. order \in [1..n -> S] /\ \A i, j \in 1..n : i # j => order[i] # order[j]
  BY <1>1 DEF SetToSeqs
<1>4. order \in Injection(1..n, S)
  BY <1>3 DEF Injection, IsInjective
<1>5. IsFiniteSet(1..n) /\ Cardinality(1..n) = n
  <2>1. 1 \in Int /\ n \in Int
    BY <1>2
  <2>2. Cardinality(1..n) = IF 1 > n THEN 0 ELSE n - 1 + 1
    BY <2>1, FS_Interval
  <2>3. IsFiniteSet(1..n)
    BY <2>1, FS_Interval
  <2> QED BY <1>2, <2>2, <2>3
<1>6. order \in Surjection(1..n, S)
  BY <1>1, <1>4, <1>5, FS_Injection
<1> QED BY <1>1, <1>2, <1>3, <1>6 DEF Surjection

\* The item x brings p.
Leads(x, p) == x.path = p \/ (x.folder /\ IsPrefix(x.path, p) /\ x.path # p)

LEMMA PendingIs ==
  ASSUME cmd.at = "listing", NEW p
  PROVE  Pending(p) <=> \E x \in Range(cmd.todo) : Leads(x, p)
BY DEF Pending, Range, Leads

\* The next entry on the way from a directory to what is below it.
LEMMA ChildIs ==
  ASSUME NEW t, IsTree(t), NEW d \in Names, NEW p \in Names, p \in DOMAIN t,
         IsPrefix(d, p), d # p
  PROVE  \E q \in Children(t, d) : q \in Names /\ (q = p \/ (At(t, q) = Dir /\ IsPrefix(q, p)))
<1>1. PICK k, n : k = Len(d) /\ n = Len(p)
  OBVIOUS
<1>2. k \in Nat /\ n \in Nat /\ p \in Seq(STRING) /\ d \in Seq(STRING)
  BY <1>1, LengthIs DEF Names
<1>3. k <= n /\ \A i \in 1..k : d[i] = p[i]
  BY <1>1, PrefixIs
<1>4. k # n
  BY <1>1, PrefixSame
<1>5. PICK q : q = SubSeq(p, 1, k + 1)
  OBVIOUS
<1>6. q \in Names /\ Len(q) = k + 1 /\ \A i \in 1..(k + 1) : q[i] = p[i]
  <2>1. 1 \in Nat /\ k + 1 \in Nat /\ k + 1 <= n
    BY <1>2, <1>3, <1>4
  <2>2. \A i \in 1..(k + 1) : p[i] \in STRING
    BY <1>1, <1>2, <2>1
  <2>3. /\ q \in Seq(STRING) /\ Len(q) = IF 1 <= k + 1 THEN (k + 1) - 1 + 1 ELSE 0
        /\ \A i \in 1..((k + 1) - 1 + 1) : q[i] = p[1 + i - 1]
    BY <1>5, <2>1, <2>2, SubSeqProperties
  <2>4. Len(q) = k + 1 /\ \A i \in 1..(k + 1) : q[i] = p[i]
    BY <1>2, <2>3
  <2> QED BY <2>3, <2>4 DEF Names
<1>7. IsPrefix(q, p)
  <2>1. k + 1 <= n
    BY <1>2, <1>3, <1>4
  <2> QED BY <1>1, <1>6, <2>1, PrefixIs
<1>8. IsPrefix(d, q)
  <2>1. k <= k + 1 /\ \A i \in 1..k : d[i] = q[i]
    BY <1>2, <1>3, <1>6
  <2> QED BY <1>1, <1>6, <2>1, PrefixIs
<1>9. q # p => q \in Above(p)
  <2>1. q # <<>>
    BY <1>2, <1>6
  <2> QED BY <1>6, <1>7, <2>1, AboveIs
<1>10. q = p \/ At(t, q) = Dir
  BY <1>9, TreeAt
<1>11. q \in DOMAIN t
  BY <1>10, TreeAt, StringsDiffer
<1>12. q \in Children(t, d)
  BY <1>1, <1>6, <1>8, <1>11 DEF Children
<1> QED BY <1>6, <1>7, <1>10, <1>12

LEMMA ListFolderKeeps == FoldersInv /\ ListFolder => FoldersInv'
<1> SUFFICES ASSUME FoldersInv, ListFolder PROVE FoldersInv'
  OBVIOUS
<1>1. PICK n \in DOMAIN cmd.todo :
        /\ cmd.at = "listing" /\ IsNextFolder(n)
        /\ LET d == cmd.todo[n].path IN
           IF At(From, d) # Dir THEN Fails /\ UNCHANGED lossy
           ELSE \E some \in SUBSET Children(From, d) :
                  /\ some # Children(From, d) => ~Uploads
                  /\ lossy' = (lossy \/ some # Children(From, d))
                  /\ \E order \in SetToSeqs(some) :
                       cmd' = [cmd EXCEPT !.todo = Spliced(n,
                         [i \in DOMAIN order |-> Item(Joined(d, order[i]), At(From, order[i]))])]
        /\ UNCHANGED <<server, local, during, meddled, changes>>
  BY DEF ListFolder
<1>2. /\ Works /\ ~Writes /\ FolderTypes /\ cmd.result = "none" /\ ~cmd.spoilt /\ cmd.input # <<>>
      /\ cmd.input \in Names /\ (cmd.relative => Uploads) /\ Uncut(From) /\ cmd.todo \in Seq(Items)
  BY <1>1, CommandIs DEF FoldersInv, Proceeds, Works, Writes
<1>3. PICK x, d, t : x = cmd.todo[n] /\ d = x.path /\ t = From
  OBVIOUS
<1>4. x \in Items /\ d \in Names /\ x.folder /\ x \in Range(cmd.todo) /\ IsTree(t)
  BY <1>1, <1>2, <1>3, ItemIs, CommandIs DEF IsNextFolder, Range
<1>5. CASE At(t, d) # Dir
  <2>1. Ends("Error") /\ UNCHANGED lossy
    BY <1>1, <1>3, <1>5 DEF Fails
  <2>2. SameCommand
    BY <2>1, FailFields
  <2> QED BY <1>1, <1>2, <2>1, <2>2, TreesSame, EndKeeps
<1>6. CASE At(t, d) = Dir
  <2>0. PICK some \in SUBSET Children(t, d) :
          /\ lossy' = (lossy \/ some # Children(t, d))
          /\ \E order \in SetToSeqs(some) :
               cmd' = [cmd EXCEPT !.todo = Spliced(n,
                 [i \in DOMAIN order |-> Item(Joined(d, order[i]), At(t, order[i]))])]
    BY <1>1, <1>3, <1>6
  <2>1. PICK order \in SetToSeqs(some) :
          cmd' = [cmd EXCEPT !.todo = Spliced(n,
            [i \in DOMAIN order |-> Item(Joined(d, order[i]), At(t, order[i]))])]
    BY <2>0
  <2>2. PICK items : items = [i \in DOMAIN order |-> Item(Joined(d, order[i]), At(t, order[i]))]
    OBVIOUS
  <2>3. /\ DOMAIN order = 1..Cardinality(some) /\ Cardinality(some) \in Nat
        /\ \A i \in DOMAIN order : order[i] \in some
        /\ \A q \in some : \E i \in DOMAIN order : order[i] = q
    <3>1. IsFiniteSet(some)
      <4>1. some \in SUBSET DOMAIN t
        BY DEF Children
      <4> QED BY <1>4, <4>1, FS_Subset DEF IsTree
    <3> QED BY <3>1, OrderIs
  <2>4. ASSUME NEW q \in some
        PROVE  /\ q \in Names /\ IsPrefix(d, q) /\ Joined(d, q) \in Names
               /\ Item(Joined(d, q), At(t, q)) \in Items
    <3>1. q \in Names /\ IsPrefix(d, q)
      BY <1>4 DEF Children, IsTree
    <3>2. d \o q \in Names
      BY <1>4, <3>1 DEF Names
    <3>3. Joined(d, q) \in Names
      BY <3>1, <3>2 DEF Joined
    <3> QED BY <3>1, <3>3 DEF Item, Items
  <2>5. items \in Seq(Items)
    <3>1. DOMAIN items = 1..Cardinality(some) /\ \A i \in DOMAIN items : items[i] \in Items
      BY <2>2, <2>3, <2>4
    <3>2. items \in [1..Cardinality(some) -> Items]
      BY <2>2, <3>1
    <3> QED BY <2>3, <3>2
  <2>6. /\ \A y \in Range(items) : \E q \in some : y = Item(Joined(d, q), At(t, q))
        /\ \A q \in some : Item(Joined(d, q), At(t, q)) \in Range(items)
    BY <2>2, <2>3 DEF Range
  <2>7. PICK todo : todo = Spliced(n, items)
    OBVIOUS
  <2>8. /\ todo \in Seq(Items)
        /\ Range(cmd.todo) \subseteq Range(todo) \cup {x}
        /\ Range(todo) \subseteq Range(cmd.todo) \cup Range(items)
        /\ Range(items) \subseteq Range(todo)
    BY <1>2, <1>3, <2>5, <2>7, SplicedIs
  <2>9. cmd' = [cmd EXCEPT !.todo = todo]
    BY <2>1, <2>2, <2>7
  <2>10. /\ cmd'.at = "listing" /\ cmd'.todo = todo /\ ~cmd'.spoilt /\ cmd'.result = "none"
         /\ SameCommand /\ cmd' \in Commands
    <3>1. cmd \in Commands
      BY <1>2, CommandIs
    <3>2. /\ cmd'.at = "listing" /\ cmd'.todo = todo /\ ~cmd'.spoilt /\ cmd'.result = "none"
          /\ SameCommand
      BY <1>1, <1>2, <2>9, <3>1 DEF SameCommand, Commands
    <3>3. cmd' \in Commands
      BY <2>8, <2>9, <3>1 DEF Commands
    <3> QED BY <3>2, <3>3
  <2>11. /\ IsTree(server)' /\ IsTree(local)' /\ (Uncut(From)' <=> Uncut(From))
         /\ \A p : There(p)' = There(p) /\ Here(p)' = Here(p)
    BY <1>1, <1>2, <2>10, TreesSame
  <2>12. FolderTypes'
    BY <1>1, <1>2, <2>10, <2>11 DEF FolderTypes
  <2>13. Works' /\ ~Writes'
    BY <2>10 DEF Works, Writes
  <2>14. Direct => ~cmd.relative
    <3>1. SUFFICES ASSUME Direct, cmd.relative PROVE FALSE
      OBVIOUS
    <3>2. IsPrefix(cmd.input, d) /\ Here(cmd.input) # Dir
      BY <1>3, <3>1 DEF FoldersInv, Proceeds, Direct
    <3>3. cmd.input # d
      BY <1>3, <1>6, <3>2 DEF Here
    <3>4. cmd.input \in Above(d)
      BY <1>2, <1>4, <3>2, <3>3, AboveIs
    <3>5. Here(cmd.input) = Dir
      BY <1>3, <1>4, <1>6, <3>4, TreeAt, StringsDiffer DEF Here
    <3> QED BY <3>2, <3>5
  <2>15. Proceeds'
    <3>1. Direct' <=> Direct
      BY <2>10, <2>11 DEF Direct, SameCommand
    <3>2. ASSUME Direct, NEW i \in DOMAIN todo PROVE IsPrefix(cmd.input, todo[i].path)
      <4>1. todo[i] \in Range(cmd.todo) \/ todo[i] \in Range(items)
        BY <2>8 DEF Range
      <4>2. CASE todo[i] \in Range(cmd.todo)
        BY <3>2, <4>2 DEF FoldersInv, Proceeds, Range
      <4>3. CASE todo[i] \in Range(items)
        <5>1. PICK q \in some : todo[i] = Item(Joined(d, q), At(t, q))
          BY <2>6, <4>3
        <5>2. todo[i].path = q
          BY <2>14, <3>2, <5>1 DEF Item, Joined
        <5>3. IsPrefix(cmd.input, d)
          BY <1>3, <3>2 DEF FoldersInv, Proceeds
        <5> QED BY <1>2, <1>4, <2>4, <5>2, <5>3, PrefixTransitive
      <4> QED BY <4>1, <4>2, <4>3
    <3>3. cmd'.relative => Uploads'
      BY <1>2, <2>10, PlaceKept DEF SameCommand
    <3> QED BY <1>2, <2>10, <2>11, <2>13, <3>1, <3>2, <3>3 DEF Proceeds, SameCommand
  <2>16. Copies'
    BY <2>10, <2>13 DEF Copies
  <2>17. AtRisk'
    <3>1. \A p : Risked(p)' <=> Risked(p)
      BY <1>1, <2>10, <2>11, RiskedSame DEF Risked
    <3>2. ~lossy => \A p : ~Risked(p)
      BY <1>2 DEF FoldersInv, AtRisk
    <3> QED BY <2>0, <2>13, <3>1, <3>2 DEF AtRisk
  <2>18. Recorded'
    BY <1>1, <1>2, <2>11 DEF FoldersInv, Recorded
  <2>19. ASSUME ~lossy', NEW p \in Paths, NEW c \in Contents, Stays(p, c)'
         PROVE  Pending(p)' \/ There(Place(p))' = c
    <3>1. Stays(p, c) /\ Place(p)' = Place(p) /\ ~lossy /\ some = Children(t, d)
      BY <1>1, <2>0, <2>10, <2>19, StaysSame, PlaceKept
    <3>2. Here(p) = c /\ c \notin {Dir, None, Part} /\ Direct /\ p \in Names
      BY <1>2, <3>1, StaysHere, PathsAre DEF FoldersInv
    <3>3. Pending(p) \/ There(Place(p)) = c
      BY <1>1, <3>1 DEF FoldersInv, Covers
    <3>4. There(Place(p)) = c => There(Place(p))' = c
      <4>1. PICK r : r = Place(p)
        OBVIOUS
      <4>2. There(r)' = There(r)
        BY <2>11
      <4> QED BY <3>1, <4>1, <4>2 DEF There
    <3>5. Pending(p)' <=> \E y \in Range(todo) : Leads(y, p)
      <4>1. Pending(p)' <=> \E y \in Range(cmd'.todo) : Leads(y, p)
        BY <2>10 DEF Pending, Range, Leads
      <4> QED BY <2>10, <4>1
    <3>6. ASSUME Pending(p) PROVE \E y \in Range(todo) : Leads(y, p)
      <4>1. PICK y \in Range(cmd.todo) : Leads(y, p)
        BY <1>1, <3>6, PendingIs
      <4>2. CASE y # x
        BY <2>8, <4>1, <4>2
      <4>3. CASE y = x
        <5>1. p # d
          BY <1>3, <1>6, <3>2, StringsDiffer DEF Here
        <5>2. IsPrefix(d, p)
          BY <1>3, <4>1, <4>3, <5>1 DEF Leads
        <5>3. p \in DOMAIN t
          BY <1>3, <3>2 DEF Here, At
        <5>4. PICK q \in Children(t, d) :
                q \in Names /\ (q = p \/ (At(t, q) = Dir /\ IsPrefix(q, p)))
          BY <1>4, <3>2, <5>1, <5>2, <5>3, ChildIs
        <5>5. Item(Joined(d, q), At(t, q)) \in Range(todo)
          BY <2>6, <2>8, <3>1, <5>4
        <5>6. Leads(Item(Joined(d, q), At(t, q)), p)
          BY <2>14, <3>2, <5>4 DEF Leads, Item, Joined
        <5> QED BY <5>5, <5>6
      <4> QED BY <4>2, <4>3
    <3> QED BY <3>3, <3>4, <3>5, <3>6
  <2>20. Covers'
    <3>1. cmd'.result # "Success"
      BY <2>10
    <3> QED BY <2>19, <3>1 DEF Covers
  <2> QED BY <2>12, <2>15, <2>16, <2>17, <2>18, <2>20 DEF FoldersInv
<1> QED BY <1>5, <1>6

-----------------------------------------------------------------------------
(* Other sessions.                                                         *)

LEMMA MeddleKeeps == FoldersInv /\ Meddle => FoldersInv'
<1> SUFFICES ASSUME FoldersInv, Meddle PROVE FoldersInv'
  OBVIOUS
<1>1. PICK m \in Paths, v \in Contents \cup {Dir, None} :
        LET t == Changed(m, v)
            differing == {q \in Paths \cup DOMAIN server : At(t, q) # At(server, q)} IN
        /\ cmd.at \notin {"idle", "over"}
        /\ changes < MaxChanges /\ changes' = changes + 1
        /\ v # At(server, m) /\ (v \in Contents => At(server, m) # Dir)
        /\ (v = Dir => At(server, m) = None)
        /\ Len(m) > 1 => At(server, Front(m)) = Dir
        /\ server' = t
        /\ during' = IF Uploads THEN during ELSE [q \in Paths |-> during[q] \cup {At(t, q)}]
        /\ meddled' = meddled \cup differing
        /\ cmd' = [cmd EXCEPT !.spoilt = @ \/ (cmd.at = "copying"
                                               /\ (IF Uploads THEN Output ELSE File) \in differing)]
        /\ UNCHANGED <<local, lossy>>
  BY DEF Meddle
<1>2. PICK t, differing :
        /\ t = Changed(m, v)
        /\ differing = {q \in Paths \cup DOMAIN server : At(t, q) # At(server, q)}
  OBVIOUS
<1>3. /\ Works /\ FolderTypes /\ cmd.result = "none" /\ cmd.input # <<>> /\ cmd.input \in Names
      /\ (cmd.relative => Uploads) /\ Uncut(From) /\ cmd.at # "idle" /\ cmd.at # "over"
  BY <1>1, CommandIs DEF FoldersInv, Proceeds, Works
<1>4. IsTree(t) /\ \A q : At(t, q) \in {At(server, q), v}
  <2>1. IsTree(server)
    BY <1>3 DEF FolderTypes
  <2> QED BY <1>1, <1>2, <2>1, ChangedAt
<1>5. /\ server' = t /\ local' = local /\ meddled' = meddled \cup differing /\ lossy' = lossy
      /\ during' = IF Uploads THEN during ELSE [q \in Paths |-> during[q] \cup {At(t, q)}]
      /\ changes' = changes + 1 /\ changes < MaxChanges
  BY <1>1, <1>2
<1>6. PICK spoils \in BOOLEAN :
        /\ spoils <=> cmd.at = "copying" /\ (IF Uploads THEN Output ELSE File) \in differing
        /\ cmd' = [cmd EXCEPT !.spoilt = cmd.spoilt \/ spoils]
  <2>1. PICK spoils \in BOOLEAN :
          spoils <=> cmd.at = "copying" /\ (IF Uploads THEN Output ELSE File) \in differing
    OBVIOUS
  <2>2. cmd \in Commands /\ cmd.spoilt \in BOOLEAN
    BY <1>3, CommandIs
  <2>3. cmd' = [cmd EXCEPT !.spoilt = @ \/ (cmd.at = "copying"
                                        /\ (IF Uploads THEN Output ELSE File) \in differing)]
    BY <1>1, <1>2
  <2> QED BY <2>1, <2>2, <2>3
<1>7. /\ cmd'.at = cmd.at /\ cmd'.todo = cmd.todo /\ cmd'.result = "none" /\ SameCommand
      /\ (cmd'.spoilt <=> cmd.spoilt \/ spoils) /\ cmd' \in Commands
  <2>1. cmd \in Commands /\ cmd.spoilt \in BOOLEAN
    BY <1>3, CommandIs
  <2> QED BY <1>3, <1>6, <2>1 DEF SameCommand, Commands
<1>8. /\ (Uploads' <=> Uploads) /\ (\A p : Place(p)' = Place(p))
      /\ (Works' <=> Works) /\ (Writes' <=> Writes)
  BY <1>7, PlaceKept DEF Works, Writes
<1>9. \A p : Untouched(p)' => Untouched(p)
  BY <1>5, <1>7, UntouchedKept
<1>10. /\ Uploads => From = local /\ From' = local /\ Into = server /\ Into' = t
       /\ ~Uploads => From = server /\ From' = t /\ Into = local /\ Into' = local
  BY <1>5, <1>8 DEF From, Into
<1>11. \A q : q \notin differing /\ q \in Paths \cup DOMAIN server => At(t, q) = At(server, q)
  BY <1>2
<1>12. /\ \A q : Uploads => Here(q)' = Here(q)
       /\ \A q : ~Uploads => There(q)' = There(q)
       /\ \A q : ~Uploads => Here(q) = At(server, q) /\ Here(q)' = At(t, q)
       /\ \A q : Uploads => There(q) = At(server, q) /\ There(q)' = At(t, q)
  BY <1>10 DEF Here, There, At
<1>13. v # Part
  BY FoldersAssumption, StringsDiffer
<1>14. FolderTypes'
  <2>1. IsTree(server)' /\ IsTree(local)'
    <3>1. IsTree(local) /\ local' = local
      BY <1>3, <1>5 DEF FolderTypes
    <3> QED BY <1>4, <1>5, <3>1 DEF IsTree, Rooted, At
  <2>2. during' \in [Paths -> SUBSET (Holdings \cup {None})]
    <3>1. \A q \in Paths : At(t, q) \in Holdings \cup {None}
      BY <1>4, TreeAt
    <3> QED BY <1>3, <1>5, <3>1 DEF FolderTypes
  <2>3. meddled' \subseteq Names
    BY <1>2, <1>3, <1>5, PathsAre DEF FolderTypes, IsTree
  <2>4. changes' \in 0..MaxChanges
    BY <1>3, <1>5, FoldersAssumption DEF FolderTypes
  <2> QED BY <1>7, <2>1, <2>2, <2>3, <2>4 DEF FolderTypes
<1>15. PICK r, f : r = Output /\ f = File
  OBVIOUS
<1>16. r = Place(f) /\ File' = f /\ Output' = r
  <2>1. File' = File
    BY <1>7 DEF File
  <2>2. Place(f)' = Place(f)
    BY <1>7, PlaceKept
  <2> QED BY <1>7, <1>15, <2>1, <2>2 DEF Output, Place, SameCommand
<1>17. \A p : Untouched(p)' /\ There(p) # None => There(p)' = There(p)
  <2>1. SUFFICES ASSUME NEW p, Untouched(p)', There(p) # None, Uploads PROVE There(p)' = There(p)
    BY <1>12
  <2>2. p \notin differing
    BY <1>5, <1>8, <2>1 DEF Untouched
  <2>3. p \in DOMAIN server
    BY <1>12, <2>1 DEF At
  <2> QED BY <1>11, <1>12, <2>1, <2>2, <2>3
<1>18. Proceeds'
  <2>1. Uncut(From)'
    <3>1. CASE Uploads
      BY <1>3, <1>10, <3>1 DEF Uncut
    <3>2. CASE ~Uploads
      <4>1. \A q \in DOMAIN t : t[q] # Part
        BY <1>3, <1>4, <1>10, <1>13, <3>2, StringsDiffer DEF Uncut, At
      <4> QED BY <1>10, <3>2, <4>1 DEF Uncut, Part
    <3> QED BY <3>1, <3>2
  <2>2. Direct' => Direct
    BY <1>3, <1>7, <1>12 DEF Direct, SameCommand
  <2>3. cmd.at # "copying" => ~cmd'.spoilt
    BY <1>6, <1>7 DEF FoldersInv, Proceeds
  <2>4. /\ Direct => \A i \in DOMAIN cmd.todo : IsPrefix(cmd.input, cmd.todo[i].path)
        /\ Writes => cmd.todo # <<>>
        /\ cmd.at = "asked" => ~Uploads
    BY DEF FoldersInv, Proceeds
  <2> QED BY <1>3, <1>7, <1>8, <2>1, <2>2, <2>3, <2>4 DEF Proceeds, SameCommand
<1>19. Copies'
  <2>1. ASSUME cmd.at = "copying", ~cmd'.spoilt PROVE Here(f)' \in Contents
    <3>1. ~cmd.spoilt /\ ~spoils
      BY <1>7, <2>1
    <3>2. Here(f) \in Contents
      BY <1>15, <2>1, <3>1 DEF FoldersInv, Copies, Here
    <3>3. CASE Uploads
      BY <1>12, <3>2, <3>3
    <3>4. CASE ~Uploads
      <4>1. f \notin differing
        BY <1>6, <1>15, <2>1, <3>1, <3>4
      <4>2. f \in DOMAIN server
        BY <1>12, <3>2, <3>4, FoldersAssumption DEF At
      <4> QED BY <1>11, <1>12, <3>2, <3>4, <4>1, <4>2
    <3> QED BY <3>3, <3>4
  <2>2. ASSUME cmd.at = "copying", cmd'.spoilt PROVE ~Untouched(r)'
    <3>1. CASE cmd.spoilt
      <4>1. ~Untouched(r)
        BY <1>15, <2>2, <3>1 DEF FoldersInv, Copies, Untouched
      <4> QED BY <1>9, <4>1
    <3>2. CASE spoils /\ Uploads
      <4>1. r \in meddled'
        BY <1>5, <1>6, <1>15, <3>2
      <4> QED BY <1>8, <3>2, <4>1 DEF Untouched
    <3>3. CASE spoils /\ ~Uploads
      <4>1. f \in meddled'
        BY <1>5, <1>6, <1>15, <3>3
      <4>2. IsPrefix(cmd.input, f)
        <5>1. Direct /\ cmd.todo # <<>>
          BY <1>3, <2>2, <3>3 DEF FoldersInv, Proceeds, Direct, Writes
        <5>2. 1 \in DOMAIN cmd.todo /\ f = cmd.todo[1].path
          BY <1>3, <1>15, <5>1, FirstItem
        <5> QED BY <5>1, <5>2 DEF FoldersInv, Proceeds
      <4>3. IsPrefix(cmd'.input, f) /\ Place(f)' = r
        BY <1>7, <1>8, <1>16, <4>2 DEF SameCommand
      <4> QED BY <1>8, <3>3, <4>1, <4>3 DEF Untouched
    <3> QED BY <1>7, <2>2, <3>1, <3>2, <3>3
  <2>3. ASSUME Writes PROVE r # <<>> /\ (Untouched(r)' => There(r)' = Part)
    <3>1. r # <<>> /\ (Untouched(r) => There(r) = Part)
      BY <1>15, <2>3 DEF FoldersInv, Copies, Untouched, There
    <3> QED BY <1>9, <1>17, <3>1, StringsDiffer
  <2>4. Here(File)' = Here(f)' /\ There(Output)' = There(r)' /\ (Untouched(Output)' <=> Untouched(r)')
    BY <1>16 DEF Here, There, Untouched
  <2> QED BY <1>7, <1>8, <1>16, <2>1, <2>2, <2>3, <2>4 DEF Copies, Part
<1>20. \A p : Risked(p)' => Risked(p)
  <2>1. SUFFICES ASSUME NEW p, There(p)' = Part, Untouched(p)' PROVE There(p) = Part
    BY <1>9 DEF Risked, Part
  <2>2. CASE Uploads
    BY <1>4, <1>12, <1>13, <2>1, <2>2
  <2>3. CASE ~Uploads
    BY <1>12, <2>1, <2>3
  <2> QED BY <2>2, <2>3
<1>21. AtRisk'
  BY <1>5, <1>7, <1>8, <1>15, <1>16, <1>20, <1>3 DEF FoldersInv, AtRisk
<1>22. \A p \in Paths : Here(p)' \in during'[p] /\ during[p] \subseteq during'[p]
  <2>1. CASE Uploads
    BY <1>3, <1>5, <1>12, <2>1 DEF FoldersInv, Recorded
  <2>2. CASE ~Uploads
    BY <1>5, <1>12, <2>2
  <2> QED BY <2>1, <2>2
<1>23. Recorded'
  BY <1>22 DEF Recorded
<1>24. ASSUME ~lossy, NEW p \in Paths, NEW c \in Contents, Stays(p, c)',
              cmd.at \in {"listing", "copy", "asked", "copying"}
       PROVE  Pending(p)' \/ There(Place(p))' = c
  <2>1. PICK s : s = Place(p)
    OBVIOUS
  <2>2. Untouched(Place(p))' <=> Untouched(s)'
    BY <1>8, <2>1 DEF Untouched
  <2>3. Stays(p, c)
    <3>1. during'[p] = {c} /\ Untouched(s)' /\ IsPrefix(cmd'.input, p) /\ (cmd'.relative => p = cmd'.input)
      BY <1>24, <2>2 DEF Stays
    <3>2. Here(p) \in during[p]
      BY <1>3 DEF FoldersInv, Recorded
    <3>3. during[p] = {c}
      BY <1>22, <3>1, <3>2
    <3> QED BY <1>7, <1>9, <2>1, <3>1, <3>3 DEF Stays, SameCommand
  <2>4. Pending(p) \/ There(s) = c
    BY <1>24, <2>1, <2>3 DEF FoldersInv, Covers
  <2>5. Pending(p) => Pending(p)'
    BY <1>7 DEF Pending
  <2>6. There(s) = c => There(s)' = c
    <3>1. c # None
      BY FoldersAssumption
    <3>2. Untouched(s)'
      BY <1>24, <2>2 DEF Stays
    <3> QED BY <1>17, <3>1, <3>2
  <2>7. There(Place(p))' = There(s)'
    BY <1>8, <2>1 DEF There
  <2> QED BY <2>4, <2>5, <2>6, <2>7
<1>25. Covers'
  BY <1>5, <1>7, <1>24 DEF Covers
<1> QED BY <1>14, <1>18, <1>19, <1>21, <1>23, <1>25 DEF FoldersInv

LEMMA StutterKeeps == FoldersInv /\ UNCHANGED folders => FoldersInv'
<1> SUFFICES ASSUME FoldersInv, UNCHANGED folders PROVE FoldersInv'
  OBVIOUS
<1>1. /\ server' = server /\ local' = local /\ cmd' = cmd /\ during' = during
      /\ meddled' = meddled /\ lossy' = lossy /\ changes' = changes
  BY DEF folders
<1>2. FolderTypes'
  BY <1>1 DEF FoldersInv, FolderTypes, IsTree, Rooted, At
<1>3. /\ SameCommand /\ Uploads' = Uploads /\ From' = From /\ Into' = Into /\ Works' = Works
      /\ Writes' = Writes
  BY <1>1 DEF SameCommand, Uploads, From, Into, Works, Writes
<1>4. \A p : Here(p)' = Here(p) /\ There(p)' = There(p)
  BY <1>3 DEF Here, There, At
<1>5. Proceeds'
  BY <1>1, <1>3 DEF FoldersInv, Proceeds, Direct, Uncut, NoCommand, Here, At
<1>6. \A p : Place(p)' = Place(p) /\ (Untouched(p)' <=> Untouched(p)) /\ (Risked(p)' <=> Risked(p))
  BY <1>1, <1>3, <1>4, PlaceKept, UntouchedSame, RiskedSame DEF Risked
<1>7. PICK r, f : r = Output /\ f = File
  OBVIOUS
<1>8. r = Place(f) /\ File' = f /\ Output' = r
  <2>1. File' = File
    BY <1>1 DEF File
  <2> QED BY <1>1, <1>7, <2>1 DEF Output, Place
<1>9. Copies'
  <2>1. Here(f)' = Here(f) /\ There(r)' = There(r) /\ (Untouched(r)' <=> Untouched(r))
    BY <1>4, <1>6
  <2>2. Here(File)' = Here(f)' /\ There(Output)' = There(r)' /\ (Untouched(Output)' <=> Untouched(r)')
    BY <1>8 DEF Here, There, Untouched
  <2>3. Here(File) = Here(f) /\ There(Output) = There(r) /\ (Untouched(Output) <=> Untouched(r))
    BY <1>7
  <2> QED BY <1>1, <1>3, <1>7, <1>8, <2>1, <2>2, <2>3 DEF FoldersInv, Copies, Part
<1>10. AtRisk'
  BY <1>1, <1>3, <1>6, <1>7, <1>8 DEF FoldersInv, AtRisk
<1>11. Recorded'
  BY <1>1, <1>3, <1>4 DEF FoldersInv, Recorded
<1>12. ASSUME NEW p, NEW c
       PROVE  /\ Stays(p, c)' => Stays(p, c)
              /\ Pending(p) => Pending(p)'
              /\ There(Place(p)) = c => There(Place(p))' = c
  <2>1. PICK s : s = Place(p)
    OBVIOUS
  <2>2. There(s)' = There(s) /\ Place(p)' = s
    BY <1>4, <1>6, <2>1
  <2> QED BY <1>1, <1>3, <2>1, <2>2, StaysSame DEF Pending, There
<1>13. Covers'
  BY <1>1, <1>12 DEF FoldersInv, Covers
<1> QED BY <1>2, <1>5, <1>9, <1>10, <1>11, <1>13 DEF FoldersInv

\* FoldersInv is inductive.
LEMMA InvHolds == FoldersSpec => []FoldersInv
<1>1. FoldersInv /\ [FoldersNext]_folders => FoldersInv'
  BY TypeKeeps, FindInputKeeps, ListFolderKeeps, ListedKeeps, OpenOutputKeeps, AskContentKeeps,
     OpenInputKeeps, CopiedKeeps, SucceedKeeps, BreakKeeps, MeddleKeeps, StutterKeeps
  DEF FoldersNext
<1> QED BY InitInv, <1>1, PTL DEF FoldersSpec

\* The types of the state; what exists on either side is in a directory that exists.
THEOREM TypesHold == FoldersSpec => []FoldersTypeOK
<1>1. FoldersInv => FoldersTypeOK
  BY DEF FoldersInv, FolderTypes, IsTree, Holdings, Commands, FoldersTypeOK
<1> QED BY <1>1, InvHolds, PTL

\* Whatever fails and whatever other sessions do, a command that empties a file before it has
\* its new content (download.cpp:83, io_set_file_content.cpp:75) leaves one file cut short at
\* the most, and none between two files or after a success.
THEOREM OneFileSafe == FoldersSpec => []OneFileAtRisk
<1>1. FoldersInv => OneFileAtRisk
  <2> SUFFICES ASSUME FoldersInv PROVE OneFileAtRisk
    OBVIOUS
  <2>1. \A p \in DOMAIN Into : Into[p] = Part /\ Untouched(p) => Risked(p)
    BY DEF Risked, There, At
  <2>2. ~lossy /\ (cmd.at = "copy" \/ cmd.result = "Success") => \A p : ~Risked(p)
    <3>1. cmd.at = "copy" \/ cmd.result = "Success" =>
            ~Writes /\ (Works \/ cmd.result # "Error")
      BY DEF FoldersInv, Proceeds, Writes, Works
    <3> QED BY <3>1 DEF FoldersInv, AtRisk
  <2> QED BY <2>1, <2>2 DEF FoldersInv, AtRisk, OneFileAtRisk
<1> QED BY <1>1, InvHolds, PTL

\* A command that succeeded has copied every file that stayed what it is, whatever other
\* sessions did elsewhere between the listings and the copies, if no listing was cut short.
THEOREM SuccessSafe == FoldersSpec => []SuccessComplete
<1>1. FoldersInv => SuccessComplete
  BY DEF FoldersInv, Covers, Stays, There, SuccessComplete, Brought
<1> QED BY <1>1, InvHolds, PTL

-----------------------------------------------------------------------------
(* One file, buffer by buffer.                                             *)

USE TransferAssumption

-----------------------------------------------------------------------------
(* Arithmetic of the buffers.                                              *)

LEMMA CountIsDiv ==
  ASSUME NEW n \in Nat, NEW b \in Nat \ {0}
  PROVE  /\ Count(n, b) \in Nat /\ Count(n, b) >= 1
         /\ n % b \in Nat /\ n % b < b
         /\ n = b * (Count(n, b) - 1) + (n % b)
BY DEF Count

\* The client never wants more of a buffer than the server has sent of it.
LEMMA LengthsAgree ==
  ASSUME NEW n \in Nat, NEW b \in Nat \ {0}, NEW i \in Nat, NEW c \in Nat
  PROVE  /\ ClientLength(i, c, n, b) \in Nat /\ ServerLength(i, c, n, b) \in Nat
         /\ ClientLength(i, c, n, b) <= ServerLength(i, c, n, b)
<1>1. n % b \in Nat /\ n % b < b
  BY CountIsDiv
<1> QED BY <1>1 DEF ClientLength, ServerLength

-----------------------------------------------------------------------------
(* Types.                                                                  *)

LEMMA BytesOfSource ==
  ASSUME NEW k \in Sessions \cup {"original"}, NEW n \in Nat
  PROVE  Source(k, n) \in Seq(Byte) /\ Len(Source(k, n)) = n
<1>1. Source(k, n) \in [1..n -> Byte]
  BY DEF Source, Byte
<1>2. Source(k, n) \in Seq(Byte)
  BY <1>1, SeqDef
<1> QED BY <1>1, <1>2, LenProperties

LEMMA TypeInit ==
  Init => TypeOK
<1> SUFFICES ASSUME Init PROVE TypeOK
  OBVIOUS
<1>1. disk \in Seq(Byte)
  BY BytesOfSource DEF Init
<1>2. NoTransfer \in Transfers
  BY DEF NoTransfer, Transfers
<1>3. NoHandler \in Handlers
  BY DEF NoHandler, Handlers
<1> QED BY <1>1, <1>2, <1>3 DEF Init, TypeOK

\* The buffer of a handler has a length: its numbers mean something.
Buffered == \A k \in Sessions : handler[k].buffer # 0

TypeInv == TypeOK /\ Buffered

LEMMA FrameFields ==
  /\ \A f \in ToServerFrames :
       /\ f.kind \in {"get", "set"} => f.size \in Nat /\ f.buffer \in Nat /\ f.count \in Nat
       /\ f.kind \in {"chunk", "junk", "quit"} => f.bytes \in Seq(Byte)
  /\ \A f \in ToClientFrames :
       /\ f.kind = "reply" => f.ok \in BOOLEAN /\ f.size \in Nat /\ f.count \in Nat
       /\ f.kind = "chunk" => f.bytes \in Seq(Byte)
BY DEF ToServerFrames, ToClientFrames, Data

LEMMA FramesMade ==
  /\ Quit \in ToServerFrames /\ Refusal \in ToClientFrames
  /\ \A b \in Nat : Get(b) \in ToServerFrames
  /\ \A n \in Nat, b \in Nat \ {0} : Set(n, b) \in ToServerFrames
  /\ \A n \in Nat, c \in Nat : Reply(n, c) \in ToClientFrames
  /\ \A bytes \in Seq(Byte) : Chunk(bytes) \in ToServerFrames /\ Chunk(bytes) \in ToClientFrames
  /\ \A n \in Nat : Junk(n) \in ToServerFrames
<1> USE DEF ToServerFrames, ToClientFrames, Data
<1>1. QuitByte \in Byte /\ <<QuitByte, QuitByte>> \in Seq(Byte)
  BY DEF Byte
<1>2. Quit \in ToServerFrames
  BY <1>1 DEF Quit
<1>3. Refusal \in ToClientFrames
  BY DEF Refusal
<1>4. \A b \in Nat : Get(b) \in ToServerFrames
  BY DEF Get
<1>5. \A n \in Nat, b \in Nat \ {0} : Set(n, b) \in ToServerFrames
  BY CountIsDiv DEF Set
<1>6. \A n \in Nat, c \in Nat : Reply(n, c) \in ToClientFrames
  BY DEF Reply
<1>7. \A bytes \in Seq(Byte) : Chunk(bytes) \in ToServerFrames /\ Chunk(bytes) \in ToClientFrames
  BY DEF Chunk
<1>8. ASSUME NEW n \in Nat PROVE Junk(n) \in ToServerFrames
  <2>1. [i \in 1..n |-> QuitByte] \in [1..n -> Byte]
    BY <1>1
  <2>2. [i \in 1..n |-> QuitByte] \in Seq(Byte)
    BY <2>1, SeqDef
  <2> QED BY <2>2 DEF Junk
<1> QED BY <1>2, <1>3, <1>4, <1>5, <1>6, <1>7, <1>8

LEMMA ServerSendsType ==
  ASSUME TypeOK, NEW k \in Sessions, NEW f \in ToClientFrames, ServerSends(k, f)
  PROVE  toClient' \in [Sessions -> Seq(ToClientFrames)]
BY DEF TypeOK, ServerSends

LEMMA ServerTakesType ==
  ASSUME TypeOK, NEW k \in Sessions, toServer[k] # <<>>, ServerTakes(k)
  PROVE  toServer' \in [Sessions -> Seq(ToServerFrames)] /\ Head(toServer[k]) \in ToServerFrames
BY DEF TypeOK, ServerTakes

LEMMA ClientSendsType ==
  ASSUME TypeOK, NEW k \in Sessions, NEW f \in ToServerFrames, ClientSends(k, f)
  PROVE  toServer' \in [Sessions -> Seq(ToServerFrames)]
BY DEF TypeOK, ClientSends

LEMMA ClientTakesType ==
  ASSUME TypeOK, NEW k \in Sessions, toClient[k] # <<>>, ClientTakes(k)
  PROVE  toClient' \in [Sessions -> Seq(ToClientFrames)] /\ Head(toClient[k]) \in ToClientFrames
BY DEF TypeOK, ClientTakes

\* A client's transfer and a handler turn into others of their kind.
LEMMA TurnsType ==
  ASSUME TypeOK, NEW k \in Sessions, NEW c \in Transfers, Turns(k, c)
  PROVE  client' \in [Sessions -> Transfers]
BY DEF TypeOK, Turns

LEMMA BecomesType ==
  ASSUME TypeInv, NEW k \in Sessions, NEW h \in Handlers, h.buffer # 0, Becomes(k, h)
  PROVE  handler' \in [Sessions -> Handlers] /\ Buffered'
BY DEF TypeInv, Buffered, TypeOK, Becomes

LEMMA ClientFields ==
  ASSUME TypeOK, NEW k \in Sessions
  PROVE  /\ client[k] \in Transfers /\ client[k].size \in Nat /\ client[k].count \in Nat
         /\ client[k].idx \in Nat /\ client[k].out \in Seq(Byte)
         /\ ClientBuffer[k] \in Nat \ {0} /\ Length(k) \in Nat
<1>1. /\ client[k] \in Transfers /\ client[k].size \in Nat /\ client[k].count \in Nat
      /\ client[k].idx \in Nat /\ client[k].out \in Seq(Byte)
      /\ ClientBuffer[k] \in Nat \ {0}
  BY DEF TypeOK, Transfers
<1> QED BY <1>1, LengthsAgree DEF Length

LEMMA HandlerFields ==
  ASSUME TypeInv, NEW k \in Sessions
  PROVE  LET h == handler[k] IN
         /\ h \in Handlers /\ h.size \in Nat /\ h.count \in Nat /\ h.idx \in Nat /\ h.pos \in Nat
         /\ h.eof \in BOOLEAN /\ h.buf \in Seq(Byte) /\ h.good \in Nat /\ h.buffer \in Nat \ {0}
         /\ ServerLength(h.idx, h.count, h.size, h.buffer) \in Nat
<1>1. handler[k] \in Handlers /\ handler[k].buffer # 0
  BY DEF TypeInv, Buffered, TypeOK
<1> QED BY <1>1, LengthsAgree DEF Handlers

LEMMA TurnedTransfers ==
  /\ NoTransfer \in Transfers
  /\ \A c \in Transfers, n \in Nat, m \in Nat, out \in Seq(Byte) :
       /\ \A e \in {"idle", "asked", "loading", "torn", "gone"} : [c EXCEPT !.at = e] \in Transfers
       /\ \A e \in {"uploaded", "downloaded", "failed"} :
            [c EXCEPT !.at = "idle", !.result = e] \in Transfers
       /\ [c EXCEPT !.at = "loading", !.size = n, !.count = m] \in Transfers
       /\ [c EXCEPT !.at = "asked", !.op = "upload", !.size = n, !.count = m] \in Transfers
       /\ [c EXCEPT !.idx = n] \in Transfers
       /\ [c EXCEPT !.idx = n, !.out = out] \in Transfers
<1>1. NoTransfer \in Transfers
  BY DEF NoTransfer, Transfers
<1>2. ASSUME NEW c \in Transfers, NEW n \in Nat, NEW m \in Nat, NEW out \in Seq(Byte)
      PROVE  /\ \A e \in {"idle", "asked", "loading", "torn", "gone"} : [c EXCEPT !.at = e] \in Transfers
             /\ \A e \in {"uploaded", "downloaded", "failed"} :
                  [c EXCEPT !.at = "idle", !.result = e] \in Transfers
             /\ [c EXCEPT !.at = "loading", !.size = n, !.count = m] \in Transfers
             /\ [c EXCEPT !.at = "asked", !.op = "upload", !.size = n, !.count = m] \in Transfers
             /\ [c EXCEPT !.idx = n] \in Transfers
             /\ [c EXCEPT !.idx = n, !.out = out] \in Transfers
  BY DEF Transfers
<1> QED BY <1>1, <1>2

LEMMA NewHandlers ==
  /\ NoHandler \in Handlers /\ NoHandler.buffer = 1
  /\ \A h \in Handlers, n \in Nat, m \in Nat, b \in Nat, s \in Seq(Byte), t \in BOOLEAN :
       /\ [h EXCEPT !.doing = "upload", !.size = n, !.count = m, !.buffer = b] \in Handlers
       /\ [h EXCEPT !.doing = "download", !.size = n, !.count = m, !.buffer = b] \in Handlers
       /\ [h EXCEPT !.doing = "ended"] \in Handlers
       /\ [h EXCEPT !.idx = n, !.pos = m, !.eof = t] \in Handlers
       /\ [h EXCEPT !.idx = n, !.buf = s, !.good = m] \in Handlers
       /\ [h EXCEPT !.pos = n, !.buf = s] \in Handlers
<1>1. NoHandler \in Handlers /\ NoHandler.buffer = 1
  BY DEF NoHandler, Handlers
<1>2. ASSUME NEW h \in Handlers, NEW n \in Nat, NEW m \in Nat, NEW b \in Nat, NEW s \in Seq(Byte),
             NEW t \in BOOLEAN
      PROVE  /\ [h EXCEPT !.doing = "upload", !.size = n, !.count = m, !.buffer = b] \in Handlers
             /\ [h EXCEPT !.doing = "download", !.size = n, !.count = m, !.buffer = b] \in Handlers
             /\ [h EXCEPT !.doing = "ended"] \in Handlers
             /\ [h EXCEPT !.idx = n, !.pos = m, !.eof = t] \in Handlers
             /\ [h EXCEPT !.idx = n, !.buf = s, !.good = m] \in Handlers
             /\ [h EXCEPT !.pos = n, !.buf = s] \in Handlers
  <2>1. /\ [h EXCEPT !.doing = "upload", !.size = n, !.count = m, !.buffer = b] \in Handlers
        /\ [h EXCEPT !.doing = "download", !.size = n, !.count = m, !.buffer = b] \in Handlers
    BY DEF Handlers
  <2>2. [h EXCEPT !.doing = "ended"] \in Handlers
    BY DEF Handlers
  <2>3. [h EXCEPT !.idx = n, !.pos = m, !.eof = t] \in Handlers
    BY DEF Handlers
  <2>4. [h EXCEPT !.idx = n, !.buf = s, !.good = m] \in Handlers
    BY DEF Handlers
  <2>5. [h EXCEPT !.pos = n, !.buf = s] \in Handlers
    BY DEF Handlers
  <2> QED BY <2>1, <2>2, <2>3, <2>4, <2>5
<1> QED BY <1>1, <1>2

\* The client's steps.
LEMMA ClientKeepsTypes ==
  ASSUME TypeInv, ReadsWithinBuffer, NEW k \in Sessions,
         \/ StartDownload(k) \/ StartUpload(k) \/ ReadReply(k) \/ Download(k) \/ Upload(k)
         \/ Finish(k) \/ Interrupt(k) \/ Tear(k) \/ Exit(k)
  PROVE  TypeInv'
<1> USE DEF TypeInv
<1> DEFINE c == client[k]
<1>1. /\ c \in Transfers /\ c.size \in Nat /\ c.count \in Nat
      /\ c.idx \in Nat /\ c.out \in Seq(Byte) /\ Length(k) \in Nat
      /\ ClientBuffer[k] \in Nat /\ ClientBuffer[k] # 0
  BY ClientFields
<1>2. /\ NoTransfer \in Transfers
      /\ \A e \in {"idle", "loading", "torn", "gone"} : [c EXCEPT !.at = e] \in Transfers
  BY <1>1, TurnedTransfers
<1>3. CASE StartDownload(k)
  <2>1. [NoTransfer EXCEPT !.at = "asked"] \in Transfers
    BY <1>1, TurnedTransfers
  <2>2. client' \in [Sessions -> Transfers]
    BY <1>3, <2>1, TurnsType DEF StartDownload
  <2>3. toServer' \in [Sessions -> Seq(ToServerFrames)]
    BY <1>1, <1>3, FramesMade, ClientSendsType DEF StartDownload
  <2>4. made' \in [Sessions -> 0..MaxTransfers]
    BY <1>3 DEF StartDownload, TypeOK
  <2> QED BY <1>3, <2>2, <2>3, <2>4 DEF StartDownload, TypeOK, Buffered
<1>4. CASE StartUpload(k)
  <2>1. PICK n \in Sizes :
          /\ Turns(k, [NoTransfer EXCEPT !.at = "asked", !.op = "upload", !.size = n,
                                         !.count = Count(n, ClientBuffer[k])])
          /\ ClientSends(k, Set(n, ClientBuffer[k]))
    BY <1>4 DEF StartUpload
  <2>2. [NoTransfer EXCEPT !.at = "asked", !.op = "upload", !.size = n,
                           !.count = Count(n, ClientBuffer[k])] \in Transfers
    <3>1. n \in Nat /\ Count(n, ClientBuffer[k]) \in Nat
      BY <1>1, CountIsDiv
    <3> QED BY <1>1, <3>1, TurnedTransfers
  <2>3. client' \in [Sessions -> Transfers]
    BY <2>1, <2>2, TurnsType
  <2>4. Set(n, ClientBuffer[k]) \in ToServerFrames
    BY <1>1, FramesMade
  <2>5. toServer' \in [Sessions -> Seq(ToServerFrames)]
    BY <2>1, <2>4, ClientSendsType
  <2>6. made' \in [Sessions -> 0..MaxTransfers]
    <3>1. made[k] < MaxTransfers /\ made' = [made EXCEPT ![k] = @ + 1]
      BY <1>4 DEF StartUpload
    <3> QED BY <3>1 DEF TypeOK
  <2> QED BY <1>4, <2>3, <2>5, <2>6 DEF StartUpload, TypeOK, Buffered
<1>5. CASE ReadReply(k)
  <2> DEFINE r == Head(toClient[k])
  <2>1. toClient' \in [Sessions -> Seq(ToClientFrames)] /\ r \in ToClientFrames /\ r.kind = "reply"
    BY <1>5, ClientTakesType DEF ReadReply, ToClientSees
  <2>2. r.size \in Nat /\ r.count \in Nat
    BY <2>1, FrameFields
  <2> HIDE DEF r
  <2>3. /\ [c EXCEPT !.at = "idle", !.result = "failed"] \in Transfers
        /\ [c EXCEPT !.at = "loading"] \in Transfers
        /\ [c EXCEPT !.at = "loading", !.size = r.size, !.count = r.count] \in Transfers
    BY <1>1, <2>2, TurnedTransfers
  <2>4. client' \in [Sessions -> Transfers]
    BY <1>5, <2>3, TurnsType DEF ReadReply, r
  <2> QED BY <1>5, <2>1, <2>4 DEF ReadReply, TypeOK, Buffered
<1>6. CASE Download(k)
  <2> DEFINE f == Head(toClient[k])
             more == SubSeq(f.bytes, 1, Length(k))
  <2>1. toClient' \in [Sessions -> Seq(ToClientFrames)] /\ f \in ToClientFrames /\ f.kind = "chunk"
    BY <1>6, ClientTakesType DEF Download, ToClientSees
  <2>2. f.bytes \in Seq(Byte) /\ Len(f.bytes) >= Length(k)
    BY <1>6, <2>1, FrameFields DEF ReadsWithinBuffer, Download
  <2>3. more \in Seq(Byte)
    BY <1>1, <2>2
  <2> HIDE DEF more
  <2>4. [c EXCEPT !.idx = @ + 1, !.out = @ \o more] \in Transfers
    <3>1. c.idx + 1 \in Nat /\ c.out \o more \in Seq(Byte)
      BY <1>1, <2>3
    <3> QED BY <1>1, <3>1, TurnedTransfers
  <2>5. client' \in [Sessions -> Transfers]
    BY <1>6, <2>4, TurnsType DEF Download, more
  <2> QED BY <1>6, <2>1, <2>5 DEF Download, TypeOK, Buffered
<1>7. CASE Upload(k)
  <2>1. NextBytes(k) \in Seq(Byte)
    <3>1. NextBytes(k) \in [1..Length(k) -> Byte]
      <4>1. \A i \in 1..Length(k) : <<k, client[k].idx * ClientBuffer[k] + i>> \in Byte
        <5>1. client[k].idx * ClientBuffer[k] \in Nat
          BY <1>1
        <5> DEFINE start == client[k].idx * ClientBuffer[k]
        <5> HIDE DEF start
        <5>2. \A i \in 1..Length(k) : start + i \in Nat
          BY <1>1, <5>1 DEF start
        <5> QED BY <5>2 DEF Byte, start
      <4> QED BY <4>1 DEF NextBytes
    <3> QED BY <1>1, <3>1, SeqDef
  <2>2. toServer' \in [Sessions -> Seq(ToServerFrames)]
    BY <1>7, <2>1, FramesMade, ClientSendsType DEF Upload
  <2>3. [c EXCEPT !.idx = @ + 1] \in Transfers
    <3>1. c.idx + 1 \in Nat
      BY <1>1
    <3> QED BY <1>1, <3>1, TurnedTransfers
  <2>4. client' \in [Sessions -> Transfers]
    BY <1>7, <2>3, TurnsType DEF Upload
  <2> QED BY <1>7, <2>2, <2>4 DEF Upload, TypeOK, Buffered
<1>8. CASE Finish(k)
  <2>1. \A e \in {"uploaded", "downloaded"} : [c EXCEPT !.at = "idle", !.result = e] \in Transfers
    BY <1>1, TurnedTransfers
  <2>2. client' \in [Sessions -> Transfers]
    BY <1>8, <2>1, TurnsType DEF Finish
  <2> QED BY <1>8, <2>2 DEF Finish, TypeOK, Buffered
<1>9. CASE Interrupt(k)
  <2>1. toServer' \in [Sessions -> Seq(ToServerFrames)]
    BY <1>9, FramesMade, ClientSendsType DEF Interrupt
  <2> QED BY <1>9, <2>1 DEF Interrupt, TypeOK, Buffered
<1>10. CASE Tear(k)
  <2>1. toServer' \in [Sessions -> Seq(ToServerFrames)]
    <3>1. CASE UNCHANGED toServer
      BY <3>1 DEF TypeOK
    <3>2. CASE ClientSends(k, Junk(Length(k)))
      BY <1>1, <3>2, FramesMade, ClientSendsType
    <3> QED BY <1>10, <3>1, <3>2 DEF Tear
  <2>2. client' \in [Sessions -> Transfers]
    BY <1>2, <1>10, TurnsType DEF Tear
  <2> QED BY <1>10, <2>1, <2>2 DEF Tear, TypeOK, Buffered
<1>11. CASE Exit(k)
  <2>1. toServer' \in [Sessions -> Seq(ToServerFrames)] /\ toClient' \in [Sessions -> Seq(ToClientFrames)]
    <3>1. toClient' \in [Sessions -> Seq(ToClientFrames)]
      BY <1>11 DEF Exit, TypeOK
    <3>2. CASE UNCHANGED toServer
      BY <3>1, <3>2 DEF TypeOK
    <3>3. CASE toServer' = [toServer EXCEPT ![k] = <<>>]
      BY <3>1, <3>3 DEF TypeOK
    <3> QED BY <1>11, <3>2, <3>3 DEF Exit
  <2>2. client' \in [Sessions -> Transfers]
    BY <1>2, <1>11, TurnsType DEF Exit
  <2> QED BY <1>11, <2>1, <2>2 DEF Exit, TypeOK, Buffered
<1> QED BY <1>3, <1>4, <1>5, <1>6, <1>7, <1>8, <1>9, <1>10, <1>11

LEMMA FilledType ==
  ASSUME TypeInv, NEW h \in Handlers, NEW n \in Nat
  PROVE  Filled(h, n) \in Seq(Byte) /\ Len(Filled(h, n)) = n
<1>1. h.pos \in Nat /\ h.eof \in BOOLEAN
  BY DEF Handlers
<1>2. disk \in Seq(Byte) /\ Nowhere \in Byte
  BY DEF TypeInv, TypeOK, Byte
<1> DEFINE here == IF h.eof THEN 0
                   ELSE Lesser(n, IF Len(disk) > h.pos THEN Len(disk) - h.pos ELSE 0)
<1>3. here \in Nat /\ \A i \in 1..n : i <= here => h.pos + i \in 1..Len(disk)
  BY <1>1, <1>2 DEF Lesser
<1> HIDE DEF here
<1>4. \A i \in 1..n : (IF i <= here THEN disk[h.pos + i] ELSE Nowhere) \in Byte
  BY <1>2, <1>3
<1>5. Filled(h, n) \in [1..n -> Byte]
  BY <1>4 DEF Filled, here
<1>6. Filled(h, n) \in Seq(Byte)
  BY <1>5, SeqDef
<1> QED BY <1>5, <1>6, LenProperties

LEMMA WrittenType ==
  ASSUME TypeInv, NEW pos \in Nat, NEW bytes \in Seq(Byte)
  PROVE  Written(pos, bytes) \in Seq(Byte)
<1>1. disk \in Seq(Byte) /\ Nowhere \in Byte
  BY DEF TypeInv, TypeOK, Byte
<1>2. CASE bytes = <<>>
  BY <1>1, <1>2 DEF Written
<1>3. CASE bytes # <<>>
  <2> DEFINE n == IF Len(disk) > pos + Len(bytes) THEN Len(disk) ELSE pos + Len(bytes)
  <2>1. n \in Nat
    BY <1>1
  <2>2. ASSUME NEW i \in 1..n
        PROVE  (IF i \in pos + 1 .. pos + Len(bytes) THEN bytes[i - pos]
                ELSE IF i <= Len(disk) THEN disk[i] ELSE Nowhere) \in Byte
    <3>1. CASE i \in pos + 1 .. pos + Len(bytes)
      <4>1. i - pos \in 1..Len(bytes)
        BY <3>1
      <4> QED BY <3>1, <4>1
    <3>2. CASE i \notin pos + 1 .. pos + Len(bytes) /\ i <= Len(disk)
      <4>1. i \in 1..Len(disk)
        BY <1>1, <2>1, <3>2
      <4> QED BY <1>1, <3>2, <4>1
    <3>3. CASE i \notin pos + 1 .. pos + Len(bytes) /\ ~(i <= Len(disk))
      BY <1>1, <3>3
    <3> QED BY <3>1, <3>2, <3>3
  <2>3. Written(pos, bytes) \in [1..n -> Byte]
    BY <1>3, <2>2 DEF Written
  <2> HIDE DEF n
  <2> QED BY <2>1, <2>3, SeqDef
<1> QED BY <1>2, <1>3

\* The server's steps.
LEMMA ServerKeepsTypes ==
  ASSUME TypeInv, NEW k \in Sessions, ServerStep(k) \/ Flush(k)
  PROVE  TypeInv'
<1> DEFINE h == handler[k]
<1>1. /\ h \in Handlers /\ h.size \in Nat /\ h.count \in Nat /\ h.idx \in Nat /\ h.pos \in Nat
      /\ h.eof \in BOOLEAN /\ h.buf \in Seq(Byte) /\ h.good \in Nat /\ h.buffer \in Nat
      /\ h.buffer # 0 /\ ServerLength(h.idx, h.count, h.size, h.buffer) \in Nat
  BY HandlerFields
<1>2. NoHandler \in Handlers /\ NoHandler.buffer # 0
  BY DEF NoHandler, Handlers
<1>3. disk \in Seq(Byte) /\ Len(disk) \in Nat /\ TypeOK
  BY DEF TypeInv, TypeOK
<1>4. handler \in [Sessions -> Handlers] /\ Buffered
  BY DEF TypeInv, TypeOK
<1>5. ASSUME Disturbs(k) PROVE disturbed' \in [Sessions -> BOOLEAN]
  BY <1>5, <1>3 DEF Disturbs, TypeOK
<1>6. CASE Refuse(k)
  <2>1. toServer' \in [Sessions -> Seq(ToServerFrames)]
    BY <1>3, <1>6, ServerTakesType DEF Refuse, ToServerSees
  <2>2. toClient' \in [Sessions -> Seq(ToClientFrames)]
    BY <1>3, <1>6, FramesMade, ServerSendsType DEF Refuse
  <2> QED BY <1>6, <2>1, <2>2 DEF Refuse, TypeInv, TypeOK, Buffered
<1>7. CASE OpenDownload(k)
  <2> DEFINE f == Head(toServer[k])
             n == Count(Len(disk), f.buffer)
  <2>1. /\ toServer' \in [Sessions -> Seq(ToServerFrames)] /\ f \in ToServerFrames
        /\ f.kind \in {"get", "set"} /\ f.buffer # 0
    BY <1>3, <1>7, ServerTakesType DEF OpenDownload, ToServerSees, Acceptable
  <2>2. f.buffer \in Nat \ {0}
    BY <2>1, FrameFields
  <2>3. n \in Nat
    BY <1>3, <2>2, CountIsDiv
  <2> HIDE DEF n, f
  <2>4. toClient' \in [Sessions -> Seq(ToClientFrames)]
    <3>1. Reply(Len(disk), n) \in ToClientFrames
      BY <1>3, <2>3, FramesMade
    <3> QED BY <1>3, <1>7, <3>1, ServerSendsType DEF OpenDownload, n, f
  <2>5. handler' \in [Sessions -> Handlers] /\ Buffered'
    <3>1. [NoHandler EXCEPT !.doing = "download", !.size = Len(disk), !.count = n,
                            !.buffer = f.buffer] \in Handlers
      BY <1>3, <2>2, <2>3, NewHandlers
    <3>2. [NoHandler EXCEPT !.doing = "download", !.size = Len(disk), !.count = n,
                            !.buffer = f.buffer].buffer # 0
      BY <2>2 DEF NoHandler
    <3>3. CASE UNCHANGED handler
      BY <1>4, <3>3 DEF Buffered
    <3>4. CASE Becomes(k, [NoHandler EXCEPT !.doing = "download", !.size = Len(disk), !.count = n,
                                            !.buffer = f.buffer])
      BY <3>1, <3>2, <3>4, BecomesType
    <3> QED BY <1>7, <3>3, <3>4 DEF OpenDownload, n, f
  <2>6. snap' \in [Sessions -> Seq(Byte)] /\ disturbed' \in [Sessions -> BOOLEAN]
    BY <1>3, <1>7 DEF OpenDownload, TypeOK
  <2> QED BY <1>7, <2>1, <2>4, <2>5, <2>6 DEF OpenDownload, TypeInv, TypeOK
<1>8. CASE OpenUpload(k)
  <2> DEFINE f == Head(toServer[k])
  <2>1. /\ toServer' \in [Sessions -> Seq(ToServerFrames)] /\ f \in ToServerFrames
        /\ f.kind \in {"get", "set"} /\ f.buffer # 0
    BY <1>3, <1>8, ServerTakesType DEF OpenUpload, ToServerSees, Acceptable
  <2>2. f.buffer \in Nat \ {0} /\ f.size \in Nat /\ f.count \in Nat
    BY <2>1, FrameFields
  <2> HIDE DEF f
  <2>3. toClient' \in [Sessions -> Seq(ToClientFrames)]
    BY <1>3, <1>8, FramesMade, ServerSendsType DEF OpenUpload
  <2>4. handler' \in [Sessions -> Handlers] /\ Buffered'
    <3>1. [NoHandler EXCEPT !.doing = "upload", !.size = f.size, !.count = f.count,
                            !.buffer = f.buffer] \in Handlers
      <4> DEFINE n == f.size
                 m == f.count
                 b == f.buffer
      <4>1. n \in Nat /\ m \in Nat /\ b \in Nat
        BY <2>2
      <4> HIDE DEF n, m, b
      <4>2. [NoHandler EXCEPT !.doing = "upload", !.size = n, !.count = m, !.buffer = b] \in Handlers
        BY <1>1, <4>1, NewHandlers
      <4> QED BY <4>2 DEF n, m, b
    <3>2. [NoHandler EXCEPT !.doing = "upload", !.size = f.size, !.count = f.count,
                            !.buffer = f.buffer].buffer # 0
      BY <2>2 DEF NoHandler
    <3>3. CASE UNCHANGED handler
      BY <1>4, <3>3 DEF Buffered
    <3>4. CASE Becomes(k, [NoHandler EXCEPT !.doing = "upload", !.size = f.size, !.count = f.count,
                                            !.buffer = f.buffer])
      BY <3>1, <3>2, <3>4, BecomesType
    <3> QED BY <1>8, <3>3, <3>4 DEF OpenUpload, f
  <2>5. disk' \in Seq(Byte) /\ disturbed' \in [Sessions -> BOOLEAN]
    BY <1>3, <1>8 DEF OpenUpload, TypeOK
  <2> QED BY <1>8, <2>1, <2>3, <2>4, <2>5 DEF OpenUpload, TypeInv, TypeOK
<1>9. CASE SendBuffer(k)
  <2> DEFINE n == ServerLength(h.idx, h.count, h.size, h.buffer)
  <2>1. n \in Nat
    BY <1>1
  <2> HIDE DEF n
  <2>2. Filled(h, n) \in Seq(Byte)
    BY <1>1, <2>1, FilledType
  <2>3. toClient' \in [Sessions -> Seq(ToClientFrames)]
    BY <1>3, <1>9, <2>2, FramesMade, ServerSendsType DEF SendBuffer, n
  <2> DEFINE g == [h EXCEPT !.idx = @ + 1, !.pos = @ + n, !.eof = @ \/ Len(disk) < h.pos + n]
  <2>4. g \in Handlers /\ g.buffer # 0
    <3>1. h.idx + 1 \in Nat /\ h.pos + n \in Nat /\ (h.eof \/ Len(disk) < h.pos + n) \in BOOLEAN
      BY <1>1, <2>1
    <3>2. g \in Handlers
      BY <1>1, <3>1, NewHandlers
    <3> QED BY <1>1, <3>2 DEF Handlers
  <2>5. Becomes(k, g)
    BY <1>9 DEF SendBuffer, n
  <2>6. handler' \in [Sessions -> Handlers] /\ Buffered'
    BY <2>4, <2>5, BecomesType
  <2> QED BY <1>9, <2>3, <2>6 DEF SendBuffer, TypeInv, TypeOK
<1>10. CASE CloseDownload(k)
  <2>1. handler' \in [Sessions -> Handlers] /\ Buffered'
    BY <1>2, <1>10, BecomesType DEF CloseDownload
  <2> QED BY <1>10, <2>1 DEF CloseDownload, TypeInv, TypeOK
<1>11. CASE TakeBuffer(k)
  <2> DEFINE f == Head(toServer[k])
             g == [h EXCEPT !.idx = @ + 1, !.buf = @ \o f.bytes,
                            !.good = IF f.kind = "chunk" /\ @ = h.idx THEN @ + 1 ELSE @]
  <2>1. /\ toServer' \in [Sessions -> Seq(ToServerFrames)] /\ f \in ToServerFrames
        /\ f.kind \in {"chunk", "junk", "quit"}
    BY <1>3, <1>11, ServerTakesType DEF TakeBuffer, ToServerSees
  <2>2. f.bytes \in Seq(Byte)
    BY <2>1, FrameFields
  <2>3. g \in Handlers /\ g.buffer # 0
    <3> HIDE DEF f
    <3> DEFINE m == IF f.kind = "chunk" /\ h.good = h.idx THEN h.good + 1 ELSE h.good
    <3>1. h.idx + 1 \in Nat /\ h.buf \o f.bytes \in Seq(Byte) /\ m \in Nat
      BY <1>1, <2>2
    <3>2. g \in Handlers
      BY <1>1, <3>1, NewHandlers
    <3> QED BY <1>1, <3>2 DEF Handlers
  <2>4. Becomes(k, g)
    BY <1>11 DEF TakeBuffer
  <2>5. handler' \in [Sessions -> Handlers] /\ Buffered'
    BY <2>3, <2>4, BecomesType
  <2> QED BY <1>11, <2>1, <2>5 DEF TakeBuffer, TypeInv, TypeOK
<1>12. CASE CloseUpload(k)
  <2>1. handler' \in [Sessions -> Handlers] /\ Buffered'
    BY <1>2, <1>12, BecomesType DEF CloseUpload
  <2>2. disk' \in Seq(Byte)
    BY <1>1, <1>12, WrittenType DEF CloseUpload
  <2>3. disturbed' \in [Sessions -> BOOLEAN]
    BY <1>3, <1>5, <1>12 DEF CloseUpload, TypeOK
  <2> QED BY <1>12, <2>1, <2>2, <2>3 DEF CloseUpload, TypeInv, TypeOK
<1>13. CASE EndSession(k)
  <2>1. [NoHandler EXCEPT !.doing = "ended"] \in Handlers
    BY <1>1, NewHandlers
  <2>2. [NoHandler EXCEPT !.doing = "ended"].buffer # 0
    BY DEF NoHandler
  <2>3. handler' \in [Sessions -> Handlers] /\ Buffered'
    BY <1>13, <2>1, <2>2, BecomesType DEF EndSession
  <2>4. toServer' \in [Sessions -> Seq(ToServerFrames)]
    BY <1>3, <1>13 DEF EndSession, TypeOK
  <2> QED BY <1>13, <2>3, <2>4 DEF EndSession, TypeInv, TypeOK
<1>14. CASE Flush(k)
  <2>1. PICK n \in 1..Len(h.buf) :
          /\ disk' = Written(h.pos, SubSeq(h.buf, 1, n))
          /\ Becomes(k, [h EXCEPT !.pos = @ + n, !.buf = SubSeq(@, n + 1, Len(@))])
    BY <1>14 DEF Flush
  <2>2. n \in Nat /\ SubSeq(h.buf, 1, n) \in Seq(Byte) /\ SubSeq(h.buf, n + 1, Len(h.buf)) \in Seq(Byte)
    BY <1>1
  <2> DEFINE g == [h EXCEPT !.pos = @ + n, !.buf = SubSeq(@, n + 1, Len(@))]
  <2>3. g \in Handlers /\ g.buffer # 0
    <3>1. h.pos + n \in Nat
      BY <1>1, <2>2
    <3>2. g \in Handlers
      BY <1>1, <2>2, <3>1, NewHandlers
    <3> QED BY <1>1, <3>2 DEF Handlers
  <2>4. handler' \in [Sessions -> Handlers] /\ Buffered'
    BY <2>1, <2>3, BecomesType
  <2>5. disk' \in Seq(Byte)
    BY <1>1, <2>1, <2>2, WrittenType
  <2>6. disturbed' \in [Sessions -> BOOLEAN]
    BY <1>5, <1>14 DEF Flush
  <2> QED BY <1>14, <2>4, <2>5, <2>6 DEF Flush, TypeInv, TypeOK
<1> QED BY <1>6, <1>7, <1>8, <1>9, <1>10, <1>11, <1>12, <1>13, <1>14 DEF ServerStep

LEMMA TypeStep ==
  TypeInv /\ ReadsWithinBuffer /\ [Next]_vars => TypeInv'
<1> SUFFICES ASSUME TypeInv, ReadsWithinBuffer, [Next]_vars PROVE TypeInv'
  OBVIOUS
<1>1. CASE UNCHANGED vars
  BY <1>1 DEF vars, TypeInv, TypeOK, Buffered
<1>2. CASE Next
  BY <1>2, ClientKeepsTypes, ServerKeepsTypes DEF Next
<1> QED BY <1>1, <1>2

-----------------------------------------------------------------------------
(* The conversation.  What is in the queues of a session follows from how  *)
(* far its client and its handler are.                                     *)

Asks(f) == f.kind \in {"get", "set"}

\* Nothing queued will be answered.
NoneAsked(k) == \A i \in 1..Len(toServer[k]) : ~Asks(toServer[k][i])

\* The buffers the handler still wants.
Wanted(k) ==
  IF handler[k].doing = "upload" THEN handler[k].count - handler[k].idx ELSE 0

\* The handler has nothing left to send.
Silent(k) == handler[k].doing = "download" => handler[k].idx = handler[k].count

Paced(k) == handler[k].doing \in {"upload", "download"} => handler[k].idx <= handler[k].count

\* The server's input while Ctrl-C was not pressed: data it wants, then a request at most.
WellFed(k) ==
  \E m \in 0..Len(toServer[k]) :
    /\ m <= Wanted(k)
    /\ \A i \in 1..m : toServer[k][i].kind = "chunk"
    /\ Len(toServer[k]) # m =>
         m = Wanted(k) /\ Len(toServer[k]) = m + 1 /\ Asks(toServer[k][m + 1])

\* Behind what the previous upload still sends is the request, and Quit at most after it.
Waiting(k) ==
  LET q == toServer[k]
      m == Wanted(k)
  IN
  /\ toClient[k] = <<>> /\ Silent(k) /\ handler[k].doing # "ended"
  /\ Len(q) = m + 1 \/ (closing[k] /\ Len(q) = m + 2 /\ ~Asks(q[m + 2]))
  /\ \A i \in 1..m : q[i].kind = "chunk"
  /\ IF client[k].op = "download" THEN q[m + 1] = Get(ClientBuffer[k])
     ELSE q[m + 1] = Set(client[k].size, ClientBuffer[k])

\* From the frame "from" on the client's input is buffer i and those that follow, and the
\* handler sends the rest.
Streams(k, from, i, size, count) ==
  LET h    == handler[k]
      sent == i + Len(toClient[k]) + 1 - from
  IN
  /\ NoneAsked(k)
  /\ ~closing[k] => toServer[k] = <<>> /\ h.doing # "ended"
  /\ count = Count(size, ClientBuffer[k]) /\ sent <= count
  /\ \A x \in from..Len(toClient[k]) :
       /\ toClient[k][x].kind = "chunk"
       /\ Len(toClient[k][x].bytes) = ServerLength(i + x - from, count, size, ClientBuffer[k])
  /\ \/ /\ h.doing = "download" /\ h.idx = sent
        /\ h.count = count /\ h.size = size /\ h.buffer = ClientBuffer[k]
     \/ h.doing \in {"none", "ended"} /\ sent = count

Refused(k) ==
  /\ Len(toClient[k]) = 1 /\ toClient[k][1].kind = "reply" /\ ~toClient[k][1].ok
  /\ NoneAsked(k) /\ handler[k].doing \in {"none", "ended"}
  /\ ~closing[k] => toServer[k] = <<>> /\ handler[k].doing = "none"

Accepted(k) ==
  LET r == toClient[k][1] IN
  /\ Len(toClient[k]) > 0 /\ r.kind = "reply" /\ r.ok
  /\ IF client[k].op = "download" THEN Streams(k, 2, 0, r.size, r.count)
     ELSE /\ Len(toClient[k]) = 1 /\ NoneAsked(k) /\ handler[k].doing # "download"
          /\ ~closing[k] => /\ toServer[k] = <<>> /\ handler[k].doing = "upload"
                            /\ handler[k].idx = 0 /\ handler[k].count = client[k].count

\* What the client has sent of its upload has arrived or is queued.
Feeds(k) ==
  /\ toClient[k] = <<>> /\ NoneAsked(k) /\ handler[k].doing # "download"
  /\ ~closing[k] =>
       /\ \A i \in 1..Len(toServer[k]) : toServer[k][i].kind = "chunk"
       /\ client[k].idx <= client[k].count
       /\ \/ /\ handler[k].doing = "upload" /\ handler[k].count = client[k].count
             /\ handler[k].idx + Len(toServer[k]) = client[k].idx
          \/ handler[k].doing = "none" /\ toServer[k] = <<>> /\ client[k].idx = client[k].count

Rests(k) ==
  /\ toClient[k] = <<>> /\ NoneAsked(k) /\ Silent(k)
  /\ ~closing[k] => /\ \A i \in 1..Len(toServer[k]) : toServer[k][i].kind = "chunk"
                    /\ Len(toServer[k]) = Wanted(k) /\ handler[k].doing # "ended"

InConversation(k) ==
  LET c == client[k] IN
  /\ Paced(k)
  /\ c.at = "idle" => Rests(k)
  /\ c.at = "asked" =>
       /\ c.idx = 0 /\ c.result = "none"
       /\ c.op = "download" => c.out = <<>>
       /\ c.op = "upload" => c.count = Count(c.size, ClientBuffer[k])
       /\ Waiting(k) \/ Refused(k) \/ Accepted(k)
  /\ c.at = "loading" =>
       /\ c.result = "none"
       /\ IF c.op = "download" THEN Streams(k, 1, c.idx, c.size, c.count) ELSE Feeds(k)
  /\ c.at = "torn" => closing[k] /\ c.result = "none"
  /\ c.at = "gone" => /\ toClient[k] = <<>> /\ (~closing[k] => WellFed(k))
                      /\ c.result = "downloaded" => NoneAsked(k)

Conversations == \A k \in Sessions : InConversation(k)

ConvInv == TypeInv /\ Conversations

LEMMA QueuesAre ==
  ASSUME TypeOK, NEW k \in Sessions
  PROVE  /\ toServer[k] \in Seq(ToServerFrames) /\ Len(toServer[k]) \in Nat
         /\ toClient[k] \in Seq(ToClientFrames) /\ Len(toClient[k]) \in Nat
         /\ toServer[k] = <<>> <=> Len(toServer[k]) = 0
         /\ toClient[k] = <<>> <=> Len(toClient[k]) = 0
         /\ toServer[k] # <<>> => Head(toServer[k]) = toServer[k][1]
         /\ toClient[k] # <<>> => Head(toClient[k]) = toClient[k][1]
         /\ \A i \in 1..Len(toServer[k]) : toServer[k][i] \in ToServerFrames
         /\ \A i \in 1..Len(toClient[k]) : toClient[k][i] \in ToClientFrames
<1>1. toServer[k] \in Seq(ToServerFrames) /\ toClient[k] \in Seq(ToClientFrames)
  BY DEF TypeOK
<1>2. ASSUME NEW S, NEW s \in Seq(S)
      PROVE  /\ Len(s) \in Nat /\ s = <<>> <=> Len(s) = 0
             /\ s # <<>> => Head(s) = s[1]
             /\ \A i \in 1..Len(s) : s[i] \in S
  BY <1>2
<1> QED BY <1>1, <1>2

\* q is p with f behind it, or p without its first.
Grown(q, p, f) ==
  /\ Len(q) = Len(p) + 1 /\ q[Len(p) + 1] = f
  /\ \A i \in 1..Len(p) : q[i] = p[i]
Shrunk(q, p) ==
  /\ Len(q) = Len(p) - 1
  /\ \A i \in 1..Len(q) : q[i] = p[i + 1]

LEMMA AppendGrows ==
  ASSUME NEW S, NEW q \in Seq(S), NEW f
  PROVE  Grown(Append(q, f), q, f)
BY DEF Grown

LEMMA TailShrinks ==
  ASSUME NEW S, NEW q \in Seq(S), q # <<>>
  PROVE  Shrunk(Tail(q), q)
BY DEF Shrunk

LEMMA ClientSent ==
  ASSUME TypeOK, NEW k \in Sessions, NEW f, ClientSends(k, f)
  PROVE  Grown(toServer'[k], toServer[k], f)
<1>1. toServer'[k] = Append(toServer[k], f) /\ toServer[k] \in Seq(ToServerFrames)
  BY DEF TypeOK, ClientSends
<1> QED BY <1>1, AppendGrows

LEMMA ServerSent ==
  ASSUME TypeOK, NEW k \in Sessions, NEW f, ServerSends(k, f)
  PROVE  /\ Gone(k) => toClient'[k] = toClient[k]
         /\ ~Gone(k) => Grown(toClient'[k], toClient[k], f)
<1>1. /\ Gone(k) => toClient'[k] = toClient[k]
      /\ ~Gone(k) => toClient'[k] = Append(toClient[k], f)
      /\ toClient[k] \in Seq(ToClientFrames)
  BY DEF TypeOK, ServerSends
<1> QED BY <1>1, AppendGrows

LEMMA ClientTook ==
  ASSUME TypeOK, NEW k \in Sessions, toClient[k] # <<>>, ClientTakes(k)
  PROVE  Shrunk(toClient'[k], toClient[k])
<1>1. toClient'[k] = Tail(toClient[k]) /\ toClient[k] \in Seq(ToClientFrames)
  BY DEF TypeOK, ClientTakes
<1> QED BY <1>1, TailShrinks

LEMMA ServerTook ==
  ASSUME TypeOK, NEW k \in Sessions, toServer[k] # <<>>, ServerTakes(k)
  PROVE  Shrunk(toServer'[k], toServer[k])
<1>1. toServer'[k] = Tail(toServer[k]) /\ toServer[k] \in Seq(ToServerFrames)
  BY DEF TypeOK, ServerTakes
<1> QED BY <1>1, TailShrinks

LEMMA Turned ==
  ASSUME TypeOK, NEW k \in Sessions, NEW c, Turns(k, c)
  PROVE  client'[k] = c
BY DEF TypeOK, Turns

LEMMA Become ==
  ASSUME TypeOK, NEW k \in Sessions, NEW h, Becomes(k, h)
  PROVE  handler'[k] = h
BY DEF TypeOK, Becomes

\* What the kinds of frames are.
LEMMA Kinds ==
  /\ Quit.kind = "quit" /\ ~Asks(Quit) /\ Refusal.kind = "reply" /\ ~Refusal.ok
  /\ \A b : Get(b).kind = "get" /\ Asks(Get(b)) /\ Get(b).buffer = b
  /\ \A n, b : /\ Set(n, b).kind = "set" /\ Asks(Set(n, b)) /\ Set(n, b).buffer = b
               /\ Set(n, b).size = n /\ Set(n, b).count = Count(n, b)
  /\ \A n, c : /\ Reply(n, c).kind = "reply" /\ Reply(n, c).ok
               /\ Reply(n, c).size = n /\ Reply(n, c).count = c
  /\ \A bytes : Chunk(bytes).kind = "chunk" /\ ~Asks(Chunk(bytes)) /\ Chunk(bytes).bytes = bytes
  /\ \A n : Junk(n).kind = "junk" /\ ~Asks(Junk(n))
BY DEF Asks, Quit, Refusal, Get, Set, Reply, Chunk, Junk

LEMMA NoneAskedKept ==
  ASSUME TypeOK, NEW k \in Sessions, NoneAsked(k),
         \/ toServer'[k] = toServer[k] \/ toServer'[k] = <<>>
         \/ toServer[k] # <<>> /\ Shrunk(toServer'[k], toServer[k])
         \/ \E f : ~Asks(f) /\ Grown(toServer'[k], toServer[k], f)
  PROVE  NoneAsked(k)'
<1>1. Len(toServer[k]) \in Nat /\ (toServer[k] = <<>> <=> Len(toServer[k]) = 0)
  BY QueuesAre
<1>2. CASE toServer'[k] = toServer[k]
  BY <1>2 DEF NoneAsked
<1>3. CASE toServer'[k] = <<>>
  BY <1>3 DEF NoneAsked
<1>4. CASE toServer[k] # <<>> /\ Shrunk(toServer'[k], toServer[k])
  <2>1. \A i \in 1..Len(toServer'[k]) : i + 1 \in 1..Len(toServer[k]) /\ toServer'[k][i] = toServer[k][i + 1]
    BY <1>1, <1>4 DEF Shrunk
  <2> QED BY <2>1 DEF NoneAsked
<1>5. ASSUME NEW f, ~Asks(f), Grown(toServer'[k], toServer[k], f) PROVE NoneAsked(k)'
  <2>1. ASSUME NEW i \in 1..Len(toServer'[k]) PROVE ~Asks(toServer'[k][i])
    <3>1. i \in 1..Len(toServer[k]) \/ i = Len(toServer[k]) + 1
      BY <1>1, <1>5 DEF Grown
    <3> QED BY <1>5, <3>1 DEF Grown, NoneAsked
  <2> QED BY <2>1 DEF NoneAsked
<1> QED BY <1>2, <1>3, <1>4, <1>5

LEMMA InvTypes ==
  ASSUME ConvInv, NEW k \in Sessions
  PROVE  TypeInv /\ TypeOK /\ InConversation(k)
BY DEF ConvInv, TypeInv, Conversations

LEMMA ConvReads ==
  ConvInv => ReadsWithinBuffer
<1> SUFFICES ASSUME ConvInv, NEW k \in Sessions,
                    client[k].at = "loading", client[k].op = "download", ToClientSees(k, "chunk")
             PROVE  Len(Head(toClient[k]).bytes) >= Length(k)
  BY DEF ReadsWithinBuffer
<1>1. TypeOK /\ Streams(k, 1, client[k].idx, client[k].size, client[k].count)
  BY InvTypes DEF InConversation
<1>2. /\ client[k].size \in Nat /\ client[k].count \in Nat /\ client[k].idx \in Nat
      /\ ClientBuffer[k] \in Nat \ {0}
  BY <1>1, ClientFields
<1>3. Head(toClient[k]) = toClient[k][1] /\ 1 \in 1..Len(toClient[k])
  BY <1>1, QueuesAre DEF ToClientSees
<1>4. Len(Head(toClient[k]).bytes)
        = ServerLength(client[k].idx + 1 - 1, client[k].count, client[k].size, ClientBuffer[k])
  BY <1>1, <1>3 DEF Streams
<1>5. client[k].idx + 1 - 1 = client[k].idx
  BY <1>2
<1>6. ClientLength(client[k].idx, client[k].count, client[k].size, ClientBuffer[k])
        <= ServerLength(client[k].idx, client[k].count, client[k].size, ClientBuffer[k])
  BY <1>2, LengthsAgree
<1> QED BY <1>4, <1>5, <1>6 DEF Length

LEMMA WantedIs ==
  ASSUME TypeInv, NEW k \in Sessions, Paced(k)
  PROVE  /\ Wanted(k) \in Nat
         /\ handler[k].doing # "upload" => Wanted(k) = 0
         /\ handler[k].doing = "upload" => Wanted(k) = handler[k].count - handler[k].idx
<1>1. handler[k].idx \in Nat /\ handler[k].count \in Nat
  BY HandlerFields
<1> QED BY <1>1 DEF Wanted, Paced

LEMMA ConvAligned ==
  ConvInv => Aligned
<1> SUFFICES ASSUME ConvInv, NEW k \in Sessions, ~closing[k]
             PROVE  /\ handler[k].doing = "none" => ~ToServerSees(k, {"chunk", "junk", "quit"})
                    /\ handler[k].doing = "upload" /\ More(handler[k].idx, handler[k].count)
                         => ~ToServerSees(k, {"get", "set"})
                    /\ client[k].at \in {"idle", "asked"} => ~ToClientSees(k, "chunk")
                    /\ client[k].at = "loading" => ~ToClientSees(k, "reply")
  BY DEF Aligned
<1> DEFINE q == toServer[k]
           h == handler[k]
<1>1. TypeInv /\ TypeOK /\ InConversation(k)
  BY InvTypes
<1>2. /\ Len(q) \in Nat /\ (q = <<>> <=> Len(q) = 0) /\ (q # <<>> => Head(q) = q[1])
      /\ Len(toClient[k]) \in Nat /\ (toClient[k] = <<>> <=> Len(toClient[k]) = 0)
      /\ (toClient[k] # <<>> => Head(toClient[k]) = toClient[k][1])
  BY <1>1, QueuesAre
<1>3. h.idx \in Nat /\ h.count \in Nat /\ h.doing \in {"none", "upload", "download", "ended"}
  <2>1. h \in Handlers
    BY <1>1 DEF TypeOK
  <2> QED BY <2>1 DEF Handlers
<1>4. client[k].at \in {"idle", "asked", "loading", "torn", "gone"} /\ client[k].op \in {"upload", "download"}
  <2>1. client[k] \in Transfers
    BY <1>1 DEF TypeOK
  <2> QED BY <2>1 DEF Transfers
\* What is next in the server's queue.
<1>5. /\ h.doing = "none" => q = <<>> \/ Asks(q[1])
      /\ h.doing = "upload" /\ h.idx < h.count => q = <<>> \/ ~Asks(q[1])
  <2>1. CASE client[k].at = "idle"
    BY <1>1, <1>2, <1>3, <2>1 DEF InConversation, Rests, Wanted, Asks
  <2>2. CASE client[k].at = "asked" /\ Waiting(k)
    <3> DEFINE m == Wanted(k)
    <3>1. /\ m \in Nat /\ (h.doing = "none" => m = 0)
          /\ h.doing = "upload" /\ h.idx < h.count => m > 0
      BY <1>1, <1>3, WantedIs DEF InConversation
    <3>2. Asks(q[m + 1]) /\ \A i \in 1..m : ~Asks(q[i])
      BY <2>2, Kinds DEF Waiting, Asks
    <3> HIDE DEF m
    <3> QED BY <3>1, <3>2
  <2>3. CASE client[k].at = "asked" /\ Refused(k)
    BY <1>2, <2>3 DEF Refused
  <2>4. CASE client[k].at = "asked" /\ Accepted(k)
    BY <1>2, <2>4 DEF Accepted, Streams
  <2>5. CASE client[k].at = "loading"
    BY <1>1, <1>2, <1>3, <2>5 DEF InConversation, Streams, Feeds, Asks
  <2>6. CASE client[k].at = "torn"
    BY <1>1, <2>6 DEF InConversation
  <2>7. CASE client[k].at = "gone"
    <3>1. PICK m \in 0..Len(q) :
            /\ m <= Wanted(k)
            /\ \A i \in 1..m : q[i].kind = "chunk"
            /\ Len(q) # m => m = Wanted(k) /\ Len(q) = m + 1 /\ Asks(q[m + 1])
      BY <1>1, <2>7 DEF InConversation, WellFed
    <3>2. CASE m = 0
      BY <1>2, <1>3, <3>1, <3>2 DEF Wanted
    <3>3. CASE m # 0
      <4>1. q[1].kind = "chunk" /\ Wanted(k) > 0
        BY <1>2, <1>3, <3>1, <3>3 DEF Wanted
      <4> QED BY <1>3, <4>1 DEF Wanted, Asks
    <3> QED BY <3>2, <3>3
  <2> QED BY <1>1, <1>4, <2>1, <2>2, <2>3, <2>4, <2>5, <2>6, <2>7 DEF InConversation
\* And in the client's.
<1>6. /\ client[k].at \in {"idle", "asked"} => toClient[k] = <<>> \/ toClient[k][1].kind = "reply"
      /\ client[k].at = "loading" => toClient[k] = <<>> \/ toClient[k][1].kind = "chunk"
  BY <1>1, <1>2, <1>4 DEF InConversation, Rests, Waiting, Refused, Accepted, Streams, Feeds
<1> QED BY <1>2, <1>5, <1>6 DEF ToServerSees, ToClientSees, More, Asks

-----------------------------------------------------------------------------
(* The client keeps the conversation.                                      *)

\* A buffer less to read.
LEMMA StreamsOn ==
  ASSUME NEW k \in Sessions, NEW i \in Nat, NEW size, NEW count,
         Streams(k, 1, i, size, count), Len(toClient[k]) \in Nat, Len(toClient[k]) > 0
  PROVE  Streams(k, 2, i + 1, size, count)
<1> DEFINE n == Len(toClient[k])
<1>1. \A x \in 2..n : x \in 1..n /\ (i + 1) + x - 2 = i + x - 1
  OBVIOUS
<1>2. (i + 1) + n + 1 - 2 = i + n + 1 - 1
  <2>1. n \in Nat
    OBVIOUS
  <2> HIDE DEF n
  <2> QED BY <2>1
<1>3. \A x \in 2..Len(toClient[k]) :
        /\ toClient[k][x].kind = "chunk"
        /\ Len(toClient[k][x].bytes) = ServerLength((i + 1) + x - 2, count, size, ClientBuffer[k])
  <2> TAKE x \in 2..Len(toClient[k])
  <2>1. x \in 1..Len(toClient[k]) /\ (i + 1) + x - 2 = i + x - 1
    BY <1>1
  <2>2. /\ toClient[k][x].kind = "chunk"
        /\ Len(toClient[k][x].bytes) = ServerLength(i + x - 1, count, size, ClientBuffer[k])
    BY <2>1 DEF Streams
  <2> QED BY <2>1, <2>2
<1> QED BY <1>2, <1>3 DEF Streams

LEMMA StreamsTaken ==
  ASSUME TypeOK, NEW k \in Sessions, NEW i \in Nat, NEW size, NEW count,
         toClient[k] # <<>>, Shrunk(toClient'[k], toClient[k]), UNCHANGED <<toServer, closing, handler>>,
         Streams(k, 2, i, size, count)
  PROVE  Streams(k, 1, i, size, count)'
<1>1. Len(toClient[k]) \in Nat /\ Len(toClient[k]) > 0
  BY QueuesAre
<1>2. i + Len(toClient'[k]) + 1 - 1 = i + Len(toClient[k]) + 1 - 2
  BY <1>1 DEF Shrunk
<1>3. \A x \in 1..Len(toClient'[k]) :
        /\ x + 1 \in 2..Len(toClient[k]) /\ toClient'[k][x] = toClient[k][x + 1]
        /\ i + x - 1 = i + (x + 1) - 2
  BY <1>1 DEF Shrunk
<1>4. NoneAsked(k)' /\ (~closing'[k] => toServer'[k] = <<>> /\ handler'[k].doing # "ended")
  BY DEF Streams, NoneAsked
<1>5. \A x \in 1..Len(toClient'[k]) :
        /\ toClient'[k][x].kind = "chunk"
        /\ Len(toClient'[k][x].bytes) = ServerLength(i + x - 1, count, size, ClientBuffer[k])
  <2> TAKE x \in 1..Len(toClient'[k])
  <2>1. /\ x + 1 \in 2..Len(toClient[k]) /\ toClient'[k][x] = toClient[k][x + 1]
        /\ i + x - 1 = i + (x + 1) - 2
    BY <1>3
  <2>2. /\ toClient[k][x + 1].kind = "chunk"
        /\ Len(toClient[k][x + 1].bytes) = ServerLength(i + (x + 1) - 2, count, size, ClientBuffer[k])
    BY <2>1 DEF Streams
  <2> QED BY <2>1, <2>2
<1> QED BY <1>2, <1>4, <1>5 DEF Streams

\* What a case of the conversation says.
LEMMA Cases ==
  ASSUME ConvInv, NEW k \in Sessions
  PROVE  LET c == client[k]  h == handler[k] IN
         /\ TypeInv /\ TypeOK /\ InConversation(k) /\ Paced(k)
         /\ c.at \in {"idle", "asked", "loading", "torn", "gone"} /\ c.op \in {"upload", "download"}
         /\ c.size \in Nat /\ c.count \in Nat /\ c.idx \in Nat /\ c.out \in Seq(Byte)
         /\ c.result \in {"none", "uploaded", "downloaded", "failed"}
         /\ ClientBuffer[k] \in Nat \ {0}
         /\ h.doing \in {"none", "upload", "download", "ended"}
         /\ h.idx \in Nat /\ h.count \in Nat
         /\ Wanted(k) \in Nat
         /\ h.doing # "upload" => Wanted(k) = 0
         /\ h.doing = "upload" => Wanted(k) = h.count - h.idx
<1>1. TypeInv /\ TypeOK /\ InConversation(k) /\ Paced(k)
  BY InvTypes DEF InConversation
<1>2. client[k] \in Transfers /\ handler[k] \in Handlers
  BY <1>1 DEF TypeOK
<1> QED BY <1>1, <1>2, WantedIs, ClientFields, HandlerFields DEF Transfers, Handlers

LEMMA StartKeepsConversation ==
  ASSUME ConvInv, NEW k \in Sessions, StartDownload(k) \/ StartUpload(k)
  PROVE  InConversation(k)'
<1> DEFINE q == toServer[k]
           m == Wanted(k)
<1>1. /\ TypeOK /\ Paced(k) /\ m \in Nat /\ Rests(k) /\ ClientBuffer[k] \in Nat \ {0}
      /\ Len(q) \in Nat
  BY Cases, QueuesAre DEF InConversation, StartDownload, StartUpload
<1>2. UNCHANGED <<toClient, closing, handler>> /\ ~closing[k]
  BY DEF StartDownload, StartUpload
<1>3. Len(q) = m /\ (\A i \in 1..m : q[i].kind = "chunk") /\ handler[k].doing # "ended"
  BY <1>1, <1>2 DEF Rests
<1>4. Wanted(k)' = m /\ Paced(k)' /\ Silent(k)' /\ toClient'[k] = <<>> /\ handler'[k].doing # "ended"
  BY <1>1, <1>2, <1>3 DEF Rests, Wanted, Paced, Silent
<1>5. ASSUME NEW f, Grown(toServer'[k], q, f)
      PROVE  /\ Len(toServer'[k]) = m + 1 /\ toServer'[k][m + 1] = f
             /\ \A i \in 1..m : toServer'[k][i].kind = "chunk"
  BY <1>3, <1>5 DEF Grown
<1> HIDE DEF m, q
<1>6. CASE StartDownload(k)
  <2>1. client'[k] = [NoTransfer EXCEPT !.at = "asked"]
    BY <1>1, <1>6, Turned DEF StartDownload
  <2>2. /\ client'[k].at = "asked" /\ client'[k].op = "download" /\ client'[k].idx = 0
        /\ client'[k].out = <<>> /\ client'[k].result = "none"
    BY <2>1 DEF NoTransfer
  <2>3. Grown(toServer'[k], q, Get(ClientBuffer[k]))
    BY <1>1, <1>6, ClientSent DEF StartDownload, q
  <2>4. Waiting(k)'
    BY <1>4, <1>5, <2>2, <2>3 DEF Waiting
  <2> QED BY <1>4, <2>2, <2>4 DEF InConversation
<1>7. CASE StartUpload(k)
  <2>1. PICK n \in Sizes :
          /\ Turns(k, [NoTransfer EXCEPT !.at = "asked", !.op = "upload", !.size = n,
                                         !.count = Count(n, ClientBuffer[k])])
          /\ ClientSends(k, Set(n, ClientBuffer[k]))
    BY <1>7 DEF StartUpload
  <2>2. client'[k] = [NoTransfer EXCEPT !.at = "asked", !.op = "upload", !.size = n,
                                        !.count = Count(n, ClientBuffer[k])]
    BY <1>1, <2>1, Turned
  <2>3. /\ client'[k].at = "asked" /\ client'[k].op = "upload" /\ client'[k].idx = 0
        /\ client'[k].result = "none" /\ client'[k].size = n
        /\ client'[k].count = Count(client'[k].size, ClientBuffer[k])
    BY <2>2 DEF NoTransfer
  <2>4. Grown(toServer'[k], q, Set(n, ClientBuffer[k]))
    BY <1>1, <2>1, ClientSent DEF q
  <2>5. Waiting(k)'
    BY <1>4, <1>5, <2>3, <2>4 DEF Waiting
  <2> QED BY <1>4, <2>3, <2>5 DEF InConversation
<1> QED BY <1>6, <1>7

LEMMA ReadReplyKeepsConversation ==
  ASSUME ConvInv, NEW k \in Sessions, ReadReply(k)
  PROVE  InConversation(k)'
<1> DEFINE c == client[k]
           r == toClient[k][1]
<1>1. /\ TypeOK /\ Paced(k) /\ InConversation(k) /\ c.count \in Nat /\ c.op \in {"upload", "download"}
      /\ r.size \in Nat /\ r.count \in Nat
  <2>1. r \in ToClientFrames /\ r.kind = "reply"
    <3>1. toClient[k] # <<>> /\ Head(toClient[k]).kind = "reply" /\ TypeOK
      BY Cases DEF ReadReply, ToClientSees
    <3>2. Len(toClient[k]) \in Nat /\ Len(toClient[k]) # 0
      BY <3>1, QueuesAre
    <3> QED BY <3>1, <3>2, QueuesAre
  <2> QED BY <2>1, Cases, FrameFields
<1>2. /\ UNCHANGED <<toServer, closing, handler>>
      /\ c.at = "asked" /\ toClient[k] # <<>> /\ r = Head(toClient[k])
      /\ Len(toClient[k]) \in Nat
      /\ Shrunk(toClient'[k], toClient[k])
  BY <1>1, QueuesAre, ClientTook DEF ReadReply, ToClientSees
<1>3. c \in Transfers /\ c.idx = 0 /\ c.result = "none"
  BY <1>1, <1>2 DEF InConversation, TypeOK
<1>4. Paced(k)' /\ (NoneAsked(k) => NoneAsked(k)')
  BY <1>1, <1>2 DEF Paced, NoneAsked
<1>5. Refused(k) \/ Accepted(k)
  BY <1>1, <1>2 DEF InConversation, Waiting
<1>6. Len(toClient[k]) = 1 => toClient'[k] = <<>>
  <2>1. TypeOK' \/ toClient'[k] \in Seq(ToClientFrames)
    BY <1>1, <1>2, ClientTakesType DEF ReadReply
  <2>2. toClient'[k] \in Seq(ToClientFrames)
    BY <2>1 DEF TypeOK
  <2> QED BY <1>2, <2>2 DEF Shrunk
<1>7. CASE ~r.ok
  <2>1. client'[k] = [c EXCEPT !.at = "idle", !.result = "failed"]
    BY <1>1, <1>2, <1>7, Turned DEF ReadReply
  <2>2. client'[k].at = "idle"
    BY <1>3, <2>1 DEF Transfers
  <2>3. Refused(k)
    BY <1>5, <1>7 DEF Accepted
  <2>4. Rests(k)'
    <3>1. Silent(k)' /\ toClient'[k] = <<>> /\ NoneAsked(k)'
      BY <1>2, <1>4, <1>6, <2>3 DEF Refused, Silent
    <3>2. ~closing'[k] => toServer'[k] = <<>> /\ handler'[k].doing = "none"
      BY <1>2, <2>3 DEF Refused
    <3> QED BY <3>1, <3>2 DEF Rests, Wanted
  <2> QED BY <1>4, <2>2, <2>4 DEF InConversation
<1>8. CASE r.ok /\ c.op = "upload"
  <2>1. client'[k] = [c EXCEPT !.at = "loading"]
    BY <1>1, <1>2, <1>8, Turned DEF ReadReply
  <2>2. /\ client'[k].at = "loading" /\ client'[k].op = "upload" /\ client'[k].idx = 0
        /\ client'[k].result = "none" /\ client'[k].count = c.count
    BY <1>3, <1>8, <2>1 DEF Transfers
  <2>3. Accepted(k)
    BY <1>5, <1>8 DEF Refused
  <2>4. Feeds(k)'
    <3>1. toClient'[k] = <<>> /\ NoneAsked(k)' /\ handler'[k].doing # "download"
      BY <1>2, <1>4, <1>6, <1>8, <2>3 DEF Accepted
    <3>2. ~closing'[k] => /\ toServer'[k] = <<>> /\ handler'[k].doing = "upload"
                          /\ handler'[k].idx = 0 /\ handler'[k].count = c.count
      BY <1>2, <1>8, <2>3 DEF Accepted
    <3> QED BY <1>1, <2>2, <3>1, <3>2 DEF Feeds
  <2> QED BY <1>4, <2>2, <2>4 DEF InConversation
<1>9. CASE r.ok /\ c.op = "download"
  <2>1. client'[k] = [c EXCEPT !.at = "loading", !.size = r.size, !.count = r.count]
    BY <1>1, <1>2, <1>9, Turned DEF ReadReply
  <2>2. /\ client'[k].at = "loading" /\ client'[k].op = "download" /\ client'[k].idx = 0
        /\ client'[k].result = "none" /\ client'[k].count = r.count /\ client'[k].size = r.size
    BY <1>3, <1>9, <2>1 DEF Transfers
  <2>3. Streams(k, 2, 0, r.size, r.count)
    BY <1>5, <1>9 DEF Refused, Accepted
  <2>4. PICK size, count : size = r.size /\ count = r.count
    OBVIOUS
  <2>5. Streams(k, 1, 0, size, count)'
    BY <1>1, <1>2, <2>3, <2>4, StreamsTaken
  <2>6. Streams(k, 1, client[k].idx, client[k].size, client[k].count)'
    BY <2>2, <2>4, <2>5
  <2> QED BY <1>4, <2>2, <2>6 DEF InConversation
<1> QED BY <1>1, <1>7, <1>8, <1>9

LEMMA LoadKeepsConversation ==
  ASSUME ConvInv, NEW k \in Sessions, Download(k) \/ Upload(k)
  PROVE  InConversation(k)'
<1> DEFINE c == client[k]
           h == handler[k]
<1>1. /\ TypeOK /\ Paced(k) /\ InConversation(k) /\ c.idx \in Nat /\ c.count \in Nat
      /\ h.idx \in Nat
      /\ UNCHANGED <<closing, handler>> /\ Paced(k)'
      /\ c.at = "loading" /\ c.result = "none" /\ c \in Transfers
  BY Cases DEF Download, Upload, Paced, InConversation, TypeOK
<1>2. CASE Download(k)
  <2> DEFINE more == SubSeq(Head(toClient[k]).bytes, 1, Length(k))
  <2>1. UNCHANGED toServer /\ toClient[k] # <<>> /\ Shrunk(toClient'[k], toClient[k])
    BY <1>1, <1>2, ClientTook DEF Download, ToClientSees
  <2> HIDE DEF more
  <2>2. client'[k] = [c EXCEPT !.idx = @ + 1, !.out = @ \o more]
    BY <1>1, <1>2, Turned DEF Download, more
  <2>3. /\ client'[k].at = "loading" /\ client'[k].op = "download" /\ client'[k].result = "none"
        /\ client'[k].idx = c.idx + 1 /\ client'[k].size = c.size /\ client'[k].count = c.count
    BY <1>1, <1>2, <2>2 DEF Transfers, Download
  <2>4. Streams(k, 1, c.idx, c.size, c.count)
    BY <1>1, <1>2 DEF InConversation, Download
  <2>5. Len(toClient[k]) \in Nat /\ Len(toClient[k]) > 0
    BY <1>1, <2>1, QueuesAre
  <2>6. PICK i, size, count : i = c.idx + 1 /\ size = c.size /\ count = c.count
    OBVIOUS
  <2>7. i \in Nat /\ Streams(k, 2, i, size, count)
    BY <1>1, <2>4, <2>5, <2>6, StreamsOn
  <2>8. Streams(k, 1, i, size, count)'
    BY <1>1, <2>1, <2>7, StreamsTaken
  <2>9. Streams(k, 1, client[k].idx, client[k].size, client[k].count)'
    BY <2>3, <2>6, <2>8
  <2> QED BY <1>1, <2>3, <2>9 DEF InConversation
<1>3. CASE Upload(k)
  <2> DEFINE q == toServer[k]
             f == Chunk(NextBytes(k))
  <2>1. /\ UNCHANGED toClient /\ Grown(toServer'[k], q, f) /\ c.idx < c.count
    BY <1>1, <1>3, ClientSent DEF Upload, Available
  <2>2. client'[k] = [c EXCEPT !.idx = @ + 1]
    BY <1>1, <1>3, Turned DEF Upload
  <2>3. /\ client'[k].at = "loading" /\ client'[k].op = "upload" /\ client'[k].result = "none"
        /\ client'[k].idx = c.idx + 1 /\ client'[k].count = c.count
    BY <1>1, <1>3, <2>2 DEF Transfers, Upload
  <2>4. Feeds(k)
    BY <1>1, <1>3 DEF InConversation, Upload
  <2>5. f.kind = "chunk" /\ ~Asks(f) /\ Len(q) \in Nat
    BY <1>1, Kinds, QueuesAre
  <2> HIDE DEF f
  <2>6. NoneAsked(k)'
    BY <1>1, <2>1, <2>4, <2>5, NoneAskedKept DEF Feeds
  <2>7. ASSUME ~closing'[k]
        PROVE  /\ \A i \in 1..Len(toServer'[k]) : toServer'[k][i].kind = "chunk"
               /\ handler'[k].doing = "upload" /\ handler'[k].count = c.count
               /\ handler'[k].idx + Len(toServer'[k]) = c.idx + 1
    <3>1. /\ \A i \in 1..Len(q) : q[i].kind = "chunk"
          /\ handler[k].doing = "upload" /\ handler[k].count = c.count
          /\ handler[k].idx + Len(q) = c.idx
      BY <1>1, <2>1, <2>4, <2>7 DEF Feeds
    <3>2. \A i \in 1..Len(toServer'[k]) : i \in 1..Len(q) \/ i = Len(q) + 1
      BY <2>1, <2>5 DEF Grown
    <3>3. \A i \in 1..Len(toServer'[k]) : toServer'[k][i].kind = "chunk"
      BY <2>1, <2>5, <3>1, <3>2 DEF Grown
    <3>4. h.idx + (Len(q) + 1) = c.idx + 1
      <4> DEFINE n == Len(q)
                 m == c.idx
                 i == h.idx
      <4>1. n \in Nat /\ m \in Nat /\ i \in Nat /\ i + n = m
        BY <1>1, <2>5, <3>1
      <4> HIDE DEF n, m, i
      <4>2. i + (n + 1) = m + 1
        BY <4>1
      <4> QED BY <4>2 DEF n, m, i
    <3> QED BY <1>1, <2>1, <3>1, <3>3, <3>4 DEF Grown
  <2>8. Feeds(k)'
    <3>1. toClient'[k] = <<>> /\ handler'[k].doing # "download"
      BY <1>1, <2>1, <2>4 DEF Feeds
    <3>2. c.idx + 1 <= c.count
      BY <1>1, <2>1
    <3>3. ~closing'[k] => /\ client'[k].idx <= client'[k].count
                          /\ handler'[k].count = client'[k].count
                          /\ handler'[k].idx + Len(toServer'[k]) = client'[k].idx
      BY <2>3, <2>7, <3>2
    <3> QED BY <2>6, <2>7, <3>1, <3>3 DEF Feeds
  <2> QED BY <1>1, <2>3, <2>8 DEF InConversation
<1> QED BY <1>2, <1>3

LEMMA FinishKeepsConversation ==
  ASSUME ConvInv, NEW k \in Sessions, Finish(k)
  PROVE  InConversation(k)'
<1> DEFINE c == client[k]
           h == handler[k]
<1>1. /\ TypeOK /\ Paced(k) /\ InConversation(k) /\ c.idx \in Nat /\ c.count \in Nat
      /\ h.idx \in Nat /\ h.count \in Nat /\ Len(toServer[k]) \in Nat /\ Len(toClient[k]) \in Nat
      /\ (toClient[k] = <<>> <=> Len(toClient[k]) = 0)
      /\ (toServer[k] = <<>> <=> Len(toServer[k]) = 0)
      /\ c \in Transfers /\ c.at = "loading" /\ c.op \in {"upload", "download"} /\ c.idx >= c.count
      /\ h.doing \in {"none", "upload", "download", "ended"}
  <2>1. /\ TypeOK /\ Paced(k) /\ InConversation(k) /\ c.idx \in Nat /\ c.count \in Nat
        /\ h.idx \in Nat /\ h.count \in Nat /\ c.op \in {"upload", "download"}
        /\ h.doing \in {"none", "upload", "download", "ended"}
    BY Cases
  <2>2. c \in Transfers /\ c.at = "loading" /\ c.idx >= c.count
    BY <2>1 DEF Finish, Available, TypeOK
  <2> QED BY <2>1, <2>2, QueuesAre
<1>2. UNCHANGED <<toServer, toClient, closing, handler>>
  BY DEF Finish
<1>3. client'[k] = [c EXCEPT !.at = "idle",
                             !.result = IF c.op = "upload" THEN "uploaded" ELSE "downloaded"]
  <2>1. PICK d : d = [c EXCEPT !.at = "idle",
                               !.result = IF c.op = "upload" THEN "uploaded" ELSE "downloaded"]
    OBVIOUS
  <2>2. Turns(k, d)
    BY <2>1 DEF Finish
  <2> QED BY <1>1, <2>1, <2>2, Turned
<1>4. client'[k].at = "idle"
  BY <1>1, <1>3 DEF Transfers
<1>5. Rests(k)
  <2>1. CASE c.op = "download"
    <3>1. Streams(k, 1, c.idx, c.size, c.count)
      BY <1>1, <2>1 DEF InConversation
    <3> DEFINE n == Len(toClient[k])
               sent == c.idx + n + 1 - 1
    <3>2. /\ sent <= c.count
          /\ \/ h.doing = "download" /\ h.idx = sent /\ h.count = c.count
             \/ h.doing \in {"none", "ended"} /\ sent = c.count
      BY <3>1 DEF Streams
    <3>3. n = 0 /\ sent = c.count
      <4>1. n \in Nat
        BY <1>1
      <4> HIDE DEF n
      <4> QED BY <1>1, <3>2, <4>1
    <3> HIDE DEF sent
    <3>4. NoneAsked(k) /\ (~closing[k] => toServer[k] = <<>> /\ h.doing # "ended")
      BY <3>1 DEF Streams
    <3> QED BY <1>1, <3>2, <3>3, <3>4 DEF Rests, Silent, Wanted
  <2>2. CASE c.op = "upload"
    <3>1. Feeds(k)
      BY <1>1, <2>2 DEF InConversation
    <3>2. toClient[k] = <<>> /\ NoneAsked(k) /\ Silent(k)
      BY <3>1 DEF Feeds, Silent
    <3>3. ASSUME ~closing[k]
          PROVE  /\ \A i \in 1..Len(toServer[k]) : toServer[k][i].kind = "chunk"
                 /\ Len(toServer[k]) = Wanted(k) /\ h.doing # "ended"
      BY <1>1, <3>1, <3>3 DEF Feeds, Wanted
    <3> QED BY <3>2, <3>3 DEF Rests
  <2> QED BY <1>1, <2>1, <2>2
<1>6. Paced(k)' /\ Rests(k)'
  BY <1>1, <1>2, <1>5 DEF Rests, Paced, NoneAsked, Silent, Wanted
<1> QED BY <1>4, <1>6 DEF InConversation

LEMMA InterruptKeepsConversation ==
  ASSUME ConvInv, NEW k \in Sessions, Interrupt(k)
  PROVE  InConversation(k)'
<1> DEFINE q == toServer[k]
           m == Wanted(k)
<1>1. /\ TypeOK /\ Paced(k) /\ InConversation(k) /\ m \in Nat /\ Len(q) \in Nat
      /\ UNCHANGED <<toClient, client, handler>> /\ ~closing[k] /\ closing'[k] /\ client[k].at # "gone"
  BY Cases, QueuesAre DEF Interrupt, Gone, TypeOK
<1>2. Grown(toServer'[k], q, Quit)
  BY <1>1, ClientSent DEF Interrupt
<1>3. NoneAsked(k) => NoneAsked(k)'
  BY <1>1, <1>2, Kinds, NoneAskedKept
<1>4. Paced(k)' /\ (Silent(k) => Silent(k)') /\ Wanted(k)' = m
  BY <1>1 DEF Paced, Silent, Wanted
<1> HIDE DEF m, q
<1>5. Rests(k) => Rests(k)'
  BY <1>1, <1>3, <1>4 DEF Rests
<1>6. Waiting(k) => Waiting(k)'
  <2> SUFFICES ASSUME Waiting(k) PROVE Waiting(k)'
    OBVIOUS
  <2>1. /\ Len(q) = m + 1 /\ (\A i \in 1..m : q[i].kind = "chunk")
        /\ IF client[k].op = "download" THEN q[m + 1] = Get(ClientBuffer[k])
           ELSE q[m + 1] = Set(client[k].size, ClientBuffer[k])
    BY <1>1 DEF Waiting, m, q
  <2>2. /\ Len(toServer'[k]) = m + 2 /\ toServer'[k][m + 2] = Quit
        /\ \A i \in 1..m + 1 : toServer'[k][i] = q[i]
    BY <1>1, <1>2, <2>1 DEF Grown
  <2>3. (\A i \in 1..m : i \in 1..m + 1) /\ m + 1 \in 1..m + 1
    BY <1>1
  <2>4. (\A i \in 1..m : toServer'[k][i].kind = "chunk") /\ toServer'[k][m + 1] = q[m + 1]
    BY <2>1, <2>2, <2>3
  <2>5. toClient'[k] = <<>> /\ Silent(k)' /\ handler'[k].doing # "ended"
    BY <1>1, <1>4 DEF Waiting
  <2>6. IF client'[k].op = "download" THEN toServer'[k][m + 1] = Get(ClientBuffer[k])
        ELSE toServer'[k][m + 1] = Set(client'[k].size, ClientBuffer[k])
    BY <1>1, <2>1, <2>4
  <2> QED BY <1>1, <1>4, <2>2, <2>4, <2>5, <2>6, Kinds DEF Waiting
<1>7. Refused(k) => Refused(k)'
  BY <1>1, <1>3 DEF Refused
<1>8. ASSUME NEW from, NEW i, NEW size, NEW count, Streams(k, from, i, size, count)
      PROVE  Streams(k, from, i, size, count)'
  BY <1>1, <1>3, <1>8 DEF Streams
<1>9. Accepted(k) => Accepted(k)'
  <2> SUFFICES ASSUME Accepted(k) PROVE Accepted(k)'
    OBVIOUS
  <2>1. CASE client[k].op = "download"
    <3>1. PICK size, count : size = toClient[k][1].size /\ count = toClient[k][1].count
      OBVIOUS
    <3>2. Streams(k, 2, 0, size, count)
      BY <2>1, <3>1 DEF Accepted
    <3>3. Streams(k, 2, 0, size, count)'
      BY <1>8, <3>2
    <3>4. Streams(k, 2, 0, toClient[k][1].size, toClient[k][1].count)'
      BY <1>1, <3>1, <3>3
    <3> QED BY <1>1, <2>1, <3>4 DEF Accepted
  <2>2. CASE client[k].op # "download"
    BY <1>1, <1>3, <2>2 DEF Accepted
  <2> QED BY <2>1, <2>2
<1>10. Feeds(k) => Feeds(k)'
  BY <1>1, <1>3 DEF Feeds
<1>11. Streams(k, 1, client[k].idx, client[k].size, client[k].count)
         => Streams(k, 1, client[k].idx, client[k].size, client[k].count)'
  <2> SUFFICES ASSUME Streams(k, 1, client[k].idx, client[k].size, client[k].count)
               PROVE  Streams(k, 1, client[k].idx, client[k].size, client[k].count)'
    OBVIOUS
  <2>1. PICK i, size, count : i = client[k].idx /\ size = client[k].size /\ count = client[k].count
    OBVIOUS
  <2>2. Streams(k, 1, i, size, count)'
    BY <1>8, <2>1
  <2> QED BY <1>1, <2>1, <2>2
<1> QED BY <1>1, <1>4, <1>5, <1>6, <1>7, <1>9, <1>10, <1>11 DEF InConversation

LEMMA TearKeepsConversation ==
  ASSUME ConvInv, NEW k \in Sessions, Tear(k)
  PROVE  InConversation(k)'
<1>1. /\ TypeOK /\ client[k] \in Transfers /\ Paced(k) /\ InConversation(k)
      /\ client[k].at = "loading" /\ closing'[k] /\ UNCHANGED handler
  BY Cases DEF Tear, TypeOK
<1>2. client'[k] = [client[k] EXCEPT !.at = "torn"]
  BY <1>1, Turned DEF Tear
<1>3. client'[k].at = "torn" /\ client'[k].result = "none"
  BY <1>1, <1>2 DEF Transfers, InConversation
<1>4. Paced(k)'
  BY <1>1 DEF Paced
<1> QED BY <1>1, <1>3, <1>4 DEF InConversation

LEMMA ExitKeepsConversation ==
  ASSUME ConvInv, NEW k \in Sessions, Exit(k)
  PROVE  InConversation(k)'
<1> DEFINE q == toServer[k]
           m == Wanted(k)
           c == client[k]
           h == handler[k]
<1>1. /\ TypeOK /\ Paced(k) /\ InConversation(k) /\ m \in Nat /\ Len(q) \in Nat
      /\ (q = <<>> <=> Len(q) = 0) /\ c \in Transfers
      /\ c.at \in {"idle", "asked", "loading", "torn", "gone"} /\ c.op \in {"upload", "download"}
      /\ UNCHANGED <<closing, handler>> /\ c.at # "gone"
      /\ client'[k] = [c EXCEPT !.at = "gone"] /\ toClient'[k] = <<>>
      /\ toServer'[k] = q \/ toServer'[k] = <<>>
  <2>1. /\ TypeOK /\ Paced(k) /\ InConversation(k) /\ m \in Nat
        /\ c.at \in {"idle", "asked", "loading", "torn", "gone"} /\ c.op \in {"upload", "download"}
    BY Cases
  <2>2. UNCHANGED <<closing, handler>> /\ c.at # "gone" /\ client'[k] = [c EXCEPT !.at = "gone"]
    BY <2>1, Turned DEF Exit, Gone
  <2>3. toClient'[k] = <<>> /\ (toServer'[k] = q \/ toServer'[k] = <<>>) /\ c \in Transfers
    BY <2>1 DEF Exit, TypeOK
  <2> QED BY <2>1, <2>2, <2>3, QueuesAre
<1>2. client'[k].at = "gone" /\ client'[k].result = c.result
  BY <1>1 DEF Transfers
<1>3. Paced(k)' /\ Wanted(k)' = m
  BY <1>1 DEF Paced, Wanted
\* What the server still gets is what it wants and a request at most.
<1>4. ASSUME ~closing[k]
      PROVE  \E n \in 0..Len(q) :
               /\ n <= m /\ \A i \in 1..n : q[i].kind = "chunk"
               /\ Len(q) # n => n = m /\ Len(q) = n + 1 /\ Asks(q[n + 1])
  <2>1. CASE c.at = "idle"
    <3>1. Len(q) = m /\ \A i \in 1..m : q[i].kind = "chunk"
      BY <1>1, <1>4, <2>1 DEF InConversation, Rests
    <3> HIDE DEF m
    <3> QED BY <1>1, <3>1
  <2>2. CASE c.at = "asked" /\ Waiting(k)
    <3>1. Len(q) = m + 1 /\ (\A i \in 1..m : q[i].kind = "chunk") /\ Asks(q[m + 1])
      BY <1>4, <2>2, Kinds DEF Waiting
    <3> HIDE DEF m
    <3>2. m \in 0..Len(q) /\ m <= m
      BY <1>1, <3>1
    <3> QED BY <3>1, <3>2
  <2>3. CASE q = <<>>
    <3>1. 0 \in 0..Len(q) /\ 0 <= m /\ Len(q) = 0 /\ \A i \in 1..0 : q[i].kind = "chunk"
      BY <1>1, <2>3
    <3> QED BY <3>1
  <2>4. CASE c.at = "loading" /\ c.op = "upload"
    <3>1. Feeds(k)
      BY <1>1, <2>4 DEF InConversation
    <3>2. CASE h.doing = "none"
      BY <1>4, <2>3, <3>1, <3>2 DEF Feeds
    <3>3. CASE h.doing = "upload"
      <4>1. /\ \A i \in 1..Len(q) : q[i].kind = "chunk"
            /\ h.idx + Len(q) = c.idx /\ c.idx <= c.count /\ h.count = c.count
        BY <1>4, <3>1, <3>3 DEF Feeds
      <4>2. m = h.count - h.idx /\ h.idx \in Nat /\ h.count \in Nat /\ c.idx \in Nat
        BY <3>3, Cases
      <4> DEFINE n == Len(q)
      <4>3. n \in Nat /\ n <= m
        BY <1>1, <4>1, <4>2
      <4>4. n \in 0..Len(q) /\ n = Len(q)
        BY <4>3
      <4> HIDE DEF n, m
      <4> QED BY <4>1, <4>3, <4>4
    <3> QED BY <1>4, <3>1, <3>2, <3>3 DEF Feeds
  <2>5. c.at = "asked" /\ (Refused(k) \/ Accepted(k)) => q = <<>>
    BY <1>1, <1>4 DEF Refused, Accepted, Streams
  <2>6. c.at = "loading" /\ c.op = "download" => q = <<>>
    BY <1>1, <1>4 DEF InConversation, Streams
  <2> HIDE DEF q, m
  <2> QED BY <1>1, <1>4, <2>1, <2>2, <2>3, <2>4, <2>5, <2>6 DEF InConversation
<1>5. ~closing'[k] => WellFed(k)'
  <2>1. CASE toServer'[k] = q
    BY <1>1, <1>3, <1>4, <2>1 DEF WellFed
  <2>2. CASE toServer'[k] = <<>>
    <3>1. Len(toServer'[k]) = 0
      BY <2>2
    <3>2. 0 \in 0..0 /\ 0 <= m /\ \A i \in 1..0 : toServer'[k][i].kind = "chunk"
      BY <1>1
    <3> QED BY <1>3, <3>1, <3>2 DEF WellFed
  <2> QED BY <1>1, <2>1, <2>2
<1>6. client'[k].result = "downloaded" => NoneAsked(k)'
  <2>1. c.result = "downloaded" => NoneAsked(k)
    BY <1>1 DEF InConversation, Rests
  <2> QED BY <1>1, <1>2, <2>1, NoneAskedKept
<1> QED BY <1>1, <1>2, <1>3, <1>5, <1>6 DEF InConversation

-----------------------------------------------------------------------------
(* The server keeps the conversation.                                      *)

LEMMA FirstGrown ==
  ASSUME NEW q, NEW f, Grown(q, <<>>, f)
  PROVE  Len(q) = 1 /\ q[1] = f
<1>1. Len(<<>>) = 0
  OBVIOUS
<1> QED BY <1>1 DEF Grown

LEMMA ServerLeft ==
  ASSUME TypeOK, NEW k \in Sessions, toServer[k] # <<>>, ServerTakes(k)
  PROVE  /\ Shrunk(toServer'[k], toServer[k])
         /\ Len(toServer[k]) = 1 => toServer'[k] = <<>>
<1>1. toServer'[k] = Tail(toServer[k]) /\ toServer[k] \in Seq(ToServerFrames)
  BY DEF TypeOK, ServerTakes
<1>2. Shrunk(toServer'[k], toServer[k])
  BY ServerTook
<1>3. ASSUME NEW S, NEW s \in Seq(S), Len(s) = 1 PROVE Tail(s) = <<>>
  <2>1. s # <<>>
    BY <1>3
  <2>2. Tail(s) \in Seq(S) /\ Len(Tail(s)) = 0
    BY <1>3, <2>1, HeadTailProperties
  <2> QED BY <2>2, EmptySeq
<1> QED BY <1>1, <1>2, <1>3

\* A handler that begins answers the request that a client waits for, or one that a
\* client sent before it was gone.
LEMMA RequestTaken ==
  ASSUME ConvInv, NEW k \in Sessions, handler[k].doing = "none", ToServerSees(k, {"get", "set"}),
         ServerTakes(k)
  PROVE  /\ client[k].at \in {"asked", "torn", "gone"}
         /\ client[k].at = "asked" =>
              /\ toClient[k] = <<>> /\ NoneAsked(k)'
              /\ ~closing[k] => toServer'[k] = <<>>
              /\ IF client[k].op = "download" THEN Head(toServer[k]) = Get(ClientBuffer[k])
                 ELSE Head(toServer[k]) = Set(client[k].size, ClientBuffer[k])
         /\ client[k].at = "gone" =>
              /\ toClient[k] = <<>> /\ client[k].result # "downloaded"
              /\ ~closing[k] => toServer'[k] = <<>>
<1> DEFINE q == toServer[k]
           c == client[k]
<1>1. /\ TypeOK /\ InConversation(k) /\ Len(q) \in Nat /\ Len(q) # 0 /\ Head(q) = q[1]
      /\ c.at \in {"idle", "asked", "loading", "torn", "gone"} /\ c.op \in {"upload", "download"}
      /\ Wanted(k) = 0
  BY Cases, QueuesAre DEF ToServerSees
<1>2. Asks(q[1]) /\ Shrunk(toServer'[k], q) /\ (Len(q) = 1 => toServer'[k] = <<>>)
  BY <1>1, ServerLeft DEF ToServerSees, Asks
<1>3. ~NoneAsked(k)
  BY <1>1, <1>2 DEF NoneAsked
<1>4. c.at \in {"asked", "torn", "gone"} /\ (c.at = "asked" => Waiting(k))
  BY <1>1, <1>3 DEF InConversation, Rests, Refused, Accepted, Streams, Feeds
<1>5. CASE c.at = "asked"
  <2>1. /\ toClient[k] = <<>> /\ (Len(q) = 1 \/ (closing[k] /\ Len(q) = 2 /\ ~Asks(q[2])))
        /\ IF c.op = "download" THEN q[1] = Get(ClientBuffer[k])
           ELSE q[1] = Set(c.size, ClientBuffer[k])
    BY <1>1, <1>4, <1>5 DEF Waiting
  <2>2. NoneAsked(k)'
    <3>1. ASSUME NEW i \in 1..Len(toServer'[k]) PROVE ~Asks(toServer'[k][i])
      <4>1. Len(q) = 2 /\ i = 1 /\ toServer'[k][1] = q[2]
        BY <1>2, <2>1 DEF Shrunk
      <4> QED BY <2>1, <4>1
    <3> QED BY <3>1 DEF NoneAsked
  <2> QED BY <1>1, <1>2, <1>5, <2>1, <2>2
<1>6. CASE c.at = "gone"
  <2>1. ~closing[k] => Len(q) = 1
    <3> SUFFICES ASSUME ~closing[k] PROVE Len(q) = 1
      OBVIOUS
    <3>1. PICK m \in 0..Len(q) : m <= Wanted(k) /\ (Len(q) # m => Len(q) = m + 1)
      BY <1>1, <1>6 DEF InConversation, WellFed
    <3>2. m = 0
      BY <1>1, <3>1
    <3> QED BY <1>1, <3>1, <3>2
  <2> QED BY <1>1, <1>2, <1>3, <1>6, <2>1 DEF InConversation
<1> QED BY <1>4, <1>5, <1>6

LEMMA RefuseKeepsConversation ==
  ASSUME ConvInv, NEW k \in Sessions, Refuse(k)
  PROVE  InConversation(k)'
<1> DEFINE c == client[k]
<1>1. /\ TypeOK /\ Paced(k) /\ InConversation(k)
      /\ UNCHANGED <<client, closing, handler>> /\ handler[k].doing = "none" /\ Paced(k)'
  BY Cases DEF Refuse, Paced
<1>2. /\ c.at \in {"asked", "torn", "gone"}
      /\ c.at = "asked" => toClient[k] = <<>> /\ NoneAsked(k)' /\ (~closing[k] => toServer'[k] = <<>>)
      /\ c.at = "gone" => /\ toClient[k] = <<>> /\ c.result # "downloaded"
                          /\ ~closing[k] => toServer'[k] = <<>>
  BY RequestTaken DEF Refuse
<1>3. /\ Gone(k) => toClient'[k] = toClient[k]
      /\ ~Gone(k) => Grown(toClient'[k], toClient[k], Refusal)
  BY <1>1, ServerSent DEF Refuse
<1>4. CASE c.at = "asked"
  <2>1. Len(toClient'[k]) = 1 /\ toClient'[k][1] = Refusal
    BY <1>2, <1>3, <1>4, FirstGrown DEF Gone
  <2>2. Refused(k)'
    BY <1>1, <1>2, <1>4, <2>1, Kinds DEF Refused
  <2> QED BY <1>1, <1>4, <2>2 DEF InConversation
<1>5. CASE c.at = "gone"
  <2>1. ~closing'[k] => WellFed(k)'
    <3>1. toServer'[k] = <<>> => Len(toServer'[k]) = 0
      OBVIOUS
    <3> QED BY <1>1, <1>2, <1>5, <3>1 DEF WellFed, Wanted
  <2> QED BY <1>1, <1>2, <1>3, <1>5, <2>1 DEF InConversation, Gone
<1>6. CASE c.at = "torn"
  BY <1>1, <1>6 DEF InConversation
<1> QED BY <1>2, <1>4, <1>5, <1>6

LEMMA OpenDownloadKeepsConversation ==
  ASSUME ConvInv, TypeInv', NEW k \in Sessions, OpenDownload(k)
  PROVE  InConversation(k)'
<1> DEFINE c == client[k]
           f == Head(toServer[k])
<1> PICK n, cnt : n = Len(disk) /\ cnt = Count(n, f.buffer)
  OBVIOUS
<1>1. /\ TypeOK /\ Paced(k) /\ InConversation(k) /\ n \in Nat
      /\ UNCHANGED <<client, closing>> /\ handler[k].doing = "none"
      /\ ClientBuffer[k] \in Nat \ {0}
  BY Cases DEF OpenDownload, TypeOK
<1>2. /\ c.at \in {"asked", "torn", "gone"}
      /\ c.at = "asked" => /\ toClient[k] = <<>> /\ NoneAsked(k)' /\ (~closing[k] => toServer'[k] = <<>>)
                           /\ IF c.op = "download" THEN f = Get(ClientBuffer[k])
                              ELSE f = Set(c.size, ClientBuffer[k])
      /\ c.at = "gone" => /\ toClient[k] = <<>> /\ c.result # "downloaded"
                          /\ ~closing[k] => toServer'[k] = <<>>
  BY RequestTaken DEF OpenDownload, ToServerSees
<1>3. /\ Gone(k) => toClient'[k] = toClient[k]
      /\ ~Gone(k) => Grown(toClient'[k], toClient[k], Reply(n, cnt))
  BY <1>1, ServerSent DEF OpenDownload
<1>4. \/ handler'[k] = [NoHandler EXCEPT !.doing = "download", !.size = n, !.count = cnt,
                                         !.buffer = f.buffer]
      \/ Gone(k) /\ UNCHANGED handler
  BY <1>1, Become DEF OpenDownload
<1>5. f.kind = "get"
  BY DEF OpenDownload, ToServerSees
<1>6. \/ /\ handler'[k].doing = "download" /\ handler'[k].size = n /\ handler'[k].count = cnt
         /\ handler'[k].buffer = f.buffer /\ handler'[k].idx = 0
      \/ Gone(k) /\ UNCHANGED handler
  BY <1>4 DEF NoHandler
<1> HIDE DEF f
<1>7. Paced(k)'
  <2>1. handler'[k].count \in Nat
    <3>1. handler'[k] \in Handlers
      BY DEF TypeInv, TypeOK
    <3> QED BY <3>1 DEF Handlers
  <2> QED BY <1>1, <1>6, <2>1 DEF Paced
<1>8. CASE c.at = "asked"
  <2>1. c.op = "download" /\ f.buffer = ClientBuffer[k]
    BY <1>2, <1>5, <1>8, Kinds
  <2>2. Len(toClient'[k]) = 1 /\ toClient'[k][1] = Reply(n, cnt)
    BY <1>2, <1>3, <1>8, FirstGrown DEF Gone
  <2>3. cnt \in Nat /\ cnt = Count(n, ClientBuffer[k])
    BY <1>1, <2>1, CountIsDiv
  <2>4. Streams(k, 2, 0, n, cnt)'
    <3>1. 0 + Len(toClient'[k]) + 1 - 2 = 0 /\ \A x \in 2..Len(toClient'[k]) : FALSE
      BY <2>2
    <3>2. /\ handler'[k].doing = "download" /\ handler'[k].size = n /\ handler'[k].count = cnt
          /\ handler'[k].buffer = ClientBuffer[k] /\ handler'[k].idx = 0
      BY <1>6, <1>8, <2>1 DEF Gone
    <3> QED BY <1>1, <1>2, <1>8, <2>2, <2>3, <3>1, <3>2 DEF Streams
  <2>5. toClient'[k][1].kind = "reply" /\ toClient'[k][1].ok
        /\ toClient'[k][1].size = n /\ toClient'[k][1].count = cnt
    BY <2>2, Kinds
  <2>6. Streams(k, 2, 0, toClient[k][1].size, toClient[k][1].count)'
    BY <2>4, <2>5
  <2>7. Accepted(k)'
    BY <1>1, <2>1, <2>2, <2>5, <2>6 DEF Accepted
  <2> QED BY <1>1, <1>7, <1>8, <2>7 DEF InConversation
<1>9. CASE c.at = "gone"
  <2>1. ~closing'[k] => WellFed(k)'
    <3>1. toServer'[k] = <<>> => Len(toServer'[k]) = 0
      OBVIOUS
    <3>2. handler'[k].doing # "upload"
      BY <1>1, <1>6
    <3> QED BY <1>1, <1>2, <1>9, <3>1, <3>2 DEF WellFed, Wanted
  <2> QED BY <1>1, <1>2, <1>3, <1>7, <1>9, <2>1 DEF InConversation, Gone
<1>10. CASE c.at = "torn"
  BY <1>1, <1>7, <1>10 DEF InConversation
<1> QED BY <1>2, <1>8, <1>9, <1>10

LEMMA OpenUploadKeepsConversation ==
  ASSUME ConvInv, TypeInv', NEW k \in Sessions, OpenUpload(k)
  PROVE  InConversation(k)'
<1> DEFINE c == client[k]
           f == Head(toServer[k])
<1>1. /\ TypeOK /\ Paced(k) /\ InConversation(k) /\ UNCHANGED <<client, closing>>
      /\ c.op \in {"upload", "download"}
  BY Cases DEF OpenUpload
<1>2. /\ c.at \in {"asked", "torn", "gone"}
      /\ c.at = "asked" => /\ toClient[k] = <<>> /\ NoneAsked(k)' /\ (~closing[k] => toServer'[k] = <<>>)
                           /\ IF c.op = "download" THEN f = Get(ClientBuffer[k])
                              ELSE f = Set(c.size, ClientBuffer[k])
      /\ c.at = "gone" => /\ toClient[k] = <<>> /\ c.result # "downloaded"
                          /\ ~closing[k] => toServer'[k] = <<>>
  BY RequestTaken DEF OpenUpload, ToServerSees
<1>3. /\ Gone(k) => toClient'[k] = toClient[k]
      /\ ~Gone(k) => Grown(toClient'[k], toClient[k], Reply(0, 0))
  BY <1>1, ServerSent DEF OpenUpload
<1>4. \/ handler'[k] = [NoHandler EXCEPT !.doing = "upload", !.size = f.size, !.count = f.count,
                                         !.buffer = f.buffer]
      \/ Gone(k) /\ UNCHANGED handler
  BY <1>1, Become DEF OpenUpload
<1>5. f.kind = "set"
  BY DEF OpenUpload, ToServerSees
<1>6. \/ handler'[k].doing = "upload" /\ handler'[k].count = f.count /\ handler'[k].idx = 0
      \/ Gone(k) /\ UNCHANGED handler
  BY <1>4 DEF NoHandler
<1> HIDE DEF f
<1>7. handler'[k].count \in Nat /\ handler'[k].idx \in Nat
  <2>1. handler'[k] \in Handlers
    BY DEF TypeInv, TypeOK
  <2> QED BY <2>1 DEF Handlers
<1>8. Paced(k)'
  BY <1>1, <1>6, <1>7 DEF Paced
<1>9. CASE c.at = "asked"
  <2>1. c.op = "upload" /\ f.count = c.count
    <3>1. c.op = "upload" /\ f = Set(c.size, ClientBuffer[k])
      BY <1>1, <1>2, <1>5, <1>9, Kinds
    <3>2. c.count = Count(c.size, ClientBuffer[k])
      BY <1>1, <1>9, <3>1 DEF InConversation
    <3> QED BY <3>1, <3>2, Kinds
  <2>2. Len(toClient'[k]) = 1 /\ toClient'[k][1] = Reply(0, 0)
    BY <1>2, <1>3, <1>9, FirstGrown DEF Gone
  <2>3. handler'[k].doing = "upload" /\ handler'[k].idx = 0 /\ handler'[k].count = c.count
    BY <1>6, <1>9, <2>1 DEF Gone
  <2>4. Accepted(k)'
    BY <1>1, <1>2, <1>9, <2>1, <2>2, <2>3, Kinds DEF Accepted
  <2> QED BY <1>1, <1>8, <1>9, <2>4 DEF InConversation
<1>10. CASE c.at = "gone"
  <2>1. ~closing'[k] => WellFed(k)'
    <3>1. toServer'[k] = <<>> => Len(toServer'[k]) = 0
      OBVIOUS
    <3>2. 0 <= Wanted(k)'
      BY <1>7, <1>8 DEF Paced, Wanted
    <3>3. \A i \in 1..0 : toServer'[k][i].kind = "chunk"
      OBVIOUS
    <3> QED BY <1>1, <1>2, <1>10, <3>1, <3>2, <3>3 DEF WellFed
  <2> QED BY <1>1, <1>2, <1>3, <1>8, <1>10, <2>1 DEF InConversation, Gone
<1>11. CASE c.at = "torn"
  BY <1>1, <1>8, <1>11 DEF InConversation
<1> QED BY <1>2, <1>9, <1>10, <1>11

\* Another buffer is on its way.
LEMMA StreamsSent ==
  ASSUME TypeOK, NEW k \in Sessions, NEW from \in {1, 2}, NEW i \in Nat, NEW size, NEW count, NEW f,
         Streams(k, from, i, size, count), UNCHANGED <<toServer, closing>>,
         Grown(toClient'[k], toClient[k], f), f.kind = "chunk",
         LET h == handler[k] IN
         /\ h.doing = "download" /\ h.idx < h.count /\ h.count \in Nat
         /\ Len(f.bytes) = ServerLength(h.idx, h.count, h.size, h.buffer)
         /\ handler'[k].doing = "download" /\ handler'[k].idx = h.idx + 1
         /\ handler'[k].count = h.count /\ handler'[k].size = h.size /\ handler'[k].buffer = h.buffer
  PROVE  Streams(k, from, i, size, count)'
<1> DEFINE n == Len(toClient[k])
           h == handler[k]
<1>1. n \in Nat
  BY QueuesAre
<1>2. /\ h.idx = i + n + 1 - from /\ h.count = count /\ h.size = size /\ h.buffer = ClientBuffer[k]
      /\ NoneAsked(k) /\ (~closing[k] => toServer[k] = <<>>) /\ count = Count(size, ClientBuffer[k])
  BY DEF Streams
<1>3. Len(toClient'[k]) = n + 1 /\ toClient'[k][n + 1] = f /\ \A x \in 1..n : toClient'[k][x] = toClient[k][x]
  BY DEF Grown
<1>4. \A x \in from..n : /\ toClient[k][x].kind = "chunk"
                         /\ Len(toClient[k][x].bytes) = ServerLength(i + x - from, count, size, ClientBuffer[k])
  BY DEF Streams
<1> HIDE DEF n
<1>5. i + (n + 1) + 1 - from = h.idx + 1 /\ h.idx + 1 <= count /\ i + (n + 1) - from = h.idx
  BY <1>1, <1>2
<1>6. ASSUME NEW x \in from..n + 1
      PROVE  /\ toClient'[k][x].kind = "chunk"
             /\ Len(toClient'[k][x].bytes) = ServerLength(i + x - from, count, size, ClientBuffer[k])
  <2>1. CASE x = n + 1
    BY <1>2, <1>3, <1>5, <2>1
  <2>2. CASE x # n + 1
    <3>1. x \in from..n /\ x \in 1..n
      BY <1>1, <2>2
    <3> QED BY <1>3, <1>4, <3>1
  <2> QED BY <2>1, <2>2
<1>7. NoneAsked(k)' /\ (~closing'[k] => toServer'[k] = <<>>)
  BY <1>2 DEF NoneAsked
<1> QED BY <1>2, <1>3, <1>5, <1>6, <1>7 DEF Streams

LEMMA SendBufferKeepsConversation ==
  ASSUME ConvInv, NEW k \in Sessions, SendBuffer(k)
  PROVE  InConversation(k)'
<1> DEFINE c == client[k]
           h == handler[k]
<1> PICK n : n = ServerLength(h.idx, h.count, h.size, h.buffer)
  OBVIOUS
<1> PICK f : f = Chunk(Filled(h, n))
  OBVIOUS
<1>1. /\ TypeInv /\ TypeOK /\ Paced(k) /\ InConversation(k) /\ UNCHANGED <<client, closing, toServer>>
      /\ c.at \in {"idle", "asked", "loading", "torn", "gone"} /\ c.op \in {"upload", "download"}
      /\ c.idx \in Nat /\ h.doing = "download" /\ h.idx < h.count /\ h.idx \in Nat /\ h.count \in Nat
      /\ h \in Handlers /\ n \in Nat
  <2>1. h \in Handlers /\ n \in Nat /\ TypeInv /\ TypeOK
    BY Cases, HandlerFields
  <2> QED BY <2>1, Cases DEF SendBuffer, More
<1>2. f.kind = "chunk" /\ Len(f.bytes) = n
  BY <1>1, FilledType, Kinds
<1>3. /\ Gone(k) => toClient'[k] = toClient[k]
      /\ ~Gone(k) => Grown(toClient'[k], toClient[k], f)
  BY <1>1, ServerSent DEF SendBuffer
<1>4. /\ handler'[k].doing = "download" /\ handler'[k].idx = h.idx + 1
      /\ handler'[k].count = h.count /\ handler'[k].size = h.size /\ handler'[k].buffer = h.buffer
  <2>1. handler'[k] = [h EXCEPT !.idx = @ + 1, !.pos = @ + n, !.eof = @ \/ Len(disk) < h.pos + n]
    BY <1>1, Become DEF SendBuffer
  <2> QED BY <1>1, <2>1 DEF Handlers
<1>5. Paced(k)'
  BY <1>1, <1>4 DEF Paced
<1>6. ASSUME NEW from \in {1, 2}, NEW i \in Nat, NEW size, NEW count,
             Streams(k, from, i, size, count), c.at # "gone"
      PROVE  Streams(k, from, i, size, count)'
  BY <1>1, <1>2, <1>3, <1>4, <1>6, StreamsSent DEF Gone
<1>7. CASE c.at = "idle"
  BY <1>1, <1>7 DEF InConversation, Rests, Silent
<1>8. CASE c.at = "asked"
  <2>1. Accepted(k) /\ c.op = "download"
    BY <1>1, <1>8 DEF InConversation, Waiting, Silent, Refused, Accepted
  <2>2. PICK size, count : size = toClient[k][1].size /\ count = toClient[k][1].count
    OBVIOUS
  <2>3. Streams(k, 2, 0, size, count)'
    BY <1>6, <1>8, <2>1, <2>2 DEF Accepted
  <2>4. Len(toClient'[k]) > 0 /\ toClient'[k][1] = toClient[k][1]
    <3>1. Len(toClient[k]) \in Nat /\ Len(toClient[k]) > 0
      BY <1>1, <2>1, QueuesAre DEF Accepted
    <3> QED BY <1>3, <1>8, <3>1 DEF Grown, Gone
  <2>5. Streams(k, 2, 0, toClient[k][1].size, toClient[k][1].count)'
    BY <2>2, <2>3, <2>4
  <2>6. Accepted(k)'
    BY <1>1, <2>1, <2>4, <2>5 DEF Accepted
  <2> QED BY <1>1, <1>5, <1>8, <2>6 DEF InConversation
<1>9. CASE c.at = "loading"
  <2>1. c.op = "download" /\ Streams(k, 1, c.idx, c.size, c.count)
    BY <1>1, <1>9 DEF InConversation, Feeds
  <2>2. PICK i, size, count : i = c.idx /\ size = c.size /\ count = c.count
    OBVIOUS
  <2>3. Streams(k, 1, i, size, count)'
    BY <1>1, <1>6, <1>9, <2>1, <2>2
  <2>4. Streams(k, 1, client[k].idx, client[k].size, client[k].count)'
    BY <1>1, <2>2, <2>3
  <2> QED BY <1>1, <1>5, <1>9, <2>1, <2>4 DEF InConversation
<1>10. CASE c.at = "torn"
  BY <1>1, <1>5, <1>10 DEF InConversation
<1>11. CASE c.at = "gone"
  <2>1. Wanted(k)' = Wanted(k) /\ (NoneAsked(k) => NoneAsked(k)')
    BY <1>1, <1>4 DEF Wanted, NoneAsked
  <2>2. WellFed(k) => WellFed(k)'
    BY <1>1, <2>1 DEF WellFed
  <2> QED BY <1>1, <1>3, <1>5, <1>11, <2>1, <2>2 DEF InConversation, Gone
<1> QED BY <1>1, <1>7, <1>8, <1>9, <1>10, <1>11

\* A handler that ends sends and takes nothing more.
LEMMA EndedHandler ==
  ASSUME NEW k \in Sessions, handler'[k].doing \in {"none", "ended"}
  PROVE  Wanted(k)' = 0 /\ Silent(k)' /\ Paced(k)'
BY DEF Wanted, Silent, Paced

LEMMA CloseDownloadKeepsConversation ==
  ASSUME ConvInv, NEW k \in Sessions, CloseDownload(k)
  PROVE  InConversation(k)'
<1> DEFINE c == client[k]
           h == handler[k]
<1>1. /\ TypeOK /\ InConversation(k) /\ UNCHANGED <<client, closing, toServer, toClient>>
      /\ c.at \in {"idle", "asked", "loading", "torn", "gone"} /\ c.op \in {"upload", "download"}
      /\ c.idx \in Nat /\ h.doing = "download" /\ h.idx \in Nat /\ h.count \in Nat
      /\ h.idx >= h.count \/ c.at = "gone"
      /\ Wanted(k) = 0
  BY Cases DEF CloseDownload, More, Gone
<1>2. handler'[k].doing = "none"
  <2>1. handler'[k] = NoHandler
    BY <1>1, Become DEF CloseDownload
  <2> QED BY <2>1 DEF NoHandler
<1>3. Wanted(k)' = 0 /\ Silent(k)' /\ Paced(k)' /\ (NoneAsked(k) => NoneAsked(k)')
  BY <1>1, <1>2, EndedHandler DEF NoneAsked
<1>4. ASSUME NEW from \in {1, 2}, NEW i \in Nat, NEW size, NEW count,
             Streams(k, from, i, size, count), c.at # "gone"
      PROVE  Streams(k, from, i, size, count)'
  <2> DEFINE sent == i + Len(toClient[k]) + 1 - from
  <2>1. sent <= count /\ h.idx = sent /\ h.count = count
    BY <1>1, <1>4 DEF Streams
  <2>2. sent = count
    BY <1>1, <1>4, <2>1
  <2> HIDE DEF sent
  <2>3. /\ NoneAsked(k)' /\ (~closing'[k] => toServer'[k] = <<>>)
        /\ count = Count(size, ClientBuffer[k])
    BY <1>1, <1>3, <1>4 DEF Streams
  <2>4. \A x \in from..Len(toClient'[k]) :
          /\ toClient'[k][x].kind = "chunk"
          /\ Len(toClient'[k][x].bytes) = ServerLength(i + x - from, count, size, ClientBuffer[k])
    BY <1>1, <1>4 DEF Streams
  <2>5. i + Len(toClient'[k]) + 1 - from = count /\ count <= count
    BY <1>1, <2>1, <2>2 DEF sent
  <2> QED BY <1>2, <2>3, <2>4, <2>5 DEF Streams
<1>5. CASE c.at = "idle"
  <2>1. Rests(k)'
    BY <1>1, <1>2, <1>3, <1>5 DEF InConversation, Rests
  <2> QED BY <1>1, <1>3, <1>5, <2>1 DEF InConversation
<1>6. CASE c.at = "asked" /\ Waiting(k)
  <2>1. Waiting(k)'
    BY <1>1, <1>2, <1>3, <1>6 DEF Waiting
  <2> QED BY <1>1, <1>3, <1>6, <2>1 DEF InConversation
<1>7. CASE c.at = "asked" /\ ~Waiting(k)
  <2>1. Accepted(k) /\ c.op = "download"
    BY <1>1, <1>7 DEF InConversation, Refused, Accepted
  <2>2. PICK size, count : size = toClient[k][1].size /\ count = toClient[k][1].count
    OBVIOUS
  <2>3. Streams(k, 2, 0, size, count)'
    BY <1>4, <1>7, <2>1, <2>2 DEF Accepted
  <2>4. Streams(k, 2, 0, toClient[k][1].size, toClient[k][1].count)'
    BY <1>1, <2>2, <2>3
  <2>5. Accepted(k)'
    BY <1>1, <2>1, <2>4 DEF Accepted
  <2> QED BY <1>1, <1>3, <1>7, <2>5 DEF InConversation
<1>8. CASE c.at = "loading"
  <2>1. c.op = "download" /\ Streams(k, 1, c.idx, c.size, c.count)
    BY <1>1, <1>8 DEF InConversation, Feeds
  <2>2. PICK i, size, count : i = c.idx /\ size = c.size /\ count = c.count
    OBVIOUS
  <2>3. Streams(k, 1, i, size, count)'
    BY <1>1, <1>4, <1>8, <2>1, <2>2
  <2>4. Streams(k, 1, client[k].idx, client[k].size, client[k].count)'
    BY <1>1, <2>2, <2>3
  <2> QED BY <1>1, <1>3, <1>8, <2>1, <2>4 DEF InConversation
<1>9. CASE c.at = "torn"
  BY <1>1, <1>3, <1>9 DEF InConversation
<1>10. CASE c.at = "gone"
  <2>1. WellFed(k) => WellFed(k)'
    BY <1>1, <1>3 DEF WellFed
  <2> QED BY <1>1, <1>3, <1>10, <2>1 DEF InConversation
<1> QED BY <1>1, <1>5, <1>6, <1>7, <1>8, <1>9, <1>10

LEMMA TakeBufferKeepsConversation ==
  ASSUME ConvInv, NEW k \in Sessions, TakeBuffer(k)
  PROVE  InConversation(k)'
<1> DEFINE c == client[k]
           h == handler[k]
           q == toServer[k]
           m == Wanted(k)
<1>1. /\ TypeOK /\ InConversation(k) /\ UNCHANGED <<client, closing, toClient>>
      /\ c.at \in {"idle", "asked", "loading", "torn", "gone"} /\ c.op \in {"upload", "download"}
      /\ c.idx \in Nat /\ h \in Handlers /\ h.doing = "upload" /\ h.idx \in Nat /\ h.count \in Nat
      /\ h.idx < h.count /\ m = h.count - h.idx /\ m \in Nat /\ m > 0
      /\ q # <<>> /\ Len(q) \in Nat /\ Len(q) > 0 /\ ~Asks(q[1])
  <2>1. /\ TypeOK /\ InConversation(k) /\ UNCHANGED <<client, closing, toClient>>
        /\ c.at \in {"idle", "asked", "loading", "torn", "gone"} /\ c.op \in {"upload", "download"}
        /\ c.idx \in Nat /\ h.doing = "upload" /\ h.idx \in Nat /\ h.count \in Nat
        /\ h.idx < h.count /\ m = h.count - h.idx /\ m \in Nat
    BY Cases DEF TakeBuffer, More
  <2>2. q # <<>> /\ Len(q) \in Nat /\ Len(q) > 0 /\ ~Asks(q[1]) /\ h \in Handlers
    <3>1. q # <<>> /\ Head(q).kind \in {"chunk", "junk", "quit"}
      BY DEF TakeBuffer, ToServerSees
    <3> QED BY <2>1, <3>1, QueuesAre DEF Asks, TypeOK
  <2> QED BY <2>1, <2>2
<1>2. /\ handler'[k].doing = "upload" /\ handler'[k].idx = h.idx + 1 /\ handler'[k].count = h.count
  <2>1. PICK g : handler'[k] = [h EXCEPT !.idx = @ + 1, !.buf = @ \o Head(q).bytes, !.good = g]
    <3>1. PICK g : Becomes(k, [h EXCEPT !.idx = @ + 1, !.buf = @ \o Head(q).bytes, !.good = g])
      BY DEF TakeBuffer
    <3> QED BY <1>1, <3>1, Become
  <2> QED BY <1>1, <2>1 DEF Handlers
<1>3. Shrunk(toServer'[k], q)
  BY <1>1, ServerLeft DEF TakeBuffer
<1>4. Paced(k)' /\ Silent(k)' /\ Wanted(k)' = m - 1
  BY <1>1, <1>2 DEF Paced, Silent, Wanted
<1>5. NoneAsked(k) => NoneAsked(k)'
  BY <1>1, <1>3, NoneAskedKept
<1> HIDE DEF m
<1>6. ASSUME NEW n \in Nat, \A i \in 1..n : i \in 1..Len(q) /\ q[i].kind = "chunk"
      PROVE  \A i \in 1..n - 1 : toServer'[k][i].kind = "chunk"
  <2>1. \A i \in 1..n - 1 : i + 1 \in 1..n /\ i \in 1..Len(q) - 1
    BY <1>1, <1>6
  <2> QED BY <1>1, <1>3, <1>6, <2>1 DEF Shrunk
<1>7. Len(toServer'[k]) = Len(q) - 1
  BY <1>3 DEF Shrunk
<1>8. CASE c.at = "idle"
  <2>1. Rests(k)
    BY <1>1, <1>8 DEF InConversation
  <2>2. ASSUME ~closing[k]
        PROVE  /\ Len(toServer'[k]) = m - 1
               /\ \A i \in 1..m - 1 : toServer'[k][i].kind = "chunk"
    <3>1. Len(q) = m /\ \A i \in 1..m : i \in 1..Len(q) /\ q[i].kind = "chunk"
      BY <2>1, <2>2 DEF Rests, m
    <3> QED BY <1>1, <1>6, <1>7, <3>1
  <2>3. Rests(k)'
    BY <1>1, <1>2, <1>4, <1>5, <2>1, <2>2 DEF Rests
  <2> QED BY <1>1, <1>4, <1>8, <2>3 DEF InConversation
<1>9. CASE c.at = "asked" /\ Waiting(k)
  <2>1. /\ Len(q) = m + 1 \/ (closing[k] /\ Len(q) = m + 2 /\ ~Asks(q[m + 2]))
        /\ \A i \in 1..m : q[i].kind = "chunk"
        /\ IF c.op = "download" THEN q[m + 1] = Get(ClientBuffer[k])
           ELSE q[m + 1] = Set(c.size, ClientBuffer[k])
        /\ toClient[k] = <<>>
    BY <1>9 DEF Waiting, m
  <2>2. \A i \in 1..m - 1 : toServer'[k][i].kind = "chunk"
    <3>1. \A i \in 1..m : i \in 1..Len(q)
      BY <1>1, <2>1
    <3> QED BY <1>1, <1>6, <2>1, <3>1
  <2>3. toServer'[k][m] = q[m + 1] /\ (Len(q) = m + 2 => toServer'[k][m + 1] = q[m + 2])
    <3>1. \A i \in 1..Len(toServer'[k]) : toServer'[k][i] = q[i + 1]
      BY <1>3 DEF Shrunk
    <3>2. m \in 1..Len(toServer'[k]) /\ (Len(q) = m + 2 => m + 1 \in 1..Len(toServer'[k]))
      <4> DEFINE n == Len(q)
      <4>1. m \in Nat /\ m > 0 /\ (n = m + 1 \/ n = m + 2) /\ Len(toServer'[k]) = n - 1
        BY <1>1, <1>7, <2>1
      <4> HIDE DEF n
      <4>2. m \in 1..n - 1 /\ (n = m + 2 => m + 1 \in 1..n - 1)
        BY <4>1
      <4> QED BY <4>1, <4>2 DEF n
    <3>3. (m + 1) + 1 = m + 2
      BY <1>1
    <3> HIDE DEF q
    <3>4. toServer'[k][m] = q[m + 1]
      BY <3>1, <3>2
    <3>5. Len(q) = m + 2 => toServer'[k][m + 1] = q[(m + 1) + 1]
      BY <3>1, <3>2
    <3> QED BY <3>3, <3>4, <3>5
  <2>4. (m - 1) + 1 = m /\ (m - 1) + 2 = m + 1
    BY <1>1
  <2>5. Len(toServer'[k]) = m \/ (closing'[k] /\ Len(toServer'[k]) = m + 1 /\ ~Asks(toServer'[k][m + 1]))
    <3>1. Len(q) = m + 1 => Len(toServer'[k]) = m
      BY <1>1, <1>7
    <3>2. Len(q) = m + 2 => Len(toServer'[k]) = m + 1
      BY <1>1, <1>7
    <3>3. closing'[k] = closing[k]
      BY <1>1
    <3> HIDE DEF q
    <3> QED BY <2>1, <2>3, <3>1, <3>2, <3>3
  <2>6. Waiting(k)'
    BY <1>1, <1>2, <1>4, <2>1, <2>2, <2>3, <2>4, <2>5 DEF Waiting
  <2> QED BY <1>1, <1>4, <1>9, <2>6 DEF InConversation
<1>10. CASE c.at = "asked" /\ ~Waiting(k)
  <2>1. Accepted(k) /\ c.op = "upload"
    BY <1>1, <1>10 DEF InConversation, Refused, Accepted, Streams
  <2>2. Accepted(k)'
    BY <1>1, <1>2, <1>5, <2>1 DEF Accepted
  <2> QED BY <1>1, <1>4, <1>10, <2>2 DEF InConversation
<1>11. CASE c.at = "loading"
  <2>1. c.op = "upload" /\ Feeds(k)
    BY <1>1, <1>11 DEF InConversation, Streams
  <2>2. ASSUME ~closing[k]
        PROVE  /\ \A i \in 1..Len(toServer'[k]) : toServer'[k][i].kind = "chunk"
               /\ h.count = c.count /\ h.idx + 1 + Len(toServer'[k]) = c.idx
    <3>1. /\ \A i \in 1..Len(q) : i \in 1..Len(q) /\ q[i].kind = "chunk"
          /\ h.count = c.count /\ h.idx + Len(q) = c.idx
      BY <1>1, <2>1, <2>2 DEF Feeds
    <3>2. \A i \in 1..Len(q) - 1 : toServer'[k][i].kind = "chunk"
      BY <1>1, <1>6, <3>1
    <3> DEFINE n == Len(q)
               d == c.idx
               x == h.idx
    <3>3. n \in Nat /\ d \in Nat /\ x \in Nat /\ x + n = d
      BY <1>1, <3>1
    <3> HIDE DEF n, d, x
    <3>4. x + 1 + (n - 1) = d
      BY <3>3
    <3> QED BY <1>7, <3>1, <3>2, <3>4 DEF n, d, x
  <2>3. Feeds(k)'
    BY <1>1, <1>2, <1>5, <2>1, <2>2 DEF Feeds
  <2> QED BY <1>1, <1>4, <1>11, <2>1, <2>3 DEF InConversation
<1>12. CASE c.at = "torn"
  BY <1>1, <1>4, <1>12 DEF InConversation
<1>13. CASE c.at = "gone"
  <2>1. ASSUME WellFed(k) PROVE WellFed(k)'
    <3>1. PICK n \in 0..Len(q) :
            /\ n <= m /\ \A i \in 1..n : q[i].kind = "chunk"
            /\ Len(q) # n => n = m /\ Len(q) = n + 1 /\ Asks(q[n + 1])
      BY <2>1 DEF WellFed, m
    <3>2. n > 0
      BY <1>1, <3>1
    <3>3. n - 1 \in 0..Len(toServer'[k]) /\ n - 1 <= m - 1 /\ n \in Nat /\ n - 1 + 1 = n
      BY <1>1, <1>7, <3>1, <3>2
    <3>4. \A i \in 1..n - 1 : toServer'[k][i].kind = "chunk"
      <4>1. \A i \in 1..n : i \in 1..Len(q)
        BY <1>1, <3>1
      <4> QED BY <1>6, <3>1, <3>3, <4>1
    <3>5. Len(toServer'[k]) # n - 1 =>
            n - 1 = m - 1 /\ Len(toServer'[k]) = n - 1 + 1 /\ Asks(toServer'[k][n - 1 + 1])
      <4> SUFFICES ASSUME Len(toServer'[k]) # n - 1
                   PROVE  n = m /\ Len(toServer'[k]) = n /\ Asks(toServer'[k][n])
        BY <3>3
      <4>1. n = m /\ Len(q) = n + 1 /\ Asks(q[n + 1])
        BY <1>1, <1>7, <3>1, <3>3
      <4>2. Len(toServer'[k]) = n /\ n \in 1..n
        BY <1>7, <3>1, <3>2, <3>3, <4>1
      <4>3. toServer'[k][n] = q[n + 1]
        BY <1>3, <4>2 DEF Shrunk
      <4> QED BY <4>1, <4>2, <4>3
    <3>6. PICK p : p = n - 1
      OBVIOUS
    <3> QED BY <1>4, <3>3, <3>4, <3>5, <3>6 DEF WellFed
  <2> QED BY <1>1, <1>4, <1>5, <1>13, <2>1 DEF InConversation
<1> QED BY <1>1, <1>8, <1>9, <1>10, <1>11, <1>12, <1>13

LEMMA CloseUploadKeepsConversation ==
  ASSUME ConvInv, NEW k \in Sessions, CloseUpload(k)
  PROVE  InConversation(k)'
<1> DEFINE c == client[k]
           h == handler[k]
           q == toServer[k]
           m == Wanted(k)
<1>1. /\ TypeOK /\ InConversation(k) /\ UNCHANGED <<client, closing, toServer, toClient>>
      /\ c.at \in {"idle", "asked", "loading", "torn", "gone"} /\ c.op \in {"upload", "download"}
      /\ c.idx \in Nat /\ c.count \in Nat /\ c.size \in Nat
      /\ ClientBuffer[k] \in Nat \ {0} /\ h.doing = "upload" /\ h.idx \in Nat /\ h.count \in Nat
      /\ h.idx <= h.count /\ m = h.count - h.idx /\ m \in Nat
      /\ Len(q) \in Nat /\ (q = <<>> <=> Len(q) = 0)
  <2>1. /\ TypeOK /\ InConversation(k)
        /\ c.at \in {"idle", "asked", "loading", "torn", "gone"} /\ c.op \in {"upload", "download"}
        /\ c.idx \in Nat /\ c.count \in Nat /\ c.size \in Nat
        /\ ClientBuffer[k] \in Nat \ {0} /\ h.idx \in Nat /\ h.count \in Nat
    BY Cases
  <2>2. UNCHANGED <<client, closing, toServer, toClient>> /\ h.doing = "upload"
    BY DEF CloseUpload
  <2>3. h.idx <= h.count /\ m = h.count - h.idx /\ m \in Nat
    BY <2>2, Cases DEF Paced
  <2> QED BY <2>1, <2>2, <2>3, QueuesAre
<1>2. m = 0 \/ (c.at = "gone" /\ q = <<>>)
  <2>1. ~(h.idx < h.count) \/ (c.at = "gone" /\ q = <<>>)
    BY DEF CloseUpload, More, Gone
  <2> QED BY <1>1, <2>1
<1>3. handler'[k].doing = "none"
  <2>1. handler'[k] = NoHandler
    BY <1>1, Become DEF CloseUpload
  <2> QED BY <2>1 DEF NoHandler
<1>4. Wanted(k)' = 0 /\ Silent(k)' /\ Paced(k)' /\ (NoneAsked(k) => NoneAsked(k)')
  BY <1>1, <1>3, EndedHandler DEF NoneAsked
<1>5. CASE c.at = "idle"
  <2>1. Rests(k)'
    BY <1>1, <1>2, <1>3, <1>4, <1>5 DEF InConversation, Rests
  <2> QED BY <1>1, <1>4, <1>5, <2>1 DEF InConversation
<1>6. CASE c.at = "asked" /\ Waiting(k)
  <2>1. Wanted(k)' = Wanted(k)
    BY <1>2, <1>4, <1>6
  <2>2. Waiting(k)'
    BY <1>1, <1>3, <1>4, <1>6, <2>1 DEF Waiting
  <2> QED BY <1>1, <1>4, <1>6, <2>2 DEF InConversation
<1>7. CASE c.at = "asked" /\ ~Waiting(k)
  <2>1. Accepted(k) /\ c.op = "upload"
    BY <1>1, <1>7 DEF InConversation, Refused, Accepted, Streams
  <2>2. closing[k]
    <3>1. ~closing[k] => h.idx = 0 /\ h.count = c.count
      BY <2>1 DEF Accepted
    <3>2. c.count = Count(c.size, ClientBuffer[k])
      BY <1>1, <1>7, <2>1 DEF InConversation
    <3>3. c.count >= 1
      BY <1>1, <3>2, CountIsDiv
    <3> HIDE DEF m
    <3> QED BY <1>1, <1>2, <1>7, <3>1, <3>3
  <2>3. Accepted(k)'
    BY <1>1, <1>3, <1>4, <2>1, <2>2 DEF Accepted
  <2> QED BY <1>1, <1>4, <1>7, <2>3 DEF InConversation
<1>8. CASE c.at = "loading"
  <2>1. c.op = "upload" /\ Feeds(k)
    BY <1>1, <1>8 DEF InConversation, Streams
  <2>2. ASSUME ~closing[k] PROVE q = <<>> /\ c.idx = c.count
    <3>1. h.idx + Len(q) = c.idx /\ c.idx <= c.count /\ h.count = c.count
      BY <1>1, <2>1, <2>2 DEF Feeds
    <3> DEFINE n == Len(q)
               d == c.idx
               x == h.idx
    <3>2. x + n = d /\ d <= c.count /\ x = c.count /\ n \in Nat /\ x \in Nat
      BY <1>1, <1>2, <1>8, <3>1
    <3>3. n = 0 /\ d = c.count
      <4> HIDE DEF n, d, x
      <4> QED BY <1>1, <3>2
    <3> QED BY <1>1, <3>3
  <2>3. Feeds(k)'
    <3>1. q = <<>> => \A i \in 1..Len(toServer'[k]) : toServer'[k][i].kind = "chunk"
      BY <1>1
    <3> QED BY <1>1, <1>3, <1>4, <2>1, <2>2, <3>1 DEF Feeds
  <2> QED BY <1>1, <1>4, <1>8, <2>1, <2>3 DEF InConversation
<1>9. CASE c.at = "torn"
  BY <1>1, <1>4, <1>9 DEF InConversation
<1>10. CASE c.at = "gone"
  <2>1. ASSUME WellFed(k) PROVE WellFed(k)'
    <3>1. CASE m = 0
      BY <1>1, <1>4, <2>1, <3>1 DEF WellFed
    <3>2. CASE q = <<>>
      <4>1. Len(toServer'[k]) = 0 /\ \A i \in 1..0 : toServer'[k][i].kind = "chunk"
        BY <1>1, <3>2
      <4> QED BY <1>4, <4>1 DEF WellFed
    <3> QED BY <1>2, <3>1, <3>2
  <2> QED BY <1>1, <1>4, <1>10, <2>1 DEF InConversation
<1> QED BY <1>1, <1>5, <1>6, <1>7, <1>8, <1>9, <1>10

LEMMA EndSessionKeepsConversation ==
  ASSUME ConvInv, NEW k \in Sessions, EndSession(k)
  PROVE  InConversation(k)'
<1> DEFINE c == client[k]
           h == handler[k]
           q == toServer[k]
<1>1. /\ TypeOK /\ InConversation(k) /\ UNCHANGED <<client, closing, toClient>>
      /\ c.at \in {"idle", "asked", "loading", "torn", "gone"} /\ c.op \in {"upload", "download"}
      /\ h.doing = "none" /\ Wanted(k) = 0 /\ toServer'[k] = <<>>
      /\ Len(q) \in Nat /\ (q = <<>> <=> Len(q) = 0)
  <2>1. /\ TypeOK /\ InConversation(k)
        /\ c.at \in {"idle", "asked", "loading", "torn", "gone"} /\ c.op \in {"upload", "download"}
    BY Cases
  <2>2. UNCHANGED <<client, closing, toClient>> /\ h.doing = "none" /\ toServer'[k] = <<>>
    BY <2>1 DEF EndSession, TypeOK
  <2> QED BY <2>1, <2>2, QueuesAre, Cases
<1>2. handler'[k].doing = "ended"
  <2>1. handler'[k] = [NoHandler EXCEPT !.doing = "ended"]
    BY <1>1, Become DEF EndSession
  <2> QED BY <2>1 DEF NoHandler
<1>3. Wanted(k)' = 0 /\ Silent(k)' /\ Paced(k)' /\ NoneAsked(k)'
  BY <1>1, <1>2, EndedHandler, NoneAskedKept DEF NoneAsked
\* Only a client that is gone or was interrupted ends its session here.
<1>4. c.at = "gone" \/ (q # <<>> /\ ~Asks(q[1]))
  <2>1. c.at = "gone" \/ (q # <<>> /\ Head(q).kind \in {"quit", "chunk", "junk"})
    BY DEF EndSession, ToServerSees, Gone
  <2> QED BY <1>1, <2>1, QueuesAre DEF Asks
<1>5. c.at = "gone" \/ closing[k]
  <2>1. ~closing[k] /\ h.doing = "none" => ~ToServerSees(k, {"chunk", "junk", "quit"})
    BY ConvAligned DEF Aligned
  <2>2. c.at = "gone" \/ ToServerSees(k, {"chunk", "junk", "quit"})
    BY DEF EndSession, ToServerSees, Gone
  <2> QED BY <1>1, <2>1, <2>2
<1>6. CASE c.at = "idle"
  <2>1. Rests(k)'
    BY <1>1, <1>3, <1>5, <1>6 DEF InConversation, Rests
  <2> QED BY <1>1, <1>3, <1>6, <2>1 DEF InConversation
<1>7. ASSUME NEW from, NEW i, NEW size, NEW count, Streams(k, from, i, size, count), c.at # "gone"
      PROVE  Streams(k, from, i, size, count)'
  <2>1. /\ count = Count(size, ClientBuffer[k]) /\ i + Len(toClient'[k]) + 1 - from = count
        /\ i + Len(toClient'[k]) + 1 - from <= count
        /\ \A x \in from..Len(toClient'[k]) :
             /\ toClient'[k][x].kind = "chunk"
             /\ Len(toClient'[k][x].bytes) = ServerLength(i + x - from, count, size, ClientBuffer[k])
    BY <1>1, <1>7 DEF Streams
  <2> QED BY <1>1, <1>2, <1>3, <1>5, <1>7, <2>1 DEF Streams
<1>8. CASE c.at = "asked"
  <2>1. Refused(k) \/ Accepted(k)
    <3>1. ~Waiting(k)
      BY <1>1, <1>4, <1>8, Kinds DEF Waiting
    <3> QED BY <1>1, <1>8, <3>1 DEF InConversation
  <2>2. CASE Refused(k)
    <3>1. Refused(k)'
      BY <1>1, <1>2, <1>3, <1>5, <1>8, <2>2 DEF Refused
    <3> QED BY <1>1, <1>3, <1>8, <3>1 DEF InConversation
  <2>3. CASE Accepted(k) /\ c.op = "download"
    <3>1. PICK size, count : size = toClient[k][1].size /\ count = toClient[k][1].count
      OBVIOUS
    <3>2. Streams(k, 2, 0, size, count)'
      BY <1>7, <1>8, <2>3, <3>1 DEF Accepted
    <3>3. Streams(k, 2, 0, toClient[k][1].size, toClient[k][1].count)'
      BY <1>1, <3>1, <3>2
    <3>4. Accepted(k)'
      BY <1>1, <2>3, <3>3 DEF Accepted
    <3> QED BY <1>1, <1>3, <1>8, <3>4 DEF InConversation
  <2>4. CASE Accepted(k) /\ c.op = "upload"
    <3>1. Accepted(k)'
      BY <1>1, <1>2, <1>3, <1>5, <1>8, <2>4 DEF Accepted
    <3> QED BY <1>1, <1>3, <1>8, <3>1 DEF InConversation
  <2> QED BY <1>1, <2>1, <2>2, <2>3, <2>4
<1>9. CASE c.at = "loading" /\ c.op = "download"
  <2>1. PICK i, size, count : i = c.idx /\ size = c.size /\ count = c.count
    OBVIOUS
  <2>2. Streams(k, 1, i, size, count)'
    BY <1>1, <1>7, <1>9, <2>1 DEF InConversation
  <2>3. Streams(k, 1, client[k].idx, client[k].size, client[k].count)'
    BY <1>1, <2>1, <2>2
  <2> QED BY <1>1, <1>3, <1>9, <2>3 DEF InConversation
<1>10. CASE c.at = "loading" /\ c.op = "upload"
  <2>1. Feeds(k)'
    BY <1>1, <1>2, <1>3, <1>5, <1>10 DEF InConversation, Feeds
  <2> QED BY <1>1, <1>3, <1>10, <2>1 DEF InConversation
<1>11. CASE c.at = "torn"
  BY <1>1, <1>3, <1>11 DEF InConversation
<1>12. CASE c.at = "gone"
  <2>1. Len(toServer'[k]) = 0 /\ \A i \in 1..0 : toServer'[k][i].kind = "chunk"
    BY <1>1
  <2>2. WellFed(k)'
    BY <1>3, <2>1 DEF WellFed
  <2> QED BY <1>1, <1>3, <1>12, <2>2 DEF InConversation
<1> QED BY <1>1, <1>6, <1>8, <1>9, <1>10, <1>11, <1>12

-----------------------------------------------------------------------------
(* The whole system.                                                       *)

\* How the conversation of a session sees a step that is not its own.
Same(j) ==
  /\ toServer'[j] = toServer[j] /\ toClient'[j] = toClient[j] /\ client'[j] = client[j]
  /\ closing'[j] = closing[j]
  /\ handler'[j].doing = handler[j].doing /\ handler'[j].size = handler[j].size
  /\ handler'[j].count = handler[j].count /\ handler'[j].idx = handler[j].idx
  /\ handler'[j].buffer = handler[j].buffer

LEMMA SameKeepsConversation ==
  ASSUME NEW j, InConversation(j), Same(j)
  PROVE  InConversation(j)'
<1>1. /\ Paced(j)' /\ Wanted(j)' = Wanted(j) /\ (Silent(j)' <=> Silent(j))
      /\ (NoneAsked(j)' <=> NoneAsked(j))
  BY DEF InConversation, Paced, Wanted, Silent, NoneAsked, Same
<1>2. ASSUME NEW from, NEW i, NEW size, NEW count, Streams(j, from, i, size, count)
      PROVE  Streams(j, from, i, size, count)'
  BY <1>1, <1>2 DEF Streams, Same
<1>3. Rests(j) => Rests(j)'
  BY <1>1 DEF Rests, Same
<1>4. Waiting(j) => Waiting(j)'
  BY <1>1 DEF Waiting, Same
<1>5. Refused(j) => Refused(j)'
  BY <1>1 DEF Refused, Same
<1>6. Accepted(j) => Accepted(j)'
  <2> SUFFICES ASSUME Accepted(j) PROVE Accepted(j)'
    OBVIOUS
  <2>1. CASE client[j].op = "download"
    <3>1. PICK size, count : size = toClient[j][1].size /\ count = toClient[j][1].count
      OBVIOUS
    <3>2. Streams(j, 2, 0, size, count)'
      BY <1>2, <2>1, <3>1 DEF Accepted
    <3>3. Streams(j, 2, 0, toClient[j][1].size, toClient[j][1].count)'
      BY <3>1, <3>2 DEF Same
    <3> QED BY <2>1, <3>3 DEF Accepted, Same
  <2>2. CASE client[j].op # "download"
    BY <1>1, <2>2 DEF Accepted, Same
  <2> QED BY <2>1, <2>2
<1>7. Feeds(j) => Feeds(j)'
  BY <1>1 DEF Feeds, Same
<1>8. WellFed(j) => WellFed(j)'
  BY <1>1 DEF WellFed, Same
<1>9. Streams(j, 1, client[j].idx, client[j].size, client[j].count)
        => Streams(j, 1, client[j].idx, client[j].size, client[j].count)'
  <2> SUFFICES ASSUME Streams(j, 1, client[j].idx, client[j].size, client[j].count)
               PROVE  Streams(j, 1, client[j].idx, client[j].size, client[j].count)'
    OBVIOUS
  <2>1. PICK i, size, count : i = client[j].idx /\ size = client[j].size /\ count = client[j].count
    OBVIOUS
  <2>2. Streams(j, 1, i, size, count)'
    BY <1>2, <2>1
  <2> QED BY <2>1, <2>2 DEF Same
<1>10. client'[j] = client[j] /\ closing'[j] = closing[j] /\ toClient'[j] = toClient[j]
  BY DEF Same
<1> QED BY <1>1, <1>3, <1>4, <1>5, <1>6, <1>7, <1>8, <1>9, <1>10 DEF InConversation

LEMMA FlushKeepsConversation ==
  ASSUME ConvInv, NEW k \in Sessions, Flush(k)
  PROVE  InConversation(k)'
<1>1. TypeOK /\ handler[k] \in Handlers /\ InConversation(k)
  BY Cases DEF TypeOK
<1>2. PICK p, b : Becomes(k, [handler[k] EXCEPT !.pos = p, !.buf = b])
  BY DEF Flush
<1>3. handler'[k] = [handler[k] EXCEPT !.pos = p, !.buf = b]
  BY <1>1, <1>2, Become
<1>4. UNCHANGED <<toServer, toClient, client, closing>>
  BY DEF Flush
<1>5. Same(k)
  BY <1>1, <1>3, <1>4 DEF Same, Handlers
<1> QED BY <1>1, <1>5, SameKeepsConversation

\* Sessions share only the file.
LEMMA OthersSame ==
  ASSUME TypeOK, NEW k \in Sessions, NEW j \in Sessions \ {k},
         \/ StartDownload(k) \/ StartUpload(k) \/ ReadReply(k) \/ Download(k) \/ Upload(k)
         \/ Finish(k) \/ Interrupt(k) \/ Tear(k) \/ Exit(k) \/ ServerStep(k) \/ Flush(k)
  PROVE  Same(j)
<1> USE DEF TypeOK, Same
<1>1. ASSUME NEW c, Turns(k, c) PROVE client'[j] = client[j]
  BY <1>1 DEF Turns
<1>2. ASSUME NEW h, Becomes(k, h) PROVE handler'[j] = handler[j]
  BY <1>2 DEF Becomes
<1>3. ASSUME NEW f, ClientSends(k, f) PROVE toServer'[j] = toServer[j]
  BY <1>3 DEF ClientSends
<1>4. ASSUME NEW f, ServerSends(k, f) PROVE toClient'[j] = toClient[j]
  BY <1>4 DEF ServerSends
<1>5. /\ ClientTakes(k) => toClient'[j] = toClient[j]
      /\ ServerTakes(k) => toServer'[j] = toServer[j]
  BY DEF ClientTakes, ServerTakes
<1>6. CASE StartDownload(k) \/ StartUpload(k)
  BY <1>1, <1>3, <1>6 DEF StartDownload, StartUpload
<1>7. CASE ReadReply(k) \/ Download(k)
  BY <1>1, <1>5, <1>7 DEF ReadReply, Download
<1>8. CASE Upload(k) \/ Finish(k)
  BY <1>1, <1>3, <1>8 DEF Upload, Finish
<1>9. CASE Interrupt(k)
  BY <1>3, <1>9 DEF Interrupt
<1>10. CASE Tear(k)
  BY <1>1, <1>3, <1>10 DEF Tear
<1>11. CASE Exit(k)
  BY <1>1, <1>11 DEF Exit
<1>12. CASE Refuse(k)
  BY <1>4, <1>5, <1>12 DEF Refuse
<1>13. CASE OpenDownload(k)
  BY <1>2, <1>4, <1>5, <1>13 DEF OpenDownload
<1>14. CASE OpenUpload(k)
  BY <1>2, <1>4, <1>5, <1>14 DEF OpenUpload
<1>15. CASE SendBuffer(k)
  BY <1>2, <1>4, <1>15 DEF SendBuffer
<1>16. CASE CloseDownload(k) \/ CloseUpload(k)
  BY <1>2, <1>16 DEF CloseDownload, CloseUpload
<1>17. CASE TakeBuffer(k)
  BY <1>2, <1>5, <1>17 DEF TakeBuffer
<1>18. CASE EndSession(k)
  BY <1>2, <1>18 DEF EndSession
<1>19. CASE Flush(k)
  BY <1>2, <1>19 DEF Flush
<1> QED BY <1>6, <1>7, <1>8, <1>9, <1>10, <1>11, <1>12, <1>13, <1>14, <1>15, <1>16, <1>17, <1>18,
           <1>19 DEF ServerStep

LEMMA ConvInit ==
  Init => ConvInv
<1> SUFFICES ASSUME Init PROVE ConvInv
  OBVIOUS
<1>1. TypeOK /\ Buffered
  BY TypeInit DEF Init, Buffered, NoHandler
<1>2. ASSUME NEW k \in Sessions PROVE InConversation(k)
  <2>1. /\ toServer[k] = <<>> /\ toClient[k] = <<>> /\ client[k].at = "idle"
        /\ handler[k].doing = "none" /\ Len(toServer[k]) = 0
    BY DEF Init, NoTransfer, NoHandler
  <2>2. Rests(k) /\ Paced(k)
    BY <2>1 DEF Rests, Paced, NoneAsked, Silent, Wanted
  <2> QED BY <2>1, <2>2 DEF InConversation
<1> QED BY <1>1, <1>2 DEF ConvInv, TypeInv, Conversations

LEMMA ConvStep ==
  ConvInv /\ [Next]_vars => ConvInv'
<1> SUFFICES ASSUME ConvInv, [Next]_vars PROVE ConvInv'
  OBVIOUS
<1>1. TypeInv'
  BY ConvReads, TypeStep DEF ConvInv
<1>2. CASE UNCHANGED vars
  <2>1. ASSUME NEW j \in Sessions PROVE InConversation(j)'
    <3>1. Same(j) /\ InConversation(j)
      BY <1>2, Cases DEF vars, Same
    <3> QED BY <3>1, SameKeepsConversation
  <2> QED BY <1>1, <2>1 DEF ConvInv, Conversations
<1>3. ASSUME NEW k \in Sessions,
             \/ StartDownload(k) \/ StartUpload(k) \/ ReadReply(k) \/ Download(k) \/ Upload(k)
             \/ Finish(k) \/ Interrupt(k) \/ Tear(k) \/ Exit(k) \/ ServerStep(k) \/ Flush(k)
      PROVE  ConvInv'
  <2>1. InConversation(k)'
    BY <1>1, <1>3, StartKeepsConversation, ReadReplyKeepsConversation, LoadKeepsConversation,
       FinishKeepsConversation, InterruptKeepsConversation, TearKeepsConversation,
       ExitKeepsConversation, RefuseKeepsConversation, OpenDownloadKeepsConversation,
       OpenUploadKeepsConversation, SendBufferKeepsConversation, CloseDownloadKeepsConversation,
       TakeBufferKeepsConversation, CloseUploadKeepsConversation, EndSessionKeepsConversation,
       FlushKeepsConversation DEF ServerStep
  <2>2. ASSUME NEW j \in Sessions \ {k} PROVE InConversation(j)'
    <3>1. TypeOK /\ InConversation(j)
      BY Cases
    <3>2. Same(j)
      BY <1>3, <3>1, OthersSame
    <3> QED BY <3>1, <3>2, SameKeepsConversation
  <2> QED BY <1>1, <2>1, <2>2 DEF ConvInv, Conversations
<1> QED BY <1>2, <1>3 DEF Next

LEMMA ConvAlways == Spec => []ConvInv
BY ConvInit, ConvStep, PTL DEF Spec

\* The state has its types: in particular what a client keeps of a buffer is bytes of it.
THEOREM Types == Spec => []TypeOK
<1>1. ConvInv => TypeOK
  BY DEF ConvInv, TypeInv
<1> QED BY <1>1, ConvAlways, PTL

\* However the file changes while it is read, and whatever the sizes, the buffer that
\* downloadNextBuffer has read is never shorter than what it writes of it.
THEOREM ReadsWithin == Spec => []ReadsWithinBuffer
BY ConvReads, ConvAlways, PTL

\* Without Ctrl-C both sides agree on where a transfer ends, for any size, any length of
\* the buffers (a multiple or not) and any number of sessions on the file: neither takes
\* file data for a request or a response, nor the other way round.
THEOREM StaysAligned == Spec => []Aligned
BY ConvAligned, ConvAlways, PTL

-----------------------------------------------------------------------------
(* What a download brings.                                                 *)

\* The first n bytes are those of the file.
PrefixCopied(bytes, n, file) ==
  Len(bytes) = n /\ n <= Len(file) /\ \A y \in 1..n : bytes[y] = file[y]

\* The handler reads the file it has opened from where its next buffer begins.
ReadsOn(k) ==
  LET h == handler[k] IN
  /\ disk = snap[k] /\ h.size = Len(snap[k]) /\ h.count = Count(h.size, h.buffer)
  /\ h.idx < h.count => h.pos = h.idx * h.buffer /\ ~h.eof

\* From the frame "from" on the client's input is the file from its buffer i on.
Carries(k, from, i, size, count) ==
  LET b == ClientBuffer[k] IN
  /\ size = Len(snap[k])
  /\ \A x \in from..Len(toClient[k]) :
       \A y \in 1..ClientLength(i + x - from, count, size, b) :
         toClient[k][x].bytes[y] = snap[k][(i + x - from) * b + y]

Brings(k) ==
  LET c == client[k]
      r == toClient[k][1]
  IN
  ~disturbed[k] =>
    /\ handler[k].doing = "download" => ReadsOn(k)
    /\ c.at = "asked" /\ c.op = "download" /\ toClient[k] # <<>> /\ r.ok
         => Carries(k, 2, 0, r.size, r.count)
    /\ c.at = "loading" /\ c.op = "download" =>
         /\ Carries(k, 1, c.idx, c.size, c.count)
         /\ PrefixCopied(c.out, Lesser(c.idx * ClientBuffer[k], c.size), snap[k])
    /\ c.result = "downloaded" => c.out = snap[k]

DataInv == ConvInv /\ \A k \in Sessions : Brings(k)

\* Where buffer i lies in a file of n bytes.
LEMMA Places ==
  ASSUME NEW n \in Nat, NEW b \in Nat \ {0}, NEW i \in Nat, i < Count(n, b)
  PROVE  LET m == ClientLength(i, Count(n, b), n, b) IN
         /\ m \in Nat /\ i * b \in Nat /\ i * b + m <= n
         /\ Lesser(i * b, n) = i * b /\ Lesser((i + 1) * b, n) = i * b + m
         /\ i + 1 < Count(n, b) => m = b /\ ServerLength(i, Count(n, b), n, b) = b /\ (i + 1) * b <= n
<1> PICK c : c = Count(n, b)
  OBVIOUS
<1>1. c \in Nat /\ c >= 1 /\ n % b \in Nat /\ n % b < b /\ n = b * (c - 1) + (n % b)
  BY CountIsDiv
<1> PICK r : r = n % b
  OBVIOUS
<1>2. i * b \in Nat /\ (i + 1) * b = i * b + b /\ (i + 1) * b \in Nat
  OBVIOUS
<1>3. CASE i = c - 1
  <2>1. b * (c - 1) = i * b
    BY <1>1, <1>3
  <2>2. n = i * b + r /\ r \in Nat /\ r < b
    BY <1>1, <2>1
  <2>3. ClientLength(i, c, n, b) = r
    BY <1>3 DEF ClientLength
  <2> DEFINE p == i * b
  <2>4. p \in Nat /\ n = p + r /\ (i + 1) * b = p + b
    BY <1>2, <2>2
  <2> HIDE DEF p
  <2>5. p + r <= n /\ Lesser(p, n) = p /\ Lesser(p + b, n) = p + r
    BY <2>2, <2>4 DEF Lesser
  <2> QED BY <1>1, <1>2, <1>3, <2>2, <2>3, <2>4, <2>5 DEF p
<1>4. CASE i # c - 1
  <2>1. i + 1 <= c - 1
    BY <1>1, <1>4
  <2>2. (i + 1) * b <= b * (c - 1)
    <3>1. PICK d \in Nat : c - 1 = (i + 1) + d
      <4>1. (c - 1) - (i + 1) \in Nat /\ c - 1 = (i + 1) + ((c - 1) - (i + 1))
        BY <1>1, <2>1
      <4> QED BY <4>1
    <3>2. b * ((i + 1) + d) = (i + 1) * b + b * d /\ b * d \in Nat
      OBVIOUS
    <3> QED BY <1>2, <3>1, <3>2
  <2>3. ClientLength(i, c, n, b) = b /\ ServerLength(i, c, n, b) = b
    BY <1>4 DEF ClientLength, ServerLength
  <2> DEFINE p == i * b
             w == b * (c - 1)
  <2>4. p \in Nat /\ w \in Nat /\ n = w + r /\ r \in Nat /\ p + b <= w /\ (i + 1) * b = p + b
    BY <1>1, <1>2, <2>2
  <2> HIDE DEF p, w
  <2>5. p + b <= n /\ Lesser(p, n) = p /\ Lesser(p + b, n) = p + b
    BY <2>4 DEF Lesser
  <2> QED BY <1>2, <2>3, <2>4, <2>5 DEF p
<1> QED BY <1>3, <1>4

\* All the buffers are the whole file.
LEMMA AllPlaces ==
  ASSUME NEW n \in Nat, NEW b \in Nat \ {0}
  PROVE  Lesser(Count(n, b) * b, n) = n
<1> PICK c : c = Count(n, b)
  OBVIOUS
<1>1. c \in Nat /\ c >= 1 /\ n % b \in Nat /\ n % b < b /\ n = b * (c - 1) + (n % b)
  BY CountIsDiv
<1>2. c * b = b * (c - 1) + b /\ b * (c - 1) \in Nat
  BY <1>1
<1>3. n < c * b
  BY <1>1, <1>2
<1> QED BY <1>1, <1>2, <1>3 DEF Lesser

LEMMA CarriesKept ==
  ASSUME NEW k \in Sessions, NEW from, NEW i, NEW size, NEW count, Carries(k, from, i, size, count),
         snap'[k] = snap[k], toClient'[k] = toClient[k]
  PROVE  Carries(k, from, i, size, count)'
BY DEF Carries

\* Nothing the client sees has changed.
LEMMA BringsKept ==
  ASSUME NEW k \in Sessions, Brings(k), toClient'[k] = toClient[k], client'[k] = client[k],
         snap'[k] = snap[k], ~disturbed'[k] => ~disturbed[k],
         ~disturbed'[k] /\ handler'[k].doing = "download" => ReadsOn(k)'
  PROVE  Brings(k)'
<1> SUFFICES ASSUME ~disturbed'[k] PROVE Brings(k)'
  BY DEF Brings
<1> PICK c, r : c = client[k] /\ r = toClient[k][1]
  OBVIOUS
<1>1. client'[k] = c /\ toClient'[k][1] = r
  OBVIOUS
<1>2. ASSUME NEW from, NEW i, NEW size, NEW count, Carries(k, from, i, size, count)
      PROVE  Carries(k, from, i, size, count)'
  BY <1>2, CarriesKept
<1>3. c.at = "asked" /\ c.op = "download" /\ toClient[k] # <<>> /\ r.ok
        => Carries(k, 2, 0, toClient[k][1].size, toClient[k][1].count)'
  <2> SUFFICES ASSUME c.at = "asked", c.op = "download", toClient[k] # <<>>, r.ok
               PROVE  Carries(k, 2, 0, toClient[k][1].size, toClient[k][1].count)'
    OBVIOUS
  <2>1. Carries(k, 2, 0, r.size, r.count)
    BY DEF Brings
  <2>2. Carries(k, 2, 0, r.size, r.count)'
    BY <1>2, <2>1
  <2> QED BY <1>1, <2>2
<1>4. c.at = "loading" /\ c.op = "download" =>
        /\ Carries(k, 1, client[k].idx, client[k].size, client[k].count)'
        /\ PrefixCopied(c.out, Lesser(c.idx * ClientBuffer[k], c.size), snap'[k])
  <2> SUFFICES ASSUME c.at = "loading", c.op = "download"
               PROVE  /\ Carries(k, 1, client[k].idx, client[k].size, client[k].count)'
                      /\ PrefixCopied(c.out, Lesser(c.idx * ClientBuffer[k], c.size), snap'[k])
    OBVIOUS
  <2>1. /\ Carries(k, 1, c.idx, c.size, c.count)
        /\ PrefixCopied(c.out, Lesser(c.idx * ClientBuffer[k], c.size), snap[k])
    BY DEF Brings
  <2>2. Carries(k, 1, c.idx, c.size, c.count)'
    BY <1>2, <2>1
  <2> QED BY <1>1, <2>1, <2>2
<1>5. c.result = "downloaded" => c.out = snap'[k]
  BY DEF Brings
<1> QED BY <1>1, <1>3, <1>4, <1>5 DEF Brings

LEMMA ReadsOnKept ==
  ASSUME NEW k \in Sessions, Brings(k), UNCHANGED <<disk, handler, disturbed, snap>>
  PROVE  ~disturbed'[k] /\ handler'[k].doing = "download" => ReadsOn(k)'
BY DEF Brings, ReadsOn

\* The steps that leave no more than a result behind.
LEMMA RestingBrings ==
  ASSUME NEW k \in Sessions, Brings(k), UNCHANGED <<disk, handler, disturbed, snap>>,
         client'[k].at = "asked" /\ client'[k].op = "download" => toClient'[k] = <<>>,
         ~(client'[k].at = "loading" /\ client'[k].op = "download"),
         client'[k].result = "downloaded" =>
           client[k].result = "downloaded" /\ client'[k].out = client[k].out
  PROVE  Brings(k)'
<1>1. ~disturbed'[k] /\ handler'[k].doing = "download" => ReadsOn(k)'
  BY ReadsOnKept
<1>2. ~disturbed'[k] /\ client'[k].result = "downloaded" => client'[k].out = snap'[k]
  BY DEF Brings
<1> QED BY <1>1, <1>2 DEF Brings

LEMMA ClientRestsBrings ==
  ASSUME ConvInv, NEW k \in Sessions, Brings(k),
         \/ StartDownload(k) \/ StartUpload(k) \/ Upload(k) \/ Interrupt(k) \/ Tear(k) \/ Exit(k)
  PROVE  Brings(k)'
<1>1. TypeOK /\ InConversation(k) /\ client[k] \in Transfers
  BY Cases DEF TypeOK
<1>2. UNCHANGED <<disk, handler, disturbed, snap>>
  BY DEF StartDownload, StartUpload, Upload, Interrupt, Tear, Exit
<1>3. CASE StartDownload(k)
  <2>1. client'[k] = [NoTransfer EXCEPT !.at = "asked"]
    BY <1>1, <1>3, Turned DEF StartDownload
  <2>2. client'[k].at = "asked" /\ client'[k].result = "none"
    BY <2>1 DEF NoTransfer
  <2>3. toClient'[k] = <<>>
    BY <1>1, <1>3 DEF StartDownload, InConversation, Rests
  <2> QED BY <1>2, <2>2, <2>3, RestingBrings
<1>4. CASE StartUpload(k)
  <2>1. PICK n \in Sizes : Turns(k, [NoTransfer EXCEPT !.at = "asked", !.op = "upload", !.size = n,
                                                       !.count = Count(n, ClientBuffer[k])])
    BY <1>4 DEF StartUpload
  <2>2. client'[k] = [NoTransfer EXCEPT !.at = "asked", !.op = "upload", !.size = n,
                                        !.count = Count(n, ClientBuffer[k])]
    BY <1>1, <2>1, Turned
  <2>3. client'[k].at = "asked" /\ client'[k].op = "upload" /\ client'[k].result = "none"
    BY <2>2 DEF NoTransfer
  <2> QED BY <1>2, <2>3, RestingBrings
<1>5. CASE Upload(k)
  <2>1. client'[k] = [client[k] EXCEPT !.idx = @ + 1]
    BY <1>1, <1>5, Turned DEF Upload
  <2>2. client'[k].op = "upload" /\ client'[k].result = "none"
    BY <1>1, <1>5, <2>1 DEF Transfers, Upload, InConversation
  <2> QED BY <1>2, <2>2, RestingBrings
<1>6. CASE Interrupt(k)
  <2>1. toClient'[k] = toClient[k] /\ client'[k] = client[k]
    BY <1>6 DEF Interrupt
  <2> QED BY <1>2, <2>1, ReadsOnKept, BringsKept
<1>7. CASE Tear(k)
  <2>1. client'[k] = [client[k] EXCEPT !.at = "torn"]
    BY <1>1, <1>7, Turned DEF Tear
  <2>2. client'[k].at = "torn" /\ client'[k].result = "none"
    BY <1>1, <1>7, <2>1 DEF Transfers, Tear, InConversation
  <2> QED BY <1>2, <2>2, RestingBrings
<1>8. CASE Exit(k)
  <2>1. client'[k] = [client[k] EXCEPT !.at = "gone"]
    BY <1>1, <1>8, Turned DEF Exit
  <2>2. /\ client'[k].at = "gone" /\ client'[k].result = client[k].result
        /\ client'[k].out = client[k].out
    BY <1>1, <2>1 DEF Transfers
  <2> QED BY <1>2, <2>2, RestingBrings
<1> QED BY <1>3, <1>4, <1>5, <1>6, <1>7, <1>8

\* The buffers that are left once the first frame is taken.
LEMMA CarriesOn ==
  ASSUME TypeOK, NEW k \in Sessions, NEW i \in Nat, NEW j \in Nat, NEW from \in {1, 2},
         NEW size, NEW count, Carries(k, from, i, size, count), i + 2 = j + from,
         snap'[k] = snap[k], toClient[k] # <<>>, Shrunk(toClient'[k], toClient[k])
  PROVE  Carries(k, 1, j, size, count)'
<1> DEFINE n == Len(toClient[k])
<1>1. n \in Nat /\ n > 0 /\ Len(toClient'[k]) = n - 1
  BY QueuesAre DEF Shrunk
<1> PICK b, s : b = ClientBuffer[k] /\ s = snap[k]
  OBVIOUS
<1>2. ASSUME NEW x \in 1..Len(toClient'[k]), NEW y \in 1..ClientLength(j + x - 1, count, size, b)
      PROVE  toClient'[k][x].bytes[y] = s[(j + x - 1) * b + y]
  <2>1. toClient'[k][x] = toClient[k][x + 1]
    BY DEF Shrunk
  <2>2. x + 1 \in from..n /\ i + (x + 1) - from = j + x - 1
    <3>1. PICK m : m = Len(toClient[k])
      OBVIOUS
    <3>2. m \in Nat /\ x \in 1..m - 1
      BY <1>1, <3>1
    <3>3. x + 1 \in from..m /\ i + (x + 1) - from = j + x - 1
      <4>1. CASE from = 1
        BY <3>2, <4>1
      <4>2. CASE from = 2
        BY <3>2, <4>2
      <4> QED BY <4>1, <4>2
    <3> QED BY <3>1, <3>3
  <2> PICK z : z = j + x - 1
    OBVIOUS
  <2>3. y \in 1..ClientLength(i + (x + 1) - from, count, size, b)
    BY <2>2
  <2>4. toClient[k][x + 1].bytes[y] = s[(i + (x + 1) - from) * b + y]
    BY <2>2, <2>3 DEF Carries
  <2> QED BY <2>1, <2>2, <2>4
<1>3. size = Len(snap'[k])
  BY DEF Carries
<1> QED BY <1>2, <1>3 DEF Carries

LEMMA ReadReplyBrings ==
  ASSUME ConvInv, NEW k \in Sessions, Brings(k), ReadReply(k)
  PROVE  Brings(k)'
<1> PICK c, r : c = client[k] /\ r = toClient[k][1]
  OBVIOUS
<1>1. /\ TypeOK /\ InConversation(k) /\ c \in Transfers /\ toClient[k] # <<>> /\ r = Head(toClient[k])
      /\ UNCHANGED <<disk, handler, disturbed, snap>> /\ c.at = "asked"
      /\ c.idx = 0 /\ c.result = "none" /\ (c.op = "download" => c.out = <<>>)
      /\ Shrunk(toClient'[k], toClient[k]) /\ ClientBuffer[k] \in Nat \ {0}
  <2>1. TypeOK /\ InConversation(k) /\ c \in Transfers /\ ClientBuffer[k] \in Nat \ {0}
    BY Cases DEF TypeOK
  <2>2. toClient[k] # <<>> /\ UNCHANGED <<disk, handler, disturbed, snap>> /\ c.at = "asked"
    BY DEF ReadReply, ToClientSees
  <2>3. r = Head(toClient[k]) /\ Shrunk(toClient'[k], toClient[k])
    BY <2>1, <2>2, QueuesAre, ClientTook DEF ReadReply
  <2> QED BY <2>1, <2>2, <2>3 DEF InConversation
<1>2. CASE ~(r.ok /\ c.op = "download")
  <2>1. \/ client'[k] = [c EXCEPT !.at = "idle", !.result = "failed"]
        \/ c.op = "upload" /\ client'[k] = [c EXCEPT !.at = "loading"]
    BY <1>1, <1>2, Turned DEF ReadReply
  <2>2. /\ client'[k].result # "downloaded"
        /\ client'[k].at = "idle" \/ (client'[k].at = "loading" /\ client'[k].op = "upload")
    BY <1>1, <2>1 DEF Transfers
  <2> QED BY <1>1, <2>2, RestingBrings
<1>3. CASE r.ok /\ c.op = "download"
  <2>1. client'[k] = [c EXCEPT !.at = "loading", !.size = r.size, !.count = r.count]
    BY <1>1, <1>3, Turned DEF ReadReply
  <2>2. /\ client'[k].at = "loading" /\ client'[k].op = "download" /\ client'[k].idx = 0
        /\ client'[k].result = "none" /\ client'[k].count = r.count /\ client'[k].size = r.size
        /\ client'[k].out = <<>>
    BY <1>1, <1>3, <2>1 DEF Transfers
  <2> SUFFICES ASSUME ~disturbed'[k] PROVE Brings(k)'
    BY DEF Brings
  <2>3. Carries(k, 2, 0, r.size, r.count)
    BY <1>1, <1>3 DEF Brings
  <2> PICK size, count : size = r.size /\ count = r.count
    OBVIOUS
  <2>4. Carries(k, 1, 0, size, count)'
    BY <1>1, <2>3, CarriesOn
  <2>5. Carries(k, 1, client[k].idx, client[k].size, client[k].count)'
    BY <2>2, <2>4
  <2>6. size \in Nat /\ size = Len(snap'[k])
    <3>1. size = Len(snap[k]) /\ snap[k] \in Seq(Byte)
      BY <1>1, <2>3 DEF Carries, TypeOK
    <3> QED BY <1>1, <3>1
  <2>7. Lesser(0 * ClientBuffer[k], size) = 0
    <3>1. 0 * ClientBuffer[k] = 0
      BY <1>1
    <3> QED BY <2>6, <3>1 DEF Lesser
  <2>8. PrefixCopied(<<>>, 0, snap'[k])
    BY <2>6 DEF PrefixCopied
  <2>9. PrefixCopied(client'[k].out, Lesser(client'[k].idx * ClientBuffer[k], client'[k].size), snap'[k])
    BY <2>2, <2>7, <2>8
  <2>10. ~disturbed'[k] /\ handler'[k].doing = "download" => ReadsOn(k)'
    BY <1>1, ReadsOnKept
  <2> QED BY <2>2, <2>5, <2>9, <2>10 DEF Brings
<1> QED BY <1>2, <1>3

LEMMA CopyMore ==
  ASSUME NEW out \in Seq(Byte), NEW bytes \in Seq(Byte), NEW file \in Seq(Byte), NEW p \in Nat,
         NEW m \in Nat, PrefixCopied(out, p, file), m <= Len(bytes), p + m <= Len(file),
         \A y \in 1..m : bytes[y] = file[p + y]
  PROVE  PrefixCopied(out \o SubSeq(bytes, 1, m), p + m, file)
<1> PICK more : more = SubSeq(bytes, 1, m)
  OBVIOUS
<1>1. more \in Seq(Byte) /\ Len(more) = m /\ \A y \in 1..m : more[y] = bytes[y]
  BY SubSeqProperties
<1> PICK whole : whole = out \o more
  OBVIOUS
<1>2. Len(out) = p /\ \A y \in 1..p : out[y] = file[y]
  BY DEF PrefixCopied
<1>3. /\ Len(whole) = p + m
      /\ \A y \in 1..p + m : whole[y] = IF y <= p THEN out[y] ELSE more[y - p]
  <2>1. /\ Len(out \o more) = Len(out) + Len(more)
        /\ \A y \in 1..Len(out) + Len(more) :
             (out \o more)[y] = IF y <= Len(out) THEN out[y] ELSE more[y - Len(out)]
    BY <1>1, ConcatProperties
  <2>2. Len(out) = p /\ Len(more) = m
    BY <1>1, <1>2
  <2> QED BY <2>1, <2>2
<1>4. ASSUME NEW y \in 1..p + m PROVE whole[y] = file[y]
  <2>1. CASE y <= p
    BY <1>2, <1>3, <2>1
  <2>2. CASE ~(y <= p)
    <3>1. y - p \in 1..m /\ p + (y - p) = y
      BY <2>2
    <3>2. whole[y] = more[y - p] /\ more[y - p] = bytes[y - p]
      BY <1>1, <1>3, <2>2, <3>1
    <3>3. bytes[y - p] = file[p + (y - p)]
      BY <3>1
    <3> QED BY <3>1, <3>2, <3>3
  <2> QED BY <2>1, <2>2
<1> QED BY <1>3, <1>4 DEF PrefixCopied

LEMMA WholeCopied ==
  ASSUME NEW out \in Seq(Byte), NEW file \in Seq(Byte), PrefixCopied(out, Len(file), file)
  PROVE  out = file
BY DEF PrefixCopied

LEMMA DownloadBrings ==
  ASSUME ConvInv, NEW k \in Sessions, Brings(k), Download(k)
  PROVE  Brings(k)'
<1>1. PICK c, i, size, count, b, s, bytes :
        /\ c = client[k] /\ i = c.idx /\ size = c.size /\ count = c.count /\ b = ClientBuffer[k]
        /\ s = snap[k] /\ bytes = toClient[k][1].bytes
  OBVIOUS
<1>2. PICK m, p : m = ClientLength(i, count, size, b) /\ p = i * b
  OBVIOUS
<1>3. i \in Nat /\ size \in Nat /\ c.out \in Seq(Byte) /\ b \in Nat \ {0} /\ s \in Seq(Byte)
  BY <1>1, Cases DEF TypeOK
<1>4. /\ TypeOK /\ c \in Transfers /\ InConversation(k)
      /\ UNCHANGED <<disk, handler, disturbed, snap>> /\ c.at = "loading" /\ c.op = "download"
  BY <1>1, Cases DEF TypeOK, Download
<1>5. c.result = "none" /\ Streams(k, 1, i, size, count) /\ Length(k) = m
  BY <1>1, <1>2, <1>4 DEF InConversation, Length
<1>6. /\ toClient[k] # <<>> /\ Head(toClient[k]) = toClient[k][1] /\ 1 \in 1..Len(toClient[k])
      /\ Len(toClient[k]) \in Nat /\ Shrunk(toClient'[k], toClient[k]) /\ bytes \in Seq(Byte)
  <2>1. toClient[k] # <<>> /\ Head(toClient[k]).kind = "chunk"
    BY DEF Download, ToClientSees
  <2>2. Len(toClient[k]) \in Nat /\ Len(toClient[k]) # 0 /\ Head(toClient[k]) = toClient[k][1]
    BY <1>4, <2>1, QueuesAre
  <2>3. toClient[k][1] \in ToClientFrames
    BY <1>4, <2>2, QueuesAre
  <2> QED BY <1>1, <1>4, <2>1, <2>2, <2>3, FrameFields, ClientTook DEF Download
<1>7. count = Count(size, b) /\ count \in Nat
  <2>1. count = Count(size, b)
    BY <1>1, <1>5 DEF Streams
  <2> QED BY <1>3, <2>1, CountIsDiv
<1>8. i < count /\ Len(bytes) = ServerLength(i, count, size, b)
  <2>1. PICK n : n = Len(toClient[k])
    OBVIOUS
  <2>2. i + n + 1 - 1 <= count /\ n \in Nat /\ n > 0
    BY <1>5, <1>6, <2>1 DEF Streams
  <2>3. i < count
    BY <1>3, <1>7, <2>2
  <2>4. i + 1 - 1 = i
    BY <1>3
  <2>5. Len(bytes) = ServerLength(i + 1 - 1, count, size, b)
    BY <1>1, <1>5, <1>6 DEF Streams
  <2> QED BY <2>3, <2>4, <2>5
<1>9. /\ m \in Nat /\ p \in Nat /\ p + m <= size /\ m <= Len(bytes)
      /\ Lesser(p, size) = p /\ Lesser((i + 1) * b, size) = p + m
  <2>1. m <= Len(bytes)
    BY <1>2, <1>3, <1>7, <1>8, LengthsAgree
  <2>2. /\ ClientLength(i, Count(size, b), size, b) \in Nat /\ i * b \in Nat
        /\ i * b + ClientLength(i, Count(size, b), size, b) <= size
        /\ Lesser(i * b, size) = i * b
        /\ Lesser((i + 1) * b, size) = i * b + ClientLength(i, Count(size, b), size, b)
    BY <1>3, <1>7, <1>8, Places
  <2> QED BY <1>2, <1>7, <2>1, <2>2
<1>10. PICK more, out : more = SubSeq(bytes, 1, m) /\ out = c.out \o more
  OBVIOUS
<1>11. client'[k] = [c EXCEPT !.idx = @ + 1, !.out = @ \o more]
  BY <1>1, <1>4, <1>5, <1>6, <1>10, Turned DEF Download
<1>12. /\ client'[k].at = "loading" /\ client'[k].op = "download" /\ client'[k].idx = i + 1
       /\ client'[k].result = "none" /\ client'[k].count = count /\ client'[k].size = size
       /\ client'[k].out = out
  BY <1>1, <1>4, <1>5, <1>10, <1>11 DEF Transfers
<1> SUFFICES ASSUME ~disturbed'[k] PROVE Brings(k)'
  BY DEF Brings
<1>13. Carries(k, 1, i, size, count) /\ PrefixCopied(c.out, p, s)
  <2>1. PrefixCopied(c.out, Lesser(p, size), s) /\ Carries(k, 1, i, size, count)
    BY <1>1, <1>2, <1>4 DEF Brings
  <2> QED BY <1>9, <2>1
<1>14. Carries(k, 1, client[k].idx, client[k].size, client[k].count)'
  <2>1. PICK j : j = i + 1
    OBVIOUS
  <2>2. j \in Nat /\ i + 2 = j + 1
    BY <1>3, <2>1
  <2>3. Carries(k, 1, j, size, count)'
    BY <1>3, <1>4, <1>6, <1>13, <2>2, CarriesOn
  <2> QED BY <1>12, <2>1, <2>3
<1>15. PrefixCopied(out, p + m, s)
  <2>1. size = Len(s)
    BY <1>1, <1>13 DEF Carries
  <2>2. \A y \in 1..m : bytes[y] = s[p + y]
    <3>1. i + 1 - 1 = i
      BY <1>3
    <3>2. \A y \in 1..ClientLength(i + 1 - 1, count, size, b) : bytes[y] = s[(i + 1 - 1) * b + y]
      BY <1>1, <1>6, <1>13 DEF Carries
    <3> QED BY <1>2, <3>1, <3>2
  <2> QED BY <1>3, <1>6, <1>9, <1>10, <1>13, <2>1, <2>2, CopyMore
<1>16. PrefixCopied(client'[k].out, Lesser(client'[k].idx * ClientBuffer[k], client'[k].size), snap'[k])
  BY <1>1, <1>4, <1>9, <1>12, <1>15
<1>17. ~disturbed'[k] /\ handler'[k].doing = "download" => ReadsOn(k)'
  BY <1>4, ReadsOnKept
<1> QED BY <1>12, <1>14, <1>16, <1>17 DEF Brings

LEMMA FinishBrings ==
  ASSUME ConvInv, NEW k \in Sessions, Brings(k), Finish(k)
  PROVE  Brings(k)'
<1> PICK c, b, s : c = client[k] /\ b = ClientBuffer[k] /\ s = snap[k]
  OBVIOUS
<1>1. /\ TypeOK /\ InConversation(k) /\ c \in Transfers /\ c.op \in {"upload", "download"}
      /\ c.idx \in Nat /\ c.count \in Nat /\ c.size \in Nat /\ c.out \in Seq(Byte)
      /\ b \in Nat \ {0} /\ s \in Seq(Byte)
  BY Cases DEF TypeOK
<1>2. UNCHANGED <<disk, handler, disturbed, snap, toClient>> /\ c.at = "loading" /\ c.idx >= c.count
  BY <1>1 DEF Finish, Available
<1>3. client'[k] = [c EXCEPT !.at = "idle",
                             !.result = IF c.op = "upload" THEN "uploaded" ELSE "downloaded"]
  <2>1. PICK d : d = [c EXCEPT !.at = "idle",
                               !.result = IF c.op = "upload" THEN "uploaded" ELSE "downloaded"]
    OBVIOUS
  <2>2. Turns(k, d)
    BY <2>1 DEF Finish
  <2> QED BY <1>1, <2>1, <2>2, Turned
<1>4. client'[k].at = "idle" /\ client'[k].out = c.out
  BY <1>1, <1>3 DEF Transfers
<1>5. CASE c.op = "upload"
  <2>1. client'[k].result = "uploaded"
    BY <1>1, <1>3, <1>5 DEF Transfers
  <2> QED BY <1>2, <1>4, <2>1, RestingBrings
<1>6. CASE c.op = "download"
  <2> SUFFICES ASSUME ~disturbed'[k] PROVE Brings(k)'
    BY DEF Brings
  <2>1. Carries(k, 1, c.idx, c.size, c.count) /\ PrefixCopied(c.out, Lesser(c.idx * b, c.size), s)
    BY <1>1, <1>2, <1>6 DEF Brings
  <2>2. Streams(k, 1, c.idx, c.size, c.count)
    BY <1>1, <1>2, <1>6 DEF InConversation
  <2>3. c.count = Count(c.size, b) /\ c.idx = c.count
    <3> DEFINE n == Len(toClient[k])
    <3>1. c.idx + n + 1 - 1 <= c.count /\ n \in Nat /\ c.count = Count(c.size, b)
      BY <1>1, <2>2, QueuesAre DEF Streams
    <3> HIDE DEF n
    <3> QED BY <1>1, <1>2, <3>1
  <2>4. c.size = Len(s)
    BY <2>1 DEF Carries
  <2>5. Lesser(c.idx * b, c.size) = Len(s)
    BY <1>1, <2>3, <2>4, AllPlaces
  <2>6. c.out = s
    BY <1>1, <2>1, <2>5, WholeCopied
  <2>7. ~disturbed'[k] /\ handler'[k].doing = "download" => ReadsOn(k)'
    BY <1>2, ReadsOnKept
  <2> QED BY <1>2, <1>4, <2>6, <2>7 DEF Brings
<1> QED BY <1>1, <1>5, <1>6

\* The chunk brings buffer j of the file.
IsPart(k, f, j, count, size) ==
  \A y \in 1..ClientLength(j, count, size, ClientBuffer[k]) :
    f.bytes[y] = snap[k][j * ClientBuffer[k] + y]

\* Another buffer is on its way.
LEMMA CarriesSent ==
  ASSUME TypeOK, NEW k \in Sessions, NEW from \in {1, 2}, NEW i \in Nat, NEW size, NEW count, NEW f,
         NEW j, Carries(k, from, i, size, count), snap'[k] = snap[k],
         Grown(toClient'[k], toClient[k], f), j = i + Len(toClient[k]) + 1 - from,
         IsPart(k, f, j, count, size)
  PROVE  Carries(k, from, i, size, count)'
<1>1. PICK n, b, s : n = Len(toClient[k]) /\ b = ClientBuffer[k] /\ s = snap[k]
  OBVIOUS
<1>2. n \in Nat
  BY <1>1, QueuesAre
<1>3. Len(toClient'[k]) = n + 1 /\ toClient'[k][n + 1] = f /\ \A x \in 1..n : toClient'[k][x] = toClient[k][x]
  BY <1>1 DEF Grown
<1>4. ASSUME NEW x \in from..n + 1, NEW y \in 1..ClientLength(i + x - from, count, size, b)
      PROVE  toClient'[k][x].bytes[y] = s[(i + x - from) * b + y]
  <2>1. CASE x = n + 1
    <3>1. i + x - from = j
      <4>1. j = i + n + 1 - from
        BY <1>1
      <4>2. i \in Int /\ n \in Int /\ from \in Int
        BY <1>2
      <4> QED BY <2>1, <4>1, <4>2
    <3> QED BY <1>1, <1>3, <1>4, <2>1, <3>1 DEF IsPart
  <2>2. CASE x # n + 1
    <3>1. x \in from..n /\ x \in 1..n
      BY <1>2, <2>2
    <3>2. toClient[k][x].bytes[y] = s[(i + x - from) * b + y]
      BY <1>1, <1>4, <3>1 DEF Carries
    <3> QED BY <1>3, <3>1, <3>2
  <2> QED BY <2>1, <2>2
<1>5. size = Len(snap'[k])
  BY DEF Carries
<1> QED BY <1>1, <1>3, <1>4, <1>5 DEF Carries

\* The handler sends what the file has there.
LEMMA SentFromFile ==
  ASSUME ConvInv, NEW k \in Sessions, SendBuffer(k), ReadsOn(k), UNCHANGED snap
  PROVE  LET h == handler[k]
             n == ServerLength(h.idx, h.count, h.size, h.buffer)
         IN
         /\ \A y \in 1..ClientLength(h.idx, h.count, h.size, h.buffer) :
              Filled(h, n)[y] = snap[k][h.idx * h.buffer + y]
         /\ ReadsOn(k)'
<1>1. PICK h, i, count, size, b, s, n :
        /\ h = handler[k] /\ i = h.idx /\ count = h.count /\ size = h.size /\ b = h.buffer
        /\ s = snap[k] /\ n = ServerLength(i, count, size, b)
  OBVIOUS
<1>2. i \in Nat /\ size \in Nat /\ b \in Nat \ {0} /\ n \in Nat /\ s \in Seq(Byte) /\ h.pos \in Nat
  BY <1>1, Cases, HandlerFields DEF TypeOK
<1>3. h \in Handlers /\ TypeOK
  BY <1>1, Cases, HandlerFields
<1>4. /\ disk = s /\ disk' = s /\ size = Len(s) /\ count = Count(size, b) /\ i < count
      /\ h.pos = i * b /\ ~h.eof
  BY <1>1 DEF ReadsOn, SendBuffer, More
<1>5. PICK m, p : m = ClientLength(i, count, size, b) /\ p = i * b
  OBVIOUS
<1>6. /\ m \in Nat /\ p \in Nat /\ p + m <= size /\ m <= n
      /\ i + 1 < count => n = b /\ (i + 1) * b <= size
  <2>1. count \in Nat
    BY <1>2, <1>4, CountIsDiv
  <2>2. m <= n
    BY <1>1, <1>2, <1>5, <2>1, LengthsAgree
  <2>3. /\ ClientLength(i, Count(size, b), size, b) \in Nat /\ i * b \in Nat
        /\ i * b + ClientLength(i, Count(size, b), size, b) <= size
        /\ i + 1 < Count(size, b) => ServerLength(i, Count(size, b), size, b) = b /\ (i + 1) * b <= size
    BY <1>2, <1>4, Places
  <2> QED BY <1>1, <1>4, <1>5, <2>2, <2>3
<1>7. ASSUME NEW y \in 1..m PROVE Filled(h, n)[y] = s[p + y]
  <2>1. PICK here : here = IF h.eof THEN 0
                           ELSE Lesser(n, IF Len(disk) > h.pos THEN Len(disk) - h.pos ELSE 0)
    OBVIOUS
  <2>2. y <= here
    <3>1. here = Lesser(n, IF size > p THEN size - p ELSE 0)
      BY <1>4, <1>5, <2>1
    <3>2. y \in Nat /\ y <= m /\ y > 0
      BY <1>6
    <3> QED BY <1>2, <1>6, <3>1, <3>2 DEF Lesser
  <2>3. y \in 1..n
    BY <1>2, <1>6
  <2>4. Filled(h, n)[y] = IF y <= here THEN disk[h.pos + y] ELSE Nowhere
    BY <2>1, <2>3 DEF Filled
  <2> QED BY <1>4, <1>5, <2>2, <2>4
<1>8. handler'[k] = [h EXCEPT !.idx = @ + 1, !.pos = @ + n, !.eof = @ \/ Len(disk) < h.pos + n]
  BY <1>1, <1>3, Become DEF SendBuffer
<1>9. /\ handler'[k].idx = i + 1 /\ handler'[k].pos = p + n /\ (handler'[k].eof => size < p + n)
      /\ handler'[k].count = count /\ handler'[k].size = size /\ handler'[k].buffer = b
  <2>1. /\ handler'[k].idx = i + 1 /\ handler'[k].pos = h.pos + n
        /\ handler'[k].count = count /\ handler'[k].size = size /\ handler'[k].buffer = b
    BY <1>1, <1>3, <1>8 DEF Handlers
  <2>2. handler'[k].eof = (h.eof \/ Len(disk) < h.pos + n)
    BY <1>3, <1>8 DEF Handlers
  <2> QED BY <1>4, <1>5, <2>1, <2>2
<1>10. i + 1 < count => p + n = (i + 1) * b /\ ~(size < p + n)
  <2> SUFFICES ASSUME i + 1 < count PROVE p + n = (i + 1) * b /\ ~(size < p + n)
    OBVIOUS
  <2>1. PICK e : e = (i + 1) * b
    OBVIOUS
  <2>2. e = p + b /\ e \in Nat
    BY <1>2, <1>5, <2>1
  <2>3. n = b /\ e <= size
    BY <1>6, <2>1
  <2> QED BY <1>2, <1>6, <2>1, <2>2, <2>3
<1>11. ReadsOn(k)'
  BY <1>1, <1>4, <1>9, <1>10 DEF ReadsOn
<1> QED BY <1>1, <1>5, <1>7, <1>11

\* The steps after which nothing is read, and the client sees what it saw.
LEMMA ServerRestsBrings ==
  ASSUME ConvInv, NEW k \in Sessions, Brings(k),
         \/ CloseDownload(k) \/ TakeBuffer(k) \/ CloseUpload(k) \/ EndSession(k) \/ Flush(k)
  PROVE  Brings(k)'
<1>1. TypeOK /\ handler[k] \in Handlers
  BY Cases DEF TypeOK
<1>2. UNCHANGED <<toClient, client, snap>>
  BY DEF CloseDownload, TakeBuffer, CloseUpload, EndSession, Flush
<1>3. disturbed'[k] = disturbed[k]
  <2>1. CASE CloseDownload(k) \/ TakeBuffer(k) \/ EndSession(k)
    BY <2>1 DEF CloseDownload, TakeBuffer, EndSession
  <2>2. Disturbs(k) => disturbed'[k] = disturbed[k]
    BY <1>1 DEF Disturbs, TypeOK
  <2>3. CASE CloseUpload(k) \/ Flush(k)
    BY <2>2, <2>3 DEF CloseUpload, Flush
  <2> QED BY <2>1, <2>3
<1>4. handler'[k].doing # "download"
  <2>1. CASE CloseDownload(k) \/ CloseUpload(k)
    <3>1. handler'[k] = NoHandler
      BY <1>1, <2>1, Become DEF CloseDownload, CloseUpload
    <3> QED BY <3>1 DEF NoHandler
  <2>2. CASE EndSession(k)
    <3>1. handler'[k] = [NoHandler EXCEPT !.doing = "ended"]
      BY <1>1, <2>2, Become DEF EndSession
    <3> QED BY <3>1 DEF NoHandler
  <2>3. CASE Flush(k)
    <3>1. PICK p, b : Becomes(k, [handler[k] EXCEPT !.pos = p, !.buf = b])
      BY <2>3 DEF Flush
    <3>2. handler'[k] = [handler[k] EXCEPT !.pos = p, !.buf = b]
      BY <1>1, <3>1, Become
    <3> QED BY <1>1, <2>3, <3>2 DEF Handlers, Flush
  <2>4. CASE TakeBuffer(k)
    <3>1. PICK i, b, g : Becomes(k, [handler[k] EXCEPT !.idx = i, !.buf = b, !.good = g])
      BY <2>4 DEF TakeBuffer
    <3>2. handler'[k] = [handler[k] EXCEPT !.idx = i, !.buf = b, !.good = g]
      BY <1>1, <3>1, Become
    <3> QED BY <1>1, <2>4, <3>2 DEF Handlers, TakeBuffer
  <2> QED BY <2>1, <2>2, <2>3, <2>4
<1> QED BY <1>2, <1>3, <1>4, BringsKept

LEMMA SendBufferBrings ==
  ASSUME ConvInv, NEW k \in Sessions, Brings(k), SendBuffer(k)
  PROVE  Brings(k)'
<1>1. PICK c, h, n, f :
        /\ c = client[k] /\ h = handler[k] /\ n = ServerLength(h.idx, h.count, h.size, h.buffer)
        /\ f = Chunk(Filled(h, n))
  OBVIOUS
<1>2. /\ TypeOK /\ InConversation(k) /\ h.doing = "download" /\ h.idx < h.count
      /\ UNCHANGED <<client, snap, disturbed>> /\ c.idx \in Nat /\ c.op \in {"upload", "download"}
      /\ c.at \in {"idle", "asked", "loading", "torn", "gone"}
  BY <1>1, Cases DEF SendBuffer, More
<1>3. /\ Gone(k) => toClient'[k] = toClient[k]
      /\ ~Gone(k) => Grown(toClient'[k], toClient[k], f)
  BY <1>1, <1>2, ServerSent DEF SendBuffer
<1> SUFFICES ASSUME ~disturbed'[k] PROVE Brings(k)'
  BY DEF Brings
<1>4. ReadsOn(k)
  BY <1>1, <1>2 DEF Brings
<1>5. /\ \A y \in 1..ClientLength(h.idx, h.count, h.size, h.buffer) :
           f.bytes[y] = snap[k][h.idx * h.buffer + y]
      /\ ReadsOn(k)'
  <2>1. n = ServerLength(h.idx, h.count, h.size, h.buffer) /\ f = Chunk(Filled(h, n)) /\ h = handler[k]
    BY <1>1
  <2>2. f.bytes = Filled(h, n)
    BY <2>1, Kinds, Zenon
  <2> QED BY <1>2, <1>4, <2>1, <2>2, SentFromFile
<1>6. ASSUME NEW from \in {1, 2}, NEW i \in Nat, NEW size, NEW count,
             Streams(k, from, i, size, count), Carries(k, from, i, size, count), ~Gone(k)
      PROVE  Carries(k, from, i, size, count)'
  <2>1. /\ h.idx = i + Len(toClient[k]) + 1 - from /\ h.count = count /\ h.size = size
        /\ h.buffer = ClientBuffer[k]
    BY <1>1, <1>2, <1>6 DEF Streams
  <2>2. PICK j : j = h.idx
    OBVIOUS
  <2>3. IsPart(k, f, j, count, size)
    BY <1>5, <2>1, <2>2 DEF IsPart
  <2>4. snap'[k] = snap[k] /\ Grown(toClient'[k], toClient[k], f)
    BY <1>2, <1>3, <1>6
  <2>5. j = i + Len(toClient[k]) + 1 - from
    BY <2>1, <2>2
  <2> QED BY <1>2, <1>6, <2>3, <2>4, <2>5, CarriesSent
<1>7. client'[k] = c /\ snap'[k] = snap[k]
  BY <1>1, <1>2
<1>8. c.result = "downloaded" => c.out = snap'[k]
  <2>1. ~disturbed[k]
    BY <1>2
  <2>2. client[k].result = "downloaded" => client[k].out = snap[k]
    BY <2>1 DEF Brings
  <2> QED BY <1>1, <1>7, <2>2
<1>9. CASE c.at = "loading" /\ c.op = "download"
  <2>1. Streams(k, 1, c.idx, c.size, c.count) /\ Carries(k, 1, c.idx, c.size, c.count)
        /\ PrefixCopied(c.out, Lesser(c.idx * ClientBuffer[k], c.size), snap[k])
    BY <1>1, <1>2, <1>9 DEF InConversation, Brings
  <2>2. ~Gone(k)
    BY <1>1, <1>9 DEF Gone
  <2>3. PICK i, size, count : i = c.idx /\ size = c.size /\ count = c.count
    OBVIOUS
  <2>4. Carries(k, 1, i, size, count)'
    BY <1>2, <1>6, <2>1, <2>2, <2>3
  <2>5. Carries(k, 1, client[k].idx, client[k].size, client[k].count)'
    BY <1>7, <2>3, <2>4
  <2> QED BY <1>5, <1>7, <1>8, <1>9, <2>1, <2>5 DEF Brings
<1>10. CASE c.at = "asked" /\ c.op = "download"
  <2>1. Accepted(k)
    <3>1. Waiting(k) \/ Refused(k) \/ Accepted(k)
      BY <1>1, <1>2, <1>10 DEF InConversation
    <3>2. ~Refused(k)
      BY <1>1, <1>2 DEF Refused
    <3>3. ~Waiting(k)
      <4>1. h.idx \in Nat /\ h.count \in Nat
        BY <1>1, <1>2 DEF TypeOK, Handlers
      <4>2. h.idx # h.count
        BY <1>2, <4>1
      <4> QED BY <1>1, <1>2, <4>2 DEF Waiting, Silent
    <3> QED BY <3>1, <3>2, <3>3
  <2>2. ~Gone(k) /\ Len(toClient[k]) > 0 /\ Len(toClient[k]) \in Nat /\ toClient[k] # <<>>
    BY <1>1, <1>2, <1>10, <2>1, QueuesAre DEF Gone, Accepted
  <2>3. toClient'[k][1] = toClient[k][1]
    BY <1>3, <2>2 DEF Grown
  <2>4. PICK size, count : size = toClient[k][1].size /\ count = toClient[k][1].count
    OBVIOUS
  <2>5. Streams(k, 2, 0, size, count) /\ Carries(k, 2, 0, size, count)
    BY <1>1, <1>2, <1>10, <2>1, <2>2, <2>4 DEF Accepted, Brings
  <2>6. Carries(k, 2, 0, size, count)'
    BY <1>6, <2>2, <2>5
  <2>7. Carries(k, 2, 0, toClient[k][1].size, toClient[k][1].count)'
    BY <2>3, <2>4, <2>6
  <2> QED BY <1>5, <1>7, <1>8, <1>10, <2>7 DEF Brings
<1>11. CASE c.op # "download" \/ c.at \notin {"asked", "loading"}
  BY <1>5, <1>7, <1>8, <1>11 DEF Brings
<1> QED BY <1>2, <1>9, <1>10, <1>11

LEMMA AnswersBring ==
  ASSUME ConvInv, NEW k \in Sessions, Brings(k), Refuse(k) \/ OpenDownload(k) \/ OpenUpload(k)
  PROVE  Brings(k)'
<1>1. PICK c, f : c = client[k] /\ f = Head(toServer[k])
  OBVIOUS
<1>2. /\ TypeOK /\ InConversation(k) /\ client'[k] = c /\ handler[k].doing = "none"
      /\ f.kind \in {"get", "set"}
  BY <1>1, Cases DEF Refuse, OpenDownload, OpenUpload, ToServerSees
<1>3. /\ c.at \in {"asked", "torn", "gone"}
      /\ c.at = "asked" => /\ toClient[k] = <<>>
                           /\ IF c.op = "download" THEN f = Get(ClientBuffer[k])
                              ELSE f = Set(c.size, ClientBuffer[k])
      /\ c.at = "gone" => toClient[k] = <<>> /\ c.result # "downloaded"
  BY <1>1, RequestTaken DEF Refuse, OpenDownload, OpenUpload, ToServerSees
<1>4. c.result # "downloaded"
  BY <1>1, <1>2, <1>3 DEF InConversation
<1>5. CASE Refuse(k)
  <2>1. UNCHANGED <<disk, handler, disturbed, snap>>
    BY <1>5 DEF Refuse
  <2>2. c.at = "asked" => toClient'[k][1] = Refusal
    <3>1. ~Gone(k) => Grown(toClient'[k], toClient[k], Refusal)
      BY <1>2, <1>5, ServerSent DEF Refuse
    <3> QED BY <1>1, <1>3, <3>1, FirstGrown DEF Gone
  <2>3. ~disturbed'[k] /\ handler'[k].doing = "download" => ReadsOn(k)'
    BY <2>1, ReadsOnKept
  <2> QED BY <1>2, <1>3, <1>4, <2>2, <2>3, Kinds DEF Brings
<1>6. CASE OpenDownload(k)
  <2>1. PICK n, cnt : n = Len(disk) /\ cnt = Count(n, f.buffer)
    OBVIOUS
  <2>2. snap'[k] = disk /\ disk' = disk
    BY <1>2, <1>6 DEF OpenDownload, TypeOK
  <2>3. \/ handler'[k] = [NoHandler EXCEPT !.doing = "download", !.size = n, !.count = cnt,
                                           !.buffer = f.buffer]
        \/ UNCHANGED handler
    BY <1>1, <1>2, <1>6, <2>1, Become DEF OpenDownload
  <2>4. handler'[k].doing = "download" => ReadsOn(k)'
    <3> SUFFICES ASSUME handler'[k].doing = "download" PROVE ReadsOn(k)'
      OBVIOUS
    <3>1. /\ handler'[k].size = n /\ handler'[k].count = cnt /\ handler'[k].buffer = f.buffer
          /\ handler'[k].idx = 0 /\ handler'[k].pos = 0 /\ ~handler'[k].eof
      BY <1>2, <2>3 DEF NoHandler
    <3>2. 0 * f.buffer = 0
      <4>1. toServer[k] # <<>>
        BY <1>6 DEF OpenDownload, ToServerSees
      <4>2. f \in ToServerFrames
        BY <1>1, <1>2, <1>6, <4>1, ServerTakesType DEF OpenDownload
      <4>3. f.buffer \in Nat
        BY <1>2, <4>2, FrameFields
      <4> QED BY <4>3
    <3> QED BY <2>1, <2>2, <3>1, <3>2 DEF ReadsOn
  <2>5. c.at = "asked" => Len(toClient'[k]) = 1 /\ toClient'[k][1] = Reply(n, cnt)
    <3>1. ~Gone(k) => Grown(toClient'[k], toClient[k], Reply(n, cnt))
      BY <1>1, <1>2, <1>6, <2>1, ServerSent DEF OpenDownload
    <3> QED BY <1>1, <1>3, <3>1, FirstGrown DEF Gone
  <2>6. c.at = "asked" => Carries(k, 2, 0, toClient[k][1].size, toClient[k][1].count)'
    <3> SUFFICES ASSUME c.at = "asked"
                 PROVE  Carries(k, 2, 0, toClient[k][1].size, toClient[k][1].count)'
      OBVIOUS
    <3>1. toClient'[k][1].size = Len(snap'[k])
      <4>1. Reply(n, cnt).size = n
        BY Kinds
      <4>2. Len(snap'[k]) = n
        BY <2>1, <2>2
      <4> QED BY <2>5, <4>1, <4>2
    <3>2. \A x \in 2..Len(toClient'[k]) : FALSE
      <4>1. Len(toClient'[k]) = 1
        BY <2>5
      <4>2. \A x \in 2..1 : FALSE
        OBVIOUS
      <4> QED BY <4>1, <4>2
    <3> QED BY <3>1, <3>2 DEF Carries
  <2> QED BY <1>2, <1>3, <1>4, <2>4, <2>6 DEF Brings
<1>7. CASE OpenUpload(k)
  <2>1. f.kind = "set"
    BY <1>1, <1>7 DEF OpenUpload, ToServerSees
  <2>2. \/ handler'[k] = [NoHandler EXCEPT !.doing = "upload", !.size = f.size, !.count = f.count,
                                           !.buffer = f.buffer]
        \/ UNCHANGED handler
    BY <1>1, <1>2, <1>7, Become DEF OpenUpload
  <2>3. handler'[k].doing # "download"
    BY <1>2, <2>2 DEF NoHandler
  <2>4. ~(c.at = "asked" /\ c.op = "download")
    BY <1>3, <2>1, Kinds
  <2> QED BY <1>2, <1>3, <1>4, <2>3, <2>4 DEF Brings
<1> QED BY <1>5, <1>6, <1>7

\* A step of another session: it does not change the file under an undisturbed download.
LEMMA OthersBring ==
  ASSUME ConvInv, NEW k \in Sessions, NEW j \in Sessions \ {k}, Brings(j),
         \/ StartDownload(k) \/ StartUpload(k) \/ ReadReply(k) \/ Download(k) \/ Upload(k)
         \/ Finish(k) \/ Interrupt(k) \/ Tear(k) \/ Exit(k) \/ ServerStep(k) \/ Flush(k)
  PROVE  Brings(j)'
<1>1. TypeOK /\ disk \in Seq(Byte)
  BY Cases DEF TypeOK
<1>2. toClient'[j] = toClient[j] /\ client'[j] = client[j]
  BY <1>1, OthersSame DEF Same
<1>3. ASSUME NEW h, Becomes(k, h) PROVE handler'[j] = handler[j]
  BY <1>1, <1>3 DEF Becomes, TypeOK
<1>4. ASSUME UNCHANGED <<disk, disturbed, snap>>, handler'[j] = handler[j] PROVE Brings(j)'
  <2>1. ~disturbed'[j] /\ handler'[j].doing = "download" => ReadsOn(j)'
    BY <1>4 DEF Brings, ReadsOn
  <2> QED BY <1>2, <1>4, <2>1, BringsKept
<1>5. CASE \/ StartDownload(k) \/ StartUpload(k) \/ ReadReply(k) \/ Download(k) \/ Upload(k)
           \/ Finish(k) \/ Interrupt(k) \/ Tear(k) \/ Exit(k) \/ Refuse(k)
  BY <1>4, <1>5 DEF StartDownload, StartUpload, ReadReply, Download, Upload, Finish, Interrupt, Tear,
     Exit, Refuse
<1>6. CASE SendBuffer(k) \/ CloseDownload(k) \/ TakeBuffer(k) \/ EndSession(k)
  BY <1>3, <1>4, <1>6 DEF SendBuffer, CloseDownload, TakeBuffer, EndSession
<1>7. CASE OpenDownload(k)
  <2>1. /\ snap'[j] = snap[j] /\ disturbed'[j] = disturbed[j] /\ disk' = disk
        /\ handler'[j] = handler[j]
    BY <1>1, <1>3, <1>7 DEF OpenDownload, TypeOK
  <2>2. ~disturbed'[j] /\ handler'[j].doing = "download" => ReadsOn(j)'
    BY <2>1 DEF Brings, ReadsOn
  <2> QED BY <1>2, <2>1, <2>2, BringsKept
<1>8. ASSUME UNCHANGED snap, handler'[j] = handler[j],
             disturbed'[j] = (disturbed[j] \/ handler[j].doing \in {"upload", "download"})
      PROVE  Brings(j)'
  <2>1. (~disturbed'[j] => ~disturbed[j]) /\ ~(~disturbed'[j] /\ handler'[j].doing = "download")
    BY <1>8
  <2> QED BY <1>2, <1>8, <2>1, BringsKept
<1>9. CASE OpenUpload(k)
  BY <1>3, <1>8, <1>9 DEF OpenUpload
<1>10. Disturbs(k) => disturbed'[j] = (disturbed[j] \/ handler[j].doing \in {"upload", "download"})
  BY DEF Disturbs
<1>11. CASE Flush(k)
  BY <1>3, <1>8, <1>10, <1>11 DEF Flush
<1>12. CASE CloseUpload(k)
  <2>1. CASE handler[k].buf # <<>>
    BY <1>3, <1>8, <1>10, <1>12, <2>1 DEF CloseUpload
  <2>2. CASE handler[k].buf = <<>>
    <3>1. UNCHANGED <<disk, disturbed, snap>>
      BY <1>12, <2>2 DEF CloseUpload, Written
    <3>2. handler'[j] = handler[j]
      BY <1>3, <1>12 DEF CloseUpload
    <3> QED BY <1>4, <3>1, <3>2
  <2> QED BY <2>1, <2>2
<1> QED BY <1>5, <1>6, <1>7, <1>9, <1>11, <1>12 DEF ServerStep

LEMMA DataStep ==
  DataInv /\ [Next]_vars => DataInv'
<1> SUFFICES ASSUME DataInv, [Next]_vars PROVE DataInv'
  OBVIOUS
<1>1. ConvInv /\ ConvInv'
  BY ConvStep DEF DataInv
<1>2. CASE UNCHANGED vars
  <2>1. ASSUME NEW k \in Sessions PROVE Brings(k)'
    <3>1. ~disturbed'[k] /\ handler'[k].doing = "download" => ReadsOn(k)'
      BY <1>2, ReadsOnKept DEF vars, DataInv
    <3> QED BY <1>2, <3>1, BringsKept DEF vars, DataInv
  <2> QED BY <1>1, <2>1 DEF DataInv
<1>3. ASSUME NEW k \in Sessions,
             \/ StartDownload(k) \/ StartUpload(k) \/ ReadReply(k) \/ Download(k) \/ Upload(k)
             \/ Finish(k) \/ Interrupt(k) \/ Tear(k) \/ Exit(k) \/ ServerStep(k) \/ Flush(k)
      PROVE  DataInv'
  <2>1. Brings(k)
    BY DEF DataInv
  <2>2. Brings(k)'
    BY <1>1, <1>3, <2>1, ClientRestsBrings, ReadReplyBrings, DownloadBrings, FinishBrings,
       AnswersBring, SendBufferBrings, ServerRestsBrings DEF ServerStep
  <2>3. ASSUME NEW j \in Sessions \ {k} PROVE Brings(j)'
    BY <1>1, <1>3, OthersBring DEF DataInv
  <2> QED BY <1>1, <2>2, <2>3 DEF DataInv
<1> QED BY <1>2, <1>3 DEF Next

\* A download that has succeeded, and that no other session has disturbed, has brought the
\* file as it was when the server opened it: for every size of file, every length of
\* buffer and any number of sessions.
THEOREM DownloadIsExact == Spec => []DownloadExact
<1>1. Init => DataInv
  <2> SUFFICES ASSUME Init PROVE DataInv
    OBVIOUS
  <2>1. ASSUME NEW k \in Sessions PROVE Brings(k)
    BY DEF Init, NoTransfer, NoHandler, Brings
  <2> QED BY <2>1, ConvInit DEF DataInv
<1>2. DataInv => DownloadExact
  BY DEF DataInv, Brings, DownloadExact
<1> QED BY <1>1, <1>2, DataStep, PTL DEF Spec

-----------------------------------------------------------------------------
(* What an upload stores.                                                  *)

\* The first x frames the server will read are buffers.
Buffers(k, x) == \A y \in 1..x : toServer[k][y].kind = "chunk"

\* What the client sends of a file of n bytes as its buffer i.
Portion(k, i, n) ==
  [y \in 1..ClientLength(i, Count(n, ClientBuffer[k]), n, ClientBuffer[k])
     |-> <<k, i * ClientBuffer[k] + y>>]

\* Both sides count the buffers of an upload alike, and none is sent behind its request
\* before the request is taken.
Requested(k) ==
  LET q == toServer[k] IN
  /\ \A i \in 1..Len(q) : q[i].kind = "set" =>
       q[i].buffer = ClientBuffer[k] /\ q[i].count = Count(q[i].size, ClientBuffer[k])
  /\ \A i, j \in 1..Len(q) : i < j /\ q[i].kind = "set" => q[j].kind # "chunk"

Uploading(k) == handler[k].doing = "upload"

\* Every frame the handler has taken was a buffer of the file.
Unbroken(k) == Uploading(k) /\ handler[k].good = handler[k].idx

\* The handler's numbers, and what comes next as long as nothing came between.
Follows(k) ==
  LET h == handler[k] IN
  /\ Uploading(k) =>
       h.buffer = ClientBuffer[k] /\ h.count = Count(h.size, h.buffer) /\ h.good <= h.idx
  /\ Unbroken(k) =>
       \A x \in 1..Len(toServer[k]) : Buffers(k, x) =>
         h.idx + x - 1 < h.count /\ toServer[k][x].bytes = Portion(k, h.idx + x - 1, h.size)

\* The client's upload is the one the handler is at.
Served(k) ==
  /\ client[k].op = "upload" /\ Uploading(k)
  /\ \/ client[k].at = "loading"
     \/ client[k].at = "asked" /\ toClient[k] # <<>> /\ toClient[k][1].ok

Agrees(k) ==
  LET c == client[k]  h == handler[k] IN
  Served(k) =>
    /\ c.size = h.size /\ c.count = h.count
    /\ Unbroken(k) /\ Buffers(k, Len(toServer[k])) => c.idx = h.idx + Len(toServer[k])

\* The bytes of the good buffers are in the file or in the stream, at their places.
Stored(k) ==
  LET h == handler[k]
      g == Lesser(h.good * ClientBuffer[k], h.size)
  IN
  Uploading(k) /\ ~disturbed[k] =>
    /\ Len(disk) = h.pos
    /\ h.pos + Len(h.buf) >= g /\ (Unbroken(k) => h.pos + Len(h.buf) = g)
    /\ \A i \in 1..g : IF i <= h.pos THEN disk[i] = <<k, i>> ELSE h.buf[i - h.pos] = <<k, i>>

Stores(k) == Requested(k) /\ Follows(k) /\ Agrees(k) /\ Stored(k)

StoreInv == ConvInv /\ \A k \in Sessions : Stores(k)

LEMMA BuffersGrown ==
  ASSUME TypeOK, NEW k \in Sessions, NEW f, NEW n, n = Len(toServer[k]),
         Grown(toServer'[k], toServer[k], f)
  PROVE  /\ \A x \in 1..n : Buffers(k, x)' <=> Buffers(k, x)
         /\ Buffers(k, n + 1)' <=> Buffers(k, n) /\ f.kind = "chunk"
<1>2. /\ n \in Nat /\ Len(toServer'[k]) = n + 1 /\ toServer'[k][n + 1] = f
      /\ \A i \in 1..n : toServer'[k][i] = toServer[k][i]
  BY QueuesAre DEF Grown
<1>3. ASSUME NEW x \in 1..n PROVE Buffers(k, x)' <=> Buffers(k, x)
  <2>1. \A y \in 1..x : toServer'[k][y] = toServer[k][y]
    BY <1>2
  <2> QED BY <2>1 DEF Buffers
<1>4. Buffers(k, n + 1)' <=> Buffers(k, n) /\ f.kind = "chunk"
  <2>1. \A y \in 1..n + 1 : y \in 1..n \/ y = n + 1
    BY <1>2
  <2>2. n + 1 \in 1..n + 1 /\ \A y \in 1..n : y \in 1..n + 1
    BY <1>2
  <2> QED BY <1>2, <2>1, <2>2 DEF Buffers
<1> QED BY <1>3, <1>4

LEMMA BuffersShrunk ==
  ASSUME TypeOK, NEW k \in Sessions, toServer[k] # <<>>, Shrunk(toServer'[k], toServer[k]),
         Head(toServer[k]).kind = "chunk"
  PROVE  \A x \in 0..Len(toServer'[k]) : Buffers(k, x)' => Buffers(k, x + 1)
<1>1. PICK q, p : q = toServer'[k] /\ p = toServer[k]
  OBVIOUS
<1>2. /\ Len(p) \in Nat /\ Len(p) > 0 /\ p[1] = Head(p) /\ Len(q) = Len(p) - 1
      /\ \A i \in 1..Len(q) : q[i] = p[i + 1]
  <2>1. Len(p) \in Nat /\ p # <<>> /\ (p = <<>> <=> Len(p) = 0) /\ Head(p) = p[1]
    <3>1. /\ Len(toServer[k]) \in Nat /\ (toServer[k] = <<>> <=> Len(toServer[k]) = 0)
          /\ toServer[k] # <<>> => Head(toServer[k]) = toServer[k][1]
      BY QueuesAre, Zenon
    <3> QED BY <1>1, <3>1, Zenon
  <2>2. Len(q) = Len(p) - 1 /\ \A i \in 1..Len(q) : q[i] = p[i + 1]
    <3>1. Shrunk(q, p)
      BY <1>1, Zenon
    <3> QED BY <3>1 DEF Shrunk
  <2>3. Len(p) > 0
    BY <2>1
  <2> QED BY <2>1, <2>2, <2>3, Zenon
<1>3. ASSUME NEW x \in 0..Len(q), Buffers(k, x)', NEW y \in 1..x + 1 PROVE p[y].kind = "chunk"
  <2>1. CASE y = 1
    BY <1>1, <1>2, <2>1
  <2>2. CASE y # 1
    <3>1. y - 1 \in 1..x /\ y - 1 \in 1..Len(q) /\ (y - 1) + 1 = y
      BY <1>2, <2>2
    <3>2. q[y - 1].kind = "chunk"
      BY <1>1, <1>3, <3>1 DEF Buffers
    <3> QED BY <1>2, <3>1, <3>2
  <2> QED BY <2>1, <2>2
<1> QED BY <1>1, <1>3 DEF Buffers

LEMMA RequestedKept ==
  ASSUME TypeOK, NEW k \in Sessions, Requested(k),
         \/ toServer'[k] = toServer[k] \/ toServer'[k] = <<>>
         \/ toServer[k] # <<>> /\ Shrunk(toServer'[k], toServer[k])
         \/ \E f : /\ Grown(toServer'[k], toServer[k], f)
                   /\ f.kind = "set" => f.buffer = ClientBuffer[k] /\ f.count = Count(f.size, ClientBuffer[k])
                   /\ f.kind = "chunk" => NoneAsked(k)
  PROVE  Requested(k)'
<1>1. PICK q, p, b : q = toServer'[k] /\ p = toServer[k] /\ b = ClientBuffer[k]
  OBVIOUS
<1>2. Len(p) \in Nat /\ (p = <<>> <=> Len(p) = 0)
  BY <1>1, QueuesAre
<1>3. /\ \A i \in 1..Len(p) : p[i].kind = "set" => p[i].buffer = b /\ p[i].count = Count(p[i].size, b)
      /\ \A i, j \in 1..Len(p) : i < j /\ p[i].kind = "set" => p[j].kind # "chunk"
  BY <1>1 DEF Requested
<1>4. CASE q = p
  BY <1>1, <1>3, <1>4 DEF Requested
<1>5. CASE q = <<>>
  BY <1>1, <1>5 DEF Requested
<1>6. CASE p # <<>> /\ Shrunk(q, p)
  <2>1. \A i \in 1..Len(q) : i + 1 \in 1..Len(p) /\ q[i] = p[i + 1]
    BY <1>2, <1>6 DEF Shrunk
  <2>2. \A i \in 1..Len(q) : q[i].kind = "set" => q[i].buffer = b /\ q[i].count = Count(q[i].size, b)
    BY <1>3, <2>1
  <2>3. ASSUME NEW i \in 1..Len(q), NEW j \in 1..Len(q), i < j, q[i].kind = "set" PROVE q[j].kind # "chunk"
    <3>1. i + 1 < j + 1
      BY <2>3
    <3> QED BY <1>3, <2>1, <2>3, <3>1
  <2> QED BY <1>1, <2>2, <2>3 DEF Requested
<1>7. ASSUME NEW f, Grown(q, p, f), f.kind = "set" => f.buffer = b /\ f.count = Count(f.size, b),
             f.kind = "chunk" => NoneAsked(k)
      PROVE  Requested(k)'
  <2>1. /\ \A i \in 1..Len(q) : i \in 1..Len(p) \/ i = Len(p) + 1
        /\ \A i \in 1..Len(p) : q[i] = p[i]
        /\ q[Len(p) + 1] = f
    BY <1>2, <1>7 DEF Grown
  <2>2. \A i \in 1..Len(q) : q[i].kind = "set" => q[i].buffer = b /\ q[i].count = Count(q[i].size, b)
    BY <1>3, <1>7, <2>1
  <2>3. ASSUME NEW i \in 1..Len(q), NEW j \in 1..Len(q), i < j, q[i].kind = "set" PROVE q[j].kind # "chunk"
    <3>1. i \in 1..Len(p)
      BY <1>2, <2>1, <2>3
    <3>2. CASE j \in 1..Len(p)
      BY <1>3, <2>1, <2>3, <3>1, <3>2
    <3>3. CASE j = Len(p) + 1
      BY <1>1, <1>7, <2>1, <2>3, <3>1, <3>3 DEF NoneAsked, Asks
    <3> QED BY <2>1, <3>2, <3>3
  <2> QED BY <1>1, <2>2, <2>3 DEF Requested
<1> QED BY <1>1, <1>4, <1>5, <1>6, <1>7

\* A frame behind the others.
LEMMA FollowsGrown ==
  ASSUME TypeOK, NEW k \in Sessions, Follows(k), handler'[k] = handler[k], NEW f,
         Grown(toServer'[k], toServer[k], f),
         Unbroken(k) /\ Buffers(k, Len(toServer[k])) /\ f.kind = "chunk" =>
           /\ handler[k].idx + Len(toServer[k]) < handler[k].count
           /\ f.bytes = Portion(k, handler[k].idx + Len(toServer[k]), handler[k].size)
  PROVE  Follows(k)'
<1>1. PICK h, n : h = handler[k] /\ n = Len(toServer[k])
  OBVIOUS
<1>2. /\ n \in Nat /\ Len(toServer'[k]) = n + 1 /\ toServer'[k][n + 1] = f
      /\ \A i \in 1..n : toServer'[k][i] = toServer[k][i]
  BY <1>1, QueuesAre DEF Grown
<1>3. handler'[k] = h /\ (Uploading(k)' <=> Uploading(k)) /\ (Unbroken(k)' <=> Unbroken(k))
  BY <1>1 DEF Uploading, Unbroken
<1>4. h.idx \in Nat
  BY <1>1 DEF TypeOK, Handlers
<1>5. ASSUME Unbroken(k), NEW x \in 1..n + 1, Buffers(k, x)'
      PROVE  h.idx + x - 1 < h.count /\ toServer'[k][x].bytes = Portion(k, h.idx + x - 1, h.size)
  <2>1. CASE x \in 1..n
    <3>1. Buffers(k, x) /\ toServer'[k][x] = toServer[k][x]
      BY <1>1, <1>2, <1>5, <2>1, BuffersGrown
    <3>2. h.idx + x - 1 < h.count /\ toServer[k][x].bytes = Portion(k, h.idx + x - 1, h.size)
      BY <1>1, <1>5, <2>1, <3>1 DEF Follows
    <3> QED BY <3>1, <3>2
  <2>2. CASE x = n + 1
    <3>1. Buffers(k, n) /\ f.kind = "chunk"
      BY <1>1, <1>2, <1>5, <2>2, BuffersGrown
    <3>2. h.idx + x - 1 = h.idx + n
      BY <1>2, <1>4, <2>2
    <3> QED BY <1>1, <1>2, <1>5, <2>2, <3>1, <3>2
  <2> QED BY <1>2, <2>1, <2>2
<1>6. Uploading(k) => h.buffer = ClientBuffer[k] /\ h.count = Count(h.size, h.buffer) /\ h.good <= h.idx
  BY <1>1 DEF Follows
<1> QED BY <1>2, <1>3, <1>5, <1>6 DEF Follows

LEMMA FollowsLeft ==
  ASSUME NEW k \in Sessions, Follows(k), handler'[k] = handler[k],
         toServer'[k] = toServer[k] \/ toServer'[k] = <<>>
  PROVE  Follows(k)'
<1>1. (Uploading(k)' <=> Uploading(k)) /\ (Unbroken(k)' <=> Unbroken(k))
  BY DEF Uploading, Unbroken
<1>2. CASE toServer'[k] = toServer[k]
  BY <1>1, <1>2 DEF Follows, Buffers
<1>3. CASE toServer'[k] = <<>>
  BY <1>1, <1>3 DEF Follows
<1> QED BY <1>2, <1>3

LEMMA StoredLeft ==
  ASSUME NEW k \in Sessions, Stored(k), disk' = disk, handler'[k] = handler[k],
         disturbed'[k] = disturbed[k]
  PROVE  Stored(k)'
<1>1. (Uploading(k)' <=> Uploading(k)) /\ (Unbroken(k)' <=> Unbroken(k))
  BY DEF Uploading, Unbroken
<1> QED BY <1>1 DEF Stored

\* The client is not uploading.
LEMMA NotServed ==
  ASSUME NEW k \in Sessions, client'[k].op = "download" \/ client'[k].at \notin {"asked", "loading"}
                             \/ (client'[k].at = "asked" /\ toClient'[k] = <<>>)
  PROVE  Agrees(k)'
BY DEF Agrees, Served

LEMMA StartStores ==
  ASSUME ConvInv, NEW k \in Sessions, Stores(k), StartDownload(k) \/ StartUpload(k)
  PROVE  Stores(k)'
<1>1. /\ TypeOK /\ toClient[k] = <<>> /\ UNCHANGED <<disk, toClient, handler, disturbed>>
      /\ ClientBuffer[k] \in Nat \ {0}
  BY Cases DEF InConversation, Rests, StartDownload, StartUpload
<1>2. \E f : /\ Grown(toServer'[k], toServer[k], f) /\ f.kind # "chunk"
             /\ f.kind = "set" => f.buffer = ClientBuffer[k] /\ f.count = Count(f.size, ClientBuffer[k])
  <2>1. CASE StartDownload(k)
    BY <1>1, <2>1, ClientSent, Kinds DEF StartDownload
  <2>2. CASE StartUpload(k)
    <3>1. PICK n \in Sizes : ClientSends(k, Set(n, ClientBuffer[k]))
      BY <2>2 DEF StartUpload
    <3>2. Grown(toServer'[k], toServer[k], Set(n, ClientBuffer[k]))
      BY <1>1, <3>1, ClientSent
    <3> QED BY <3>2, Kinds
  <2> QED BY <2>1, <2>2
<1>3. \/ client'[k].op = "download"
      \/ client'[k].at = "asked"
  <2>1. CASE StartDownload(k)
    <3>1. client'[k] = [NoTransfer EXCEPT !.at = "asked"]
      BY <1>1, <2>1, Turned DEF StartDownload
    <3> QED BY <3>1 DEF NoTransfer
  <2>2. CASE StartUpload(k)
    <3>1. PICK n \in Sizes : Turns(k, [NoTransfer EXCEPT !.at = "asked", !.op = "upload", !.size = n,
                                                         !.count = Count(n, ClientBuffer[k])])
      BY <2>2 DEF StartUpload
    <3>2. client'[k] = [NoTransfer EXCEPT !.at = "asked", !.op = "upload", !.size = n,
                                          !.count = Count(n, ClientBuffer[k])]
      BY <1>1, <3>1, Turned
    <3> QED BY <3>2 DEF NoTransfer
  <2> QED BY <2>1, <2>2
<1>4. Agrees(k)'
  BY <1>1, <1>3, NotServed
<1>5. Requested(k)' /\ Follows(k)'
  BY <1>1, <1>2, RequestedKept, FollowsGrown DEF Stores
<1>6. Stored(k)'
  BY <1>1, StoredLeft DEF Stores
<1> QED BY <1>4, <1>5, <1>6 DEF Stores

\* Reading, finishing and going leave at most the client's own state to look at.
LEMMA QuietStores ==
  ASSUME ConvInv, NEW k \in Sessions, Stores(k),
         ReadReply(k) \/ Download(k) \/ Finish(k) \/ Exit(k)
  PROVE  Stores(k)'
<1>1. /\ TypeOK /\ client[k] \in Transfers /\ UNCHANGED <<disk, handler, disturbed>>
      /\ toServer'[k] = toServer[k] \/ toServer'[k] = <<>>
  BY Cases DEF TypeOK, ReadReply, Download, Finish, Exit
<1>2. Requested(k)' /\ Follows(k)' /\ Stored(k)'
  BY <1>1, RequestedKept, FollowsLeft, StoredLeft DEF Stores
<1>3. Agrees(k)'
  <2>1. CASE Exit(k)
    <3>1. client'[k] = [client[k] EXCEPT !.at = "gone"]
      BY <1>1, <2>1, Turned DEF Exit
    <3> QED BY <1>1, <3>1, NotServed DEF Transfers
  <2>2. CASE Finish(k)
    <3>1. client'[k] = [client[k] EXCEPT !.at = "idle",
                          !.result = IF client[k].op = "upload" THEN "uploaded" ELSE "downloaded"]
      BY <1>1, <2>2, Turned DEF Finish
    <3> QED BY <1>1, <3>1, NotServed DEF Transfers
  <2>3. CASE Download(k)
    <3>1. PICK i, o : Turns(k, [client[k] EXCEPT !.idx = i, !.out = o])
      BY <2>3 DEF Download
    <3>2. client'[k] = [client[k] EXCEPT !.idx = i, !.out = o]
      BY <1>1, <3>1, Turned
    <3> QED BY <1>1, <2>3, <3>2, NotServed DEF Transfers, Download
  <2>4. CASE ReadReply(k)
    <3> PICK c, r : c = client[k] /\ r = Head(toClient[k])
      OBVIOUS
    <3>1. /\ r = toClient[k][1] /\ toClient[k] # <<>> /\ c.at = "asked" /\ UNCHANGED toServer
          /\ \/ ~r.ok /\ Turns(k, [c EXCEPT !.at = "idle", !.result = "failed"])
             \/ r.ok /\ c.op = "upload" /\ Turns(k, [c EXCEPT !.at = "loading"])
             \/ /\ r.ok /\ c.op = "download"
                /\ Turns(k, [c EXCEPT !.at = "loading", !.size = r.size, !.count = r.count])
      BY <1>1, <2>4, QueuesAre DEF ReadReply, ToClientSees
    <3>2. CASE ~r.ok /\ Turns(k, [c EXCEPT !.at = "idle", !.result = "failed"])
      <4>1. client'[k] = [c EXCEPT !.at = "idle", !.result = "failed"]
        BY <1>1, <3>2, Turned
      <4> QED BY <1>1, <4>1, NotServed DEF Transfers
    <3>3. CASE r.ok /\ c.op = "upload" /\ Turns(k, [c EXCEPT !.at = "loading"])
      <4>1. client'[k] = [c EXCEPT !.at = "loading"]
        BY <1>1, <3>3, Turned
      <4>2. client'[k].size = c.size /\ client'[k].count = c.count /\ client'[k].idx = c.idx
        BY <1>1, <4>1 DEF Transfers
      <4>3. Uploading(k) => Served(k)
        BY <3>1, <3>3 DEF Served
      <4>4. (Uploading(k)' <=> Uploading(k)) /\ (Unbroken(k)' <=> Unbroken(k))
        BY <1>1 DEF Uploading, Unbroken
      <4>5. Buffers(k, Len(toServer[k]))' <=> Buffers(k, Len(toServer[k]))
        BY <3>1 DEF Buffers
      <4> QED BY <1>1, <3>1, <4>2, <4>3, <4>4, <4>5 DEF Stores, Agrees, Served
    <3>4. CASE /\ r.ok /\ c.op = "download"
               /\ Turns(k, [c EXCEPT !.at = "loading", !.size = r.size, !.count = r.count])
      <4>1. client'[k] = [c EXCEPT !.at = "loading", !.size = r.size, !.count = r.count]
        BY <1>1, <3>4, Turned
      <4> QED BY <1>1, <3>4, <4>1, NotServed DEF Transfers
    <3> QED BY <3>1, <3>2, <3>3, <3>4
  <2> QED BY <2>1, <2>2, <2>3, <2>4
<1> QED BY <1>2, <1>3 DEF Stores

LEMMA InterruptStores ==
  ASSUME ConvInv, NEW k \in Sessions, Stores(k), Interrupt(k) \/ Tear(k)
  PROVE  Stores(k)'
<1>1. TypeOK /\ client[k] \in Transfers /\ UNCHANGED <<disk, handler, disturbed, toClient>>
  BY Cases DEF TypeOK, Interrupt, Tear
<1>2. \/ toServer'[k] = toServer[k] /\ Tear(k)
      \/ \E f : Grown(toServer'[k], toServer[k], f) /\ f.kind \in {"quit", "junk"}
  <2>1. CASE Interrupt(k)
    BY <1>1, <2>1, ClientSent, Kinds DEF Interrupt
  <2>2. CASE Tear(k)
    BY <1>1, <2>2, ClientSent, Kinds DEF Tear
  <2> QED BY <2>1, <2>2
<1>3. Requested(k)' /\ Follows(k)'
  <2>1. CASE toServer'[k] = toServer[k]
    BY <1>1, <2>1, RequestedKept, FollowsLeft DEF Stores
  <2>2. CASE \E f : Grown(toServer'[k], toServer[k], f) /\ f.kind \in {"quit", "junk"}
    BY <1>1, <2>2, RequestedKept, FollowsGrown DEF Stores
  <2> QED BY <1>2, <2>1, <2>2
<1>4. Agrees(k)'
  <2>1. CASE Tear(k)
    <3>1. client'[k] = [client[k] EXCEPT !.at = "torn"]
      BY <1>1, <2>1, Turned DEF Tear
    <3> QED BY <1>1, <3>1, NotServed DEF Transfers
  <2>2. CASE Interrupt(k) /\ ~Tear(k)
    <3>1. PICK f : Grown(toServer'[k], toServer[k], f) /\ f.kind # "chunk"
      BY <1>2, <2>2
    <3>2. PICK n : n = Len(toServer[k])
      OBVIOUS
    <3>3. ~Buffers(k, n + 1)' /\ Len(toServer'[k]) = n + 1
      BY <1>1, <3>1, <3>2, BuffersGrown DEF Grown
    <3>4. ~Buffers(k, Len(toServer[k]))'
      BY <3>3
    <3>5. client' = client /\ (Uploading(k)' <=> Uploading(k))
      BY <1>1, <2>2 DEF Interrupt, Uploading
    <3> QED BY <1>1, <3>4, <3>5 DEF Stores, Agrees, Served
  <2> QED BY <2>1, <2>2
<1>5. Stored(k)'
  BY <1>1, StoredLeft DEF Stores
<1> QED BY <1>3, <1>4, <1>5 DEF Stores

LEMMA UploadStores ==
  ASSUME ConvInv, NEW k \in Sessions, Stores(k), Upload(k)
  PROVE  Stores(k)'
<1>1. PICK c, h, n, b, f : /\ c = client[k] /\ h = handler[k] /\ n = Len(toServer[k])
                           /\ b = ClientBuffer[k] /\ f = Chunk(NextBytes(k))
  OBVIOUS
<1>2. /\ TypeOK /\ c \in Transfers /\ UNCHANGED <<disk, handler, disturbed, toClient>>
      /\ c.at = "loading" /\ c.op = "upload" /\ c.idx < c.count /\ c.idx \in Nat
      /\ NoneAsked(k) /\ Grown(toServer'[k], toServer[k], f) /\ f.kind = "chunk"
  <2>1. Feeds(k) /\ TypeOK /\ c \in Transfers /\ c.idx \in Nat
    BY <1>1, Cases DEF InConversation, Upload, TypeOK
  <2>2. Grown(toServer'[k], toServer[k], f)
    BY <1>1, <2>1, ClientSent DEF Upload
  <2> QED BY <1>1, <2>1, <2>2, Kinds DEF Upload, Available, Feeds
<1>3. Len(toServer'[k]) = n + 1 /\ n \in Nat /\ h.idx \in Nat
  BY <1>1, <1>2, QueuesAre DEF Grown, TypeOK, Handlers
<1>4. Requested(k)'
  BY <1>2, RequestedKept DEF Stores
<1>5. Uploading(k) => c.size = h.size /\ c.count = h.count /\ h.count = Count(h.size, b)
  BY <1>1, <1>2 DEF Stores, Agrees, Served, Follows
<1>6. Unbroken(k) /\ Buffers(k, n) => c.idx = h.idx + n
  BY <1>1, <1>2 DEF Stores, Agrees, Served, Unbroken
<1>7. Uploading(k) => f.bytes = Portion(k, c.idx, h.size)
  <2> SUFFICES ASSUME Uploading(k) PROVE f.bytes = Portion(k, c.idx, h.size)
    OBVIOUS
  <2>1. PICK m : m = Length(k)
    OBVIOUS
  <2>2. ClientLength(c.idx, Count(h.size, b), h.size, b) = m
    BY <1>1, <1>5, <2>1 DEF Length
  <2>3. NextBytes(k) = [y \in 1..m |-> <<k, c.idx * b + y>>]
    BY <1>1, <2>1 DEF NextBytes
  <2>4. Portion(k, c.idx, h.size) = [y \in 1..m |-> <<k, c.idx * b + y>>]
    BY <1>1, <2>2 DEF Portion
  <2> QED BY <1>1, <2>3, <2>4, Kinds
<1>8. Follows(k)'
  <2>1. Unbroken(k) /\ Buffers(k, n) => h.idx + n < h.count /\ f.bytes = Portion(k, h.idx + n, h.size)
    <3>1. Unbroken(k) => Uploading(k)
      BY DEF Unbroken
    <3>2. Unbroken(k) /\ Buffers(k, n) => c.idx < h.count /\ f.bytes = Portion(k, c.idx, h.size)
      BY <1>2, <1>5, <1>7, <3>1
    <3> QED BY <1>6, <3>2
  <2>2. Follows(k) /\ handler'[k] = handler[k]
    BY <1>2 DEF Stores
  <2> QED BY <1>1, <1>2, <2>1, <2>2, FollowsGrown
<1>9. Agrees(k)'
  <2>1. client'[k] = [c EXCEPT !.idx = @ + 1]
    BY <1>1, <1>2, Turned DEF Upload
  <2>2. client'[k].size = c.size /\ client'[k].count = c.count /\ client'[k].idx = c.idx + 1
    BY <1>2, <2>1 DEF Transfers
  <2>3. (Uploading(k)' <=> Uploading(k)) /\ (Unbroken(k)' <=> Unbroken(k)) /\ handler'[k] = h
    BY <1>1, <1>2 DEF Uploading, Unbroken
  <2>4. Buffers(k, n + 1)' => Buffers(k, n)
    BY <1>1, <1>2, BuffersGrown
  <2>5. Buffers(k, Len(toServer[k]))' => Buffers(k, n)
    BY <1>3, <2>4
  <2>6. Unbroken(k) /\ Buffers(k, n) => c.idx + 1 = h.idx + (n + 1)
    BY <1>2, <1>3, <1>6
  <2> QED BY <1>3, <1>5, <2>2, <2>3, <2>5, <2>6 DEF Agrees, Served
<1>10. Stored(k)'
  BY <1>2, StoredLeft DEF Stores
<1> QED BY <1>4, <1>8, <1>9, <1>10 DEF Stores

\* The steps after which no upload is open.
LEMMA ClosedStores ==
  ASSUME ConvInv, NEW k \in Sessions, Stores(k),
         \/ Refuse(k) \/ OpenDownload(k) \/ SendBuffer(k) \/ CloseDownload(k) \/ CloseUpload(k)
         \/ EndSession(k)
  PROVE  Stores(k)'
<1>1. TypeOK /\ handler[k] \in Handlers
  BY Cases DEF TypeOK
<1>2. ~Uploading(k)'
  <2>1. CASE Refuse(k)
    BY <2>1 DEF Refuse, Uploading
  <2>2. CASE OpenDownload(k)
    <3>1. PICK n, c, b :
            \/ Becomes(k, [NoHandler EXCEPT !.doing = "download", !.size = n, !.count = c, !.buffer = b])
            \/ UNCHANGED handler
      BY <2>2 DEF OpenDownload
    <3>2. \/ handler'[k] = [NoHandler EXCEPT !.doing = "download", !.size = n, !.count = c, !.buffer = b]
          \/ UNCHANGED handler
      BY <1>1, <3>1, Become
    <3> QED BY <2>2, <3>2 DEF OpenDownload, Uploading, NoHandler
  <2>3. CASE SendBuffer(k)
    <3>1. PICK i, p, e : Becomes(k, [handler[k] EXCEPT !.idx = i, !.pos = p, !.eof = e])
      BY <2>3 DEF SendBuffer
    <3>2. handler'[k] = [handler[k] EXCEPT !.idx = i, !.pos = p, !.eof = e]
      BY <1>1, <3>1, Become
    <3> QED BY <1>1, <2>3, <3>2 DEF SendBuffer, Uploading, Handlers
  <2>4. CASE CloseDownload(k) \/ CloseUpload(k)
    <3>1. handler'[k] = NoHandler
      BY <1>1, <2>4, Become DEF CloseDownload, CloseUpload
    <3> QED BY <3>1 DEF NoHandler, Uploading
  <2>5. CASE EndSession(k)
    <3>1. handler'[k] = [NoHandler EXCEPT !.doing = "ended"]
      BY <1>1, <2>5, Become DEF EndSession
    <3> QED BY <3>1 DEF NoHandler, Uploading
  <2> QED BY <2>1, <2>2, <2>3, <2>4, <2>5
<1>3. Requested(k)'
  <2>1. CASE Refuse(k) \/ OpenDownload(k)
    <3>1. toServer[k] # <<>>
      BY <2>1 DEF Refuse, OpenDownload, ToServerSees
    <3>2. Shrunk(toServer'[k], toServer[k])
      BY <1>1, <2>1, <3>1, ServerTook DEF Refuse, OpenDownload
    <3> QED BY <1>1, <3>1, <3>2, RequestedKept DEF Stores
  <2>2. CASE SendBuffer(k) \/ CloseDownload(k) \/ CloseUpload(k)
    <3>1. toServer'[k] = toServer[k]
      BY <2>2 DEF SendBuffer, CloseDownload, CloseUpload
    <3> QED BY <1>1, <3>1, RequestedKept DEF Stores
  <2>3. CASE EndSession(k)
    <3>1. toServer'[k] = <<>>
      BY <1>1, <2>3 DEF EndSession, TypeOK
    <3> QED BY <1>1, <3>1, RequestedKept DEF Stores
  <2> QED BY <2>1, <2>2, <2>3
<1>4. Follows(k)' /\ Agrees(k)' /\ Stored(k)'
  BY <1>2 DEF Follows, Unbroken, Agrees, Served, Stored
<1> QED BY <1>3, <1>4 DEF Stores

LEMMA NothingLesser == \A n \in Nat, b \in Nat : Lesser(0 * b, n) = 0
BY DEF Lesser

LEMMA OpenUploadStores ==
  ASSUME ConvInv, NEW k \in Sessions, Stores(k), OpenUpload(k)
  PROVE  Stores(k)'
<1>1. PICK c, f, b, n : /\ c = client[k] /\ f = Head(toServer[k]) /\ b = ClientBuffer[k]
                        /\ n = Len(toServer'[k])
  OBVIOUS
<1>2. /\ TypeOK /\ client'[k] = c /\ toServer[k] # <<>> /\ f = toServer[k][1] /\ f.kind = "set"
      /\ Shrunk(toServer'[k], toServer[k]) /\ disk' = <<>> /\ b \in Nat \ {0}
      /\ c.at \in {"idle", "asked", "loading", "torn", "gone"} /\ c.op \in {"upload", "download"}
      /\ InConversation(k)
  <2>1. /\ TypeOK /\ client'[k] = c /\ toServer[k] # <<>> /\ f.kind = "set" /\ disk' = <<>>
        /\ b \in Nat \ {0} /\ InConversation(k) /\ ServerTakes(k)
        /\ c.at \in {"idle", "asked", "loading", "torn", "gone"} /\ c.op \in {"upload", "download"}
    BY <1>1, Cases DEF OpenUpload, ToServerSees
  <2> QED BY <1>1, <2>1, QueuesAre, ServerTook
<1>3. Len(toServer[k]) \in Nat /\ Len(toServer[k]) = n + 1 /\ n \in Nat
      /\ \A i \in 1..n : i + 1 \in 1..Len(toServer[k]) /\ toServer'[k][i] = toServer[k][i + 1]
  <2>1. Len(toServer[k]) \in Nat /\ Len(toServer[k]) # 0 /\ Len(toServer'[k]) = Len(toServer[k]) - 1
    BY <1>2, QueuesAre DEF Shrunk
  <2>2. Len(toServer[k]) = n + 1 /\ n \in Nat
    BY <1>1, <2>1
  <2> QED BY <1>1, <1>2, <2>1, <2>2 DEF Shrunk
\* No buffer is behind the request.
<1>4. f.buffer = b /\ f.count = Count(f.size, b) /\ \A i \in 1..n : toServer'[k][i].kind # "chunk"
  <2>1. 1 \in 1..Len(toServer[k]) /\ \A i \in 1..n : 1 < i + 1
    BY <1>3
  <2>2. \A i, j \in 1..Len(toServer[k]) : i < j /\ toServer[k][i].kind = "set" => toServer[k][j].kind # "chunk"
    BY DEF Stores, Requested
  <2>3. \A i \in 1..n : toServer[k][i + 1].kind # "chunk"
    BY <1>2, <1>3, <2>1, <2>2
  <2>4. f.buffer = b /\ f.count = Count(f.size, b)
    BY <1>1, <1>2, <2>1 DEF Stores, Requested
  <2> QED BY <1>3, <2>3, <2>4
<1>5. \A x \in 1..n : ~Buffers(k, x)'
  <2> SUFFICES ASSUME NEW x \in 1..n PROVE ~Buffers(k, x)'
    OBVIOUS
  <2>1. 1 \in 1..x /\ 1 \in 1..n
    BY <1>3
  <2> QED BY <1>4, <2>1 DEF Buffers
<1>6. Requested(k)'
  BY <1>2, RequestedKept DEF Stores
<1>7. CASE UNCHANGED handler
  <2>1. ~Uploading(k)'
    BY <1>7 DEF OpenUpload, Uploading
  <2> QED BY <1>6, <2>1 DEF Stores, Follows, Unbroken, Agrees, Served, Stored
<1>8. CASE handler'[k] = [NoHandler EXCEPT !.doing = "upload", !.size = f.size, !.count = f.count,
                                           !.buffer = f.buffer]
  <2>1. PICK h : h = handler'[k]
    OBVIOUS
  <2>2. /\ h.doing = "upload" /\ h.size = f.size /\ h.count = f.count /\ h.buffer = b
        /\ h.idx = 0 /\ h.pos = 0 /\ h.buf = <<>> /\ h.good = 0
    BY <1>4, <1>8, <2>1 DEF NoHandler
  <2>3. Follows(k)'
    <3>1. h.buffer = b /\ h.count = Count(h.size, h.buffer) /\ h.good <= h.idx
      BY <1>4, <2>2
    <3> QED BY <1>1, <1>5, <2>1, <3>1 DEF Follows
  <2>4. Agrees(k)'
    <3> SUFFICES ASSUME Served(k)'
                 PROVE  /\ c.size = h.size /\ c.count = h.count
                        /\ Buffers(k, Len(toServer[k]))' => c.idx = h.idx + n
      BY <1>1, <1>2, <2>1 DEF Agrees
    <3>1. c.op = "upload" /\ c.at = "asked" /\ f = Set(c.size, b)
      <4>1. c.op = "upload" /\ c.at \in {"asked", "loading"}
        BY <1>2 DEF Served
      <4>2. c.at # "loading" /\ (c.at = "asked" => f = Set(c.size, b))
        BY <1>1, <1>2, <4>1, RequestTaken DEF OpenUpload, ToServerSees
      <4> QED BY <4>1, <4>2
    <3>2. c.count = Count(c.size, b) /\ c.idx = 0
      BY <1>1, <1>2, <3>1 DEF InConversation
    <3>3. c.size = h.size /\ c.count = h.count
      BY <2>2, <3>1, <3>2, Kinds
    <3>4. n # 0 => ~Buffers(k, Len(toServer[k]))'
      <4>1. n # 0 => ~Buffers(k, n)'
        BY <1>3, <1>5
      <4> QED BY <1>1, <4>1 DEF Buffers
    <3> QED BY <1>3, <2>2, <3>2, <3>3, <3>4
  <2>5. Stored(k)'
    <3>1. f.size \in Nat
      BY <1>1, <1>2, QueuesAre, FrameFields, <1>3
    <3>2. Lesser(h.good * b, h.size) = 0
      BY <1>2, <2>2, <3>1, NothingLesser
    <3>3. Len(disk') = 0 /\ Len(h.buf) = 0
      BY <1>2, <2>2
    <3> QED BY <1>1, <2>1, <2>2, <3>2, <3>3 DEF Stored
  <2> QED BY <1>6, <2>3, <2>4, <2>5 DEF Stores
<1>9. \/ UNCHANGED handler
      \/ handler'[k] = [NoHandler EXCEPT !.doing = "upload", !.size = f.size, !.count = f.count,
                                         !.buffer = f.buffer]
  BY <1>1, <1>2, Become DEF OpenUpload
<1> QED BY <1>7, <1>8, <1>9

\* What is written at the end of a file is behind what it has.
LEMMA WrittenEnd ==
  ASSUME TypeInv, NEW bytes \in Seq(Byte)
  PROVE  LET d == Written(Len(disk), bytes) IN
         /\ d \in Seq(Byte) /\ Len(d) = Len(disk) + Len(bytes)
         /\ \A i \in 1..Len(disk) : d[i] = disk[i]
         /\ \A i \in 1..Len(bytes) : d[Len(disk) + i] = bytes[i]
<1>1. PICK d, p, n : d = Written(Len(disk), bytes) /\ p = Len(disk) /\ n = Len(bytes)
  OBVIOUS
<1>2. disk \in Seq(Byte) /\ p \in Nat /\ n \in Nat /\ (bytes = <<>> <=> n = 0)
  BY <1>1 DEF TypeInv, TypeOK
<1>3. CASE bytes = <<>>
  BY <1>1, <1>2, <1>3 DEF Written
<1>4. CASE bytes # <<>>
  <2>1. (IF p > p + n THEN p ELSE p + n) = p + n
    BY <1>2
  <2>2. d = [i \in 1..p + n |-> IF i \in p + 1 .. p + n THEN bytes[i - p]
                                ELSE IF i <= p THEN disk[i] ELSE Nowhere]
    BY <1>1, <1>4, <2>1 DEF Written
  <2>3. d \in Seq(Byte)
    BY <1>1, <1>2, WrittenType
  <2>4. DOMAIN d = 1..Len(d) /\ Len(d) \in Nat /\ DOMAIN d = 1..p + n
    <3>1. DOMAIN d = 1..p + n
      BY <2>2
    <3>2. DOMAIN d = 1..Len(d) /\ Len(d) \in Nat
      BY <2>3
    <3> QED BY <3>1, <3>2
  <2>5. Len(d) = p + n
    <3>1. \A i, j \in Nat : 1..i = 1..j => i = j
      <4> SUFFICES ASSUME NEW i \in Nat, NEW j \in Nat, 1..i = 1..j PROVE i = j
        OBVIOUS
      <4>1. (i \in 1..i \/ i = 0) /\ (j \in 1..j \/ j = 0)
        OBVIOUS
      <4> QED BY <4>1
    <3>2. p + n \in Nat
      BY <1>2
    <3>3. Len(d) \in Nat /\ 1..Len(d) = 1..p + n
      BY ONLY <2>4, Zenon
    <3> QED BY ONLY <3>1, <3>2, <3>3
  <2>6. ASSUME NEW i \in 1..p PROVE d[i] = disk[i]
    <3>1. i \in 1..p + n /\ i \notin p + 1 .. p + n /\ i <= p
      BY <1>2
    <3> QED BY <2>2, <3>1
  <2>7. ASSUME NEW i \in 1..n PROVE d[p + i] = bytes[i]
    <3>1. p + i \in 1..p + n /\ p + i \in p + 1 .. p + n /\ (p + i) - p = i
      BY <1>2
    <3> QED BY <2>2, <3>1
  <2> QED BY <1>1, <2>3, <2>5, <2>6, <2>7
<1> QED BY <1>3, <1>4

LEMMA FlushStores ==
  ASSUME ConvInv, NEW k \in Sessions, Stores(k), Flush(k)
  PROVE  Stores(k)'
<1>1. PICK h, n, g, b : /\ h = handler[k] /\ n \in 1..Len(h.buf) /\ b = ClientBuffer[k]
                        /\ g = Lesser(h.good * b, h.size)
                        /\ disk' = Written(h.pos, SubSeq(h.buf, 1, n))
                        /\ Becomes(k, [h EXCEPT !.pos = @ + n, !.buf = SubSeq(@, n + 1, Len(@))])
  BY DEF Flush
<1>2. /\ TypeOK /\ h \in Handlers /\ h.buf \in Seq(Byte) /\ h.pos \in Nat /\ disk \in Seq(Byte)
      /\ UNCHANGED <<toServer, toClient, client>> /\ h.doing = "upload"
      /\ g \in Int
  <2>1. /\ TypeOK /\ h \in Handlers /\ disk \in Seq(Byte) /\ b \in Nat
        /\ UNCHANGED <<toServer, toClient, client>> /\ h.doing = "upload"
    BY <1>1, Cases DEF TypeOK, Flush
  <2>2. h.buf \in Seq(Byte) /\ h.pos \in Nat /\ h.good \in Nat /\ h.size \in Nat
    BY <2>1 DEF Handlers
  <2>3. h.good * b \in Nat
    BY <2>1, <2>2
  <2>4. g \in Int
    BY <1>1, <2>2, <2>3 DEF Lesser
  <2> QED BY <2>1, <2>2, <2>4
<1>3. handler'[k] = [h EXCEPT !.pos = @ + n, !.buf = SubSeq(@, n + 1, Len(@))]
  BY <1>1, <1>2, Become
<1>4. PICK e : e = handler'[k]
  OBVIOUS
<1>5. /\ e.doing = "upload" /\ e.size = h.size /\ e.count = h.count /\ e.buffer = h.buffer
      /\ e.idx = h.idx /\ e.good = h.good
      /\ e.pos = h.pos + n /\ e.buf = SubSeq(h.buf, n + 1, Len(h.buf))
  BY <1>2, <1>3, <1>4 DEF Handlers
<1>6. Uploading(k) /\ Uploading(k)' /\ (Unbroken(k)' <=> Unbroken(k))
  BY <1>1, <1>2, <1>4, <1>5 DEF Uploading, Unbroken
<1>7. Requested(k)'
  BY <1>2, RequestedKept DEF Stores
<1>8. Follows(k)' /\ Agrees(k)'
  <2>1. \A x : Buffers(k, x)' <=> Buffers(k, x)
    BY <1>2 DEF Buffers
  <2>2. Buffers(k, Len(toServer[k]))' <=> Buffers(k, Len(toServer[k]))
    BY <1>2 DEF Buffers
  <2>3. Follows(k)'
    BY <1>1, <1>2, <1>4, <1>5, <1>6, <2>1 DEF Stores, Follows
  <2> QED BY <1>1, <1>2, <1>4, <1>5, <1>6, <2>2, <2>3 DEF Stores, Agrees, Served
<1>9. Stored(k)'
  <2> SUFFICES ASSUME ~disturbed'[k]
               PROVE  /\ Len(disk') = e.pos
                      /\ e.pos + Len(e.buf) >= g /\ (Unbroken(k) => e.pos + Len(e.buf) = g)
                      /\ \A i \in 1..g : IF i <= e.pos THEN disk'[i] = <<k, i>>
                                         ELSE e.buf[i - e.pos] = <<k, i>>
    BY <1>1, <1>4, <1>5, <1>6 DEF Stored
  <2>1. ~disturbed[k]
    BY DEF Flush, Disturbs
  <2>2. PICK p, m : p = h.pos /\ m = Len(h.buf)
    OBVIOUS
  <2>3. /\ Len(disk) = p /\ p + m >= g /\ (Unbroken(k) => p + m = g)
        /\ \A i \in 1..g : IF i <= p THEN disk[i] = <<k, i>> ELSE h.buf[i - p] = <<k, i>>
    BY <1>1, <1>6, <2>1, <2>2 DEF Stores, Stored
  <2>4. p \in Nat /\ m \in Nat /\ n \in 1..m
    BY <1>1, <1>2, <2>2
  <2>5. PICK first, rest : first = SubSeq(h.buf, 1, n) /\ rest = SubSeq(h.buf, n + 1, m)
    OBVIOUS
  <2>6. /\ first \in Seq(Byte) /\ Len(first) = n /\ \A i \in 1..n : first[i] = h.buf[i]
        /\ Len(rest) = m - n /\ \A i \in 1..m - n : rest[i] = h.buf[n + i]
    <3>1. SubSeq(h.buf, 1, n) \in Seq(Byte) /\ Len(SubSeq(h.buf, 1, n)) = n
          /\ \A i \in 1..n : SubSeq(h.buf, 1, n)[i] = h.buf[i]
      BY <1>2, <2>2, <2>4
    <3>2. Len(SubSeq(h.buf, n + 1, m)) = m - n
          /\ \A i \in 1..m - n : SubSeq(h.buf, n + 1, m)[i] = h.buf[n + i]
      BY <1>2, <2>2, <2>4
    <3> QED BY <2>5, <3>1, <3>2
  <2>7. disk' = Written(Len(disk), first)
    BY <1>1, <2>2, <2>3, <2>5
  <2>8. /\ Len(disk') = p + n /\ \A i \in 1..p : disk'[i] = disk[i]
        /\ \A i \in 1..n : disk'[p + i] = first[i]
    <3>1. TypeInv
      BY Cases
    <3>2. LET d == Written(Len(disk), first) IN
          /\ d \in Seq(Byte) /\ Len(d) = Len(disk) + Len(first)
          /\ \A i \in 1..Len(disk) : d[i] = disk[i]
          /\ \A i \in 1..Len(first) : d[Len(disk) + i] = first[i]
      BY <2>6, <3>1, WrittenEnd
    <3> QED BY <2>3, <2>6, <2>7, <3>2
  <2>9. e.pos = p + n /\ e.buf = rest
    BY <1>5, <2>2, <2>5
  <2>10. ASSUME NEW i \in 1..g
         PROVE  IF i <= p + n THEN disk'[i] = <<k, i>> ELSE rest[i - (p + n)] = <<k, i>>
    <3>1. CASE i <= p
      <4>1. i \in 1..p /\ i <= p + n
        BY <1>2, <2>4, <3>1
      <4> QED BY <2>3, <2>8, <3>1, <4>1
    <3>2. CASE ~(i <= p) /\ i <= p + n
      <4>1. i - p \in 1..n /\ p + (i - p) = i
        BY <1>2, <2>4, <3>2
      <4> QED BY <2>3, <2>6, <2>8, <3>2, <4>1
    <3>3. CASE ~(i <= p + n)
      <4>1. /\ i - (p + n) \in 1..m - n /\ n + (i - (p + n)) = i - p /\ ~(i <= p)
        BY <1>2, <2>3, <2>4, <3>3
      <4> QED BY <2>3, <2>6, <3>3, <4>1
    <3> QED BY <3>1, <3>2, <3>3
  <2>11. Len(disk') = p + n /\ (p + n) + (m - n) = p + m
    BY <2>4, <2>8
  <2> QED BY <2>3, <2>6, <2>9, <2>10, <2>11
<1> QED BY <1>7, <1>8, <1>9 DEF Stores

\* What a good buffer carries.
LEMMA PortionIs ==
  ASSUME NEW k \in Sessions, NEW n \in Nat, NEW i \in Nat, ClientBuffer[k] \in Nat \ {0},
         i < Count(n, ClientBuffer[k])
  PROVE  LET b == ClientBuffer[k]
             m == ClientLength(i, Count(n, b), n, b)
         IN  /\ m \in Nat /\ Len(Portion(k, i, n)) = m
             /\ \A y \in 1..m : Portion(k, i, n)[y] = <<k, i * b + y>>
             /\ i * b \in Nat /\ Lesser(i * b, n) = i * b /\ Lesser((i + 1) * b, n) = i * b + m
<1>1. PICK b, m, s : /\ b = ClientBuffer[k] /\ m = ClientLength(i, Count(n, b), n, b)
                     /\ s = Portion(k, i, n)
  OBVIOUS
<1>2. /\ m \in Nat /\ i * b \in Nat /\ Lesser(i * b, n) = i * b
      /\ Lesser((i + 1) * b, n) = i * b + m
  BY <1>1, Places
<1>3. s = [y \in 1..m |-> <<k, i * b + y>>]
  BY <1>1 DEF Portion
<1>4. \A y \in 1..m : s[y] = <<k, i * b + y>>
  BY <1>3
<1>5. Len(s) = m
  BY <1>2, <1>3, LenProperties
<1> QED BY <1>1, <1>2, <1>4, <1>5

LEMMA TakeBufferStores ==
  ASSUME ConvInv, NEW k \in Sessions, Stores(k), TakeBuffer(k)
  PROVE  Stores(k)'
<1>1. PICK h, e, f, b, n : /\ h = handler[k] /\ e = handler'[k] /\ f = toServer[k][1]
                           /\ b = ClientBuffer[k] /\ n = Len(toServer'[k])
  OBVIOUS
<1>2. /\ TypeOK /\ h \in Handlers /\ h.doing = "upload" /\ b \in Nat \ {0}
      /\ toServer[k] # <<>> /\ Head(toServer[k]) = f /\ f.bytes \in Seq(Byte)
      /\ UNCHANGED <<disk, toClient, client, disturbed>>
      /\ Shrunk(toServer'[k], toServer[k])
  <2>1. /\ TypeOK /\ h \in Handlers /\ b \in Nat \ {0}
        /\ UNCHANGED <<disk, toClient, client, disturbed>>
    BY <1>1, Cases DEF TypeOK, TakeBuffer
  <2>2. /\ h.doing = "upload" /\ toServer[k] # <<>> /\ ServerTakes(k)
        /\ Head(toServer[k]).kind \in {"chunk", "junk", "quit"}
    BY <1>1 DEF TakeBuffer, ToServerSees
  <2>3. Head(toServer[k]) = f /\ f \in ToServerFrames
    <3>1. 1 \in 1..Len(toServer[k])
      BY <2>1, <2>2, QueuesAre
    <3> QED BY <1>1, <2>1, <2>2, <3>1, QueuesAre
  <2> QED BY <2>1, <2>2, <2>3, FrameFields, ServerTook
<1>3. Len(toServer[k]) = n + 1 /\ n \in Nat
      /\ \A i \in 1..n : i + 1 \in 1..Len(toServer[k]) /\ toServer'[k][i] = toServer[k][i + 1]
  <2>1. Len(toServer[k]) \in Nat /\ Len(toServer[k]) # 0 /\ Len(toServer'[k]) = Len(toServer[k]) - 1
    BY <1>2, QueuesAre DEF Shrunk
  <2>2. Len(toServer[k]) = n + 1 /\ n \in Nat
    BY <1>1, <2>1
  <2> QED BY <1>1, <1>2, <2>1, <2>2 DEF Shrunk
<1>4. h.idx \in Nat /\ h.good \in Nat /\ h.pos \in Nat /\ h.size \in Nat /\ h.buf \in Seq(Byte)
  BY <1>2 DEF Handlers
<1>5. /\ e.doing = "upload" /\ e.size = h.size /\ e.count = h.count /\ e.buffer = h.buffer
      /\ e.pos = h.pos /\ e.idx = h.idx + 1 /\ e.buf = h.buf \o f.bytes
      /\ e.good = IF f.kind = "chunk" /\ h.good = h.idx THEN h.good + 1 ELSE h.good
  <2>1. PICK g : /\ g = IF f.kind = "chunk" /\ h.good = h.idx THEN h.good + 1 ELSE h.good
                 /\ Becomes(k, [h EXCEPT !.idx = @ + 1, !.buf = @ \o f.bytes, !.good = g])
    BY <1>1, <1>2, <1>4 DEF TakeBuffer
  <2>2. e = [h EXCEPT !.idx = @ + 1, !.buf = @ \o f.bytes, !.good = g]
    BY <1>1, <1>2, <2>1, Become
  <2> QED BY <1>2, <2>1, <2>2 DEF Handlers
<1>6. Uploading(k) /\ Uploading(k)'
  BY <1>1, <1>2, <1>5 DEF Uploading
<1>6a. e.idx = h.idx + 1
  BY <1>5, Zenon
<1>7. h.buffer = b /\ h.count = Count(h.size, h.buffer) /\ h.good <= h.idx
  BY <1>1, <1>6 DEF Stores, Follows
<1>8. Unbroken(k)' <=> f.kind = "chunk" /\ Unbroken(k)
  BY <1>1, <1>4, <1>5, <1>6, <1>7 DEF Unbroken
<1>9. Requested(k)'
  BY <1>2, RequestedKept DEF Stores
<1>10. ASSUME Unbroken(k)', NEW x \in 0..n, Buffers(k, x)'
       PROVE  Buffers(k, x + 1) /\ x + 1 \in 1..n + 1
  <2>1. \A y \in 0..Len(toServer'[k]) : Buffers(k, y)' => Buffers(k, y + 1)
    BY <1>2, <1>8, <1>10, BuffersShrunk
  <2> QED BY <1>1, <1>3, <1>10, <2>1
<1>11. Follows(k)'
  <2>1. ASSUME Unbroken(k)', NEW x \in 1..n, Buffers(k, x)'
        PROVE  /\ e.idx + x - 1 < e.count
               /\ toServer'[k][x].bytes = Portion(k, e.idx + x - 1, e.size)
    <3>1. x \in 0..n
      BY <1>3
    <3>2. Buffers(k, x + 1) /\ x + 1 \in 1..Len(toServer[k])
      BY <1>3, <1>10, <2>1, <3>1
    <3>3. /\ h.idx + (x + 1) - 1 < h.count
          /\ toServer[k][x + 1].bytes = Portion(k, h.idx + (x + 1) - 1, h.size)
      BY <1>1, <1>8, <2>1, <3>2 DEF Stores, Follows
    <3>4. h.idx + (x + 1) - 1 = e.idx + x - 1
      BY <1>3, <1>4, <1>5
    <3> QED BY <1>3, <1>5, <3>3, <3>4
  <2>2. e.buffer = b /\ e.count = Count(e.size, e.buffer) /\ e.good <= e.idx
    BY <1>4, <1>5, <1>7
  <2> QED BY <1>1, <2>1, <2>2 DEF Follows
<1>12. Agrees(k)'
  <2> SUFFICES ASSUME Served(k)'
               PROVE  /\ client[k].size = e.size /\ client[k].count = e.count
                      /\ Unbroken(k)' /\ Buffers(k, Len(toServer[k]))' => client[k].idx = e.idx + n
    BY <1>1, <1>2 DEF Agrees
  <2>1. Served(k)
    BY <1>2, <1>6 DEF Served
  <2>2. client[k].size = h.size /\ client[k].count = h.count
    BY <1>1, <2>1 DEF Stores, Agrees
  <2>3. ASSUME Unbroken(k)', Buffers(k, Len(toServer[k]))' PROVE client[k].idx = e.idx + n
    <3>1. Buffers(k, n)' /\ n \in 0..n
      BY <1>1, <1>3, <2>3 DEF Buffers
    <3>2. Buffers(k, n + 1)
      BY <1>10, <2>3, <3>1
    <3>3. client[k].idx = h.idx + (n + 1)
      BY <1>1, <1>3, <1>8, <2>1, <2>3, <3>2 DEF Stores, Agrees
    <3>4. e.idx + n = h.idx + (n + 1)
      <4>1. n \in Nat /\ h.idx \in Nat /\ e.idx = h.idx + 1
        BY <1>3, <1>4, <1>6a, Zenon
      <4> QED BY ONLY <4>1
    <3> QED BY <3>3, <3>4
  <2> QED BY <1>5, <2>2, <2>3
<1>13. Stored(k)'
  <2> SUFFICES ASSUME ~disturbed[k]
               PROVE  LET g == Lesser(e.good * b, e.size) IN
                      /\ Len(disk) = e.pos /\ e.pos + Len(e.buf) >= g
                      /\ Unbroken(k)' => e.pos + Len(e.buf) = g
                      /\ \A i \in 1..g : IF i <= e.pos THEN disk[i] = <<k, i>>
                                         ELSE e.buf[i - e.pos] = <<k, i>>
    BY <1>1, <1>2 DEF Stored
  <2>1. PICK g, p, m : g = Lesser(h.good * b, h.size) /\ p = h.pos /\ m = Len(h.buf)
    OBVIOUS
  <2>2. /\ Len(disk) = p /\ p + m >= g /\ (Unbroken(k) => p + m = g)
        /\ \A i \in 1..g : IF i <= p THEN disk[i] = <<k, i>> ELSE h.buf[i - p] = <<k, i>>
    BY <1>1, <1>6, <2>1 DEF Stores, Stored
  <2>3. p \in Nat /\ m \in Nat /\ g \in Nat
    <3>1. h.good * b \in Nat
      BY <1>2, <1>4
    <3> QED BY <1>4, <2>1, <3>1 DEF Lesser
  <2>4. PICK l : l = Len(f.bytes)
    OBVIOUS
  <2>5. /\ l \in Nat /\ Len(e.buf) = m + l /\ \A i \in 1..m : e.buf[i] = h.buf[i]
        /\ \A i \in 1..l : e.buf[m + i] = f.bytes[i]
    <3>1. /\ l \in Nat /\ Len(h.buf \o f.bytes) = m + l
          /\ \A i \in 1..m : (h.buf \o f.bytes)[i] = h.buf[i]
          /\ \A i \in 1..l : (h.buf \o f.bytes)[m + i] = f.bytes[i]
      <4>1. PICK w : w = h.buf \o f.bytes
        OBVIOUS
      <4>2. /\ Len(w) = m + l
            /\ \A i \in 1..m + l : w[i] = IF i <= m THEN h.buf[i] ELSE f.bytes[i - m]
        <5>1. PICK u, v : u = h.buf /\ v = f.bytes
          OBVIOUS
        <5>2. u \in Seq(Byte) /\ v \in Seq(Byte) /\ m = Len(u) /\ l = Len(v) /\ w = u \o v
          BY <1>2, <1>4, <2>1, <2>4, <4>1, <5>1, Zenon
        <5>3. /\ Len(w) = m + l
              /\ \A i \in 1..m + l : w[i] = IF i <= m THEN u[i] ELSE v[i - m]
          BY ONLY <5>2, ConcatProperties
        <5> QED BY <5>1, <5>3
      <4>3. m \in Nat /\ l \in Nat
        BY <1>2, <1>4, <2>1, <2>4
      <4>4. \A i \in 1..m : i \in 1..m + l /\ i <= m
        BY <4>3
      <4>5. \A i \in 1..l : m + i \in 1..m + l /\ ~(m + i <= m) /\ (m + i) - m = i
        BY <4>3
      <4>6. \A i \in 1..l : w[m + i] = f.bytes[i]
        BY <4>2, <4>5
      <4> QED BY <4>1, <4>2, <4>3, <4>4, <4>6
    <3> QED BY <1>5, <3>1
  \* What was stored still is.
  <2>6. ASSUME NEW i \in 1..g PROVE IF i <= p THEN disk[i] = <<k, i>> ELSE e.buf[i - p] = <<k, i>>
    <3>1. ~(i <= p) => i - p \in 1..m
      BY <2>2, <2>3
    <3> QED BY <2>2, <2>5, <3>1
  <2>7. CASE Unbroken(k)'
    <3>1. f.kind = "chunk" /\ Unbroken(k) /\ h.good = h.idx /\ e.good = h.idx + 1
      BY <1>1, <1>5, <1>8, <2>7 DEF Unbroken
    <3>2. Buffers(k, 1) /\ 1 \in 1..Len(toServer[k])
      <4>1. \A y \in 1..1 : y = 1
        OBVIOUS
      <4> QED BY <1>1, <1>3, <3>1, <4>1 DEF Buffers
    <3>3. h.idx + 1 - 1 < h.count /\ f.bytes = Portion(k, h.idx + 1 - 1, h.size)
      BY <1>1, <3>1, <3>2 DEF Stores, Follows
    <3>4. h.idx + 1 - 1 = h.idx
      BY <1>4
    <3>5. /\ \A y \in 1..l : f.bytes[y] = <<k, h.idx * b + y>>
          /\ Lesser(h.idx * b, h.size) = h.idx * b /\ Lesser((h.idx + 1) * b, h.size) = h.idx * b + l
      <4>1. f.bytes = Portion(k, h.idx, h.size) /\ h.idx < Count(h.size, b)
        BY <1>7, <3>3, <3>4
      <4>2. PICK z : z = ClientLength(h.idx, Count(h.size, b), h.size, b)
        OBVIOUS
      <4>3. /\ Len(Portion(k, h.idx, h.size)) = z
            /\ \A y \in 1..z : Portion(k, h.idx, h.size)[y] = <<k, h.idx * b + y>>
            /\ Lesser(h.idx * b, h.size) = h.idx * b
            /\ Lesser((h.idx + 1) * b, h.size) = h.idx * b + z
        <5>1. /\ h.size \in Nat /\ h.idx \in Nat /\ b = ClientBuffer[k] /\ ClientBuffer[k] \in Nat \ {0}
              /\ h.idx < Count(h.size, ClientBuffer[k])
          BY <1>1, <1>2, <1>4, <4>1, Zenon
        <5>2. LET t == ClientBuffer[k]
                  r == ClientLength(h.idx, Count(h.size, t), h.size, t)
              IN  /\ Len(Portion(k, h.idx, h.size)) = r
                  /\ \A y \in 1..r : Portion(k, h.idx, h.size)[y] = <<k, h.idx * t + y>>
                  /\ Lesser(h.idx * t, h.size) = h.idx * t
                  /\ Lesser((h.idx + 1) * t, h.size) = h.idx * t + r
          BY <5>1, PortionIs
        <5> QED BY <4>2, <5>1, <5>2, Zenon
      <4> QED BY <2>4, <4>1, <4>3
    <3>6. g = h.idx * b /\ p + m = g /\ Lesser(e.good * b, e.size) = g + l
      BY <1>5, <2>1, <2>2, <3>1, <3>5
    <3>7. p + m = g
      BY <3>6
    <3>8. ASSUME NEW i \in 1..g + l PROVE IF i <= p THEN disk[i] = <<k, i>> ELSE e.buf[i - p] = <<k, i>>
      <4>1. CASE i \in 1..g
        BY <2>6, <4>1
      <4>2. CASE i \notin 1..g
        <5>1. i - g \in 1..l /\ g + (i - g) = i /\ m + (i - g) = i - p /\ ~(i <= p)
          <6>1. i \in Nat /\ ~(i <= g) /\ l \in Nat
            BY <2>3, <2>5, <4>2
          <6> QED BY <2>3, <3>7, <6>1
        <5>2. f.bytes[i - g] = <<k, i>>
          BY <3>5, <3>6, <5>1
        <5> QED BY <2>5, <5>1, <5>2
      <4> QED BY <4>1, <4>2
    <3>9. p + (m + l) = g + l /\ g + l \in Nat /\ p + (m + l) >= g + l
      BY <2>3, <2>5, <3>7
    <3>10. PICK x : x = Lesser(e.good * b, e.size)
      OBVIOUS
    <3>11. x = g + l
      BY <3>6, <3>10
    <3>12. /\ Len(disk) = e.pos /\ e.pos + Len(e.buf) >= x /\ e.pos + Len(e.buf) = x
           /\ \A i \in 1..x : IF i <= e.pos THEN disk[i] = <<k, i>> ELSE e.buf[i - e.pos] = <<k, i>>
      <4>1. e.pos = p /\ Len(disk) = p /\ Len(e.buf) = m + l
        BY <1>5, <2>1, <2>2, <2>5, Zenon
      <4>2. e.pos + Len(e.buf) = x /\ x >= x
        BY <3>9, <3>11, <4>1
      <4> QED BY <3>8, <3>9, <3>11, <4>1, <4>2
    <3> QED BY <3>10, <3>12
  <2>8. CASE ~Unbroken(k)'
    <3>1. e.good = h.good
      BY <1>1, <1>5, <1>6, <1>8, <2>8 DEF Unbroken
    <3>2. Lesser(e.good * b, e.size) = g
      BY <1>5, <2>1, <3>1
    <3>3. p + (m + l) >= g
      BY <2>2, <2>3, <2>5
    <3> QED BY <1>5, <2>1, <2>2, <2>5, <2>6, <2>8, <3>2, <3>3
  <2> QED BY <2>7, <2>8
<1> QED BY <1>9, <1>11, <1>12, <1>13 DEF Stores

LEMMA SameStores ==
  ASSUME NEW j \in Sessions, Stores(j),
         /\ toServer'[j] = toServer[j] /\ toClient'[j] = toClient[j]
         /\ client'[j] = client[j] /\ handler'[j] = handler[j],
         \/ disk' = disk /\ disturbed'[j] = disturbed[j]
         \/ disturbed'[j] = (disturbed[j] \/ handler[j].doing \in {"upload", "download"})
  PROVE  Stores(j)'
<1>1. (Uploading(j)' <=> Uploading(j)) /\ (Unbroken(j)' <=> Unbroken(j)) /\ (Served(j)' <=> Served(j))
  BY DEF Uploading, Unbroken, Served
<1>2. Requested(j)' /\ Follows(j)'
  BY FollowsLeft DEF Stores, Requested
<1>3. Agrees(j)'
  <2>1. Buffers(j, Len(toServer[j]))' <=> Buffers(j, Len(toServer[j]))
    BY DEF Buffers
  <2> QED BY <1>1, <2>1 DEF Stores, Agrees
<1>4. Stored(j)'
  <2>1. CASE disk' = disk /\ disturbed'[j] = disturbed[j]
    BY <2>1, StoredLeft DEF Stores
  <2>2. CASE disturbed'[j] = (disturbed[j] \/ handler[j].doing \in {"upload", "download"})
    <3>1. ~(Uploading(j)' /\ ~disturbed'[j])
      BY <1>1, <2>2 DEF Uploading
    <3> QED BY <3>1 DEF Stored
  <2> QED BY <2>1, <2>2
<1> QED BY <1>2, <1>3, <1>4 DEF Stores

LEMMA OthersStore ==
  ASSUME ConvInv, NEW k \in Sessions, NEW j \in Sessions \ {k}, Stores(j),
         \/ StartDownload(k) \/ StartUpload(k) \/ ReadReply(k) \/ Download(k) \/ Upload(k)
         \/ Finish(k) \/ Interrupt(k) \/ Tear(k) \/ Exit(k) \/ ServerStep(k) \/ Flush(k)
  PROVE  Stores(j)'
<1>1. TypeOK
  BY Cases
<1>2. toServer'[j] = toServer[j] /\ toClient'[j] = toClient[j] /\ client'[j] = client[j]
  BY <1>1, OthersSame DEF Same
<1>3. ASSUME NEW h, Becomes(k, h) PROVE handler'[j] = handler[j]
  BY <1>1, <1>3 DEF Becomes, TypeOK
<1>4. ASSUME disk' = disk, disturbed'[j] = disturbed[j], handler'[j] = handler[j] PROVE Stores(j)'
  BY <1>2, <1>4, SameStores
<1>5. ASSUME disturbed'[j] = (disturbed[j] \/ handler[j].doing \in {"upload", "download"}),
             handler'[j] = handler[j]
      PROVE  Stores(j)'
  BY <1>2, <1>5, SameStores
<1>6. CASE \/ StartDownload(k) \/ StartUpload(k) \/ ReadReply(k) \/ Download(k) \/ Upload(k)
           \/ Finish(k) \/ Interrupt(k) \/ Tear(k) \/ Exit(k) \/ Refuse(k)
  BY <1>4, <1>6 DEF StartDownload, StartUpload, ReadReply, Download, Upload, Finish, Interrupt, Tear,
     Exit, Refuse
<1>7. CASE SendBuffer(k) \/ CloseDownload(k) \/ TakeBuffer(k) \/ EndSession(k)
  BY <1>3, <1>4, <1>7 DEF SendBuffer, CloseDownload, TakeBuffer, EndSession
<1>8. CASE OpenDownload(k)
  BY <1>1, <1>3, <1>4, <1>8 DEF OpenDownload, TypeOK
<1>9. CASE OpenUpload(k)
  BY <1>3, <1>5, <1>9 DEF OpenUpload
<1>10. Disturbs(k) => disturbed'[j] = (disturbed[j] \/ handler[j].doing \in {"upload", "download"})
  BY DEF Disturbs
<1>11. CASE Flush(k)
  BY <1>3, <1>5, <1>10, <1>11 DEF Flush
<1>12. CASE CloseUpload(k)
  <2>1. CASE handler[k].buf # <<>>
    BY <1>3, <1>5, <1>10, <1>12, <2>1 DEF CloseUpload
  <2>2. CASE handler[k].buf = <<>>
    BY <1>3, <1>4, <1>12, <2>2 DEF CloseUpload, Written
  <2> QED BY <2>1, <2>2
<1> QED BY <1>6, <1>7, <1>8, <1>9, <1>11, <1>12 DEF ServerStep

LEMMA StoreInit ==
  Init => StoreInv
<1> SUFFICES ASSUME Init PROVE StoreInv
  OBVIOUS
<1>1. ASSUME NEW k \in Sessions PROVE Stores(k)
  <2>1. toServer[k] = <<>> /\ Len(toServer[k]) = 0 /\ handler[k].doing = "none"
    BY DEF Init, NoHandler
  <2>2. Requested(k)
    BY <2>1 DEF Requested
  <2> QED BY <2>1, <2>2 DEF Stores, Follows, Agrees, Stored, Uploading, Unbroken, Served
<1> QED BY <1>1, ConvInit DEF StoreInv

LEMMA StoreStep ==
  StoreInv /\ [Next]_vars => StoreInv'
<1> SUFFICES ASSUME StoreInv, [Next]_vars PROVE StoreInv'
  OBVIOUS
<1>1. ConvInv /\ ConvInv'
  BY ConvStep DEF StoreInv
<1>2. CASE UNCHANGED vars
  <2>1. ASSUME NEW k \in Sessions PROVE Stores(k)'
    BY <1>2, <2>1, SameStores DEF vars, StoreInv
  <2> QED BY <1>1, <2>1 DEF StoreInv
<1>3. ASSUME NEW k \in Sessions,
             \/ StartDownload(k) \/ StartUpload(k) \/ ReadReply(k) \/ Download(k) \/ Upload(k)
             \/ Finish(k) \/ Interrupt(k) \/ Tear(k) \/ Exit(k) \/ ServerStep(k) \/ Flush(k)
      PROVE  StoreInv'
  <2>1. Stores(k)
    BY DEF StoreInv
  <2>2. Stores(k)'
    BY <1>1, <1>3, <2>1, StartStores, QuietStores, UploadStores, InterruptStores, ClosedStores,
       OpenUploadStores, TakeBufferStores, FlushStores DEF ServerStep
  <2>3. ASSUME NEW j \in Sessions \ {k} PROVE Stores(j)'
    BY <1>1, <1>3, OthersStore DEF StoreInv
  <2> QED BY <1>1, <2>2, <2>3 DEF StoreInv
<1> QED BY <1>2, <1>3 DEF Next

\* The file when the handler of an upload closes it.
ClosedWhole(k) ==
  LET h == handler[k]
      n == Lesser(h.good * h.buffer, h.size)
  IN
  h.doing = "upload" /\ handler'[k].doing = "none" /\ ~disturbed[k]
    => /\ Len(disk') >= n /\ SubSeq(disk', 1, n) = Source(k, n)
       /\ h.good = h.count => disk' = Source(k, h.size)

LEMMA StartOfSource ==
  ASSUME NEW k \in Sessions, NEW n \in Nat, NEW d \in Seq(Byte), n <= Len(d),
         \A i \in 1..n : d[i] = <<k, i>>
  PROVE  SubSeq(d, 1, n) = Source(k, n) /\ (Len(d) = n => d = Source(k, n))
<1>1. PICK s, t : s = SubSeq(d, 1, n) /\ t = Source(k, n)
  OBVIOUS
<1>2. t = [i \in 1..n |-> <<k, i>>]
  BY <1>1 DEF Source
<1>3. t \in Seq(Byte) /\ Len(t) = n /\ \A i \in 1..n : t[i] = <<k, i>>
  BY <1>1, <1>2, BytesOfSource
<1>4. s \in Seq(Byte) /\ Len(s) = n /\ \A i \in 1..n : s[i] = d[i]
  <2>1. /\ SubSeq(d, 1, n) \in Seq(Byte) /\ Len(SubSeq(d, 1, n)) = n
        /\ \A i \in 1..n : SubSeq(d, 1, n)[i] = d[i]
    OBVIOUS
  <2> QED BY <1>1, <2>1
<1>5. s = t
  <2>1. Len(s) = Len(t) /\ \A i \in 1..Len(s) : s[i] = t[i]
    BY <1>3, <1>4, Zenon
  <2> QED BY ONLY <1>3, <1>4, <2>1, SeqEqual
<1>6. ASSUME Len(d) = n PROVE d = t
  <2>1. Len(d) = Len(t) /\ \A i \in 1..Len(d) : d[i] = t[i]
    BY <1>3, <1>6, Zenon
  <2> QED BY <1>3, <2>1, SeqEqual
<1> QED BY <1>1, <1>5, <1>6

LEMMA CloseUploadWhole ==
  ASSUME ConvInv, NEW k \in Sessions, Stores(k), CloseUpload(k), ~disturbed[k]
  PROVE  ClosedWhole(k)
<1>1. PICK h, b, g, p, m : /\ h = handler[k] /\ b = ClientBuffer[k] /\ g = Lesser(h.good * b, h.size)
                           /\ p = h.pos /\ m = Len(h.buf)
  OBVIOUS
<1>2. /\ TypeInv /\ h \in Handlers /\ h.doing = "upload" /\ b \in Nat \ {0} /\ disk \in Seq(Byte)
      /\ h.idx <= h.count /\ disk' = Written(p, h.buf)
  <2>1. /\ TypeInv /\ TypeOK /\ h.doing = "upload" /\ b \in Nat \ {0}
        /\ disk' = Written(p, h.buf)
    BY <1>1, Cases DEF CloseUpload
  <2>2. h \in Handlers /\ disk \in Seq(Byte)
    BY <1>1, <2>1 DEF TypeOK
  <2>3. h.idx <= h.count
    <3>1. PICK w : w = Wanted(k)
      OBVIOUS
    <3>2. w \in Nat /\ h.idx \in Nat /\ h.count \in Nat /\ w = h.count - h.idx
      BY <1>1, <2>1, <3>1, Cases
    <3> QED BY <3>2
  <2> QED BY <2>1, <2>2, <2>3
<1>3. h.idx \in Nat /\ h.good \in Nat /\ h.size \in Nat /\ h.buf \in Seq(Byte) /\ p \in Nat /\ m \in Nat
  BY <1>1, <1>2 DEF Handlers
<1>4. Uploading(k) /\ h.buffer = b /\ h.count = Count(h.size, b) /\ h.good <= h.idx
  BY <1>1, <1>2 DEF Stores, Follows, Uploading
<1>5. /\ Len(disk) = p /\ p + m >= g /\ (Unbroken(k) => p + m = g)
      /\ \A i \in 1..g : IF i <= p THEN disk[i] = <<k, i>> ELSE h.buf[i - p] = <<k, i>>
  BY <1>1, <1>4 DEF Stores, Stored
<1>6. g \in Nat
  <2>1. h.good * b \in Nat
    BY <1>2, <1>3
  <2> QED BY <1>1, <1>3, <2>1 DEF Lesser
<1>7. PICK d : d = disk'
  OBVIOUS
<1>8. /\ d \in Seq(Byte) /\ Len(d) = p + m /\ \A i \in 1..p : d[i] = disk[i]
      /\ \A i \in 1..m : d[p + i] = h.buf[i]
  <2>1. LET x == Written(Len(disk), h.buf) IN
        /\ x \in Seq(Byte) /\ Len(x) = Len(disk) + Len(h.buf)
        /\ \A i \in 1..Len(disk) : x[i] = disk[i]
        /\ \A i \in 1..Len(h.buf) : x[Len(disk) + i] = h.buf[i]
    BY <1>2, <1>3, WrittenEnd
  <2> QED BY <1>1, <1>2, <1>5, <1>7, <2>1
<1>9. ASSUME NEW i \in 1..g PROVE d[i] = <<k, i>>
  <2>1. CASE i <= p
    <3>1. i \in 1..p
      BY <1>3, <1>6, <2>1
    <3> QED BY <1>5, <1>8, <2>1, <3>1
  <2>2. CASE ~(i <= p)
    <3>1. i - p \in 1..m /\ p + (i - p) = i
      BY <1>3, <1>5, <1>6, <2>2
    <3> QED BY <1>5, <1>8, <2>2, <3>1
  <2> QED BY <2>1, <2>2
<1>10. Len(d) >= g /\ SubSeq(d, 1, g) = Source(k, g) /\ (Len(d) = g => d = Source(k, g))
  BY <1>5, <1>6, <1>8, <1>9, StartOfSource
<1>11. h.good = h.count => d = Source(k, h.size)
  <2> SUFFICES ASSUME h.good = h.count PROVE d = Source(k, h.size)
    OBVIOUS
  <2>1. h.good = h.idx
    BY <1>2, <1>3, <1>4
  <2>2. p + m = g
    BY <1>1, <1>4, <1>5, <2>1 DEF Unbroken
  <2>3. g = h.size
    BY <1>1, <1>2, <1>3, <1>4, AllPlaces
  <2> QED BY <1>8, <1>10, <2>2, <2>3
<1> QED BY <1>1, <1>4, <1>7, <1>10, <1>11 DEF ClosedWhole

LEMMA ClosesWhole ==
  StoreInv /\ [Next]_vars => [\A k \in Sessions : ClosedWhole(k)]_vars
<1> SUFFICES ASSUME StoreInv, NEW k \in Sessions, NEW j \in Sessions,
                    \/ StartDownload(k) \/ StartUpload(k) \/ ReadReply(k) \/ Download(k) \/ Upload(k)
                    \/ Finish(k) \/ Interrupt(k) \/ Tear(k) \/ Exit(k) \/ ServerStep(k) \/ Flush(k),
                    handler[j].doing = "upload", handler'[j].doing = "none", ~disturbed[j]
             PROVE  ClosedWhole(j)
  BY DEF Next, ClosedWhole
<1>1. ConvInv /\ TypeOK /\ Stores(j) /\ handler[j] \in Handlers /\ handler[k] \in Handlers
  BY Cases DEF StoreInv, TypeOK
<1>2. handler'[j] # handler[j]
  OBVIOUS
<1>3. j = k
  <2>1. ASSUME NEW h, Becomes(k, h), j # k PROVE FALSE
    BY <1>1, <1>2, <2>1 DEF Becomes, TypeOK
  <2>2. UNCHANGED handler \/ \E h : Becomes(k, h)
    BY DEF StartDownload, StartUpload, ReadReply, Download, Upload, Finish, Interrupt, Tear, Exit,
       Flush, ServerStep, Refuse, OpenDownload, OpenUpload, SendBuffer, CloseDownload, TakeBuffer,
       CloseUpload, EndSession
  <2> QED BY <1>2, <2>1, <2>2
<1>4. ~Flush(k)
  <2> SUFFICES ASSUME Flush(k) PROVE FALSE
    OBVIOUS
  <2>1. PICK p, b : Becomes(k, [handler[k] EXCEPT !.pos = p, !.buf = b])
    BY DEF Flush
  <2>2. handler'[k] = [handler[k] EXCEPT !.pos = p, !.buf = b]
    BY <1>1, <2>1, Become
  <2> QED BY <1>1, <1>3, <2>2 DEF Handlers
<1>5. ~TakeBuffer(k)
  <2> SUFFICES ASSUME TakeBuffer(k) PROVE FALSE
    OBVIOUS
  <2>1. PICK i, b, g : Becomes(k, [handler[k] EXCEPT !.idx = i, !.buf = b, !.good = g])
    BY DEF TakeBuffer
  <2>2. handler'[k] = [handler[k] EXCEPT !.idx = i, !.buf = b, !.good = g]
    BY <1>1, <2>1, Become
  <2> QED BY <1>1, <1>3, <2>2 DEF Handlers
<1>6. CloseUpload(k)
  BY <1>2, <1>3, <1>4, <1>5 DEF StartDownload, StartUpload, ReadReply, Download, Upload, Finish,
     Interrupt, Tear, Exit, ServerStep, Refuse, OpenDownload, OpenUpload, SendBuffer, CloseDownload,
     EndSession
<1> QED BY <1>1, <1>3, <1>6, CloseUploadWhole

\* Whenever the server closes an upload that no other session has disturbed, the file has
\* every buffer that was received, in its place, and is the client's file when all of them
\* were: for every size of file, every length of buffer, any number of sessions, and
\* wherever the stream was flushed, the client interrupted or the connection lost.
THEOREM UploadIsStored == Spec => UploadStored
<1> DEFINE Whole == \A k \in Sessions : ClosedWhole(k)
<1>1. StoreInv /\ [Next]_vars => StoreInv' /\ [Whole]_vars
  BY StoreStep, ClosesWhole
<1>2. UploadStored <=> [][Whole]_vars
  BY DEF UploadStored, ClosedWhole
<1> HIDE DEF Whole
<1> QED BY <1>1, <1>2, StoreInit, PTL DEF Spec

=============================================================================

-------------------------- MODULE ConversionsProofs --------------------------
(***************************************************************************)
(* Proofs about what the server converts (Conversions), for any characters *)
(* and any lengths: strings with variables and colours (Markup), and what  *)
(* both programs write byte by byte (Bytes).                               *)
(***************************************************************************)
EXTENDS Conversions, TextProofs

-----------------------------------------------------------------------------
(* EVSStrResolver.                                                         *)

\* D has what the resolver puts into strings, and the characters of the values of variables.
MarkupAlphabet(D) ==
  /\ {"<", ">", ":", "$", "=", "color", "none"} \subseteq D
  /\ \A v \in DOMAIN ServerEnvironment : ServerEnvironment[v] \in Seq(D)

Resolution(o, v, i, f) == [out |-> o, var |-> v, inVar |-> i, failed |-> f]
Resolutions(D) == [out : Seq(D), var : Seq(D), inVar : BOOLEAN, failed : BOOLEAN]
ResolutionStep(D, b) == [x \in Resolutions(D) \X D |-> M!Resolves(x[1], x[2], b)]

\* What stands for a variable.
Replacement(v, b) == IF M!IsEmpty(v) THEN M!Placeholder(v) ELSE M!VarText(v, b)

LEMMA ResolutionIs ==
  ASSUME NEW D, NEW r \in Resolutions(D)
  PROVE  \E o \in Seq(D), v \in Seq(D), i \in BOOLEAN, f \in BOOLEAN : r = Resolution(o, v, i, f)
<1>1. r = Resolution(r.out, r.var, r.inVar, r.failed)
  BY DEF Resolutions, Resolution
<1>2. r.out \in Seq(D) /\ r.var \in Seq(D) /\ r.inVar \in BOOLEAN /\ r.failed \in BOOLEAN
  BY DEF Resolutions
<1> QED BY <1>1, <1>2, Zenon

LEMMA ResolutionTyped ==
  ASSUME NEW D, NEW o \in Seq(D), NEW v \in Seq(D), NEW i \in BOOLEAN, NEW f \in BOOLEAN
  PROVE  Resolution(o, v, i, f) \in Resolutions(D)
  BY DEF Resolutions, Resolution

LEMMA ReplacementType ==
  ASSUME NEW D, MarkupAlphabet(D), NEW v \in Seq(D), NEW b
  PROVE  Replacement(v, b) \in Seq(D)
<1> DEFINE a == <<"<">>
           z == <<">">>
           n == <<"none">>
           p == <<"<", ":", ">">>
           s == <<"<", "$", ">">>
           e == <<"<", ">">>
<1>1. a \in Seq(D) /\ z \in Seq(D) /\ n \in Seq(D) /\ p \in Seq(D) /\ s \in Seq(D) /\ e \in Seq(D)
  BY DEF MarkupAlphabet
<1>2. M!Placeholder(v) = p \/ M!Placeholder(v) = s \/ M!Placeholder(v) = e
  BY Zenon DEF M!Placeholder
<1>3. \/ M!VarText(v, b) = n \/ M!VarText(v, b) = a \o v \o z
      \/ v \in DOMAIN ServerEnvironment /\ M!VarText(v, b) = ServerEnvironment[v]
  BY Zenon DEF M!VarText
<1> HIDE DEF a, z, n, p, s, e
<1>4. a \o v \o z \in Seq(D)
  BY <1>1
<1>5. v \in DOMAIN ServerEnvironment => ServerEnvironment[v] \in Seq(D)
  BY DEF MarkupAlphabet
<1> QED BY <1>1, <1>2, <1>3, <1>4, <1>5, Zenon DEF Replacement

\* What processNextChar does with a character.
Moved(o, v, i, f, c, b) ==
  IF f THEN Resolution(o, v, i, f)
  ELSE IF c = "<" THEN IF i /\ b THEN Resolution(o, v, i, TRUE) ELSE Resolution(o, v, TRUE, f)
  ELSE IF c # ">" THEN IF i THEN Resolution(o, Append(v, c), i, f) ELSE Resolution(Append(o, c), v, i, f)
  ELSE IF b /\ (~i \/ M!Unresolvable(v)) THEN Resolution(o, v, i, TRUE)
  ELSE Resolution(o \o Replacement(v, b), <<>>, FALSE, f)

LEMMA ResolutionMoves ==
  ASSUME NEW o, NEW v, NEW i, NEW f, NEW c, NEW b
  PROVE  M!Resolves(Resolution(o, v, i, f), c, b) = Moved(o, v, i, f, c, b)
<1> DEFINE r == Resolution(o, v, i, f)
           yes == TRUE
           no == FALSE
           e == <<>>
           w == Append(v, c)
           q == Append(o, c)
           t == o \o Replacement(v, b)
           Failing(x) == [x EXCEPT !.failed = yes]
           Opening(x) == [x EXCEPT !.inVar = yes]
           Closing(x) == [x EXCEPT !.inVar = no, !.var = e,
                           !.out = @ \o IF M!IsEmpty(x.var) THEN M!Placeholder(x.var) ELSE M!VarText(x.var, b)]
<1>1. r.out = o /\ r.var = v /\ r.inVar = i /\ r.failed = f
  BY DEF Resolution
<1>2. M!Resolves(r, c, b) =
        IF r.failed THEN r
        ELSE IF c = "<" THEN IF r.inVar /\ b THEN Failing(r) ELSE Opening(r)
        ELSE IF c # ">" THEN IF r.inVar THEN [r EXCEPT !.var = Append(@, c)] ELSE [r EXCEPT !.out = Append(@, c)]
        ELSE IF b /\ (~r.inVar \/ M!Unresolvable(r.var)) THEN Failing(r) ELSE Closing(r)
  BY Zenon DEF M!Resolves
<1> HIDE DEF yes, no, e
<1>3. Failing(r) = Resolution(o, v, i, yes)
  BY DEF Resolution
<1>4. Opening(r) = Resolution(o, v, yes, f)
  BY DEF Resolution
<1>5. [r EXCEPT !.var = Append(@, c)] = Resolution(o, w, i, f)
  BY DEF Resolution
<1>6. [r EXCEPT !.out = Append(@, c)] = Resolution(q, v, i, f)
  BY DEF Resolution
<1>7. Closing(r) = Resolution(t, e, no, f)
  <2>1. [r EXCEPT !.inVar = no] = Resolution(o, v, no, f)
    BY DEF Resolution
  <2>2. [Resolution(o, v, no, f) EXCEPT !.var = e] = Resolution(o, e, no, f)
    BY DEF Resolution
  <2> HIDE DEF t
  <2>3. [Resolution(o, e, no, f) EXCEPT !.out = t] = Resolution(t, e, no, f)
    BY DEF Resolution
  <2>4. Resolution(o, e, no, f).out = o
    BY DEF Resolution
  <2>5. Closing(r) = [r EXCEPT !.inVar = no, !.var = e, !.out = @ \o Replacement(r.var, b)]
    BY Zenon DEF Replacement
  <2> HIDE DEF r, Closing
  <2> QED BY <1>1, <2>1, <2>2, <2>3, <2>4, <2>5, Zenon DEF t
<1> HIDE DEF r, Failing, Opening, Closing
<1> QED BY <1>1, <1>2, <1>3, <1>4, <1>5, <1>6, <1>7, Zenon DEF Moved, r, w, q, t, yes, no, e

LEMMA ResolutionType ==
  ASSUME NEW D, MarkupAlphabet(D), NEW r \in Resolutions(D), NEW c \in D, NEW b
  PROVE  M!Resolves(r, c, b) \in Resolutions(D)
<1>1. PICK o \in Seq(D), v \in Seq(D), i \in BOOLEAN, f \in BOOLEAN : r = Resolution(o, v, i, f)
  BY ResolutionIs
<1> DEFINE t == o \o Replacement(v, b)
           w == Append(v, c)
           q == Append(o, c)
           e == <<>>
<1>2. t \in Seq(D) /\ w \in Seq(D) /\ q \in Seq(D) /\ e \in Seq(D)
  <2>1. Replacement(v, b) \in Seq(D)
    BY ReplacementType
  <2> QED BY <2>1
<1>3. M!Resolves(Resolution(o, v, i, f), c, b) = Moved(o, v, i, f, c, b)
  BY ResolutionMoves
<1>4. /\ Resolution(o, v, i, f) \in Resolutions(D) /\ Resolution(o, v, i, TRUE) \in Resolutions(D)
      /\ Resolution(o, v, TRUE, f) \in Resolutions(D)
      /\ Resolution(o, w, i, f) \in Resolutions(D) /\ Resolution(q, v, i, f) \in Resolutions(D)
      /\ Resolution(t, e, FALSE, f) \in Resolutions(D)
  <2> HIDE DEF t, w, q, e
  <2> QED BY <1>2, ResolutionTyped
<1> QED BY <1>1, <1>3, <1>4, Zenon DEF Moved, t, w, q, e

\* Outside of a variable, inside of one, and when a string has been refused.
Copying(o)     == Resolution(o, <<>>, FALSE, FALSE)
Naming(o, v)   == Resolution(o, v, TRUE, FALSE)
Refusing(o, v) == Resolution(o, v, TRUE, TRUE)
NewResolution  == Copying(<<>>)

\* What the resolver does with a character in each of these.
ResolutionActs(o, v, c, b) ==
  /\ c = "<" => M!Resolves(Copying(o), c, b) = Naming(o, <<>>)
  /\ c \notin {"<", ">"} => M!Resolves(Copying(o), c, b) = Copying(Append(o, c))
  /\ c \notin {"<", ">"} => M!Resolves(Naming(o, v), c, b) = Naming(o, Append(v, c))
  /\ c = ">" /\ b /\ M!Unresolvable(v) => M!Resolves(Naming(o, v), c, b) = Refusing(o, v)
  /\ c = ">" /\ ~(b /\ M!Unresolvable(v)) =>
       M!Resolves(Naming(o, v), c, b) = Copying(o \o Replacement(v, b))
  /\ M!Resolves(Refusing(o, v), c, b) = Refusing(o, v)

LEMMA ResolutionCases ==
  ASSUME NEW o, NEW v, NEW c, NEW b
  PROVE  ResolutionActs(o, v, c, b)
<1> DEFINE e == <<>>
<1>1. \A u, i, f : M!Resolves(Resolution(o, u, i, f), c, b) = Moved(o, u, i, f, c, b)
  BY ResolutionMoves
<1>2. /\ M!Resolves(Resolution(o, e, FALSE, FALSE), c, b) = Moved(o, e, FALSE, FALSE, c, b)
      /\ M!Resolves(Resolution(o, v, TRUE, FALSE), c, b) = Moved(o, v, TRUE, FALSE, c, b)
      /\ M!Resolves(Resolution(o, v, TRUE, TRUE), c, b) = Moved(o, v, TRUE, TRUE, c, b)
  <2> HIDE DEF e
  <2> QED BY <1>1, Zenon
<1> HIDE DEF e
<1>3. /\ c = "<" => Moved(o, e, FALSE, FALSE, c, b) = Resolution(o, e, TRUE, FALSE)
      /\ c \notin {"<", ">"} => Moved(o, e, FALSE, FALSE, c, b) = Resolution(Append(o, c), e, FALSE, FALSE)
  BY Zenon DEF Moved
<1>4. /\ c \notin {"<", ">"} => Moved(o, v, TRUE, FALSE, c, b) = Resolution(o, Append(v, c), TRUE, FALSE)
      /\ c = ">" /\ b /\ M!Unresolvable(v) => Moved(o, v, TRUE, FALSE, c, b) = Resolution(o, v, TRUE, TRUE)
      /\ Moved(o, v, TRUE, TRUE, c, b) = Resolution(o, v, TRUE, TRUE)
  BY Zenon DEF Moved
<1>5. c = ">" /\ ~(b /\ M!Unresolvable(v)) =>
        Moved(o, v, TRUE, FALSE, c, b) = Resolution(o \o Replacement(v, b), e, FALSE, FALSE)
  BY Zenon DEF Moved, e
<1> QED BY <1>2, <1>3, <1>4, <1>5, Zenon DEF ResolutionActs, Copying, Naming, Refusing, e

LEMMA ResolutionsTyped ==
  ASSUME NEW D, NEW o \in Seq(D), NEW v \in Seq(D)
  PROVE  /\ Copying(o) \in Resolutions(D) /\ Naming(o, v) \in Resolutions(D) /\ Refusing(o, v) \in Resolutions(D)
         /\ NewResolution \in Resolutions(D)
<1>1. <<>> \in Seq(D)
  OBVIOUS
<1> QED BY <1>1, ResolutionTyped DEF Copying, Naming, Refusing, NewResolution

LEMMA ResolutionStepIs ==
  ASSUME NEW D, MarkupAlphabet(D), NEW b
  PROVE  /\ ResolutionStep(D, b) \in [Resolutions(D) \X D -> Resolutions(D)]
         /\ \A r \in Resolutions(D), c \in D : ResolutionStep(D, b)[<<r, c>>] = M!Resolves(r, c, b)
<1>1. \A r \in Resolutions(D), c \in D : M!Resolves(r, c, b) \in Resolutions(D)
  BY ResolutionType
<1> QED BY <1>1 DEF ResolutionStep

MarkupFold(b, s) == M!FoldLeft(LAMBDA x, c : M!Resolves(x, c, b), NewResolution, s)

LEMMA ResolutionFold ==
  ASSUME NEW D, MarkupAlphabet(D), NEW b, NEW s \in Seq(D), NEW y,
         Leads(ResolutionStep(D, b), NewResolution, s, y)
  PROVE  MarkupFold(b, s) = y
<1> DEFINE g == ResolutionStep(D, b)
           T == SUBSET (DOMAIN s)
           Is(f) == f = [t \in T |-> IF t = {} THEN NewResolution ELSE M!Resolves(f[t \ {Max(t)}], s[Max(t)], b)]
<1>1. MarkupFold(b, s) = (CHOOSE f : Is(f))[DOMAIN s]
  BY Zenon DEF MarkupFold, M!FoldLeft, M!MapThenFoldSet, M!Max, Max
<1>2. /\ g \in [Resolutions(D) \X D -> Resolutions(D)]
      /\ \A r \in Resolutions(D), c \in D : g[<<r, c>>] = M!Resolves(r, c, b)
  BY ResolutionStepIs
<1>2a. NewResolution \in Resolutions(D)
  <2>1. <<>> \in Seq(D)
    OBVIOUS
  <2> QED BY <2>1, ResolutionsTyped
<1> HIDE DEF g
<1>3. PICK h : IsTable(h, Resolutions(D), D, s, NewResolution, g)
  BY <1>2, <1>2a, FoldTable
<1>4. Is(h)
  <2>1. \A t \in T : h[t] = IF t = {} THEN NewResolution ELSE M!Resolves(h[t \ {Max(t)}], s[Max(t)], b)
    BY <1>2, <1>3, Zenon DEF IsTable
  <2>2. h \in [T -> Resolutions(D)]
    BY <1>3 DEF IsTable
  <2> HIDE DEF T
  <2> QED BY <2>1, <2>2
<1> DEFINE f == CHOOSE f : Is(f)
<1>5. Is(f)
  BY <1>4, Zenon
<1> HIDE DEF f
<1>6. Len(s) \in Nat /\ DOMAIN s = 1..Len(s) /\ \A k \in 1..Len(s) : s[k] \in D
  OBVIOUS
<1>7. f[{}] = NewResolution
  <2>1. {} \in T
    OBVIOUS
  <2> QED BY <1>5, <2>1
<1>8. ASSUME NEW k \in 0..Len(s) - 1, f[1..k] \in Resolutions(D)
      PROVE  f[1..k + 1] = g[<<f[1..k], s[k + 1]>>]
  <2>1. k \in Nat /\ k + 1 \in 1..Len(s)
    BY <1>6
  <2>2. k + 1 \in 1..k + 1 /\ 1..k + 1 \subseteq 1..Len(s) /\ (1..k + 1) \ {k + 1} = 1..k
    BY <1>6, <2>1
  <2>3. 1..k + 1 \in T /\ 1..k + 1 # {} /\ s[k + 1] \in D
    BY <1>6, <2>1, <2>2
  <2>4. Max(1..k + 1) = k + 1
    BY <2>1, <2>2, MaxIs
  <2> HIDE DEF T
  <2>5. f[1..k + 1] = M!Resolves(f[1..k], s[k + 1], b)
    BY <1>5, <2>2, <2>3, <2>4
  <2> QED BY <1>2, <1>8, <2>3, <2>5
<1>9. f[DOMAIN s] = y
  <2>1. Leads(g, NewResolution, s, y)
    BY DEF g
  <2>2. Climbs(f, Resolutions(D), s, NewResolution, g)
    BY <1>7, <1>8 DEF Climbs
  <2>3. Leads(g, NewResolution, s, f[DOMAIN s])
    BY <1>2, <1>2a, <2>2, TableLeads
  <2> QED BY <2>1, <2>3, LeadsOnce
<1> QED BY <1>1, <1>9 DEF f

MarkupStep(D, b, o, v, c) ==
  /\ ResolutionActs(o, v, c, b)
  /\ ResolutionStep(D, b)[<<Copying(o), c>>] = M!Resolves(Copying(o), c, b)
  /\ ResolutionStep(D, b)[<<Naming(o, v), c>>] = M!Resolves(Naming(o, v), c, b)
  /\ ResolutionStep(D, b)[<<Refusing(o, v), c>>] = M!Resolves(Refusing(o, v), c, b)

LEMMA MarkupSteps ==
  ASSUME NEW D, MarkupAlphabet(D), NEW b, NEW o \in Seq(D), NEW v \in Seq(D), NEW c \in D
  PROVE  MarkupStep(D, b, o, v, c)
<1>1. \A r \in Resolutions(D) : ResolutionStep(D, b)[<<r, c>>] = M!Resolves(r, c, b)
  BY ResolutionStepIs
<1>2. Copying(o) \in Resolutions(D) /\ Naming(o, v) \in Resolutions(D) /\ Refusing(o, v) \in Resolutions(D)
  BY ResolutionsTyped
<1>3. ResolutionActs(o, v, c, b)
  BY ResolutionCases
<1> QED BY <1>1, <1>2, <1>3, Zenon DEF MarkupStep

\* Characters that no markup is made of.
Unmarked(D) == D \ {"<", ">"}

LEMMA UnmarkedIs ==
  ASSUME NEW D, NEW s \in Seq(Unmarked(D))
  PROVE  /\ s \in Seq(D) /\ Len(s) \in Nat
         /\ \A k \in 1..Len(s) : s[k] \in D /\ s[k] \notin {"<", ">"}
<1>1. Unmarked(D) \subseteq D
  BY DEF Unmarked
<1>2. s \in Seq(D)
  BY <1>1
<1>3. \A k \in 1..Len(s) : s[k] \in Unmarked(D)
  OBVIOUS
<1> QED BY <1>2, <1>3 DEF Unmarked

\* Text is copied.
LEMMA MarkupCopied ==
  ASSUME NEW D, MarkupAlphabet(D), NEW b, NEW s \in Seq(Unmarked(D)), NEW o \in Seq(D)
  PROVE  Leads(ResolutionStep(D, b), Copying(o), s, Copying(o \o s))
<1> DEFINE g == ResolutionStep(D, b)
           st == [k \in 0..Len(s) |-> Copying(o \o SubSeq(s, 1, k))]
<1>1. /\ s \in Seq(D) /\ Len(s) \in Nat
      /\ \A k \in 1..Len(s) : s[k] \in D /\ s[k] \notin {"<", ">"}
  BY UnmarkedIs
<1>2. \A k \in 0..Len(s) : st[k] = Copying(o \o SubSeq(s, 1, k))
  OBVIOUS
<1>3. \A w \in Seq(D), c \in D : c \notin {"<", ">"} => g[<<Copying(w), c>>] = Copying(Append(w, c))
  <2>1. ASSUME NEW w \in Seq(D), NEW c \in D, c \notin {"<", ">"}
        PROVE  g[<<Copying(w), c>>] = Copying(Append(w, c))
    <3>1. MarkupStep(D, b, w, w, c)
      BY MarkupSteps
    <3> QED BY <2>1, <3>1, Zenon DEF ResolutionActs, MarkupStep, g
  <2> QED BY <2>1, Zenon
<1> HIDE DEF g, st
<1>4. ASSUME NEW k \in 0..Len(s) - 1 PROVE st[k + 1] = g[<<st[k], s[k + 1]>>]
  <2> DEFINE w == o \o SubSeq(s, 1, k)
             c == s[k + 1]
  <2>1. k \in 0..Len(s) /\ k + 1 \in 0..Len(s) /\ c \in D /\ c \notin {"<", ">"}
    BY <1>1
  <2>2. w \in Seq(D) /\ o \o SubSeq(s, 1, k + 1) = Append(w, c)
    <3>1. OneMoreSound(D, o, s, k)
      BY <1>1, OneMoreAt, Zenon
    <3> QED BY <3>1, Zenon DEF OneMoreSound
  <2> HIDE DEF w, c
  <2>3. st[k] = Copying(w) /\ st[k + 1] = Copying(Append(w, c))
    BY <1>2, <2>1, <2>2, Zenon DEF w
  <2>4. g[<<Copying(w), c>>] = Copying(Append(w, c))
    BY <1>3, <2>1, <2>2, Zenon
  <2> QED BY <2>3, <2>4, Zenon DEF c
<1>5. Leads(g, st[0], s, st[Len(s)])
  BY <1>1, <1>4, LeadsEach
<1>6. st[0] = Copying(o) /\ st[Len(s)] = Copying(o \o s)
  <2>1. 0 \in 0..Len(s) /\ Len(s) \in 0..Len(s)
    BY <1>1
  <2>2. o \o SubSeq(s, 1, 0) = o /\ o \o SubSeq(s, 1, Len(s)) = o \o s
    BY <1>1, OneMoreEnds, Zenon
  <2> QED BY <1>2, <2>1, <2>2, Zenon
<1> QED BY <1>5, <1>6, Zenon DEF g

\* A name is read.
LEMMA MarkupNamed ==
  ASSUME NEW D, MarkupAlphabet(D), NEW b, NEW s \in Seq(Unmarked(D)), NEW o \in Seq(D), NEW v \in Seq(D)
  PROVE  Leads(ResolutionStep(D, b), Naming(o, v), s, Naming(o, v \o s))
<1> DEFINE g == ResolutionStep(D, b)
           st == [k \in 0..Len(s) |-> Naming(o, v \o SubSeq(s, 1, k))]
<1>1. /\ s \in Seq(D) /\ Len(s) \in Nat
      /\ \A k \in 1..Len(s) : s[k] \in D /\ s[k] \notin {"<", ">"}
  BY UnmarkedIs
<1>2. \A k \in 0..Len(s) : st[k] = Naming(o, v \o SubSeq(s, 1, k))
  OBVIOUS
<1>3. \A w \in Seq(D), c \in D : c \notin {"<", ">"} => g[<<Naming(o, w), c>>] = Naming(o, Append(w, c))
  <2>1. ASSUME NEW w \in Seq(D), NEW c \in D, c \notin {"<", ">"}
        PROVE  g[<<Naming(o, w), c>>] = Naming(o, Append(w, c))
    <3>1. MarkupStep(D, b, o, w, c)
      BY MarkupSteps
    <3> QED BY <2>1, <3>1, Zenon DEF ResolutionActs, MarkupStep, g
  <2> QED BY <2>1, Zenon
<1> HIDE DEF g, st
<1>4. ASSUME NEW k \in 0..Len(s) - 1 PROVE st[k + 1] = g[<<st[k], s[k + 1]>>]
  <2> DEFINE w == v \o SubSeq(s, 1, k)
             c == s[k + 1]
  <2>1. k \in 0..Len(s) /\ k + 1 \in 0..Len(s) /\ c \in D /\ c \notin {"<", ">"}
    BY <1>1
  <2>2. w \in Seq(D) /\ v \o SubSeq(s, 1, k + 1) = Append(w, c)
    <3>1. OneMoreSound(D, v, s, k)
      BY <1>1, OneMoreAt, Zenon
    <3> QED BY <3>1, Zenon DEF OneMoreSound
  <2> HIDE DEF w, c
  <2>3. st[k] = Naming(o, w) /\ st[k + 1] = Naming(o, Append(w, c))
    BY <1>2, <2>1, <2>2, Zenon DEF w
  <2>4. g[<<Naming(o, w), c>>] = Naming(o, Append(w, c))
    BY <1>3, <2>1, <2>2, Zenon
  <2> QED BY <2>3, <2>4, Zenon DEF c
<1>5. Leads(g, st[0], s, st[Len(s)])
  BY <1>1, <1>4, LeadsEach
<1>6. st[0] = Naming(o, v) /\ st[Len(s)] = Naming(o, v \o s)
  <2>1. 0 \in 0..Len(s) /\ Len(s) \in 0..Len(s)
    BY <1>1
  <2>2. v \o SubSeq(s, 1, 0) = v /\ v \o SubSeq(s, 1, Len(s)) = v \o s
    BY <1>1, OneMoreEnds, Zenon
  <2> QED BY <1>2, <2>1, <2>2, Zenon
<1> QED BY <1>5, <1>6, Zenon DEF g

\* What has been refused stays refused.
LEMMA MarkupRefused ==
  ASSUME NEW D, MarkupAlphabet(D), NEW b, NEW s \in Seq(D), NEW o \in Seq(D), NEW v \in Seq(D)
  PROVE  Leads(ResolutionStep(D, b), Refusing(o, v), s, Refusing(o, v))
<1> DEFINE g == ResolutionStep(D, b)
           st == [k \in 0..Len(s) |-> Refusing(o, v)]
<1>1. Len(s) \in Nat /\ \A k \in 1..Len(s) : s[k] \in D
  OBVIOUS
<1>2. \A k \in 0..Len(s) : st[k] = Refusing(o, v)
  OBVIOUS
<1>3. \A c \in D : g[<<Refusing(o, v), c>>] = Refusing(o, v)
  <2>1. ASSUME NEW c \in D PROVE g[<<Refusing(o, v), c>>] = Refusing(o, v)
    <3>1. MarkupStep(D, b, o, v, c)
      BY MarkupSteps
    <3> QED BY <2>1, <3>1, Zenon DEF ResolutionActs, MarkupStep, g
  <2> QED BY <2>1, Zenon
<1> HIDE DEF g, st
<1>4. ASSUME NEW k \in 0..Len(s) - 1 PROVE st[k + 1] = g[<<st[k], s[k + 1]>>]
  <2>1. k \in 0..Len(s) /\ k + 1 \in 0..Len(s) /\ s[k + 1] \in D
    BY <1>1
  <2> QED BY <1>2, <1>3, <2>1, Zenon
<1>5. Leads(g, st[0], s, st[Len(s)])
  BY <1>4, LeadsEach
<1>6. 0 \in 0..Len(s) /\ Len(s) \in 0..Len(s)
  BY <1>1
<1> QED BY <1>2, <1>5, <1>6, Zenon DEF g

InMarks(v) == <<"<">> \o v \o <<">">>

\* A variable is replaced, or refuses the string.
LEMMA MarkupReplaced ==
  ASSUME NEW D, MarkupAlphabet(D), NEW b, NEW v \in Seq(Unmarked(D)), NEW o \in Seq(D)
  PROVE  /\ InMarks(v) \in Seq(D)
         /\ b /\ M!Unresolvable(v) => Leads(ResolutionStep(D, b), Copying(o), InMarks(v), Refusing(o, v))
         /\ ~(b /\ M!Unresolvable(v)) =>
              Leads(ResolutionStep(D, b), Copying(o), InMarks(v), Copying(o \o Replacement(v, b)))
<1> DEFINE g == ResolutionStep(D, b)
           e == <<>>
           a == <<"<">>
           z == <<">">>
           y == IF b /\ M!Unresolvable(v) THEN Refusing(o, v) ELSE Copying(o \o Replacement(v, b))
<1>0. v \in Seq(D)
  BY UnmarkedIs
<1>1. "<" \in D /\ ">" \in D /\ a \in Seq(D) /\ z \in Seq(D) /\ e \in Seq(D)
  BY DEF MarkupAlphabet
<1>2. Leads(g, Copying(o), a, Naming(o, e))
  <2>1. g[<<Copying(o), "<">>] = Naming(o, <<>>)
    <3>1. MarkupStep(D, b, o, o, "<")
      BY <1>1, MarkupSteps
    <3> QED BY <3>1, Zenon DEF ResolutionActs, MarkupStep, g
  <2> HIDE DEF g
  <2> QED BY <2>1, LeadsOne, Zenon
<1>3. Leads(g, Naming(o, e), v, Naming(o, v))
  <2>1. e \o v = v
    BY <1>0, ConcatEmptySeq
  <2> HIDE DEF e, g
  <2>2. Leads(g, Naming(o, e), v, Naming(o, e \o v))
    BY <1>1, MarkupNamed DEF g
  <2> QED BY <2>1, <2>2, Zenon
<1>4. Leads(g, Naming(o, v), z, y)
  <2>1. g[<<Naming(o, v), ">">>] = y
    <3>1. MarkupStep(D, b, o, v, ">")
      BY <1>0, <1>1, MarkupSteps
    <3> QED BY <3>1, Zenon DEF ResolutionActs, MarkupStep, g
  <2> HIDE DEF g, y
  <2> QED BY <2>1, LeadsOne, Zenon
<1> HIDE DEF g, e, a, z, y
<1>5. Leads(g, Copying(o), a \o v, Naming(o, v))
  BY <1>0, <1>1, <1>2, <1>3, LeadsOn
<1>6. a \o v \in Seq(D)
  BY <1>0, <1>1
<1>7. Leads(g, Copying(o), (a \o v) \o z, y) /\ (a \o v) \o z \in Seq(D)
  <2> DEFINE w == a \o v
  <2>1. w \in Seq(D) /\ Leads(g, Copying(o), w, Naming(o, v))
    BY <1>5, <1>6
  <2> HIDE DEF w
  <2>2. Leads(g, Copying(o), w \o z, y)
    BY <1>1, <1>4, <2>1, LeadsOn
  <2>3. w \o z \in Seq(D)
    BY <1>1, <2>1
  <2> QED BY <2>2, <2>3 DEF w
<1>8. InMarks(v) = (a \o v) \o z
  BY Zenon DEF InMarks, a, z
<1> QED BY <1>7, <1>8, Zenon DEF g, y

-----------------------------------------------------------------------------
(* Strings of pieces.                                                      *)

\* The names of variables that are none of a property, and those of no system variable and
\* of no variable with one letter.
AnyNames(D) == {v \in Seq(Unmarked(D)) : v = <<>> \/ v[1] # ":"}
VariableNames(D) ==
  {v \in AnyNames(D) : M!VarType(v) # "sysvar" /\ (v \in DOMAIN ServerEnvironment => Len(v) > 1)}

\* The pieces of a string of the configuration, and of a message.
ConfigPieces(D) ==
  {M!Piece("text", s) : s \in Seq(Unmarked(D))} \cup {M!Piece("var", v) : v \in VariableNames(D)}
Pieces(D) == ConfigPieces(D) \cup {M!Piece("color", <<x>>) : x \in Unmarked(D)}

\* A piece that does not refuse its string, and what the resolver makes of it.
Fine(p)  == p.kind = "var" => M!Known(p.text)
Meant(p) == IF p.kind = "var" THEN M!Meaning(p.text) ELSE IF p.kind = "text" THEN p.text ELSE M!Typed(p)

LEMMA PieceRead ==
  ASSUME NEW k, NEW x
  PROVE  M!Piece(k, x).kind = k /\ M!Piece(k, x).text = x
  BY DEF M!Piece

LEMMA TypedIs ==
  ASSUME NEW x
  PROVE  M!Typed(M!Piece("text", x)) = x /\ M!Typed(M!Piece("var", x)) = InMarks(x)
<1>1. /\ M!Piece("text", x).kind = "text" /\ M!Piece("text", x).text = x
      /\ M!Piece("var", x).kind = "var" /\ M!Piece("var", x).text = x
  BY PieceRead, Zenon
<1>2. M!Typed(M!Piece("text", x)) = x
  BY <1>1, Zenon DEF M!Typed
<1>3. M!Typed(M!Piece("var", x)) = <<"<">> \o x \o <<">">>
  BY <1>1, Zenon DEF M!Typed
<1> QED BY <1>2, <1>3, Zenon DEF InMarks

\* What a known variable is replaced by, and which variables refuse.
LEMMA VariableMeans ==
  ASSUME NEW D, MarkupAlphabet(D), NEW v \in VariableNames(D), NEW b
  PROVE  /\ M!Known(v) => Replacement(v, b) = M!Meaning(v) /\ M!Meaning(v) \in Seq(D)
         /\ M!Known(v) <=> ~M!Unresolvable(v)
<1>1. v \in Seq(D) /\ v \in Seq(Unmarked(D)) /\ (v = <<>> \/ v[1] # ":") /\ M!VarType(v) # "sysvar"
  <2>1. v \in Seq(Unmarked(D)) /\ (v = <<>> \/ v[1] # ":") /\ M!VarType(v) # "sysvar"
    BY Zenon DEF VariableNames, AnyNames
  <2> QED BY <2>1, UnmarkedIs
<1>2. Head(v) = v[1] /\ Len(v) \in Nat /\ (v = <<>> => Len(v) = 0) /\ (v # <<>> => Len(v) # 0)
  BY <1>1
<1>3. v # <<>> => M!VarType(v) = "environment" /\ Head(v) # "$"
  <2>1. v # <<>> => M!VarType(v) = IF Head(v) = "$" THEN "sysvar" ELSE "environment"
    BY <1>1, <1>2, Zenon DEF M!VarType
  <2> QED BY <1>1, <2>1, Zenon
<1>4. v \in DOMAIN ServerEnvironment => v # <<>> /\ Len(v) # 1
  <2>1. v \in DOMAIN ServerEnvironment => Len(v) > 1
    BY Zenon DEF VariableNames
  <2> DEFINE n == Len(v)
  <2>2. n \in Nat /\ (v = <<>> => n = 0)
    BY <1>2, Zenon
  <2> HIDE DEF n
  <2>3. n > 1 => n # 0 /\ n # 1
    BY <2>2
  <2> QED BY <2>1, <2>2, <2>3, Zenon DEF n
<1>5. M!Known(v) <=> v \in DOMAIN ServerEnvironment
  BY Zenon DEF M!Known
<1>6. M!Unresolvable(v) <=> v \notin DOMAIN ServerEnvironment
  <2>1. CASE v = <<>>
    BY <1>4, <2>1, Zenon DEF M!Unresolvable, M!IsEmpty
  <2>2. CASE v # <<>> /\ v \in DOMAIN ServerEnvironment
    BY <1>4, <2>2, Zenon DEF M!Unresolvable, M!IsEmpty
  <2>3. CASE v # <<>> /\ v \notin DOMAIN ServerEnvironment
    BY <1>3, <2>3, Zenon DEF M!Unresolvable
  <2> QED BY <2>1, <2>2, <2>3, Zenon
<1>7. ASSUME v \in DOMAIN ServerEnvironment PROVE Replacement(v, b) = M!Meaning(v)
  <2>1. v # <<>> /\ M!VarType(v) = "environment" /\ ~M!IsEmpty(v)
    BY <1>3, <1>4, <1>7, Zenon DEF M!IsEmpty
  <2>2. Replacement(v, b) = M!VarText(v, b)
    BY <2>1, Zenon DEF Replacement
  <2>3. M!VarText(v, b) = ServerEnvironment[v]
    BY <1>7, <2>1, Zenon DEF M!VarText
  <2>4. M!Meaning(v) = ServerEnvironment[v]
    BY <1>7, Zenon DEF M!Meaning
  <2> QED BY <2>2, <2>3, <2>4, Zenon
<1>8. Replacement(v, b) \in Seq(D)
  BY <1>1, ReplacementType
<1> QED BY <1>5, <1>6, <1>7, <1>8, Zenon

\* What the resolver makes of a piece.
PieceResolved(D, b, p) ==
  /\ M!Typed(p) \in Seq(D) /\ p.text \in Seq(D)
  /\ Fine(p) => Meant(p) \in Seq(D)
  /\ \A o \in Seq(D) :
       /\ Fine(p) => Leads(ResolutionStep(D, b), Copying(o), M!Typed(p), Copying(o \o Meant(p)))
       /\ b /\ ~Fine(p) => Leads(ResolutionStep(D, b), Copying(o), M!Typed(p), Refusing(o, p.text))

FourSound(D, a, b, c, d, x) ==
  /\ <<a, b, c, d>> \in Seq(D) /\ Len(<<a, b, c, d>>) = 4 /\ Head(<<a, b, c, d>>) = a
  /\ <<a, b, c, d>> # <<>> /\ <<a, b, c, d>> \o <<x>> = <<a>> \o <<b, c, d, x>>

LEMMA FourIs ==
  ASSUME NEW D, NEW a \in D, NEW b \in D, NEW c \in D, NEW d \in D, NEW x \in D
  PROVE  FourSound(D, a, b, c, d, x)
<1> DEFINE s == <<a, b, c, d>>
           t == <<x>>
           u == <<a>>
           v == <<b, c, d, x>>
<1>1. s \in Seq(D) /\ t \in Seq(D) /\ u \in Seq(D) /\ v \in Seq(D)
  OBVIOUS
<1>2. /\ Len(s) = 4 /\ Len(t) = 1 /\ Len(u) = 1 /\ Len(v) = 4
      /\ s[1] = a /\ s[2] = b /\ s[3] = c /\ s[4] = d /\ t[1] = x /\ u[1] = a
      /\ v[1] = b /\ v[2] = c /\ v[3] = d /\ v[4] = x
  OBVIOUS
<1>3. Head(s) = a /\ s # <<>>
  OBVIOUS
<1> HIDE DEF s, t, u, v
<1>4. s \o t \in Seq(D) /\ u \o v \in Seq(D) /\ Len(s \o t) = 5 /\ Len(u \o v) = 5
  <2>1. /\ s \o t \in Seq(D) /\ Len(s \o t) = Len(s) + Len(t)
        /\ u \o v \in Seq(D) /\ Len(u \o v) = Len(u) + Len(v)
    BY <1>1, ConcatProperties, Zenon
  <2> QED BY <1>2, <2>1
<1>5. /\ (s \o t)[1] = a /\ (s \o t)[2] = b /\ (s \o t)[3] = c /\ (s \o t)[4] = d /\ (s \o t)[5] = x
      /\ (u \o v)[1] = a /\ (u \o v)[2] = b /\ (u \o v)[3] = c /\ (u \o v)[4] = d /\ (u \o v)[5] = x
  <2>0. /\ \A i \in 1..Len(s) + Len(t) : (s \o t)[i] = IF i <= Len(s) THEN s[i] ELSE t[i - Len(s)]
        /\ \A i \in 1..Len(u) + Len(v) : (u \o v)[i] = IF i <= Len(u) THEN u[i] ELSE v[i - Len(u)]
    BY <1>1, ConcatProperties, Zenon
  <2> DEFINE y == s \o t
             z == u \o v
  <2>0a. /\ \A i \in 1..5 : y[i] = IF i <= 4 THEN s[i] ELSE t[i - 4]
         /\ \A i \in 1..5 : z[i] = IF i <= 1 THEN u[i] ELSE v[i - 1]
    <3>1. ASSUME NEW i \in 1..5
          PROVE  (y[i] = IF i <= 4 THEN s[i] ELSE t[i - 4]) /\ (z[i] = IF i <= 1 THEN u[i] ELSE v[i - 1])
      <4>1. i \in 1..Len(s) + Len(t) /\ i \in 1..Len(u) + Len(v)
        BY <1>2
      <4>2. /\ y[i] = IF i <= Len(s) THEN s[i] ELSE t[i - Len(s)]
            /\ z[i] = IF i <= Len(u) THEN u[i] ELSE v[i - Len(u)]
        BY <2>0, <4>1, Zenon
      <4> QED BY <1>2, <4>2, Zenon
    <3> QED BY <3>1
  <2> HIDE DEF y, z
  <2>1. (\A k \in 1..4 : y[k] = s[k]) /\ y[5] = t[1]
    BY <2>0a
  <2>2. z[1] = u[1] /\ \A k \in 1..4 : z[1 + k] = v[k]
    BY <2>0a
  <2>3. 1 \in 1..4 /\ 2 \in 1..4 /\ 3 \in 1..4 /\ 4 \in 1..4 /\ 1 + 1 = 2 /\ 1 + 2 = 3 /\ 1 + 3 = 4 /\ 1 + 4 = 5
    OBVIOUS
  <2> QED BY <1>2, <2>1, <2>2, <2>3, Zenon DEF y, z
<1>6. \A k \in 1..Len(s \o t) : (s \o t)[k] = (u \o v)[k]
  <2>1. \A k \in 1..5 : k = 1 \/ k = 2 \/ k = 3 \/ k = 4 \/ k = 5
    OBVIOUS
  <2> QED BY <1>4, <1>5, <2>1
<1>7. s \o t = u \o v
  BY <1>4, <1>6, SeqEqual
<1> QED BY <1>1, <1>2, <1>3, <1>7, Zenon DEF s, t, u, v, FourSound

ColorName(x) == <<":", "color", "=", x>>

\* A colour is left to what looks for colours.
LEMMA ColorLeft ==
  ASSUME NEW D, MarkupAlphabet(D), NEW x \in Unmarked(D), NEW b
  PROVE  /\ ColorName(x) \in Seq(Unmarked(D))
         /\ M!Typed(M!Piece("color", <<x>>)) = InMarks(ColorName(x))
         /\ Replacement(ColorName(x), b) = InMarks(ColorName(x))
         /\ ~M!Unresolvable(ColorName(x))
<1>1. ":" \in Unmarked(D) /\ "color" \in Unmarked(D) /\ "=" \in Unmarked(D) /\ x \in D
  BY Zenon DEF MarkupAlphabet, Unmarked
<1>2. /\ ColorName(x) \in Seq(Unmarked(D)) /\ Len(ColorName(x)) = 4 /\ Head(ColorName(x)) = ":"
      /\ ColorName(x) # <<>>
  <2>1. FourSound(Unmarked(D), ":", "color", "=", x, x)
    BY <1>1, FourIs, Zenon
  <2> QED BY <2>1, Zenon DEF ColorName, FourSound
<1>3. M!VarType(ColorName(x)) = "property" /\ ~M!IsEmpty(ColorName(x))
  <2>1. Len(ColorName(x)) # 1
    BY <1>2
  <2> QED BY <1>2, <2>1, Zenon DEF M!VarType, M!IsEmpty
<1>4. M!VarText(ColorName(x), b) = InMarks(ColorName(x))
  BY <1>3, Zenon DEF M!VarText, InMarks
<1>5. M!Typed(M!Piece("color", <<x>>)) = <<"<", ":", "color", "=">> \o <<x>> \o <<">">>
  <2> DEFINE p == M!Piece("color", <<x>>)
  <2>1. p.kind = "color" /\ p.text = <<x>>
    BY PieceRead, Zenon
  <2> HIDE DEF p
  <2>2. M!Typed(p) = <<"<", ":", "color", "=">> \o <<x>> \o <<">">>
    BY <2>1, Zenon DEF M!Typed
  <2> QED BY <2>2 DEF p
<1>6. "<" \in D /\ ":" \in D /\ "color" \in D /\ "=" \in D
  BY Zenon DEF MarkupAlphabet
<1>7. <<"<", ":", "color", "=">> \o <<x>> = <<"<">> \o ColorName(x)
  <2>1. FourSound(D, "<", ":", "color", "=", x)
    BY <1>1, <1>6, FourIs, Zenon
  <2> QED BY <2>1, Zenon DEF ColorName, FourSound
<1> QED BY <1>2, <1>3, <1>4, <1>5, <1>7, Zenon DEF InMarks, Replacement, M!Unresolvable

LEMMA PiecesResolve ==
  ASSUME NEW D, MarkupAlphabet(D), NEW b, NEW p \in Pieces(D)
  PROVE  PieceResolved(D, b, p)
<1>1. CASE \E s \in Seq(Unmarked(D)) : p = M!Piece("text", s)
  <2>1. PICK s \in Seq(Unmarked(D)) : p = M!Piece("text", s)
    BY <1>1, Zenon
  <2>2. M!Typed(p) = s /\ Fine(p) /\ Meant(p) = s /\ p.text = s
    <3>1. p.kind = "text" /\ p.text = s /\ M!Typed(p) = s
      BY <2>1, PieceRead, TypedIs, Zenon
    <3> QED BY <3>1, Zenon DEF Fine, Meant
  <2>3. s \in Seq(D)
    BY UnmarkedIs
  <2>4. \A o \in Seq(D) : Leads(ResolutionStep(D, b), Copying(o), s, Copying(o \o s))
    BY MarkupCopied, Zenon
  <2> QED BY <2>2, <2>3, <2>4, Zenon DEF PieceResolved
<1>2. CASE \E v \in VariableNames(D) : p = M!Piece("var", v)
  <2>1. PICK v \in VariableNames(D) : p = M!Piece("var", v)
    BY <1>2, Zenon
  <2>2. p.text = v /\ M!Typed(p) = InMarks(v) /\ (Fine(p) <=> M!Known(v)) /\ Meant(p) = M!Meaning(v)
    <3>1. p.kind = "var" /\ p.text = v /\ M!Typed(p) = InMarks(v)
      BY <2>1, PieceRead, TypedIs, Zenon
    <3> QED BY <3>1, Zenon DEF Fine, Meant
  <2>3. v \in Seq(Unmarked(D))
    BY Zenon DEF VariableNames, AnyNames
  <2>4. /\ M!Known(v) => Replacement(v, b) = M!Meaning(v) /\ M!Meaning(v) \in Seq(D)
        /\ M!Known(v) <=> ~M!Unresolvable(v)
    BY VariableMeans, Zenon
  <2>5. <<>> \in Seq(D)
    OBVIOUS
  <2>6. InMarks(v) \in Seq(D)
    BY <2>3, <2>5, MarkupReplaced, Zenon
  <2>7. ASSUME NEW o \in Seq(D)
        PROVE  /\ M!Known(v) => Leads(ResolutionStep(D, b), Copying(o), InMarks(v), Copying(o \o M!Meaning(v)))
               /\ b /\ ~M!Known(v) => Leads(ResolutionStep(D, b), Copying(o), InMarks(v), Refusing(o, v))
    <3>1. /\ b /\ M!Unresolvable(v) => Leads(ResolutionStep(D, b), Copying(o), InMarks(v), Refusing(o, v))
          /\ ~(b /\ M!Unresolvable(v)) =>
               Leads(ResolutionStep(D, b), Copying(o), InMarks(v), Copying(o \o Replacement(v, b)))
      BY <2>3, MarkupReplaced, Zenon
    <3> QED BY <2>4, <3>1, Zenon
  <2>8. v \in Seq(D)
    BY <2>3, UnmarkedIs
  <2> QED BY <2>2, <2>4, <2>6, <2>7, <2>8, Zenon DEF PieceResolved
<1>3. CASE \E x \in Unmarked(D) : p = M!Piece("color", <<x>>)
  <2>1. PICK x \in Unmarked(D) : p = M!Piece("color", <<x>>)
    BY <1>3, Zenon
  <2> DEFINE w == ColorName(x)
  <2>2. /\ w \in Seq(Unmarked(D)) /\ M!Typed(p) = InMarks(w) /\ Replacement(w, b) = InMarks(w)
        /\ ~M!Unresolvable(w)
    BY <2>1, ColorLeft, Zenon
  <2>3. Fine(p) /\ Meant(p) = InMarks(w) /\ p.text = <<x>>
    <3>1. p.kind = "color" /\ p.text = <<x>>
      BY <2>1, PieceRead, Zenon
    <3> QED BY <2>2, <3>1, Zenon DEF Fine, Meant
  <2>4. <<>> \in Seq(D) /\ <<x>> \in Seq(D)
    BY DEF Unmarked
  <2> HIDE DEF w
  <2>5. InMarks(w) \in Seq(D)
    BY <2>2, <2>4, MarkupReplaced, Zenon
  <2>6. \A o \in Seq(D) : Leads(ResolutionStep(D, b), Copying(o), InMarks(w), Copying(o \o InMarks(w)))
    <3>1. \A o \in Seq(D) : Leads(ResolutionStep(D, b), Copying(o), InMarks(w), Copying(o \o Replacement(w, b)))
      BY <2>2, MarkupReplaced, Zenon
    <3> QED BY <2>2, <3>1, Zenon
  <2> QED BY <2>2, <2>3, <2>4, <2>5, <2>6, Zenon DEF PieceResolved
<1> QED BY <1>1, <1>2, <1>3, Zenon DEF ConfigPieces, Pieces

\* What is given back.
LEMMA FlatAlike ==
  ASSUME NEW s
  PROVE  M!FlattenSeq(s) = FlattenSeq(s)
  BY Zenon DEF M!FlattenSeq, FlattenSeq

LEMMA MarkupGiven ==
  ASSUME NEW D, MarkupAlphabet(D), NEW b, NEW s \in Seq(D), NEW o, NEW v
  PROVE  /\ Leads(ResolutionStep(D, b), NewResolution, s, Copying(o)) =>
              M!Resolved(s, b).ok /\ M!Resolved(s, b).out = o
         /\ Leads(ResolutionStep(D, b), NewResolution, s, Refusing(o, v)) => ~M!Resolved(s, b).ok
<1> DEFINE r == MarkupFold(b, s)
           q == IF r.failed THEN s ELSE r.out
           k == ~r.failed
<1>1. M!Resolved(s, b) = [ok |-> k, out |-> q]
  BY Zenon DEF M!Resolved, MarkupFold, NewResolution, Copying, Resolution
<1>1a. M!Resolved(s, b).ok = k /\ M!Resolved(s, b).out = q
  <2> HIDE DEF k, q
  <2> QED BY <1>1
<1>2. ASSUME Leads(ResolutionStep(D, b), NewResolution, s, Copying(o))
      PROVE  M!Resolved(s, b).ok /\ M!Resolved(s, b).out = o
  <2>1. r = Copying(o)
    BY <1>2, ResolutionFold
  <2> HIDE DEF r
  <2>2. r.failed = FALSE /\ r.out = o
    BY <2>1 DEF Copying, Resolution
  <2>3. q = o
    BY <2>2
  <2> QED BY <1>1a, <2>2, <2>3, Zenon
<1>3. ASSUME Leads(ResolutionStep(D, b), NewResolution, s, Refusing(o, v)) PROVE ~M!Resolved(s, b).ok
  <2>1. r = Refusing(o, v)
    BY <1>3, ResolutionFold
  <2> HIDE DEF r
  <2>2. r.failed = TRUE
    BY <2>1 DEF Refusing, Resolution
  <2> QED BY <1>1a, <2>2, Zenon
<1> QED BY <1>2, <1>3, Zenon

TypedPieces(pieces) == [i \in DOMAIN pieces |-> M!Typed(pieces[i])]
MeantPieces(pieces) == [i \in DOMAIN pieces |-> IF Fine(pieces[i]) THEN Meant(pieces[i]) ELSE <<>>]

\* What PieceResolved says of all pieces of a string.
PiecesResolved(D, b, pieces, s, t) ==
  /\ Len(pieces) \in Nat /\ DOMAIN pieces = 1..Len(pieces)
  /\ \A i \in 1..Len(pieces) : PieceResolved(D, b, pieces[i])
  /\ s \in Seq(Seq(D)) /\ Len(s) = Len(pieces) /\ t \in Seq(Seq(D)) /\ Len(t) = Len(pieces)
  /\ \A i \in 1..Len(pieces) :
       /\ s[i] = M!Typed(pieces[i])
       /\ t[i] = IF Fine(pieces[i]) THEN Meant(pieces[i]) ELSE <<>>

LEMMA PiecesTyped ==
  ASSUME NEW D, MarkupAlphabet(D), NEW b, NEW P, \A p \in P : PieceResolved(D, b, p), NEW pieces \in Seq(P)
  PROVE  PiecesResolved(D, b, pieces, TypedPieces(pieces), MeantPieces(pieces))
<1>1. Len(pieces) \in Nat /\ DOMAIN pieces = 1..Len(pieces) /\ \A i \in 1..Len(pieces) : pieces[i] \in P
  OBVIOUS
<1>2. \A i \in 1..Len(pieces) : PieceResolved(D, b, pieces[i])
  BY <1>1
<1> DEFINE T(i) == M!Typed(pieces[i])
           U(i) == IF Fine(pieces[i]) THEN Meant(pieces[i]) ELSE <<>>
<1>3. \A i \in 1..Len(pieces) : T(i) \in Seq(D) /\ U(i) \in Seq(D)
  <2>1. ASSUME NEW i \in 1..Len(pieces) PROVE T(i) \in Seq(D) /\ U(i) \in Seq(D)
    <3>1. M!Typed(pieces[i]) \in Seq(D) /\ (Fine(pieces[i]) => Meant(pieces[i]) \in Seq(D))
      BY <1>2, Zenon DEF PieceResolved
    <3>2. <<>> \in Seq(D)
      OBVIOUS
    <3> QED BY <3>1, <3>2
  <2> QED BY <2>1
<1> HIDE DEF T, U
<1>4. TypedPieces(pieces) = [i \in 1..Len(pieces) |-> T(i)] /\ MeantPieces(pieces) = [i \in 1..Len(pieces) |-> U(i)]
  BY <1>1, Zenon DEF TypedPieces, MeantPieces, T, U
<1>5. /\ [i \in 1..Len(pieces) |-> T(i)] \in Seq(Seq(D)) /\ Len([i \in 1..Len(pieces) |-> T(i)]) = Len(pieces)
      /\ [i \in 1..Len(pieces) |-> U(i)] \in Seq(Seq(D)) /\ Len([i \in 1..Len(pieces) |-> U(i)]) = Len(pieces)
      /\ \A i \in 1..Len(pieces) :
           [j \in 1..Len(pieces) |-> T(j)][i] = T(i) /\ [j \in 1..Len(pieces) |-> U(j)][i] = U(i)
  BY <1>1, <1>3
<1> QED BY <1>1, <1>2, <1>4, <1>5, Zenon DEF T, U, PiecesResolved

\* Pieces of which none refuses.
LEMMA AllResolved ==
  ASSUME NEW D, MarkupAlphabet(D), NEW b, NEW P, \A p \in P : PieceResolved(D, b, p), NEW pieces \in Seq(P),
         \A i \in 1..Len(pieces) : Fine(pieces[i])
  PROVE  Leads(ResolutionStep(D, b), NewResolution, FlattenSeq(TypedPieces(pieces)),
               Copying(FlattenSeq(MeantPieces(pieces))))
<1> DEFINE g == ResolutionStep(D, b)
           s == TypedPieces(pieces)
           t == MeantPieces(pieces)
           m == [o \in Seq(D) |-> Copying(o)]
<1>1a. PiecesResolved(D, b, pieces, s, t)
  BY PiecesTyped
<1> HIDE DEF s, t
<1>1. /\ Len(pieces) \in Nat /\ \A i \in 1..Len(pieces) : PieceResolved(D, b, pieces[i])
      /\ s \in Seq(Seq(D)) /\ Len(s) = Len(pieces) /\ t \in Seq(Seq(D)) /\ Len(t) = Len(pieces)
      /\ \A i \in 1..Len(pieces) :
           /\ s[i] = M!Typed(pieces[i])
           /\ t[i] = IF Fine(pieces[i]) THEN Meant(pieces[i]) ELSE <<>>
  BY <1>1a DEF PiecesResolved
<1>2. \A o \in Seq(D) : m[o] = Copying(o)
  OBVIOUS
<1> HIDE DEF g, s, t, m
<1>3. ASSUME NEW i \in 1..Len(s), NEW o \in Seq(D) PROVE Leads(g, m[o], s[i], m[o \o t[i]])
  <2>1. i \in 1..Len(pieces) /\ PieceResolved(D, b, pieces[i]) /\ Fine(pieces[i])
    BY <1>1
  <2>2. s[i] = M!Typed(pieces[i]) /\ t[i] = Meant(pieces[i])
    BY <1>1, <2>1
  <2>3. Leads(g, Copying(o), s[i], Copying(o \o t[i]))
    BY <2>1, <2>2, Zenon DEF PieceResolved, g
  <2>4. t[i] \in Seq(D)
    BY <1>1
  <2>5. o \o t[i] \in Seq(D)
    BY <2>4
  <2> QED BY <1>2, <2>3, <2>5, Zenon
<1>4. Leads(g, m[<<>>], FlattenSeq(s), m[FlattenSeq(t)])
  BY <1>1, <1>3, LeadsThrough
<1>5. <<>> \in Seq(D) /\ FlattenSeq(t) \in Seq(D)
  BY <1>1, FlatType
<1>6. m[<<>>] = NewResolution /\ m[FlattenSeq(t)] = Copying(FlattenSeq(t))
  BY <1>2, <1>5, Zenon DEF NewResolution
<1> QED BY <1>4, <1>6, Zenon DEF g, s, t

\* One piece that refuses.
LEMMA OneRefuses ==
  ASSUME NEW D, MarkupAlphabet(D), NEW b, b = TRUE, NEW P, \A p \in P : PieceResolved(D, b, p), NEW pieces \in Seq(P),
         NEW i0 \in 1..Len(pieces), ~Fine(pieces[i0])
  PROVE  ~M!Resolved(FlattenSeq(TypedPieces(pieces)), b).ok
<1> DEFINE g == ResolutionStep(D, b)
           s == TypedPieces(pieces)
           t == MeantPieces(pieces)
           K == {i \in 1..Len(pieces) : ~Fine(pieces[i])}
<1>1a. PiecesResolved(D, b, pieces, s, t)
  BY PiecesTyped
<1> HIDE DEF s, t
<1>1. /\ Len(pieces) \in Nat /\ \A i \in 1..Len(pieces) : PieceResolved(D, b, pieces[i])
      /\ s \in Seq(Seq(D)) /\ Len(s) = Len(pieces) /\ t \in Seq(Seq(D)) /\ Len(t) = Len(pieces)
      /\ \A i \in 1..Len(pieces) :
           /\ s[i] = M!Typed(pieces[i])
           /\ t[i] = IF Fine(pieces[i]) THEN Meant(pieces[i]) ELSE <<>>
  BY <1>1a DEF PiecesResolved
<1>2. PICK k \in K : \A i \in K : k <= i
  <2>1. K \subseteq Nat /\ i0 \in K
    OBVIOUS
  <2> HIDE DEF K
  <2> QED BY <2>1, LeastNat
<1>3. k \in 1..Len(pieces) /\ ~Fine(pieces[k]) /\ \A i \in 1..Len(pieces) : i < k => Fine(pieces[i])
  BY <1>1, <1>2
<1>4. PICK f \in [0..Len(t) -> Seq(D)] : FlatUpto(f, t)
  BY <1>1, FlatFrom
<1> DEFINE v == pieces[k].text
           z == Refusing(f[k - 1], v)
           st == [i \in 0..Len(s) |-> IF i < k THEN Copying(f[i]) ELSE z]
<1>5. \A i \in 0..Len(s) : st[i] = IF i < k THEN Copying(f[i]) ELSE z
  OBVIOUS
<1>6. /\ Len(s) \in Nat /\ 0 \in 0..Len(s) /\ Len(s) \in 0..Len(s) /\ 0 < k /\ ~(Len(s) < k)
      /\ k \in 0..Len(t) /\ k - 1 \in 0..Len(t) /\ k - 1 < k
  BY <1>1, <1>3
<1> HIDE DEF g, s, t, K, z, st
<1>7. v \in Seq(D) /\ f[k - 1] \in Seq(D)
  <2>1. PieceResolved(D, b, pieces[k])
    BY <1>1, <1>3
  <2>2. f[k - 1] \in Seq(D)
    BY <1>4, <1>6
  <2> QED BY <2>1, <2>2, Zenon DEF PieceResolved
<1>8. ASSUME NEW i \in 1..Len(s) PROVE Leads(g, st[i - 1], s[i], st[i])
  <2>0. i \in 1..Len(pieces) /\ i \in 0..Len(s) /\ i - 1 \in 0..Len(s) /\ i - 1 \in 0..Len(t)
    BY <1>1
  <2>1. /\ i \in 1..Len(pieces) /\ i \in 0..Len(s) /\ i - 1 \in 0..Len(s) /\ i - 1 \in 0..Len(t)
        /\ PieceResolved(D, b, pieces[i]) /\ s[i] = M!Typed(pieces[i]) /\ s[i] \in Seq(D)
    BY <1>1, <2>0, Zenon DEF PieceResolved
  <2>2. f[i - 1] \in Seq(D) /\ f[i] = f[i - 1] \o t[i]
    BY <1>1, <1>4, <2>1 DEF FlatUpto
  <2>3. CASE i < k
    <3>1. i - 1 < k /\ Fine(pieces[i])
      BY <1>3, <2>1, <2>3
    <3>2. t[i] = Meant(pieces[i])
      BY <1>1, <2>1, <3>1
    <3>3. Leads(g, Copying(f[i - 1]), s[i], Copying(f[i]))
      BY <2>1, <2>2, <3>1, <3>2, Zenon DEF PieceResolved, g
    <3> QED BY <1>5, <2>1, <2>3, <3>1, <3>3, Zenon
  <2>4. CASE i = k
    <3>1. Leads(g, Copying(f[i - 1]), s[i], z)
      BY <1>3, <2>1, <2>2, <2>4, Zenon DEF PieceResolved, g, z
    <3>2. st[i - 1] = Copying(f[i - 1]) /\ st[i] = z
      <4>1. i - 1 < k /\ ~(i < k)
        BY <1>3, <2>4
      <4> QED BY <1>5, <2>1, <4>1, Zenon
    <3> QED BY <3>1, <3>2, Zenon
  <2>5. CASE i > k
    <3>1. ~(i - 1 < k) /\ ~(i < k)
      BY <1>3, <2>1, <2>5
    <3>2. Leads(g, z, s[i], z)
      BY <1>7, <2>1, MarkupRefused DEF g, z
    <3> QED BY <1>5, <2>1, <3>1, <3>2, Zenon
  <2> QED BY <1>3, <2>1, <2>3, <2>4, <2>5
<1>9. Leads(g, st[0], FlattenSeq(s), st[Len(s)])
  BY <1>1, <1>8, LeadsFlat
<1>10. st[0] = NewResolution /\ st[Len(s)] = z
  BY <1>4, <1>5, <1>6, Zenon DEF FlatUpto, NewResolution
<1>11. FlattenSeq(s) \in Seq(D)
  BY <1>1, FlatType
<1>12. Leads(ResolutionStep(D, b), NewResolution, FlattenSeq(s), Refusing(f[k - 1], v))
  BY <1>9, <1>10, Zenon DEF g, z
<1> HIDE DEF v
<1> QED BY <1>11, <1>12, MarkupGiven DEF s

LEMMA PiecesOfConfig ==
  ASSUME NEW D, NEW p \in ConfigPieces(D)
  PROVE  p \in Pieces(D) /\ (p.kind = "var" \/ p.kind = "text")
<1>0. p \in Pieces(D)
  BY Zenon DEF Pieces
<1>1. CASE \E s \in Seq(Unmarked(D)) : p = M!Piece("text", s)
  <2>1. PICK s \in Seq(Unmarked(D)) : p = M!Piece("text", s)
    BY <1>1, Zenon
  <2>2. p.kind = "text"
    BY <2>1, PieceRead, Zenon
  <2> QED BY <1>0, <2>2, Zenon
<1>2. CASE \E v \in VariableNames(D) : p = M!Piece("var", v)
  <2>1. PICK v \in VariableNames(D) : p = M!Piece("var", v)
    BY <1>2, Zenon
  <2>2. p.kind = "var"
    BY <2>1, PieceRead, Zenon
  <2> QED BY <1>0, <2>2, Zenon
<1> QED BY <1>1, <1>2, Zenon DEF ConfigPieces

LEMMA TypedAllIs ==
  ASSUME NEW pieces
  PROVE  M!TypedAll(pieces) = FlattenSeq(TypedPieces(pieces))
<1>1. M!TypedAll(pieces) = M!FlattenSeq(TypedPieces(pieces))
  BY Zenon DEF M!TypedAll, TypedPieces
<1> QED BY <1>1, FlatAlike, Zenon

\* What has no refusing piece is resolved, and what it becomes.
LEMMA AllGiven ==
  ASSUME NEW D, MarkupAlphabet(D), NEW b, NEW pieces \in Seq(Pieces(D)),
         \A i \in 1..Len(pieces) : Fine(pieces[i])
  PROVE  /\ M!Resolved(M!TypedAll(pieces), b).ok
         /\ M!Resolved(M!TypedAll(pieces), b).out = FlattenSeq(MeantPieces(pieces))
<1>1. \A p \in Pieces(D) : PieceResolved(D, b, p)
  BY PiecesResolve, Zenon
<1>2. Leads(ResolutionStep(D, b), NewResolution, FlattenSeq(TypedPieces(pieces)),
            Copying(FlattenSeq(MeantPieces(pieces))))
  BY <1>1, AllResolved
<1>3. FlattenSeq(TypedPieces(pieces)) \in Seq(D)
  <2> DEFINE s == TypedPieces(pieces)
             t == MeantPieces(pieces)
  <2>1. PiecesResolved(D, b, pieces, s, t)
    BY <1>1, PiecesTyped
  <2> HIDE DEF s, t
  <2>2. s \in Seq(Seq(D))
    BY <2>1 DEF PiecesResolved
  <2>3. FlattenSeq(s) \in Seq(D)
    BY <2>2, FlatType
  <2> QED BY <2>3 DEF s
<1> DEFINE x == FlattenSeq(TypedPieces(pieces))
           y == FlattenSeq(MeantPieces(pieces))
<1> HIDE DEF x, y
<1>4. M!Resolved(x, b).ok /\ M!Resolved(x, b).out = y
  <2>1. Leads(ResolutionStep(D, b), NewResolution, x, Copying(y)) /\ x \in Seq(D)
    BY <1>2, <1>3 DEF x, y
  <2> QED BY <2>1, MarkupGiven
<1> QED BY <1>4, TypedAllIs, Zenon DEF x, y

ConfigsOver(D) == {M!ConfigText(pieces) : pieces \in Seq(ConfigPieces(D))}

LEMMA ConfigRead ==
  ASSUME NEW pieces
  PROVE  LET x == M!ConfigText(pieces) IN x.kind = "config" /\ x.kind # "message" /\ x.pieces = pieces
  BY DEF M!ConfigText

\* A string of the configuration is taken with the values of its variables or not at all.
LEMMA ConfigTaken ==
  ASSUME NEW D, MarkupAlphabet(D), sample \in ConfigsOver(D)
  PROVE  M!ConfigAllOrNothing
<1>1. PICK pieces \in Seq(ConfigPieces(D)) : sample = M!ConfigText(pieces)
  BY Zenon DEF ConfigsOver
<1>2. sample.pieces = pieces
  BY <1>1, ConfigRead, Zenon
<1> DEFINE b == TRUE
           s == M!TypedAll(pieces)
           r == M!Resolved(s, b)
           Kept(p) == IF p.kind = "var" THEN M!Meaning(p.text) ELSE p.text
<1>3. /\ DOMAIN pieces = 1..Len(pieces) /\ pieces \in Seq(Pieces(D))
      /\ \A i \in 1..Len(pieces) : pieces[i] \in ConfigPieces(D)
  <2>1. ConfigPieces(D) \subseteq Pieces(D)
    BY Zenon DEF Pieces
  <2>2. DOMAIN pieces = 1..Len(pieces) /\ \A i \in 1..Len(pieces) : pieces[i] \in ConfigPieces(D)
    OBVIOUS
  <2>3. pieces \in Seq(Pieces(D))
    BY <2>1
  <2> QED BY <2>2, <2>3
<1>4. ASSUME \A i \in 1..Len(pieces) : Fine(pieces[i])
      PROVE  r.ok /\ r.out = M!FlattenSeq([i \in DOMAIN pieces |-> Kept(pieces[i])])
  <2>1. r.ok /\ r.out = FlattenSeq(MeantPieces(pieces))
    <3> HIDE DEF b
    <3> QED BY <1>3, <1>4, AllGiven
  <2>2. \A i \in DOMAIN pieces : (IF Fine(pieces[i]) THEN Meant(pieces[i]) ELSE <<>>) = Kept(pieces[i])
    <3>1. ASSUME NEW i \in DOMAIN pieces
          PROVE  (IF Fine(pieces[i]) THEN Meant(pieces[i]) ELSE <<>>) = Kept(pieces[i])
      <4>1. i \in 1..Len(pieces)
        BY <1>3
      <4>2. Fine(pieces[i]) /\ (pieces[i].kind = "var" \/ pieces[i].kind = "text")
        BY <1>3, <1>4, <4>1, PiecesOfConfig, Zenon
      <4> QED BY <4>2, Zenon DEF Meant
    <3> QED BY <3>1
  <2>3. MeantPieces(pieces) = [i \in DOMAIN pieces |-> Kept(pieces[i])]
    <3> DEFINE T(i) == IF Fine(pieces[i]) THEN Meant(pieces[i]) ELSE <<>>
    <3>1. MeantPieces(pieces) = [i \in DOMAIN pieces |-> T(i)]
      BY Zenon DEF MeantPieces
    <3>2. \A i \in DOMAIN pieces : T(i) = Kept(pieces[i])
      BY <2>2
    <3> HIDE DEF T, Kept
    <3> QED BY <3>1, <3>2
  <2> HIDE DEF r, Kept
  <2> QED BY <2>1, <2>3, FlatAlike, Zenon
<1>5. ASSUME NEW i \in 1..Len(pieces), ~Fine(pieces[i]) PROVE ~r.ok
  <2> HIDE DEF b
  <2>1. b = TRUE
    BY DEF b
  <2>2. \A p \in Pieces(D) : PieceResolved(D, b, p)
    BY PiecesResolve, Zenon
  <2>3. ~M!Resolved(FlattenSeq(TypedPieces(pieces)), b).ok
    BY <1>3, <1>5, <2>1, <2>2, OneRefuses
  <2> QED BY <2>3, TypedAllIs, Zenon
<1>6. r.ok <=> \A i \in DOMAIN pieces : Fine(pieces[i])
  <2> HIDE DEF r
  <2> QED BY <1>3, <1>4, <1>5, Zenon
<1>7. r.ok => r.out = M!FlattenSeq([i \in DOMAIN pieces |-> Kept(pieces[i])])
  <2> HIDE DEF r, Kept
  <2> QED BY <1>3, <1>4, <1>6, Zenon
<1> QED BY <1>2, <1>6, <1>7, Zenon DEF M!ConfigAllOrNothing, Fine

-----------------------------------------------------------------------------
(* ConStrPropResolver.                                                     *)

\* What the console is given: characters and colours.
Displayed(D) == {[char |-> c] : c \in D} \cup {[color |-> c] : c \in D}

Printing(o, q, i) == [out |-> o, prop |-> q, inProp |-> i]
Printings(D) == [out : Seq(Displayed(D)), prop : Seq(D), inProp : BOOLEAN]
PrintStep(D) == [x \in Printings(D) \X D |-> M!Prints(x[1], x[2])]

LEMMA PrintingIs ==
  ASSUME NEW D, NEW r \in Printings(D)
  PROVE  \E o \in Seq(Displayed(D)), q \in Seq(D), i \in BOOLEAN : r = Printing(o, q, i)
<1> DEFINE E == Displayed(D)
<1> HIDE DEF E
<1>0. Printings(D) = [out : Seq(E), prop : Seq(D), inProp : BOOLEAN]
  BY DEF Printings, E
<1>1. r = Printing(r.out, r.prop, r.inProp)
  BY <1>0 DEF Printing
<1>2. r.out \in Seq(E) /\ r.prop \in Seq(D) /\ r.inProp \in BOOLEAN
  BY <1>0
<1> QED BY <1>1, <1>2, Zenon DEF E

LEMMA PrintingTyped ==
  ASSUME NEW D, NEW o \in Seq(Displayed(D)), NEW q \in Seq(D), NEW i \in BOOLEAN
  PROVE  Printing(o, q, i) \in Printings(D)
<1> DEFINE E == Displayed(D)
<1> HIDE DEF E
<1>1. o \in Seq(E) /\ Printings(D) = [out : Seq(E), prop : Seq(D), inProp : BOOLEAN]
  BY DEF Printings, E
<1> QED BY <1>1 DEF Printing

\* Appending sign(s) to what is displayed.
LEMMA DisplayedOnce ==
  ASSUME NEW D, NEW c \in D
  PROVE  [char |-> c] \in Displayed(D) /\ [color |-> c] \in Displayed(D)
  BY Zenon DEF Displayed

LEMMA PropertyType ==
  ASSUME NEW D, NEW q \in Seq(D)
  PROVE  M!Property(q) \in Seq(Displayed(D))
<1> DEFINE E == Displayed(D)
           x == [color |-> q[3]]
<1>1. \/ Len(q) = 3 /\ M!Property(q) = <<x>>
      \/ M!Property(q) = <<>>
  BY Zenon DEF M!Property
<1>2. ASSUME Len(q) = 3 PROVE x \in E
  <2>1. q[3] \in D
    BY <1>2
  <2> QED BY <2>1, DisplayedOnce, Zenon
<1> HIDE DEF E, x
<1>3. <<>> \in Seq(E) /\ (x \in E => <<x>> \in Seq(E))
  OBVIOUS
<1> QED BY <1>1, <1>2, <1>3, Zenon DEF E

\* What processChar does with a character.
PrintMoved(o, q, i, c) ==
  IF c = "<" THEN Printing(o, q, TRUE)
  ELSE IF c = ">"
  THEN IF q # <<>> /\ Head(q) = ":" THEN Printing(o \o M!Property(Tail(q)), <<>>, FALSE) ELSE Printing(o, q, FALSE)
  ELSE IF i THEN Printing(o, Append(q, c), i) ELSE Printing(Append(o, [char |-> c]), q, i)

LEMMA PrintMoves ==
  ASSUME NEW o, NEW q, NEW i, NEW c
  PROVE  M!Prints(Printing(o, q, i), c) = PrintMoved(o, q, i, c)
<1> DEFINE r == Printing(o, q, i)
           yes == TRUE
           no == FALSE
           e == <<>>
           w == Append(q, c)
           d == [char |-> c]
           n == Append(o, d)
           t == o \o M!Property(Tail(q))
           Opening(x) == [x EXCEPT !.inProp = yes]
           Ending(x) == [x EXCEPT !.inProp = no]
           Closing(x) == [x EXCEPT !.inProp = no, !.prop = e, !.out = @ \o M!Property(Tail(x.prop))]
<1>1. r.out = o /\ r.prop = q /\ r.inProp = i
  BY DEF Printing
<1>2. M!Prints(r, c) =
        IF c = "<" THEN Opening(r)
        ELSE IF c = ">" THEN IF r.prop # e /\ Head(r.prop) = ":" THEN Closing(r) ELSE Ending(r)
        ELSE IF r.inProp THEN [r EXCEPT !.prop = Append(@, c)] ELSE [r EXCEPT !.out = Append(@, d)]
  BY Zenon DEF M!Prints
<1> HIDE DEF yes, no, e, d
<1>3. Opening(r) = Printing(o, q, yes)
  BY DEF Printing
<1>4. Ending(r) = Printing(o, q, no)
  BY DEF Printing
<1>5. [r EXCEPT !.prop = Append(@, c)] = Printing(o, w, i)
  BY DEF Printing
<1>6. [r EXCEPT !.out = Append(@, d)] = Printing(n, q, i)
  BY DEF Printing
<1>7. Closing(r) = Printing(t, e, no)
  <2>1. [r EXCEPT !.inProp = no] = Printing(o, q, no)
    BY DEF Printing
  <2>2. [Printing(o, q, no) EXCEPT !.prop = e] = Printing(o, e, no)
    BY DEF Printing
  <2> HIDE DEF t
  <2>3. [Printing(o, e, no) EXCEPT !.out = t] = Printing(t, e, no)
    BY DEF Printing
  <2>4. Printing(o, e, no).out = o
    BY DEF Printing
  <2>5. Closing(r) = [r EXCEPT !.inProp = no, !.prop = e, !.out = @ \o M!Property(Tail(r.prop))]
    BY Zenon
  <2> HIDE DEF r, Closing
  <2> QED BY <1>1, <2>1, <2>2, <2>3, <2>4, <2>5, Zenon DEF t
<1> HIDE DEF r, Opening, Ending, Closing
<1> QED BY <1>1, <1>2, <1>3, <1>4, <1>5, <1>6, <1>7, Zenon DEF PrintMoved, r, w, n, t, yes, no, e, d

LEMMA PrintingType ==
  ASSUME NEW D, NEW r \in Printings(D), NEW c \in D
  PROVE  M!Prints(r, c) \in Printings(D)
<1> DEFINE E == Displayed(D)
<1>1. PICK o \in Seq(E), q \in Seq(D), i \in BOOLEAN : r = Printing(o, q, i)
  BY PrintingIs, Zenon
<1> DEFINE t == o \o M!Property(Tail(q))
           w == Append(q, c)
           d == [char |-> c]
           n == Append(o, d)
           e == <<>>
<1>2. w \in Seq(D) /\ e \in Seq(D)
  OBVIOUS
<1>3. n \in Seq(E)
  <2>1. d \in E
    BY DisplayedOnce, Zenon
  <2> HIDE DEF E, d
  <2> QED BY <2>1
<1>4. q # e => t \in Seq(E)
  <2>1. ASSUME q # e PROVE Tail(q) \in Seq(D)
    BY <2>1
  <2>2. ASSUME q # e PROVE M!Property(Tail(q)) \in Seq(E)
    BY <2>1, <2>2, PropertyType, Zenon
  <2> HIDE DEF E
  <2> QED BY <2>2
<1> HIDE DEF E
<1>5. \A a \in Seq(E), b \in Seq(D), f \in BOOLEAN : Printing(a, b, f) \in Printings(D)
  BY PrintingTyped, Zenon DEF E
<1>6. M!Prints(Printing(o, q, i), c) = PrintMoved(o, q, i, c)
  BY PrintMoves
<1> HIDE DEF t, w, n, d, e
<1>7. /\ Printing(o, q, TRUE) \in Printings(D) /\ Printing(o, q, FALSE) \in Printings(D)
      /\ Printing(o, w, i) \in Printings(D) /\ Printing(n, q, i) \in Printings(D)
      /\ q # e => Printing(t, e, FALSE) \in Printings(D)
  BY <1>2, <1>3, <1>4, <1>5
<1> QED BY <1>1, <1>6, <1>7, Zenon DEF PrintMoved, t, w, n, d, e

\* Outside of a property, and inside of one.
Shows(o)      == Printing(o, <<>>, FALSE)
Marking(o, q) == Printing(o, q, TRUE)
NewPrinting   == Shows(<<>>)

\* What the printer does with a character in each of these.
PrintActs(o, q, c) ==
  /\ c = "<" => M!Prints(Shows(o), c) = Marking(o, <<>>)
  /\ c \notin {"<", ">"} => M!Prints(Shows(o), c) = Shows(Append(o, [char |-> c]))
  /\ c \notin {"<", ">"} => M!Prints(Marking(o, q), c) = Marking(o, Append(q, c))
  /\ c = ">" /\ q # <<>> /\ Head(q) = ":" => M!Prints(Marking(o, q), c) = Shows(o \o M!Property(Tail(q)))

LEMMA PrintCases ==
  ASSUME NEW o, NEW q, NEW c
  PROVE  PrintActs(o, q, c)
<1> DEFINE e == <<>>
           d == [char |-> c]
<1>1. /\ M!Prints(Printing(o, e, FALSE), c) = PrintMoved(o, e, FALSE, c)
      /\ M!Prints(Printing(o, q, TRUE), c) = PrintMoved(o, q, TRUE, c)
  <2> HIDE DEF e
  <2>1. \A u, i : M!Prints(Printing(o, u, i), c) = PrintMoved(o, u, i, c)
    BY PrintMoves
  <2> QED BY <2>1, Zenon
<1>2. /\ c = "<" => PrintMoved(o, e, FALSE, c) = Printing(o, e, TRUE)
      /\ c \notin {"<", ">"} => PrintMoved(o, e, FALSE, c) = Printing(Append(o, d), e, FALSE)
  BY Zenon DEF PrintMoved
<1>3. /\ c \notin {"<", ">"} => PrintMoved(o, q, TRUE, c) = Printing(o, Append(q, c), TRUE)
      /\ c = ">" /\ q # e /\ Head(q) = ":" =>
           PrintMoved(o, q, TRUE, c) = Printing(o \o M!Property(Tail(q)), e, FALSE)
  BY Zenon DEF PrintMoved
<1> QED BY <1>1, <1>2, <1>3, Zenon DEF PrintActs, Shows, Marking

LEMMA PrintStepIs ==
  ASSUME NEW D
  PROVE  /\ PrintStep(D) \in [Printings(D) \X D -> Printings(D)]
         /\ \A r \in Printings(D), c \in D : PrintStep(D)[<<r, c>>] = M!Prints(r, c)
<1>1. \A r \in Printings(D), c \in D : M!Prints(r, c) \in Printings(D)
  BY PrintingType
<1> DEFINE P == Printings(D)
<1> HIDE DEF P
<1>2. PrintStep(D) = [x \in P \X D |-> M!Prints(x[1], x[2])]
  BY DEF PrintStep, P
<1> QED BY <1>1, <1>2 DEF P

PrintFold(s) == M!FoldLeft(M!Prints, NewPrinting, s)

LEMMA PrintedFold ==
  ASSUME NEW D, NEW s \in Seq(D), NEW y, Leads(PrintStep(D), NewPrinting, s, y)
  PROVE  PrintFold(s) = y
<1> DEFINE g == PrintStep(D)
           T == SUBSET (DOMAIN s)
           Is(f) == f = [t \in T |-> IF t = {} THEN NewPrinting ELSE M!Prints(f[t \ {Max(t)}], s[Max(t)])]
<1>1. PrintFold(s) = (CHOOSE f : Is(f))[DOMAIN s]
  BY Zenon DEF PrintFold, M!FoldLeft, M!MapThenFoldSet, M!Max, Max
<1>2. /\ g \in [Printings(D) \X D -> Printings(D)]
      /\ \A r \in Printings(D), c \in D : g[<<r, c>>] = M!Prints(r, c)
  BY PrintStepIs
<1>2a. NewPrinting \in Printings(D)
  <2> DEFINE E == Displayed(D)
  <2> HIDE DEF E
  <2>1. <<>> \in Seq(D) /\ <<>> \in Seq(E)
    OBVIOUS
  <2> QED BY <2>1, PrintingTyped DEF NewPrinting, Shows, E
<1> HIDE DEF g
<1>3. PICK h : IsTable(h, Printings(D), D, s, NewPrinting, g)
  BY <1>2, <1>2a, FoldTable
<1>4. Is(h)
  <2>1. \A t \in T : h[t] = IF t = {} THEN NewPrinting ELSE M!Prints(h[t \ {Max(t)}], s[Max(t)])
    BY <1>2, <1>3, Zenon DEF IsTable
  <2>2. h \in [T -> Printings(D)]
    BY <1>3 DEF IsTable
  <2> HIDE DEF T
  <2> QED BY <2>1, <2>2
<1> DEFINE f == CHOOSE f : Is(f)
<1>5. Is(f)
  BY <1>4, Zenon
<1> HIDE DEF f
<1>6. Len(s) \in Nat /\ DOMAIN s = 1..Len(s) /\ \A k \in 1..Len(s) : s[k] \in D
  OBVIOUS
<1>7. f[{}] = NewPrinting
  <2>1. {} \in T
    OBVIOUS
  <2> QED BY <1>5, <2>1
<1>8. ASSUME NEW k \in 0..Len(s) - 1, f[1..k] \in Printings(D)
      PROVE  f[1..k + 1] = g[<<f[1..k], s[k + 1]>>]
  <2>1. k \in Nat /\ k + 1 \in 1..Len(s)
    BY <1>6
  <2>2. k + 1 \in 1..k + 1 /\ 1..k + 1 \subseteq 1..Len(s) /\ (1..k + 1) \ {k + 1} = 1..k
    BY <1>6, <2>1
  <2>3. 1..k + 1 \in T /\ 1..k + 1 # {} /\ s[k + 1] \in D
    BY <1>6, <2>1, <2>2
  <2>4. Max(1..k + 1) = k + 1
    BY <2>1, <2>2, MaxIs
  <2> HIDE DEF T
  <2>5. f[1..k + 1] = M!Prints(f[1..k], s[k + 1])
    BY <1>5, <2>2, <2>3, <2>4
  <2> QED BY <1>2, <1>8, <2>3, <2>5
<1>9. f[DOMAIN s] = y
  <2>1. Leads(g, NewPrinting, s, y)
    BY DEF g
  <2>2. Climbs(f, Printings(D), s, NewPrinting, g)
    BY <1>7, <1>8 DEF Climbs
  <2>3. Leads(g, NewPrinting, s, f[DOMAIN s])
    BY <1>2, <1>2a, <2>2, TableLeads
  <2> QED BY <2>1, <2>3, LeadsOnce
<1> QED BY <1>1, <1>9 DEF f

PrintAt(D, o, q, c) ==
  /\ PrintActs(o, q, c)
  /\ PrintStep(D)[<<Shows(o), c>>] = M!Prints(Shows(o), c)
  /\ PrintStep(D)[<<Marking(o, q), c>>] = M!Prints(Marking(o, q), c)

LEMMA PrintSteps ==
  ASSUME NEW D, NEW o \in Seq(Displayed(D)), NEW q \in Seq(D), NEW c \in D
  PROVE  PrintAt(D, o, q, c)
<1>1. \A r \in Printings(D) : PrintStep(D)[<<r, c>>] = M!Prints(r, c)
  BY PrintStepIs, Zenon
<1>2. <<>> \in Seq(D)
  OBVIOUS
<1>3. Shows(o) \in Printings(D) /\ Marking(o, q) \in Printings(D)
  BY <1>2, PrintingTyped, Zenon DEF Shows, Marking
<1>4. PrintActs(o, q, c)
  BY PrintCases
<1> QED BY <1>1, <1>3, <1>4, Zenon DEF PrintAt

\* The characters of a string as the console is given them.
AsChars(s) == [i \in DOMAIN s |-> [char |-> s[i]]]

LEMMA CharsAre ==
  ASSUME NEW D, NEW s \in Seq(D)
  PROVE  /\ AsChars(s) \in Seq(Displayed(D)) /\ Len(AsChars(s)) = Len(s)
         /\ \A k \in 1..Len(s) : AsChars(s)[k] = [char |-> s[k]]
<1> DEFINE E == Displayed(D)
           d(i) == [char |-> s[i]]
<1>1. DOMAIN s = 1..Len(s) /\ Len(s) \in Nat /\ \A i \in 1..Len(s) : s[i] \in D
  OBVIOUS
<1>2. \A i \in 1..Len(s) : d(i) \in E
  BY <1>1, DisplayedOnce, Zenon
<1>3. AsChars(s) = [i \in DOMAIN s |-> d(i)]
  BY Zenon DEF AsChars
<1> HIDE DEF E, d
<1>4. /\ [i \in 1..Len(s) |-> d(i)] \in Seq(E) /\ Len([i \in 1..Len(s) |-> d(i)]) = Len(s)
      /\ \A k \in 1..Len(s) : [i \in 1..Len(s) |-> d(i)][k] = d(k)
  BY <1>1, <1>2
<1> QED BY <1>1, <1>3, <1>4, Zenon DEF E, d

\* Characters are printed.
LEMMA PrintCopied ==
  ASSUME NEW D, NEW s \in Seq(Unmarked(D)), NEW o \in Seq(Displayed(D))
  PROVE  Leads(PrintStep(D), Shows(o), s, Shows(o \o AsChars(s)))
<1> DEFINE g == PrintStep(D)
           E == Displayed(D)
           t == AsChars(s)
           st == [k \in 0..Len(s) |-> Shows(o \o SubSeq(t, 1, k))]
<1>1. /\ s \in Seq(D) /\ Len(s) \in Nat
      /\ \A k \in 1..Len(s) : s[k] \in D /\ s[k] \notin {"<", ">"}
  BY UnmarkedIs
<1>1a. t \in Seq(E) /\ Len(t) = Len(s) /\ \A k \in 1..Len(s) : t[k] = [char |-> s[k]]
  BY <1>1, CharsAre, Zenon
<1>2. \A k \in 0..Len(s) : st[k] = Shows(o \o SubSeq(t, 1, k))
  OBVIOUS
<1>3. \A w \in Seq(E), c \in D : c \notin {"<", ">"} => g[<<Shows(w), c>>] = Shows(Append(w, [char |-> c]))
  <2>1. ASSUME NEW w \in Seq(E), NEW c \in D, c \notin {"<", ">"}
        PROVE  g[<<Shows(w), c>>] = Shows(Append(w, [char |-> c]))
    <3>0. <<>> \in Seq(D)
      OBVIOUS
    <3>1. PrintAt(D, w, <<>>, c)
      BY <3>0, PrintSteps, Zenon
    <3> QED BY <2>1, <3>1, Zenon DEF PrintActs, PrintAt, g
  <2> QED BY <2>1, Zenon
<1> HIDE DEF g, st, t, E
<1>4. ASSUME NEW k \in 0..Len(s) - 1 PROVE st[k + 1] = g[<<st[k], s[k + 1]>>]
  <2> DEFINE w == o \o SubSeq(t, 1, k)
             c == s[k + 1]
  <2>1. k \in 0..Len(s) /\ k + 1 \in 0..Len(s) /\ c \in D /\ c \notin {"<", ">"} /\ k + 1 \in 1..Len(s)
    BY <1>1
  <2>2. w \in Seq(E) /\ o \o SubSeq(t, 1, k + 1) = Append(w, t[k + 1])
    <3>1. o \in Seq(E)
      BY DEF E
    <3>2. k \in 0..Len(t) - 1
      BY <1>1a
    <3>3. OneMoreSound(E, o, t, k)
      BY <1>1a, <3>1, <3>2, OneMoreAt, Zenon
    <3> QED BY <3>3, Zenon DEF OneMoreSound
  <2>2a. t[k + 1] = [char |-> c]
    BY <1>1a, <2>1, Zenon
  <2> HIDE DEF w, c
  <2>3. st[k] = Shows(w) /\ st[k + 1] = Shows(Append(w, [char |-> c]))
    BY <1>2, <2>1, <2>2, <2>2a, Zenon DEF w
  <2>4. g[<<Shows(w), c>>] = Shows(Append(w, [char |-> c]))
    BY <1>3, <2>1, <2>2, Zenon
  <2> QED BY <2>3, <2>4, Zenon DEF c
<1>5. Leads(g, st[0], s, st[Len(s)])
  BY <1>1, <1>4, LeadsEach
<1>6. st[0] = Shows(o) /\ st[Len(s)] = Shows(o \o t)
  <2>0. o \in Seq(E)
    BY DEF E
  <2>1. 0 \in 0..Len(s) /\ Len(s) \in 0..Len(s)
    BY <1>1
  <2>2. o \o SubSeq(t, 1, 0) = o /\ o \o SubSeq(t, 1, Len(s)) = o \o t
    <3>1. o \o SubSeq(t, 1, 0) = o /\ o \o SubSeq(t, 1, Len(t)) = o \o t
      BY <1>1a, <2>0, OneMoreEnds, Zenon
    <3> QED BY <1>1a, <3>1
  <2> QED BY <1>2, <2>1, <2>2, Zenon
<1> QED BY <1>5, <1>6, Zenon DEF g, t

\* A property is read.
LEMMA PrintNamed ==
  ASSUME NEW D, NEW s \in Seq(Unmarked(D)), NEW o \in Seq(Displayed(D)), NEW v \in Seq(D)
  PROVE  Leads(PrintStep(D), Marking(o, v), s, Marking(o, v \o s))
<1> DEFINE g == PrintStep(D)
           st == [k \in 0..Len(s) |-> Marking(o, v \o SubSeq(s, 1, k))]
<1>1. /\ s \in Seq(D) /\ Len(s) \in Nat
      /\ \A k \in 1..Len(s) : s[k] \in D /\ s[k] \notin {"<", ">"}
  BY UnmarkedIs
<1>2. \A k \in 0..Len(s) : st[k] = Marking(o, v \o SubSeq(s, 1, k))
  OBVIOUS
<1>3. \A w \in Seq(D), c \in D : c \notin {"<", ">"} => g[<<Marking(o, w), c>>] = Marking(o, Append(w, c))
  <2>1. ASSUME NEW w \in Seq(D), NEW c \in D, c \notin {"<", ">"}
        PROVE  g[<<Marking(o, w), c>>] = Marking(o, Append(w, c))
    <3>1. PrintAt(D, o, w, c)
      BY PrintSteps, Zenon
    <3> QED BY <2>1, <3>1, Zenon DEF PrintActs, PrintAt, g
  <2> QED BY <2>1, Zenon
<1> HIDE DEF g, st
<1>4. ASSUME NEW k \in 0..Len(s) - 1 PROVE st[k + 1] = g[<<st[k], s[k + 1]>>]
  <2> DEFINE w == v \o SubSeq(s, 1, k)
             c == s[k + 1]
  <2>1. k \in 0..Len(s) /\ k + 1 \in 0..Len(s) /\ c \in D /\ c \notin {"<", ">"}
    BY <1>1
  <2>2. w \in Seq(D) /\ v \o SubSeq(s, 1, k + 1) = Append(w, c)
    <3>1. OneMoreSound(D, v, s, k)
      BY <1>1, OneMoreAt, Zenon
    <3> QED BY <3>1, Zenon DEF OneMoreSound
  <2> HIDE DEF w, c
  <2>3. st[k] = Marking(o, w) /\ st[k + 1] = Marking(o, Append(w, c))
    BY <1>2, <2>1, <2>2, Zenon DEF w
  <2>4. g[<<Marking(o, w), c>>] = Marking(o, Append(w, c))
    BY <1>3, <2>1, <2>2, Zenon
  <2> QED BY <2>3, <2>4, Zenon DEF c
<1>5. Leads(g, st[0], s, st[Len(s)])
  BY <1>1, <1>4, LeadsEach
<1>6. st[0] = Marking(o, v) /\ st[Len(s)] = Marking(o, v \o s)
  <2>1. 0 \in 0..Len(s) /\ Len(s) \in 0..Len(s)
    BY <1>1
  <2>2. v \o SubSeq(s, 1, 0) = v /\ v \o SubSeq(s, 1, Len(s)) = v \o s
    BY <1>1, OneMoreEnds, Zenon
  <2> QED BY <1>2, <2>1, <2>2, Zenon
<1> QED BY <1>5, <1>6, Zenon DEF g

\* A property between its marks is worked off.
LEMMA PrintMarked ==
  ASSUME NEW D, MarkupAlphabet(D), NEW v \in Seq(Unmarked(D)), v # <<>>, Head(v) = ":", NEW o \in Seq(Displayed(D))
  PROVE  Leads(PrintStep(D), Shows(o), InMarks(v), Shows(o \o M!Property(Tail(v))))
<1> DEFINE g == PrintStep(D)
           e == <<>>
           a == <<"<">>
           z == <<">">>
           y == Shows(o \o M!Property(Tail(v)))
<1>0. v \in Seq(D)
  BY UnmarkedIs
<1>1. "<" \in D /\ ">" \in D /\ a \in Seq(D) /\ z \in Seq(D) /\ e \in Seq(D)
  BY DEF MarkupAlphabet
<1>2. Leads(g, Shows(o), a, Marking(o, e))
  <2>1. g[<<Shows(o), "<">>] = Marking(o, <<>>)
    <3>1. PrintAt(D, o, e, "<")
      BY <1>1, PrintSteps, Zenon
    <3> QED BY <3>1, Zenon DEF PrintActs, PrintAt, g
  <2> HIDE DEF g
  <2> QED BY <2>1, LeadsOne, Zenon
<1>3. Leads(g, Marking(o, e), v, Marking(o, v))
  <2>1. e \o v = v
    BY <1>0, ConcatEmptySeq
  <2> HIDE DEF e, g
  <2>2. Leads(g, Marking(o, e), v, Marking(o, e \o v))
    BY <1>1, PrintNamed, Zenon DEF g
  <2> QED BY <2>1, <2>2, Zenon
<1>4. Leads(g, Marking(o, v), z, y)
  <2>1. g[<<Marking(o, v), ">">>] = y
    <3>1. PrintAt(D, o, v, ">")
      BY <1>0, <1>1, PrintSteps, Zenon
    <3> QED BY <3>1, Zenon DEF PrintActs, PrintAt, g
  <2> HIDE DEF g, y
  <2> QED BY <2>1, LeadsOne, Zenon
<1> HIDE DEF g, e, a, z, y
<1>5. Leads(g, Shows(o), a \o v, Marking(o, v))
  BY <1>0, <1>1, <1>2, <1>3, LeadsOn
<1>6. a \o v \in Seq(D)
  BY <1>0, <1>1
<1>7. Leads(g, Shows(o), (a \o v) \o z, y)
  <2> DEFINE w == a \o v
  <2>1. w \in Seq(D) /\ Leads(g, Shows(o), w, Marking(o, v))
    BY <1>5, <1>6
  <2> HIDE DEF w
  <2>2. Leads(g, Shows(o), w \o z, y)
    BY <1>1, <1>4, <2>1, LeadsOn
  <2> QED BY <2>2 DEF w
<1>8. InMarks(v) = (a \o v) \o z
  BY Zenon DEF InMarks, a, z
<1> QED BY <1>7, <1>8, Zenon DEF g, y

IsThree(q, b, c, d) == Len(q) = 3 /\ q[1] = b /\ q[2] = c /\ q[3] = d

LEMMA TailOfFour ==
  ASSUME NEW a, NEW b, NEW c, NEW d
  PROVE  IsThree(Tail(<<a, b, c, d>>), b, c, d)
<1> DEFINE s == <<a, b, c, d>>
<1>1. Len(s) = 4 /\ s[2] = b /\ s[3] = c /\ s[4] = d /\ s \in Seq({a, b, c, d})
  OBVIOUS
<1> HIDE DEF s
<1>2. Len(Tail(s)) = 3 /\ \A i \in 1..3 : Tail(s)[i] = s[i + 1]
  BY <1>1
<1>3. Tail(s)[1] = s[2] /\ Tail(s)[2] = s[3] /\ Tail(s)[3] = s[4]
  BY <1>2
<1> QED BY <1>1, <1>2, <1>3, Zenon DEF s, IsThree

\* A colour that is known.
LEMMA ColorShown ==
  ASSUME NEW x
  PROVE  M!Property(Tail(ColorName(x))) = IF x \in Colors THEN <<[color |-> x]>> ELSE <<>>
<1> DEFINE q == Tail(ColorName(x))
<1>1. Len(q) = 3 /\ q[1] = "color" /\ q[2] = "=" /\ q[3] = x
  <2>1. IsThree(q, "color", "=", x)
    BY TailOfFour, Zenon DEF ColorName
  <2> HIDE DEF q
  <2> QED BY <2>1, Zenon DEF IsThree
<1> DEFINE R(y) == <<[color |-> y]>>
<1>2. M!Property(q) =
        IF Len(q) = 3 /\ q[1] = "color" /\ q[2] = "=" /\ q[3] \in Colors THEN R(q[3]) ELSE <<>>
  BY Zenon DEF M!Property
<1> HIDE DEF q, R
<1>3. M!Property(q) = IF x \in Colors THEN R(x) ELSE <<>>
  BY <1>1, <1>2, Zenon
<1> QED BY <1>3, Zenon DEF q, R

\* The pieces of a message: its variables exist, and mark nothing.
KnownNames(D) == {v \in VariableNames(D) : M!Known(v) /\ M!Meaning(v) \in Seq(Unmarked(D))}
MessagePieces(D) ==
  {M!Piece("text", s) : s \in Seq(Unmarked(D))} \cup {M!Piece("var", v) : v \in KnownNames(D)}
  \cup {M!Piece("color", <<x>>) : x \in Unmarked(D)}

\* What a piece is displayed as.
DisplayedAs(p) ==
  CASE p.kind = "text"  -> AsChars(p.text)
    [] p.kind = "var"   -> AsChars(M!Meaning(p.text))
    [] p.kind = "color" -> IF p.text[1] \in Colors THEN <<[color |-> p.text[1]]>> ELSE <<>>

PieceShown(D, p) ==
  /\ p \in Pieces(D) /\ Fine(p) /\ Meant(p) \in Seq(D) /\ DisplayedAs(p) \in Seq(Displayed(D))
  /\ \A o \in Seq(Displayed(D)) : Leads(PrintStep(D), Shows(o), Meant(p), Shows(o \o DisplayedAs(p)))

LEMMA PiecesAreShown ==
  ASSUME NEW D, MarkupAlphabet(D), NEW p \in MessagePieces(D)
  PROVE  PieceShown(D, p)
<1>1. CASE \E s \in Seq(Unmarked(D)) : p = M!Piece("text", s)
  <2>1. PICK s \in Seq(Unmarked(D)) : p = M!Piece("text", s)
    BY <1>1, Zenon
  <2>2. p.kind = "text" /\ p.text = s
    BY <2>1, PieceRead, Zenon
  <2>3. Fine(p) /\ Meant(p) = s /\ DisplayedAs(p) = AsChars(s)
    BY <2>2, Zenon DEF Fine, Meant, DisplayedAs
  <2>4. p \in Pieces(D)
    BY <2>1, Zenon DEF Pieces, ConfigPieces
  <2>5. s \in Seq(D)
    BY UnmarkedIs
  <2>6. AsChars(s) \in Seq(Displayed(D))
    BY <2>5, CharsAre, Zenon
  <2>7. \A o \in Seq(Displayed(D)) : Leads(PrintStep(D), Shows(o), s, Shows(o \o AsChars(s)))
    BY PrintCopied, Zenon
  <2> QED BY <2>3, <2>4, <2>5, <2>6, <2>7, Zenon DEF PieceShown
<1>2. CASE \E v \in KnownNames(D) : p = M!Piece("var", v)
  <2>1. PICK v \in KnownNames(D) : p = M!Piece("var", v)
    BY <1>2, Zenon
  <2>2. p.kind = "var" /\ p.text = v
    BY <2>1, PieceRead, Zenon
  <2> DEFINE s == M!Meaning(v)
  <2>3. v \in VariableNames(D) /\ M!Known(v) /\ s \in Seq(Unmarked(D))
    BY Zenon DEF KnownNames
  <2>4. Fine(p) /\ Meant(p) = s /\ DisplayedAs(p) = AsChars(s)
    BY <2>2, <2>3, Zenon DEF Fine, Meant, DisplayedAs
  <2>5. p \in Pieces(D)
    BY <2>1, <2>3, Zenon DEF Pieces, ConfigPieces
  <2> HIDE DEF s
  <2>6. s \in Seq(D)
    BY <2>3, UnmarkedIs
  <2>7. AsChars(s) \in Seq(Displayed(D))
    BY <2>6, CharsAre, Zenon
  <2>8. \A o \in Seq(Displayed(D)) : Leads(PrintStep(D), Shows(o), s, Shows(o \o AsChars(s)))
    BY <2>3, PrintCopied, Zenon
  <2> QED BY <2>4, <2>5, <2>6, <2>7, <2>8, Zenon DEF PieceShown
<1>3. CASE \E x \in Unmarked(D) : p = M!Piece("color", <<x>>)
  <2>1. PICK x \in Unmarked(D) : p = M!Piece("color", <<x>>)
    BY <1>3, Zenon
  <2> DEFINE w == ColorName(x)
             d == IF x \in Colors THEN <<[color |-> x]>> ELSE <<>>
  <2>2. p.kind = "color" /\ p.text = <<x>>
    BY <2>1, PieceRead, Zenon
  <2>3. p.text[1] = x
    <3>1. <<x>>[1] = x
      OBVIOUS
    <3> QED BY <2>2, <3>1, Zenon
  <2>4. w \in Seq(Unmarked(D)) /\ M!Typed(p) = InMarks(w)
    BY <2>1, ColorLeft, Zenon
  <2>5. Fine(p) /\ Meant(p) = InMarks(w) /\ DisplayedAs(p) = d
    BY <2>2, <2>3, <2>4, Zenon DEF Fine, Meant, DisplayedAs
  <2>6. p \in Pieces(D)
    BY <2>1, Zenon DEF Pieces
  <2>7. w # <<>> /\ Head(w) = ":" /\ InMarks(w) \in Seq(D)
    <3>1. x \in D /\ ":" \in D /\ "color" \in D /\ "=" \in D
      BY Zenon DEF MarkupAlphabet, Unmarked
    <3>2. FourSound(D, ":", "color", "=", x, x)
      BY <3>1, FourIs, Zenon
    <3>3. <<>> \in Seq(D)
      OBVIOUS
    <3>4. InMarks(w) \in Seq(D)
      BY <2>4, <3>3, MarkupReplaced, Zenon
    <3> QED BY <3>2, <3>4, Zenon DEF ColorName, FourSound
  <2>8. M!Property(Tail(w)) = d
    BY ColorShown, Zenon
  <2>9. d \in Seq(Displayed(D))
    <3>1. w \in Seq(D)
      BY <2>4, UnmarkedIs
    <3> HIDE DEF w, d
    <3>2. Tail(w) \in Seq(D)
      BY <2>7, <3>1
    <3> QED BY <2>8, <3>2, PropertyType, Zenon
  <2> HIDE DEF w, d
  <2>10. \A o \in Seq(Displayed(D)) : Leads(PrintStep(D), Shows(o), InMarks(w), Shows(o \o d))
    <3>1. \A o \in Seq(Displayed(D)) :
            Leads(PrintStep(D), Shows(o), InMarks(w), Shows(o \o M!Property(Tail(w))))
      BY <2>4, <2>7, PrintMarked, Zenon
    <3> QED BY <2>8, <3>1, Zenon
  <2> QED BY <2>5, <2>6, <2>7, <2>9, <2>10, Zenon DEF PieceShown
<1> QED BY <1>1, <1>2, <1>3, Zenon DEF MessagePieces

LEMMA MarkupPrinted ==
  ASSUME NEW D, NEW s \in Seq(D), NEW o, Leads(PrintStep(D), NewPrinting, s, Shows(o))
  PROVE  M!Printed(s) = o
<1>1. M!Printed(s) = PrintFold(s).out
  BY Zenon DEF M!Printed, PrintFold, NewPrinting, Shows, Printing
<1>2. PrintFold(s) = Shows(o)
  BY PrintedFold
<1>3. Shows(o).out = o
  BY DEF Shows, Printing
<1> QED BY <1>1, <1>2, <1>3, Zenon

MessagesOver(D) == {M!AMessage(pieces) : pieces \in Seq(MessagePieces(D))}

LEMMA MessageRead ==
  ASSUME NEW pieces
  PROVE  LET x == M!AMessage(pieces) IN x.kind = "message" /\ x.kind # "config" /\ x.pieces = pieces
  BY DEF M!AMessage

\* Pieces of which all are shown, and what they are shown as.
DisplayedPieces(pieces) == [i \in DOMAIN pieces |-> DisplayedAs(pieces[i])]

PiecesShown(D, pieces, s, t) ==
  /\ s \in Seq(Seq(D)) /\ Len(s) = Len(pieces) /\ t \in Seq(Seq(Displayed(D))) /\ Len(t) = Len(pieces)
  /\ \A i \in 1..Len(pieces) : s[i] = Meant(pieces[i]) /\ t[i] = DisplayedAs(pieces[i])

LEMMA PiecesDisplayed ==
  ASSUME NEW D, NEW P, \A p \in P : PieceShown(D, p), NEW pieces \in Seq(P)
  PROVE  PiecesShown(D, pieces, MeantPieces(pieces), DisplayedPieces(pieces))
<1>1. Len(pieces) \in Nat /\ DOMAIN pieces = 1..Len(pieces) /\ \A i \in 1..Len(pieces) : pieces[i] \in P
  OBVIOUS
<1> DEFINE E == Displayed(D)
           T(i) == IF Fine(pieces[i]) THEN Meant(pieces[i]) ELSE <<>>
           U(i) == DisplayedAs(pieces[i])
<1>2. \A i \in 1..Len(pieces) : T(i) = Meant(pieces[i]) /\ T(i) \in Seq(D) /\ U(i) \in Seq(E)
  BY <1>1, Zenon DEF PieceShown
<1>3. /\ MeantPieces(pieces) = [i \in 1..Len(pieces) |-> T(i)]
      /\ DisplayedPieces(pieces) = [i \in 1..Len(pieces) |-> U(i)]
  BY <1>1, Zenon DEF MeantPieces, DisplayedPieces
<1> HIDE DEF T, U, E
<1>4. /\ [i \in 1..Len(pieces) |-> T(i)] \in Seq(Seq(D)) /\ Len([i \in 1..Len(pieces) |-> T(i)]) = Len(pieces)
      /\ [i \in 1..Len(pieces) |-> U(i)] \in Seq(Seq(E)) /\ Len([i \in 1..Len(pieces) |-> U(i)]) = Len(pieces)
      /\ \A i \in 1..Len(pieces) :
           [j \in 1..Len(pieces) |-> T(j)][i] = T(i) /\ [j \in 1..Len(pieces) |-> U(j)][i] = U(i)
  BY <1>1, <1>2
<1> QED BY <1>2, <1>3, <1>4, Zenon DEF U, E, PiecesShown

\* A message is displayed as its pieces are.
LEMMA MessageDisplayed ==
  ASSUME NEW D, MarkupAlphabet(D), NEW pieces \in Seq(MessagePieces(D))
  PROVE  M!Shown(M!TypedAll(pieces)) = FlattenSeq(DisplayedPieces(pieces))
<1> DEFINE g == PrintStep(D)
           E == Displayed(D)
           s == MeantPieces(pieces)
           t == DisplayedPieces(pieces)
           m == [o \in Seq(E) |-> Shows(o)]
<1>0. DOMAIN pieces = 1..Len(pieces) /\ \A i \in 1..Len(pieces) : pieces[i] \in MessagePieces(D)
  OBVIOUS
<1>1. \A p \in MessagePieces(D) : PieceShown(D, p)
  BY PiecesAreShown, Zenon
<1>2. PiecesShown(D, pieces, s, t)
  BY <1>1, PiecesDisplayed, Zenon
<1>3. pieces \in Seq(Pieces(D)) /\ \A i \in 1..Len(pieces) : Fine(pieces[i])
  <2>1. MessagePieces(D) \subseteq Pieces(D)
    BY <1>1, Zenon DEF PieceShown
  <2>2. pieces \in Seq(Pieces(D))
    BY <2>1
  <2> QED BY <1>0, <1>1, <2>2, Zenon DEF PieceShown
<1>4. M!Resolved(M!TypedAll(pieces), FALSE).out = FlattenSeq(s)
  <2> DEFINE b == FALSE
  <2> HIDE DEF b
  <2>1. M!Resolved(M!TypedAll(pieces), b).out = FlattenSeq(s)
    BY <1>3, AllGiven, Zenon
  <2> QED BY <2>1, Zenon DEF b
<1>5. \A o \in Seq(E) : m[o] = Shows(o)
  OBVIOUS
<1> HIDE DEF g, s, t, m, E
<1>6. /\ s \in Seq(Seq(D)) /\ Len(s) = Len(pieces) /\ t \in Seq(Seq(E)) /\ Len(t) = Len(pieces)
      /\ \A i \in 1..Len(pieces) : s[i] = Meant(pieces[i]) /\ t[i] = DisplayedAs(pieces[i])
  BY <1>2, Zenon DEF PiecesShown, E
<1>7. ASSUME NEW i \in 1..Len(s), NEW o \in Seq(E) PROVE Leads(g, m[o], s[i], m[o \o t[i]])
  <2>1. i \in 1..Len(pieces) /\ PieceShown(D, pieces[i])
    BY <1>0, <1>1, <1>6
  <2>2. Leads(g, Shows(o), s[i], Shows(o \o t[i]))
    BY <1>6, <2>1, Zenon DEF PieceShown, g, E
  <2>3. t[i] \in Seq(E)
    BY <1>6
  <2>4. o \o t[i] \in Seq(E)
    BY <2>3
  <2> QED BY <1>5, <2>2, <2>4, Zenon
<1>8. Leads(g, m[<<>>], FlattenSeq(s), m[FlattenSeq(t)])
  BY <1>6, <1>7, LeadsThrough
<1>9. <<>> \in Seq(E) /\ FlattenSeq(t) \in Seq(E) /\ FlattenSeq(s) \in Seq(D)
  BY <1>6, FlatType
<1>10. m[<<>>] = NewPrinting /\ m[FlattenSeq(t)] = Shows(FlattenSeq(t))
  BY <1>5, <1>9, Zenon DEF NewPrinting
<1>11. M!Printed(FlattenSeq(s)) = FlattenSeq(t)
  <2>1. Leads(g, NewPrinting, FlattenSeq(s), Shows(FlattenSeq(t)))
    BY <1>8, <1>10, Zenon
  <2> QED BY <1>9, <2>1, MarkupPrinted, Zenon DEF g
<1> QED BY <1>4, <1>11, Zenon DEF M!Shown, t

\* A message whose variables exist is displayed with their values and its colours.
LEMMA MessageTaken ==
  ASSUME NEW D, MarkupAlphabet(D), sample \in MessagesOver(D)
  PROVE  M!MessageAsMeant
<1>1. PICK pieces \in Seq(MessagePieces(D)) : sample = M!AMessage(pieces)
  BY Zenon DEF MessagesOver
<1>2. sample.pieces = pieces
  BY <1>1, MessageRead, Zenon
<1>3. M!Shown(M!TypedAll(pieces)) = M!FlattenSeq(DisplayedPieces(pieces))
  BY MessageDisplayed, FlatAlike, Zenon
<1>4. M!Shown(M!TypedAll(sample.pieces)) = M!FlattenSeq(DisplayedPieces(sample.pieces))
  BY <1>2, <1>3, Zenon
<1> QED BY <1>4 DEF M!MessageAsMeant, DisplayedPieces, DisplayedAs, AsChars

\* The strings of which the theorem speaks: their variables have any names, and the values
\* of those of a message mark nothing.
AnyConfigPieces(D) ==
  {M!Piece("text", s) : s \in Seq(Unmarked(D))} \cup {M!Piece("var", v) : v \in AnyNames(D)}
AnyKnownNames(D) == {v \in AnyNames(D) : M!Known(v) /\ M!Meaning(v) \in Seq(Unmarked(D))}
AnyMessagePieces(D) ==
  {M!Piece("text", s) : s \in Seq(Unmarked(D))} \cup {M!Piece("var", v) : v \in AnyKnownNames(D)}
  \cup {M!Piece("color", <<x>>) : x \in Unmarked(D)}
StringsOver(D) ==
  {M!ConfigText(pieces) : pieces \in Seq(AnyConfigPieces(D))}
  \cup {M!AMessage(pieces) : pieces \in Seq(AnyMessagePieces(D))}

\* What UsesOrdinary says of a piece.
UsesOrdinaryName(p) == p.kind = "var" => M!Ordinary(p.text)

LEMMA NamesUsed ==
  ASSUME NEW D, NEW v \in AnyNames(D), UsesOrdinaryName(M!Piece("var", v))
  PROVE  v \in VariableNames(D)
<1>1. M!Piece("var", v).kind = "var" /\ M!Piece("var", v).text = v
  BY PieceRead, Zenon
<1>2. M!Ordinary(v)
  BY <1>1, Zenon DEF UsesOrdinaryName
<1> QED BY <1>2, Zenon DEF M!Ordinary, VariableNames

LEMMA PiecesUsed ==
  ASSUME NEW D, NEW p, UsesOrdinaryName(p)
  PROVE  /\ p \in AnyConfigPieces(D) => p \in ConfigPieces(D)
         /\ p \in AnyMessagePieces(D) => p \in MessagePieces(D)
<1>1. ASSUME NEW v \in AnyNames(D), p = M!Piece("var", v) PROVE v \in VariableNames(D)
  BY <1>1, NamesUsed, Zenon
<1>2. ASSUME p \in AnyConfigPieces(D) PROVE p \in ConfigPieces(D)
  <2>1. CASE \E s \in Seq(Unmarked(D)) : p = M!Piece("text", s)
    BY <2>1, Zenon DEF ConfigPieces
  <2>2. CASE \E v \in AnyNames(D) : p = M!Piece("var", v)
    BY <1>1, <2>2, Zenon DEF ConfigPieces
  <2> QED BY <1>2, <2>1, <2>2, Zenon DEF AnyConfigPieces
<1>3. ASSUME p \in AnyMessagePieces(D) PROVE p \in MessagePieces(D)
  <2>1. CASE \E s \in Seq(Unmarked(D)) : p = M!Piece("text", s)
    BY <2>1, Zenon DEF MessagePieces
  <2>2. CASE \E v \in AnyKnownNames(D) : p = M!Piece("var", v)
    <3>1. PICK v \in AnyKnownNames(D) : p = M!Piece("var", v)
      BY <2>2, Zenon
    <3>2. v \in AnyNames(D) /\ M!Known(v) /\ M!Meaning(v) \in Seq(Unmarked(D))
      BY Zenon DEF AnyKnownNames
    <3>3. v \in KnownNames(D)
      BY <1>1, <3>1, <3>2, Zenon DEF KnownNames
    <3> QED BY <3>1, <3>3, Zenon DEF MessagePieces
  <2>3. CASE \E x \in Unmarked(D) : p = M!Piece("color", <<x>>)
    BY <2>3, Zenon DEF MessagePieces
  <2> QED BY <1>3, <2>1, <2>2, <2>3, Zenon DEF AnyMessagePieces
<1> QED BY <1>2, <1>3, Zenon

\* What is between "<" and ">" never changes a string to something that was not meant: a
\* string of the configuration, whose environment variables have more than a letter, is
\* taken with the values of all its variables or refused, a message is displayed with its
\* values and its known colours (EVSStrResolver, ConStrPropResolver).
THEOREM StringsReach ==
  ASSUME NEW D, MarkupAlphabet(D), sample \in StringsOver(D)
  PROVE  StringsAsMeant
<1> SUFFICES ASSUME M!UsesOrdinary PROVE M!ConfigAllOrNothing /\ M!MessageAsMeant
  BY Zenon DEF StringsAsMeant, M!StringsAsMeant
<1>0. \A i \in DOMAIN sample.pieces : UsesOrdinaryName(sample.pieces[i])
  BY Zenon DEF M!UsesOrdinary, UsesOrdinaryName
<1>1. CASE \E pieces \in Seq(AnyConfigPieces(D)) : sample = M!ConfigText(pieces)
  <2>1. PICK pieces \in Seq(AnyConfigPieces(D)) : sample = M!ConfigText(pieces)
    BY <1>1, Zenon
  <2>2. sample.kind # "message" /\ sample.pieces = pieces
    BY <2>1, ConfigRead, Zenon
  <2>3. \A i \in DOMAIN pieces : pieces[i] \in AnyConfigPieces(D)
    OBVIOUS
  <2>4. \A i \in DOMAIN pieces : pieces[i] \in ConfigPieces(D)
    BY <1>0, <2>2, <2>3, PiecesUsed, Zenon
  <2>5. pieces \in Seq(ConfigPieces(D))
    BY <2>4
  <2>6. sample \in ConfigsOver(D)
    BY <2>1, <2>5, Zenon DEF ConfigsOver
  <2> QED BY <2>2, <2>6, ConfigTaken, Zenon DEF M!MessageAsMeant
<1>2. CASE \E pieces \in Seq(AnyMessagePieces(D)) : sample = M!AMessage(pieces)
  <2>1. PICK pieces \in Seq(AnyMessagePieces(D)) : sample = M!AMessage(pieces)
    BY <1>2, Zenon
  <2>2. sample.kind # "config" /\ sample.pieces = pieces
    BY <2>1, MessageRead, Zenon
  <2>3. \A i \in DOMAIN pieces : pieces[i] \in AnyMessagePieces(D)
    OBVIOUS
  <2>4. \A i \in DOMAIN pieces : pieces[i] \in MessagePieces(D)
    BY <1>0, <2>2, <2>3, PiecesUsed, Zenon
  <2>5. pieces \in Seq(MessagePieces(D))
    BY <2>4
  <2>6. sample \in MessagesOver(D)
    BY <2>1, <2>5, Zenon DEF MessagesOver
  <2> QED BY <2>2, <2>6, MessageTaken, Zenon DEF M!ConfigAllOrNothing
<1> QED BY <1>1, <1>2, Zenon DEF StringsOver

-----------------------------------------------------------------------------
(* What the programs write byte by byte (Bytes).  First the folds: one is  *)
(* known by what it does with each place, if it does it at all.            *)

\* What a fold of s by g does: f[t] is the fold of the places t.
IsFold(f, R, s, base, g) ==
  /\ f[{}] = base
  /\ \A t \in SUBSET (DOMAIN s) : t # {} /\ f[t \ {Max(t)}] \in R =>
       f[t] = g[<<f[t \ {Max(t)}], s[Max(t)]>>]

\* It ends where its steps lead, and with what they are about.
LEMMA FoldEnds ==
  ASSUME NEW R, NEW E, NEW s \in Seq(E), NEW base \in R, NEW g \in [R \X E -> R], NEW f,
         IsFold(f, R, s, base, g)
  PROVE  Leads(g, base, s, f[DOMAIN s]) /\ f[DOMAIN s] \in R
<1>1. Len(s) \in Nat /\ DOMAIN s = 1..Len(s) /\ \A k \in 1..Len(s) : s[k] \in E
  OBVIOUS
<1>2. ASSUME NEW k \in 0..Len(s) - 1, f[1..k] \in R
      PROVE  f[1..k + 1] = g[<<f[1..k], s[k + 1]>>]
  <2>1. k \in Nat /\ k + 1 \in 1..Len(s)
    BY <1>1
  <2>2. k + 1 \in 1..k + 1 /\ 1..k + 1 \subseteq 1..Len(s) /\ (1..k + 1) \ {k + 1} = 1..k
    BY <1>1, <2>1
  <2>3. 1..k + 1 \in SUBSET (DOMAIN s) /\ 1..k + 1 # {} /\ 1..k + 1 \in SUBSET (1..k + 1)
    BY <1>1, <2>2
  <2>4. Max(1..k + 1) = k + 1
    BY <2>1, <2>2, <2>3, MaxIs, Zenon
  <2> QED BY <1>2, <2>2, <2>3, <2>4, Zenon DEF IsFold
<1>3. Climbs(f, R, s, base, g)
  BY <1>2, Zenon DEF Climbs, IsFold
<1>4. Leads(g, base, s, f[DOMAIN s])
  BY <1>3, TableLeads
<1>5. PICK h : IsTable(h, R, E, s, base, g)
  BY FoldTable, Zenon
<1>6. IsFold(h, R, s, base, g) /\ h[DOMAIN s] \in R
  BY <1>5, Zenon DEF IsTable, IsFold
<1>7. ASSUME NEW k \in 0..Len(s) - 1, h[1..k] \in R
      PROVE  h[1..k + 1] = g[<<h[1..k], s[k + 1]>>]
  <2>1. k \in Nat /\ k + 1 \in 1..Len(s)
    BY <1>1
  <2>2. k + 1 \in 1..k + 1 /\ 1..k + 1 \subseteq 1..Len(s) /\ (1..k + 1) \ {k + 1} = 1..k
    BY <1>1, <2>1
  <2>3. 1..k + 1 \in SUBSET (DOMAIN s) /\ 1..k + 1 # {} /\ 1..k + 1 \in SUBSET (1..k + 1)
    BY <1>1, <2>2
  <2>4. Max(1..k + 1) = k + 1
    BY <2>1, <2>2, <2>3, MaxIs, Zenon
  <2> QED BY <1>6, <1>7, <2>2, <2>3, <2>4, Zenon DEF IsFold
<1>8. Climbs(h, R, s, base, g)
  BY <1>6, <1>7, Zenon DEF Climbs, IsFold
<1>9. Leads(g, base, s, h[DOMAIN s])
  BY <1>8, TableLeads
<1>10. f[DOMAIN s] = h[DOMAIN s]
  BY <1>4, <1>9, LeadsOnce
<1> QED BY <1>4, <1>6, <1>10, Zenon

-----------------------------------------------------------------------------
(* Integers as bytes.                                                      *)

\* p has the powers of B up to m.
Powers(p, B, m) == p \in [0..m -> Nat] /\ \A n \in 0..m : p[n] = IF n = 0 THEN 1 ELSE B * p[n - 1]

LEMMA PowersExist ==
  ASSUME NEW B \in Nat, NEW m \in Nat
  PROVE  \E p : Powers(p, B, m)
<1> DEFINE K == {k \in Nat : \E p : Powers(p, B, k)}
<1>1. 0 \in K
  <2> DEFINE p == [n \in 0..0 |-> 1]
  <2>1. Powers(p, B, 0)
    BY DEF Powers
  <2> QED BY <2>1, Zenon
<1>2. ASSUME NEW k \in Nat, k \in K PROVE k + 1 \in K
  <2>1. PICK p : Powers(p, B, k)
    BY <1>2
  <2> DEFINE b == B * p[k]
             q == [n \in 0..k + 1 |-> IF n = k + 1 THEN b ELSE p[n]]
  <2>2. p[k] \in Nat
    BY <1>2, <2>1 DEF Powers
  <2>3. b \in Nat
    BY <2>2
  <2> HIDE DEF b
  <2>4. q \in [0..k + 1 -> Nat]
    BY <1>2, <2>1, <2>3 DEF Powers
  <2>5. q[k + 1] = b /\ \A n \in 0..k : q[n] = p[n]
    BY <1>2
  <2> HIDE DEF q
  <2>6. ASSUME NEW n \in 0..k + 1 PROVE q[n] = IF n = 0 THEN 1 ELSE B * q[n - 1]
    <3>1. CASE n = k + 1
      <4>1. n # 0 /\ n - 1 = k /\ k \in 0..k
        BY <1>2, <3>1
      <4>2. q[n - 1] = p[k] /\ q[n] = b
        BY <2>5, <3>1, <4>1
      <4> QED BY <4>1, <4>2 DEF b
    <3>2. CASE n # k + 1
      <4>1. n \in 0..k /\ (n # 0 => n - 1 \in 0..k)
        BY <1>2, <3>2
      <4>2. q[n] = p[n] /\ (n # 0 => q[n - 1] = p[n - 1])
        BY <2>5, <4>1
      <4>3. p[n] = IF n = 0 THEN 1 ELSE B * p[n - 1]
        BY <2>1, <4>1 DEF Powers
      <4> QED BY <4>2, <4>3, Zenon
    <3> QED BY <3>1, <3>2
  <2>7. Powers(q, B, k + 1)
    BY <2>4, <2>6 DEF Powers
  <2>8. k + 1 \in Nat
    BY <1>2
  <2> QED BY <2>7, <2>8, Zenon
<1>3. m \in K
  <2> HIDE DEF K
  <2> QED BY <1>1, <1>2, NatSets
<1> QED BY <1>3

LEMMA PowersOnce ==
  ASSUME NEW B \in Nat, NEW m \in Nat, NEW l \in Nat, NEW p, Powers(p, B, m), NEW q, Powers(q, B, l),
         NEW n \in 0..m, n <= l
  PROVE  p[n] = q[n]
<1> DEFINE K == {k \in Nat : k <= m /\ k <= l => p[k] = q[k]}
<1>1. 0 \in K
  BY DEF Powers
<1>2. ASSUME NEW k \in Nat, k \in K PROVE k + 1 \in K
  <2> SUFFICES ASSUME k + 1 <= m, k + 1 <= l PROVE p[k + 1] = q[k + 1]
    BY <1>2
  <2>1. k + 1 \in 0..m /\ k + 1 \in 0..l /\ k + 1 # 0 /\ (k + 1) - 1 = k /\ p[k] = q[k]
    BY <1>2
  <2>2. p[k + 1] = B * p[k] /\ q[k + 1] = B * q[k]
    BY <2>1 DEF Powers
  <2> QED BY <2>1, <2>2, Zenon
<1>3. n \in K
  <2> HIDE DEF K
  <2> QED BY <1>1, <1>2, NatSets
<1> QED BY <1>3

\* Power is what its definition says.
LEMMA PowerIs ==
  /\ Octets!Power[0] = 1
  /\ \A n \in Nat : Octets!Power[n] \in Nat \ {0} /\ Octets!Power[n + 1] = Base * Octets!Power[n]
<1>0. Base \in Nat /\ Base > 1
  BY BytesAssumption
<1> DEFINE At(n) == CHOOSE v : \E p : Powers(p, Base, n) /\ v = p[n]
           f == [n \in Nat |-> At(n)]
           Is(p) == p = [n \in Nat |-> IF n = 0 THEN 1 ELSE Base * p[n - 1]]
<1>1. ASSUME NEW n \in Nat, NEW m \in n..n + 1, NEW p, Powers(p, Base, m) PROVE f[n] = p[n]
  <2>1. \E q : Powers(q, Base, n)
    BY <1>0, PowersExist
  <2>2. \E v : \E q : Powers(q, Base, n) /\ v = q[n]
    BY <2>1, Zenon
  <2>3. PICK q : Powers(q, Base, n) /\ At(n) = q[n]
    BY <2>2, Zenon
  <2>4. q[n] = p[n]
    BY <1>0, <1>1, <2>3, PowersOnce
  <2> QED BY <2>3, <2>4
<1>1a. f = [n \in Nat |-> f[n]]
  OBVIOUS
<1> HIDE DEF f
<1>2. ASSUME NEW n \in Nat PROVE f[n] = IF n = 0 THEN 1 ELSE Base * f[n - 1]
  <2>1. PICK p : Powers(p, Base, n)
    BY <1>0, PowersExist
  <2>2. f[n] = p[n]
    BY <1>1, <2>1
  <2>3. n # 0 => f[n - 1] = p[n - 1]
    <3>1. n # 0 => n - 1 \in Nat /\ n \in n - 1..(n - 1) + 1
      OBVIOUS
    <3> QED BY <1>1, <2>1, <3>1
  <2>4. p[n] = IF n = 0 THEN 1 ELSE Base * p[n - 1]
    BY <2>1 DEF Powers
  <2> QED BY <2>2, <2>3, <2>4
<1>3. Is(f)
  BY <1>1a, <1>2
<1>4. Octets!Power = CHOOSE p : Is(p)
  BY Zenon DEF Octets!Power
<1>5. Is(Octets!Power)
  BY <1>3, <1>4, Zenon
<1> DEFINE P == Octets!Power
<1>6. P[0] = 1 /\ \A n \in Nat : P[n + 1] = Base * P[n]
  <2> HIDE DEF P
  <2>1. Is(P)
    BY <1>5 DEF P
  <2>2. \A n \in Nat : P[n] = IF n = 0 THEN 1 ELSE Base * P[n - 1]
    BY <2>1
  <2>3. ASSUME NEW n \in Nat PROVE P[n + 1] = Base * P[n]
    <3>1. n + 1 \in Nat /\ n + 1 # 0 /\ (n + 1) - 1 = n
      OBVIOUS
    <3>2. P[n + 1] = IF n + 1 = 0 THEN 1 ELSE Base * P[(n + 1) - 1]
      BY <2>2, <3>1, Zenon
    <3> QED BY <3>1, <3>2, Zenon
  <2> QED BY <2>2, <2>3
<1> HIDE DEF P
<1> DEFINE K == {n \in Nat : P[n] \in Nat \ {0}}
<1>7. 0 \in K
  BY <1>6
<1>8. ASSUME NEW n \in Nat, n \in K PROVE n + 1 \in K
  <2>1. P[n] \in Nat \ {0} /\ P[n + 1] = Base * P[n]
    BY <1>6, <1>8
  <2> DEFINE x == P[n]
             b == Base
  <2>2. x \in Nat /\ x > 0 /\ b \in Nat /\ b > 0
    BY <1>0, <2>1
  <2> HIDE DEF x, b
  <2>3. b * x \in Nat /\ b * x > 0
    BY <2>2
  <2> QED BY <2>1, <2>3 DEF x, b
<1>9. Nat \subseteq K
  <2> HIDE DEF K
  <2> QED BY <1>7, <1>8, NatSets
<1> QED BY <1>6, <1>9 DEF P


LEMMA PowerAt ==
  ASSUME NEW n \in Nat
  PROVE  Octets!Power[n] \in Nat /\ Octets!Power[n] > 0 /\ Octets!Power[n + 1] = Base * Octets!Power[n]
<1> DEFINE P == Octets!Power
<1>1. P[n] \in Nat \ {0} /\ P[n + 1] = Base * P[n]
  BY PowerIs, Zenon
<1> HIDE DEF P
<1>2. P[n] \in Nat /\ P[n] > 0
  BY <1>1
<1> QED BY <1>1, <1>2 DEF P

\* The rest of a division is what is left below the divisor.
LEMMA RestIs ==
  ASSUME NEW n \in Nat, n > 0, NEW q \in Nat, NEW r \in 0..n - 1, NEW v, v = q * n + r
  PROVE  v % n = r /\ v \div n = q
  OBVIOUS

LEMMA Divided ==
  ASSUME NEW n \in Nat, n > 0, NEW v \in Nat
  PROVE  /\ v \div n \in Nat /\ v % n \in 0..n - 1
         /\ v = (v \div n) * n + (v % n)
  OBVIOUS

\* One digit more of a number.
LEMMA DigitMore ==
  ASSUME NEW b \in Nat, b > 0, NEW p \in Nat, p > 0, NEW v \in Nat
  PROVE  v % (b * p) = (v % p) + ((v \div p) % b) * p
<1> DEFINE q == v \div p
           r == v % p
           e == q \div b
           d == q % b
<1>1. q \in Nat /\ r \in 0..p - 1 /\ v = q * p + r
  BY Divided
<1> HIDE DEF q, r
<1>2. e \in Nat /\ d \in 0..b - 1 /\ q = e * b + d
  BY <1>1, Divided
<1> HIDE DEF e, d
<1> DEFINE w == b * p
           s == d * p + r
<1>3. w \in Nat /\ w > 0
  OBVIOUS
<1>4. s \in 0..w - 1
  <2>1. d * p <= (b - 1) * p
    BY <1>2
  <2>2. (b - 1) * p = b * p - p
    OBVIOUS
  <2>3. d * p \in Nat
    BY <1>2
  <2> QED BY <1>1, <2>1, <2>2, <2>3
<1>5. v = e * w + s
  <2>1. q * p = (e * b + d) * p
    BY <1>2
  <2>2. (e * b + d) * p = e * (b * p) + d * p
    BY <1>2
  <2> QED BY <1>1, <1>2, <2>1, <2>2
<1> HIDE DEF w, s
<1>6. v % w = s
  BY <1>2, <1>3, <1>4, <1>5, RestIs
<1> QED BY <1>1, <1>2, <1>6 DEF w, s, d, q, r


Indices(b) == [i \in DOMAIN b |-> i]
Summed(b, v, i) == v + b[i] * Octets!Power[i - 1]
ValueStep(b) == [x \in Nat \X (1..Len(b)) |-> Summed(b, x[1], x[2])]

LEMMA IndicesAre ==
  ASSUME NEW b, NEW n \in Nat, DOMAIN b = 1..n
  PROVE  /\ Indices(b) \in Seq(1..n) /\ Len(Indices(b)) = n /\ DOMAIN Indices(b) = 1..n
         /\ \A i \in 1..n : Indices(b)[i] = i
<1> DEFINE p == [i \in 1..n |-> i]
<1>1. p \in Seq(1..n) /\ Len(p) = n /\ DOMAIN p = 1..n /\ \A i \in 1..n : p[i] = i
  OBVIOUS
<1>2. Indices(b) = p
  BY DEF Indices
<1> QED BY <1>1, <1>2, Zenon

LEMMA ValueStepIs ==
  ASSUME NEW b \in Seq(Nat)
  PROVE  /\ ValueStep(b) \in [Nat \X (1..Len(b)) -> Nat]
         /\ \A v \in Nat, i \in 1..Len(b) : ValueStep(b)[<<v, i>>] = v + b[i] * Octets!Power[i - 1]
<1>1. ASSUME NEW v \in Nat, NEW i \in 1..Len(b) PROVE v + b[i] * Octets!Power[i - 1] \in Nat
  <2> DEFINE x == b[i]
             y == Octets!Power[i - 1]
  <2>1. x \in Nat /\ i - 1 \in Nat
    OBVIOUS
  <2>1a. y \in Nat
    BY <2>1, PowerAt, Zenon
  <2> HIDE DEF x, y
  <2>2. v + x * y \in Nat
    BY <2>1, <2>1a
  <2> QED BY <2>2 DEF x, y
<1>2. \A v \in Nat, i \in 1..Len(b) : Summed(b, v, i) \in Nat
  BY <1>1 DEF Summed
<1>3. /\ ValueStep(b) \in [Nat \X (1..Len(b)) -> Nat]
      /\ \A v \in Nat, i \in 1..Len(b) : ValueStep(b)[<<v, i>>] = Summed(b, v, i)
  BY <1>2 DEF ValueStep
<1> QED BY <1>3, Zenon DEF Summed

\* What extractInt sums up.
LEMMA ValueLeads ==
  ASSUME NEW b \in Seq(Nat)
  PROVE  Leads(ValueStep(b), 0, Indices(b), Octets!FromBytes(b)) /\ Octets!FromBytes(b) \in Nat
<1> DEFINE g == ValueStep(b)
           s == Indices(b)
           n == Len(b)
           T == SUBSET (DOMAIN s)
           Is(f) == f = [t \in T |-> IF t = {} THEN 0
                                     ELSE f[t \ {Max(t)}] + b[s[Max(t)]] * Octets!Power[s[Max(t)] - 1]]
<1>1. Octets!FromBytes(b) = (CHOOSE f : Is(f))[DOMAIN s]
  BY Zenon DEF Octets!FromBytes, Octets!FoldLeftDomain, Octets!FoldLeft, Octets!MapThenFoldSet, Octets!Max, Max, Indices
<1>2. /\ g \in [Nat \X (1..n) -> Nat]
      /\ \A v \in Nat, i \in 1..n : g[<<v, i>>] = v + b[i] * Octets!Power[i - 1]
  BY ValueStepIs
<1>3. n \in Nat /\ s \in Seq(1..n) /\ DOMAIN s = 1..n
  <2>1. DOMAIN b = 1..n /\ n \in Nat
    OBVIOUS
  <2> HIDE DEF n
  <2> QED BY <2>1, IndicesAre
<1> HIDE DEF g, s, n
<1>4. PICK h : IsTable(h, Nat, 1..n, s, 0, g)
  BY <1>2, <1>3, FoldTable
<1>5. Is(h)
  <2>1. \A t \in T : h[t] = IF t = {} THEN 0
                            ELSE h[t \ {Max(t)}] + b[s[Max(t)]] * Octets!Power[s[Max(t)] - 1]
    BY <1>2, <1>4, Zenon DEF IsTable
  <2>2. h \in [T -> Nat]
    BY <1>4 DEF IsTable
  <2> HIDE DEF T
  <2>3. h = [t \in T |-> h[t]]
    BY <2>2
  <2> QED BY <2>1, <2>3, Zenon
<1> DEFINE f == CHOOSE f : Is(f)
<1>6. Is(f)
  BY <1>5, Zenon
<1> HIDE DEF f
<1>7. IsFold(f, Nat, s, 0, g)
  <2>1. f[{}] = 0
    <3>1. {} \in T
      OBVIOUS
    <3> HIDE DEF T
    <3> QED BY <1>6, <3>1, Zenon
  <2>2. ASSUME NEW t \in T, t # {}, f[t \ {Max(t)}] \in Nat
        PROVE  f[t] = g[<<f[t \ {Max(t)}], s[Max(t)]>>]
    <3>1. f[t] = f[t \ {Max(t)}] + b[s[Max(t)]] * Octets!Power[s[Max(t)] - 1]
      BY <1>6, <2>2, Zenon
    <3>2. s[Max(t)] \in 1..n
      BY <1>4, <2>2 DEF IsTable
    <3> QED BY <1>2, <2>2, <3>1, <3>2, Zenon
  <2> QED BY <2>1, <2>2, Zenon DEF IsFold
<1>8. Leads(g, 0, s, f[DOMAIN s]) /\ f[DOMAIN s] \in Nat
  BY <1>2, <1>3, <1>7, FoldEnds
<1> QED BY <1>1, <1>8, Zenon DEF f, g, s

\* What is known of the sums at each place is known of the integer.
LEMMA ValueIs ==
  ASSUME NEW b \in Seq(Nat), NEW st, st[0] = 0,
         \A k \in 0..Len(b) - 1 : st[k] \in Nat /\ st[k + 1] = st[k] + b[k + 1] * Octets!Power[k]
  PROVE  Octets!FromBytes(b) = st[Len(b)]
<1> DEFINE g == ValueStep(b)
           s == Indices(b)
<1>1. Len(b) \in Nat /\ DOMAIN b = 1..Len(b)
  OBVIOUS
<1>2. s \in Seq(1..Len(b)) /\ Len(s) = Len(b) /\ \A i \in 1..Len(b) : s[i] = i
  BY <1>1, IndicesAre
<1>3. \A v \in Nat, i \in 1..Len(b) : g[<<v, i>>] = v + b[i] * Octets!Power[i - 1]
  BY ValueStepIs
<1> HIDE DEF g, s
<1>4. ASSUME NEW k \in 0..Len(s) - 1 PROVE st[k + 1] = g[<<st[k], s[k + 1]>>]
  <2>1. k \in 0..Len(b) - 1 /\ k + 1 \in 1..Len(b) /\ (k + 1) - 1 = k
    BY <1>1, <1>2
  <2>2. s[k + 1] = k + 1
    BY <1>2, <2>1
  <2>3. g[<<st[k], k + 1>>] = st[k] + b[k + 1] * Octets!Power[(k + 1) - 1]
    BY <1>3, <2>1, Zenon
  <2> QED BY <2>1, <2>2, <2>3, Zenon
<1>5. Leads(g, st[0], s, st[Len(s)])
  BY <1>2, <1>4, LeadsEach
<1>6. Leads(g, 0, s, Octets!FromBytes(b))
  BY ValueLeads DEF g, s
<1>7. Octets!FromBytes(b) = st[Len(s)]
  BY <1>2, <1>5, <1>6, LeadsOnce
<1> QED BY <1>2, <1>7, Zenon

LEMMA BytesAre == Base \in Nat /\ Base > 1 /\ Octets!Byte = 0..Base - 1 /\ Octets!Byte \subseteq Nat
<1>1. Base \in Nat /\ Base > 1
  BY BytesAssumption
<1> QED BY <1>1 DEF Octets!Byte

LEMMA ToBytesIs ==
  ASSUME NEW v \in Nat, NEW w \in Nat
  PROVE  /\ Octets!ToBytes(v, w) \in Seq(Octets!Byte) /\ Octets!ToBytes(v, w) \in Seq(Nat)
         /\ Len(Octets!ToBytes(v, w)) = w
         /\ \A k \in 0..w - 1 : Octets!ToBytes(v, w)[k + 1] = (v \div Octets!Power[k]) % Base
<1> DEFINE d(i) == (v \div Octets!Power[i - 1]) % Base
           s == [i \in 1..w |-> d(i)]
<1>1. ASSUME NEW i \in 1..w PROVE d(i) \in Octets!Byte
  <2> DEFINE p == Octets!Power[i - 1]
             q == v \div p
  <2>1. i - 1 \in Nat
    OBVIOUS
  <2>2. p \in Nat /\ p > 0
    BY <2>1, PowerAt, Zenon
  <2>3. Base \in Nat /\ Base > 0
    BY BytesAre
  <2> HIDE DEF p
  <2>4. q \in Nat
    BY <2>2, Divided, Zenon
  <2> HIDE DEF q
  <2>5. q % Base \in 0..Base - 1
    BY <2>3, <2>4, Divided, Zenon
  <2> QED BY <2>5, BytesAre, Zenon DEF p, q
<1>2. Octets!ToBytes(v, w) = s
  BY Zenon DEF Octets!ToBytes
<1>3. \A k \in 0..w - 1 : s[k + 1] = d(k + 1)
  <2> HIDE DEF d
  <2> QED OBVIOUS
<1>4. \A k \in 0..w - 1 : d(k + 1) = (v \div Octets!Power[k]) % Base
  <2>1. ASSUME NEW k \in 0..w - 1 PROVE d(k + 1) = (v \div Octets!Power[k]) % Base
    <3>1. (k + 1) - 1 = k
      OBVIOUS
    <3> QED BY <3>1, Zenon
  <2> QED BY <2>1
<1> HIDE DEF d
<1>5. s \in Seq(Octets!Byte) /\ Len(s) = w
  BY <1>1
<1>6. s \in Seq(Nat)
  <2> HIDE DEF s
  <2> QED BY <1>5, BytesAre
<1> QED BY <1>2, <1>3, <1>4, <1>5, <1>6, Zenon

\* An integer that fits in its bytes is read back.
LEMMA IntegerReadBack ==
  ASSUME NEW w \in Nat, NEW v \in Nat, v < Octets!Power[w]
  PROVE  Octets!FromBytes(Octets!ToBytes(v, w)) = v
<1> DEFINE b == Octets!ToBytes(v, w)
           st == [k \in 0..w |-> v % Octets!Power[k]]
<1>1. b \in Seq(Nat) /\ Len(b) = w /\ \A k \in 0..w - 1 : b[k + 1] = (v \div Octets!Power[k]) % Base
  BY ToBytesIs
<1>2. \A k \in 0..w : st[k] = v % Octets!Power[k]
  OBVIOUS
<1> HIDE DEF b, st
<1>3. st[0] = 0
  <2>1. Octets!Power[0] = 1
    BY PowerIs, Zenon
  <2>2. st[0] = v % 1
    BY <1>2, <2>1
  <2> QED BY <2>2
<1>4. ASSUME NEW k \in 0..w - 1
      PROVE  st[k] \in Nat /\ st[k + 1] = st[k] + b[k + 1] * Octets!Power[k]
  <2> DEFINE p == Octets!Power[k]
  <2>1. k \in Nat /\ k \in 0..w /\ k + 1 \in 0..w
    BY <1>4
  <2>2. p \in Nat /\ p > 0 /\ Octets!Power[k + 1] = Base * p
    BY <2>1, PowerAt, Zenon
  <2>3. st[k] = v % p /\ st[k + 1] = v % (Base * p) /\ b[k + 1] = (v \div p) % Base
    BY <1>1, <1>2, <1>4, <2>1, <2>2, Zenon
  <2>4. Base \in Nat /\ Base > 0
    BY BytesAre
  <2> HIDE DEF p
  <2>5. v % (Base * p) = (v % p) + ((v \div p) % Base) * p
    BY <2>2, <2>4, DigitMore
  <2>6. v % p \in 0..p - 1
    BY <2>2, Divided
  <2> DEFINE r == v % p
             e == (v \div p) % Base
  <2>7. r \in Nat
    BY <2>2, <2>6
  <2> HIDE DEF r, e
  <2>8. st[k] = r /\ st[k + 1] = r + e * p /\ b[k + 1] = e
    BY <2>3, <2>5, Zenon DEF r, e
  <2> QED BY <2>7, <2>8, Zenon DEF p
<1>5. Octets!FromBytes(b) = st[w]
  BY <1>1, <1>3, <1>4, ValueIs, Zenon
<1>6. st[w] = v
  <2> DEFINE p == Octets!Power[w]
  <2>1. p \in Nat /\ p > 0
    BY PowerAt, Zenon
  <2>2. st[w] = v % p
    BY <1>2
  <2> HIDE DEF p
  <2>3. v < p
    BY DEF p
  <2>4. v % p = v
    BY <2>1, <2>3
  <2> QED BY <2>2, <2>4
<1> QED BY <1>5, <1>6, Zenon DEF b

LEMMA OneByte ==
  ASSUME NEW c \in Octets!Byte
  PROVE  Octets!ToBytes(c, 1) = <<c>> /\ Octets!FromBytes(<<c>>) = c
<1> DEFINE b == Octets!ToBytes(c, 1)
           s == <<c>>
<1>1. c \in Nat /\ c < Base /\ 1 \in Nat
  BY BytesAre
<1>2. Octets!Power[0] = 1 /\ Octets!Power[1] = Base
  <2>1. Octets!Power[0] = 1 /\ Octets!Power[0 + 1] = Base * Octets!Power[0] /\ Base \in Nat
    BY PowerIs, BytesAre, Zenon
  <2> QED BY <2>1
<1>3. b \in Seq(Nat) /\ Len(b) = 1 /\ b[1] = (c \div 1) % Base
  <2>1. /\ b \in Seq(Nat) /\ Len(b) = 1
        /\ \A k \in 0..1 - 1 : b[k + 1] = (c \div Octets!Power[k]) % Base
    BY <1>1, ToBytesIs, Zenon
  <2> HIDE DEF b
  <2>2. b[0 + 1] = (c \div Octets!Power[0]) % Base
    BY <2>1
  <2> QED BY <1>2, <2>1, <2>2
<1>4. (c \div 1) % Base = c
  BY <1>1, BytesAre
<1>5. s \in Seq(Nat) /\ Len(s) = 1 /\ s[1] = c
  BY <1>1
<1> HIDE DEF b, s
<1>6. \A i \in 1..Len(b) : b[i] = s[i]
  BY <1>3, <1>4, <1>5
<1>7. b = s
  BY <1>3, <1>5, <1>6, SeqEqual
<1>8. Octets!FromBytes(b) = c
  BY <1>1, <1>2, IntegerReadBack DEF b
<1> QED BY <1>7, <1>8 DEF b, s

-----------------------------------------------------------------------------
(* Fields (ArrayEditor).                                                   *)

\* What w bytes can say, and the fields there are.
Sayable(w)   == 0..Octets!Power[w] - 1
AllFields ==
  (UNION {{Octets!AnInt(v, w) : v \in Sayable(w)} : w \in Nat \ {0}})
  \cup {Octets!ABool(b) : b \in BOOLEAN} \cup {Octets!AString(s) : s \in Seq(Octets!Byte)}

\* f is extracted where x was inserted.
Like(f, x) == f.kind = x.kind /\ (f.kind = "int" => f.width = x.width)

\* An analyzer that has given vs and is at c.
At(vs, c, o)  == [values |-> vs, cursor |-> c, ok |-> o]
Given(vs, c, o, v, n) == At(Append(vs, v), c + n, o)
Past(vs, c, o, n)     == At(vs, c + n, o)
Values        == Nat \cup BOOLEAN \cup Seq(Nat)
Analyzers     == [values : Seq(Values), cursor : Nat, ok : BOOLEAN]
BytesAfter(bytes, c, n) == [i \in 1..n |-> IF c + i \in DOMAIN bytes THEN bytes[c + i] ELSE 0]

LEMMA AnalyzerParts ==
  ASSUME NEW vs, NEW c, NEW o
  PROVE  At(vs, c, o).values = vs /\ At(vs, c, o).cursor = c /\ At(vs, c, o).ok = o
  BY DEF At

LEMMA AnalyzerFails ==
  ASSUME NEW vs, NEW c, NEW o
  PROVE  [At(vs, c, o) EXCEPT !.ok = FALSE] = At(vs, c, FALSE)
<1> DEFINE no == FALSE
<1> HIDE DEF no
<1>1. [At(vs, c, o) EXCEPT !.ok = no] = At(vs, c, no)
  BY DEF At
<1> QED BY <1>1 DEF no

LEMMA AnalyzerGoesOn ==
  ASSUME NEW vs, NEW c, NEW o, NEW n
  PROVE  [At(vs, c, o) EXCEPT !.cursor = @ + n] = Past(vs, c, o, n)
<1> DEFINE r == At(vs, c, o)
           t == c + n
<1>1. [r EXCEPT !.cursor = @ + n] = [r EXCEPT !.cursor = t]
  <2>1. r.cursor = c
    BY AnalyzerParts
  <2> HIDE DEF r
  <2>2. [r EXCEPT !.cursor = @ + n] = [r EXCEPT !.cursor = r.cursor + n]
    OBVIOUS
  <2> QED BY <2>1, <2>2
<1> HIDE DEF t
<1>2. [r EXCEPT !.cursor = t] = At(vs, t, o)
  BY DEF At
<1> HIDE DEF r
<1> QED BY <1>1, <1>2, Zenon DEF r, t, Past

LEMMA AnalyzerGives ==
  ASSUME NEW vs, NEW c, NEW o, NEW v, NEW n
  PROVE  Octets!Gives(At(vs, c, o), v, n) = Given(vs, c, o, v, n)
<1> DEFINE r == At(vs, c, o)
           q == Append(vs, v)
           t == c + n
<1>1. r.cursor = c /\ r.values = vs
  BY AnalyzerParts
<1>2. Octets!Gives(r, v, n) = [r EXCEPT !.values = Append(r.values, v), !.cursor = r.cursor + n]
  BY Zenon DEF Octets!Gives
<1>3. [r EXCEPT !.values = q] = At(q, c, o)
  <2> HIDE DEF q
  <2> QED BY DEF At
<1>4. [r EXCEPT !.values = q, !.cursor = t] = At(q, t, o)
  <2> HIDE DEF q, t
  <2>1. [At(q, c, o) EXCEPT !.cursor = t] = At(q, t, o)
    BY DEF At
  <2> HIDE DEF r
  <2> QED BY <1>3, <2>1, Zenon
<1> HIDE DEF r
<1>5. [r EXCEPT !.values = Append(r.values, v), !.cursor = r.cursor + n] = [r EXCEPT !.values = q, !.cursor = t]
  BY <1>1, Zenon
<1> QED BY <1>2, <1>4, <1>5, Zenon DEF r, q, t, Given

LEMMA TakenIs ==
  ASSUME NEW bytes, NEW vs, NEW c, NEW o, NEW n
  PROVE  /\ Octets!Bytes(bytes, At(vs, c, o), n) = BytesAfter(bytes, c, n)
         /\ Octets!Has(bytes, At(vs, c, o), n) <=> Len(bytes) - c >= n
<1> DEFINE r == At(vs, c, o)
<1>1. r.cursor = c
  BY AnalyzerParts
<1> HIDE DEF r
<1>2. Octets!Bytes(bytes, r, n) = BytesAfter(bytes, c, n)
  BY <1>1, Zenon DEF Octets!Bytes, BytesAfter
<1>3. Octets!Has(bytes, r, n) <=> Len(bytes) - c >= n
  BY <1>1, Zenon DEF Octets!Has
<1> QED BY <1>2, <1>3 DEF r

\* What extracting gives, by the kind of a field.
IntTaken(bytes, vs, c, w, o) ==
  IF Len(bytes) - c >= w THEN Given(vs, c, o, Octets!FromBytes(BytesAfter(bytes, c, w)), w) ELSE At(vs, c, FALSE)
BoolTaken(bytes, vs, c, o) ==
  IF Len(bytes) - c >= 1 THEN Given(vs, c, o, Octets!FromBytes(BytesAfter(bytes, c, 1)) # 0, 1) ELSE At(vs, c, FALSE)
StringTaken(bytes, vs, c, n, o) ==
  IF Len(bytes) - c >= 1
  THEN IF Len(bytes) - (c + 1) >= n THEN Given(vs, c + 1, o, BytesAfter(bytes, c + 1, n), n)
       ELSE At(vs, c + 1, FALSE)
  ELSE At(vs, c, FALSE)
Extraction(bytes, vs, c, f, o) ==
  /\ Octets!Extracts(bytes, At(vs, c, FALSE), f) = At(vs, c, FALSE)
  /\ f.kind = "int" => Octets!Extracts(bytes, At(vs, c, o), f) = IntTaken(bytes, vs, c, f.width, o)
  /\ f.kind = "bool" => Octets!Extracts(bytes, At(vs, c, o), f) = BoolTaken(bytes, vs, c, o)
  /\ f.kind = "string" => Octets!Extracts(bytes, At(vs, c, o), f) =
       StringTaken(bytes, vs, c, Octets!FromBytes(BytesAfter(bytes, c, 1)), o)

\* What r gives of data.
Served(bytes, r, vs, c, o) ==
  \A n, v : /\ Octets!Bytes(bytes, r, n) = BytesAfter(bytes, c, n)
            /\ Octets!Has(bytes, r, n) <=> Len(bytes) - c >= n
            /\ Octets!Gives(r, v, n) = Given(vs, c, o, v, n)

LEMMA ServedIs ==
  ASSUME NEW bytes, NEW vs, NEW c, NEW o
  PROVE  Served(bytes, At(vs, c, o), vs, c, o)
<1> DEFINE r == At(vs, c, o)
<1>1. ASSUME NEW n, NEW v
      PROVE  /\ Octets!Bytes(bytes, r, n) = BytesAfter(bytes, c, n)
             /\ Octets!Has(bytes, r, n) <=> Len(bytes) - c >= n
             /\ Octets!Gives(r, v, n) = Given(vs, c, o, v, n)
  <2>1. /\ Octets!Bytes(bytes, r, n) = BytesAfter(bytes, c, n)
        /\ Octets!Has(bytes, r, n) <=> Len(bytes) - c >= n
    BY TakenIs, Zenon
  <2>2. Octets!Gives(r, v, n) = Given(vs, c, o, v, n)
    BY AnalyzerGives, Zenon
  <2> QED BY <2>1, <2>2, Zenon
<1> HIDE DEF r
<1>2. Served(bytes, r, vs, c, o)
  BY <1>1, Zenon DEF Served
<1> QED BY <1>2 DEF r

LEMMA ExtractsIs ==
  ASSUME NEW bytes, NEW vs, NEW c, NEW f, NEW o, o = TRUE
  PROVE  Extraction(bytes, vs, c, f, o)
<1>1. Octets!Extracts(bytes, At(vs, c, FALSE), f) = At(vs, c, FALSE)
  <2> DEFINE r == At(vs, c, FALSE)
  <2>1. ~r.ok
    BY DEF At
  <2> HIDE DEF r
  <2>2. Octets!Extracts(bytes, r, f) = r
    BY <2>1, Zenon DEF Octets!Extracts
  <2> QED BY <2>2 DEF r
<1> DEFINE r == At(vs, c, o)
           b == At(vs, c + 1, o)
<1>2. r.ok = TRUE
  BY DEF At
<1>3. Served(bytes, r, vs, c, o)
  BY ServedIs, Zenon
<1>3a. Served(bytes, b, vs, c + 1, o)
  BY ServedIs, Zenon
<1>4. [r EXCEPT !.ok = FALSE] = At(vs, c, FALSE)
  BY AnalyzerFails, Zenon
<1>4a. [b EXCEPT !.ok = FALSE] = At(vs, c + 1, FALSE)
  BY AnalyzerFails, Zenon
<1>5. [r EXCEPT !.cursor = @ + 1] = b
  <2>1. [r EXCEPT !.cursor = @ + 1] = Past(vs, c, o, 1)
    BY AnalyzerGoesOn, Zenon
  <2> QED BY <2>1, Zenon DEF Past
<1> HIDE DEF r, b
<1>6. ASSUME f.kind = "int" PROVE Octets!Extracts(bytes, r, f) = IntTaken(bytes, vs, c, f.width, o)
  <2>1. Octets!Extracts(bytes, r, f) =
          IF ~Octets!Has(bytes, r, f.width) THEN [r EXCEPT !.ok = FALSE]
          ELSE Octets!Gives(r, Octets!FromBytes(Octets!Bytes(bytes, r, f.width)), f.width)
    BY <1>2, <1>6, Zenon DEF Octets!Extracts
  <2> QED BY <1>3, <1>4, <2>1, Zenon DEF IntTaken, Served
<1>7. ASSUME f.kind = "bool" PROVE Octets!Extracts(bytes, r, f) = BoolTaken(bytes, vs, c, o)
  <2>0. f.kind # "int" /\ f.kind # "string"
    BY <1>7
  <2>1. Octets!Extracts(bytes, r, f) =
          IF ~Octets!Has(bytes, r, 1) THEN [r EXCEPT !.ok = FALSE]
          ELSE Octets!Gives(r, Octets!FromBytes(Octets!Bytes(bytes, r, 1)) # 0, 1)
    BY <1>2, <1>7, <2>0, Zenon DEF Octets!Extracts
  <2> DEFINE t == Octets!FromBytes(BytesAfter(bytes, c, 1)) # 0
  <2>2. Octets!Bytes(bytes, r, 1) = BytesAfter(bytes, c, 1)
    BY <1>3, Zenon DEF Served
  <2>3. Octets!Extracts(bytes, r, f) =
          IF ~Octets!Has(bytes, r, 1) THEN [r EXCEPT !.ok = FALSE] ELSE Octets!Gives(r, t, 1)
    BY <2>1, <2>2
  <2> HIDE DEF t
  <2>4. Octets!Gives(r, t, 1) = Given(vs, c, o, t, 1) /\ (Octets!Has(bytes, r, 1) <=> Len(bytes) - c >= 1)
    BY <1>3, Zenon DEF Served
  <2> QED BY <1>4, <2>3, <2>4, Zenon DEF BoolTaken, t
<1>8. ASSUME f.kind = "string"
      PROVE  Octets!Extracts(bytes, r, f) = StringTaken(bytes, vs, c, Octets!FromBytes(BytesAfter(bytes, c, 1)), o)
  <2>0. f.kind # "int" /\ f.kind # "bool"
    BY <1>8
  <2>1. Octets!Extracts(bytes, r, f) =
          IF ~Octets!Has(bytes, r, 1) THEN [r EXCEPT !.ok = FALSE]
          ELSE LET v == Octets!FromBytes(Octets!Bytes(bytes, r, 1)) IN
               IF Octets!Has(bytes, b, v) THEN Octets!Gives(b, Octets!Bytes(bytes, b, v), v)
               ELSE [b EXCEPT !.ok = FALSE]
    BY <1>2, <1>5, <1>8, <2>0, Zenon DEF Octets!Extracts
  <2> QED BY <1>3, <1>3a, <1>4, <1>4a, <2>1, Zenon DEF StringTaken, Served
<1> QED BY <1>1, <1>6, <1>7, <1>8, Zenon DEF r, Extraction

LEMMA AnalyzerTyped ==
  ASSUME NEW vs \in Seq(Values), NEW c \in Nat, NEW o \in BOOLEAN
  PROVE  At(vs, c, o) \in Analyzers
  BY DEF At, Analyzers

LEMMA AnalyzerOf ==
  ASSUME NEW a \in Analyzers
  PROVE  \E vs \in Seq(Values), c \in Nat, o \in BOOLEAN : a = At(vs, c, o)
<1>1. a = At(a.values, a.cursor, a.ok)
  BY DEF At, Analyzers
<1>2. a.values \in Seq(Values) /\ a.cursor \in Nat /\ a.ok \in BOOLEAN
  BY DEF Analyzers
<1> QED BY <1>1, <1>2, Zenon

LEMMA TakenTyped ==
  ASSUME NEW bytes \in Seq(Nat), NEW c, NEW n \in Nat
  PROVE  BytesAfter(bytes, c, n) \in Seq(Nat) /\ Len(BytesAfter(bytes, c, n)) = n
<1> DEFINE x(i) == IF c + i \in DOMAIN bytes THEN bytes[c + i] ELSE 0
           s == [i \in 1..n |-> x(i)]
<1>1. \A i \in 1..n : x(i) \in Nat
  OBVIOUS
<1> HIDE DEF x
<1>2. s \in Seq(Nat) /\ Len(s) = n
  BY <1>1
<1> QED BY <1>2 DEF BytesAfter, x

LEMMA FieldIs ==
  ASSUME NEW f \in AllFields
  PROVE  \/ \E w \in Nat \ {0} : \E v \in Sayable(w) : f = Octets!AnInt(v, w)
         \/ \E b \in BOOLEAN : f = Octets!ABool(b)
         \/ \E s \in Seq(Octets!Byte) : f = Octets!AString(s)
  BY DEF AllFields

LEMMA FieldParts ==
  ASSUME NEW v, NEW w
  PROVE  /\ Octets!AnInt(v, w).kind = "int" /\ Octets!AnInt(v, w).value = v /\ Octets!AnInt(v, w).width = w
         /\ Octets!ABool(v).kind = "bool" /\ Octets!ABool(v).value = v
         /\ Octets!AString(v).kind = "string" /\ Octets!AString(v).value = v
  BY DEF Octets!AnInt, Octets!ABool, Octets!AString

LEMMA FieldKinds ==
  ASSUME NEW f \in AllFields
  PROVE  (f.kind = "int" /\ f.width \in Nat) \/ f.kind = "bool" \/ f.kind = "string"
<1>1. CASE \E w \in Nat \ {0} : \E v \in Sayable(w) : f = Octets!AnInt(v, w)
  <2>1. PICK w \in Nat \ {0} : \E v : f = Octets!AnInt(v, w)
    BY <1>1
  <2> QED BY <2>1, FieldParts
<1>2. CASE \E b \in BOOLEAN : f = Octets!ABool(b)
  BY <1>2, FieldParts
<1>3. CASE \E s \in Seq(Octets!Byte) : f = Octets!AString(s)
  <2>1. PICK s : f = Octets!AString(s)
    BY <1>3, Zenon
  <2> QED BY <2>1, FieldParts
<1> QED BY <1>1, <1>2, <1>3, FieldIs, Zenon

LEMMA ExtractsTyped ==
  ASSUME NEW bytes \in Seq(Nat), NEW a \in Analyzers, NEW f \in AllFields
  PROVE  Octets!Extracts(bytes, a, f) \in Analyzers
<1>1. PICK vs \in Seq(Values), c \in Nat, o \in BOOLEAN : a = At(vs, c, o)
  BY AnalyzerOf
<1>2. CASE o = FALSE
  <2>1. Octets!Extracts(bytes, At(vs, c, FALSE), f) = At(vs, c, FALSE)
    <3>1. Extraction(bytes, vs, c, f, TRUE)
      <4> DEFINE yes == TRUE
      <4>1. yes = TRUE
        OBVIOUS
      <4> HIDE DEF yes
      <4>2. Extraction(bytes, vs, c, f, yes)
        BY <4>1, ExtractsIs, Zenon
      <4> QED BY <4>2 DEF yes
    <3> QED BY <3>1, Zenon DEF Extraction
  <2> QED BY <1>1, <1>2, <2>1, Zenon
<1>3. CASE o = TRUE
  <2>0. Extraction(bytes, vs, c, f, o)
    BY <1>3, ExtractsIs, Zenon
  <2>1. \A n \in Nat : Octets!FromBytes(BytesAfter(bytes, c, n)) \in Nat
    BY TakenTyped, ValueLeads, Zenon
  <2>2. \A n \in Nat : c + n \in Nat /\ (c + 1) + n \in Nat
    OBVIOUS
  <2>3. \A n \in Nat : BytesAfter(bytes, c + 1, n) \in Seq(Nat)
    BY TakenTyped, Zenon
  <2>4. \A v \in Values : Append(vs, v) \in Seq(Values)
    OBVIOUS
  <2>5. (\A v \in Nat : v \in Values) /\ (\A v \in BOOLEAN : v \in Values) /\ (\A v \in Seq(Nat) : v \in Values)
    BY Zenon DEF Values
  <2>6. \A x \in Seq(Values), n \in Nat, b \in BOOLEAN : At(x, n, b) \in Analyzers
    BY AnalyzerTyped, Zenon
  <2>6b. \A k \in {c, c + 1}, v \in Values, n \in Nat : Given(vs, k, o, v, n) \in Analyzers
    BY <2>2, <2>4, <2>6, Zenon DEF Given
  <2>6a. c + 1 \in Nat /\ 1 \in Nat /\ TRUE \in BOOLEAN /\ FALSE \in BOOLEAN
    OBVIOUS
  <2>7. \A n \in Nat : IntTaken(bytes, vs, c, n, o) \in Analyzers
    BY <2>1, <2>2, <2>4, <2>5, <2>6, <2>6a, <2>6b, Zenon DEF IntTaken
  <2>8. BoolTaken(bytes, vs, c, o) \in Analyzers
    <3>1. (Octets!FromBytes(BytesAfter(bytes, c, 1)) # 0) \in BOOLEAN
      OBVIOUS
    <3> QED BY <2>2, <2>4, <2>5, <2>6, <2>6a, <2>6b, <3>1, Zenon DEF BoolTaken
  <2>9. \A n \in Nat : StringTaken(bytes, vs, c, n, o) \in Analyzers
    BY <2>2, <2>3, <2>4, <2>5, <2>6, <2>6a, <2>6b, Zenon DEF StringTaken
  <2>10. CASE f.kind = "int" /\ f.width \in Nat
    BY <1>1, <1>3, <2>7, <2>10, <2>0, Zenon DEF Extraction
  <2>11. CASE f.kind = "bool"
    BY <1>1, <1>3, <2>8, <2>11, <2>0, Zenon DEF Extraction
  <2>12. CASE f.kind = "string"
    BY <1>1, <1>3, <2>1, <2>6a, <2>9, <2>12, <2>0, Zenon DEF Extraction
  <2> QED BY <2>10, <2>11, <2>12, FieldKinds, Zenon
<1> QED BY <1>2, <1>3

\* s is in data after c, as far as data goes.
Here(bytes, c, s) == \A j \in 1..Len(s) : c + j <= Len(bytes) => bytes[c + j] = s[j]

LEMMA TakenHere ==
  ASSUME NEW bytes \in Seq(Nat), NEW c \in Nat, NEW s \in Seq(Nat), NEW n \in Nat, n = Len(s),
         Here(bytes, c, s), Len(bytes) - c >= n
  PROVE  BytesAfter(bytes, c, n) = s
<1> DEFINE t == BytesAfter(bytes, c, n)
<1>1. t \in Seq(Nat) /\ Len(t) = n
  BY TakenTyped, Zenon
<1>2. ASSUME NEW i \in 1..n PROVE t[i] = s[i]
  <2>1. c + i \in DOMAIN bytes /\ c + i <= Len(bytes)
    OBVIOUS
  <2>2. t[i] = bytes[c + i]
    BY <2>1 DEF BytesAfter
  <2>3. bytes[c + i] = s[i]
    BY <2>1 DEF Here
  <2> QED BY <2>2, <2>3
<1> HIDE DEF t
<1>3. t = s
  BY <1>1, <1>2, SeqEqual
<1> QED BY <1>3 DEF t

LEMMA CutIs ==
  ASSUME NEW s \in Seq(Octets!Byte)
  PROVE  /\ Octets!Cut(s) \in Seq(Octets!Byte) /\ Octets!Cut(s) \in Seq(Nat)
         /\ Len(Octets!Cut(s)) \in Octets!Byte /\ Len(Octets!Cut(s)) % Base = Len(Octets!Cut(s))
<1> DEFINE n == IF Len(s) < Base THEN Len(s) ELSE Base - 1
           t == SubSeq(s, 1, n)
<1>1. Base \in Nat /\ Base > 1 /\ Octets!Byte = 0..Base - 1 /\ Octets!Byte \subseteq Nat
  BY BytesAre
<1>2. n \in 0..Len(s) /\ n \in 0..Base - 1
  BY <1>1
<1> HIDE DEF n
<1>3. t \in Seq(Octets!Byte) /\ Len(t) = n
  BY <1>2
<1>4. n % Base = n
  BY <1>1, <1>2
<1>5. Octets!Cut(s) = t
  BY Zenon DEF Octets!Cut, n
<1> HIDE DEF t
<1>6. t \in Seq(Nat)
  BY <1>1, <1>3
<1> QED BY <1>1, <1>2, <1>3, <1>4, <1>5, <1>6

\* What each kind of field is written as.
LEMMA InsertedIs ==
  ASSUME NEW v, NEW w
  PROVE  /\ Octets!Inserted(Octets!AnInt(v, w)) = Octets!ToBytes(v, w)
         /\ Octets!Inserted(Octets!ABool(v)) = <<IF v THEN 1 ELSE 0>>
         /\ Octets!Inserted(Octets!AString(v)) = <<Len(Octets!Cut(v)) % Base>> \o Octets!Cut(v)
<1>1. Octets!Inserted(Octets!AnInt(v, w)) = Octets!ToBytes(v, w)
  <2> DEFINE f == Octets!AnInt(v, w)
  <2>1. f.kind = "int" /\ f.value = v /\ f.width = w
    BY FieldParts
  <2> HIDE DEF f
  <2>2. Octets!Inserted(f) = Octets!ToBytes(v, w)
    BY <2>1, Zenon DEF Octets!Inserted
  <2> QED BY <2>2 DEF f
<1>2. Octets!Inserted(Octets!ABool(v)) = <<IF v THEN 1 ELSE 0>>
  <2> DEFINE f == Octets!ABool(v)
  <2>1. f.kind = "bool" /\ f.kind # "int" /\ f.kind # "string" /\ f.value = v
    BY FieldParts
  <2> HIDE DEF f
  <2>2. Octets!Inserted(f) = <<IF v THEN 1 ELSE 0>>
    BY <2>1, Zenon DEF Octets!Inserted
  <2> QED BY <2>2 DEF f
<1>3. Octets!Inserted(Octets!AString(v)) = <<Len(Octets!Cut(v)) % Base>> \o Octets!Cut(v)
  <2> DEFINE f == Octets!AString(v)
  <2>1. f.kind = "string" /\ f.kind # "int" /\ f.kind # "bool" /\ f.value = v
    BY FieldParts
  <2> HIDE DEF f
  <2>2. Octets!Inserted(f) = <<Len(Octets!Cut(v)) % Base>> \o Octets!Cut(v)
    BY <2>1, Zenon DEF Octets!Inserted
  <2> QED BY <2>2 DEF f
<1> QED BY <1>1, <1>2, <1>3, Zenon

LEMMA Headed ==
  ASSUME NEW E, NEW t \in Seq(E), NEW c \in E
  PROVE  LET b == <<c>> \o t IN
         /\ b \in Seq(E) /\ Len(b) = 1 + Len(t) /\ b[1] = c /\ \A i \in 1..Len(t) : b[1 + i] = t[i]
<1> DEFINE h == <<c>>
<1>1. h \in Seq(E) /\ Len(h) = 1 /\ h[1] = c /\ Len(t) \in Nat
  OBVIOUS
<1> HIDE DEF h
<1> DEFINE b == h \o t
<1>2. /\ b \in Seq(E) /\ Len(b) = Len(h) + Len(t)
      /\ \A i \in 1..Len(h) + Len(t) : b[i] = IF i <= Len(h) THEN h[i] ELSE t[i - Len(h)]
  BY <1>1, ConcatProperties, Zenon
<1> HIDE DEF b
<1>3. b \in Seq(E) /\ Len(b) = 1 + Len(t) /\ b[1] = c
  BY <1>1, <1>2
<1>4. ASSUME NEW i \in 1..Len(t) PROVE b[1 + i] = t[i]
  <2>1. 1 + i \in 1..Len(h) + Len(t) /\ ~(1 + i <= Len(h)) /\ (1 + i) - Len(h) = i
    BY <1>1
  <2> QED BY <1>2, <2>1, Zenon
<1> QED BY <1>3, <1>4 DEF b, h

\* A string is its length and then its bytes.
LEMMA StringWritten ==
  ASSUME NEW s \in Seq(Octets!Byte), NEW t, t = Octets!Cut(s)
  PROVE  LET b == Octets!Inserted(Octets!AString(s)) IN
         /\ b \in Seq(Octets!Byte) /\ Len(b) = 1 + Len(t) /\ b[1] = Len(t)
         /\ \A i \in 1..Len(t) : b[1 + i] = t[i]
<1> DEFINE n == Len(t)
           h == <<n>> \o t
<1>1. t \in Seq(Octets!Byte) /\ n \in Octets!Byte /\ n % Base = n
  BY CutIs, Zenon
<1>2. Octets!Inserted(Octets!AString(s)) = h
  BY <1>1, InsertedIs, Zenon
<1>3. h \in Seq(Octets!Byte) /\ Len(h) = 1 + Len(t) /\ h[1] = n /\ \A i \in 1..Len(t) : h[1 + i] = t[i]
  BY <1>1, Headed
<1> HIDE DEF h
<1> QED BY <1>2, <1>3, Zenon

LEMMA InsertedTyped ==
  ASSUME NEW x \in AllFields
  PROVE  Octets!Inserted(x) \in Seq(Octets!Byte)
<1>1. CASE \E w \in Nat \ {0} : \E v \in Sayable(w) : x = Octets!AnInt(v, w)
  <2>1. PICK w \in Nat \ {0} : \E v \in Sayable(w) : x = Octets!AnInt(v, w)
    BY <1>1
  <2>2. PICK v \in Sayable(w) : x = Octets!AnInt(v, w)
    BY <2>1
  <2>3. v \in Nat
    BY PowerAt DEF Sayable
  <2>4. Octets!Inserted(x) = Octets!ToBytes(v, w)
    BY <2>2, InsertedIs, Zenon
  <2> QED BY <2>3, <2>4, ToBytesIs
<1>2. CASE \E b \in BOOLEAN : x = Octets!ABool(b)
  <2>1. PICK b \in BOOLEAN : x = Octets!ABool(b)
    BY <1>2
  <2> DEFINE e == IF b THEN 1 ELSE 0
  <2>2. Octets!Inserted(x) = <<e>>
    BY <2>1, InsertedIs, Zenon
  <2>3. e \in Octets!Byte
    BY BytesAre
  <2> HIDE DEF e
  <2> QED BY <2>2, <2>3
<1>3. CASE \E s \in Seq(Octets!Byte) : x = Octets!AString(s)
  BY <1>3, StringWritten
<1> QED BY <1>1, <1>2, <1>3, FieldIs

\* What extracting f does to what vs were given of, where x was inserted.
StepOver(bytes, vs, c, f, x) ==
  LET n == Len(Octets!Inserted(x)) IN
  IF c + n <= Len(bytes)
  THEN Octets!Extracts(bytes, At(vs, c, TRUE), f) = At(Append(vs, Octets!Read(x)), c + n, TRUE)
  ELSE \E d \in Nat : Octets!Extracts(bytes, At(vs, c, TRUE), f) = At(vs, d, FALSE)

LEMMA ReadIs ==
  ASSUME NEW v, NEW w
  PROVE  /\ Octets!Read(Octets!AnInt(v, w)) = v /\ Octets!Read(Octets!ABool(v)) = v
         /\ Octets!Read(Octets!AString(v)) = Octets!Cut(v)
<1>1. \A f : f.kind # "string" => Octets!Read(f) = f.value
  BY DEF Octets!Read
<1>2. \A f : f.kind = "string" => Octets!Read(f) = Octets!Cut(f.value)
  BY Zenon DEF Octets!Read
<1>3. "int" # "string" /\ "bool" # "string"
  OBVIOUS
<1>4. /\ Octets!AnInt(v, w).kind = "int" /\ Octets!AnInt(v, w).value = v
      /\ Octets!ABool(v).kind = "bool" /\ Octets!ABool(v).value = v
      /\ Octets!AString(v).kind = "string" /\ Octets!AString(v).value = v
  BY FieldParts
<1> QED BY <1>1, <1>2, <1>3, <1>4, Zenon

LEMMA IntOver ==
  ASSUME NEW bytes \in Seq(Nat), NEW vs, NEW c \in Nat, NEW f, NEW w \in Nat \ {0}, NEW v \in Sayable(w),
         f.kind = "int", f.width = w, Here(bytes, c, Octets!ToBytes(v, w))
  PROVE  StepOver(bytes, vs, c, f, Octets!AnInt(v, w))
<1> DEFINE b == Octets!ToBytes(v, w)
           yes == TRUE
<1>1. v \in Nat /\ v < Octets!Power[w]
  <2> DEFINE p == Octets!Power[w]
  <2>1. p \in Nat
    BY PowerAt
  <2>2. v \in 0..p - 1
    BY DEF Sayable
  <2> HIDE DEF p
  <2>3. v \in Nat /\ v < p
    BY <2>1, <2>2
  <2> QED BY <2>3 DEF p
<1>2. b \in Seq(Nat) /\ Len(b) = w /\ Octets!FromBytes(b) = v
  BY <1>1, ToBytesIs, IntegerReadBack
<1>3. Octets!Inserted(Octets!AnInt(v, w)) = b /\ Octets!Read(Octets!AnInt(v, w)) = v
  BY InsertedIs, ReadIs, Zenon
<1>4. Octets!Extracts(bytes, At(vs, c, yes), f) = IntTaken(bytes, vs, c, w, yes)
  <2>1. yes = TRUE
    OBVIOUS
  <2> HIDE DEF yes
  <2>2. Extraction(bytes, vs, c, f, yes)
    BY <2>1, ExtractsIs, Zenon
  <2> QED BY <2>2, Zenon DEF Extraction
<1> HIDE DEF b
<1>5. CASE c + w <= Len(bytes)
  <2>1. Len(bytes) - c >= w
    BY <1>5
  <2>2. BytesAfter(bytes, c, w) = b
    BY <1>2, <2>1, TakenHere DEF b
  <2>3. IntTaken(bytes, vs, c, w, yes) = At(Append(vs, v), c + w, yes)
    BY <1>2, <2>1, <2>2, Zenon DEF IntTaken, Given
  <2> HIDE DEF yes
  <2>4. Octets!Extracts(bytes, At(vs, c, yes), f) = At(Append(vs, v), c + w, yes)
    BY <1>4, <2>3, Zenon
  <2> QED BY <1>2, <1>3, <1>5, <2>4, Zenon DEF StepOver, yes
<1>6. CASE ~(c + w <= Len(bytes))
  <2>1. ~(Len(bytes) - c >= w)
    BY <1>6
  <2>2. IntTaken(bytes, vs, c, w, yes) = At(vs, c, FALSE)
    BY <2>1, Zenon DEF IntTaken
  <2> QED BY <1>2, <1>3, <1>4, <1>6, <2>2, Zenon DEF StepOver
<1> QED BY <1>5, <1>6

LEMMA BoolOver ==
  ASSUME NEW bytes \in Seq(Nat), NEW vs, NEW c \in Nat, NEW f, NEW v \in BOOLEAN,
         f.kind = "bool", Here(bytes, c, Octets!Inserted(Octets!ABool(v)))
  PROVE  StepOver(bytes, vs, c, f, Octets!ABool(v))
<1> DEFINE e == IF v THEN 1 ELSE 0
           b == <<e>>
           yes == TRUE
<1>1. e \in Octets!Byte /\ e \in Nat /\ ((e # 0) = v)
  BY BytesAre
<1>2. Octets!Inserted(Octets!ABool(v)) = b /\ Octets!Read(Octets!ABool(v)) = v
  BY InsertedIs, ReadIs, Zenon
<1> HIDE DEF e
<1>3. b \in Seq(Nat) /\ Len(b) = 1
  BY <1>1
<1>4. Octets!FromBytes(b) = e
  BY <1>1, OneByte, Zenon
<1>5. Octets!Extracts(bytes, At(vs, c, yes), f) = BoolTaken(bytes, vs, c, yes)
  <2>1. yes = TRUE
    OBVIOUS
  <2> HIDE DEF yes
  <2>2. Extraction(bytes, vs, c, f, yes)
    BY <2>1, ExtractsIs, Zenon
  <2> QED BY <2>2, Zenon DEF Extraction
<1> HIDE DEF b
<1>6. CASE c + 1 <= Len(bytes)
  <2>1. Len(bytes) - c >= 1
    BY <1>6
  <2>2. BytesAfter(bytes, c, 1) = b
    BY <1>2, <1>3, <2>1, TakenHere
  <2>3. (Octets!FromBytes(BytesAfter(bytes, c, 1)) # 0) = v
    BY <1>1, <1>4, <2>2
  <2> HIDE DEF yes
  <2>4. Octets!Extracts(bytes, At(vs, c, yes), f) = At(Append(vs, v), c + 1, yes)
    <3> DEFINE t == Octets!FromBytes(BytesAfter(bytes, c, 1)) # 0
    <3>1. BoolTaken(bytes, vs, c, yes) = IF Len(bytes) - c >= 1 THEN Given(vs, c, yes, t, 1) ELSE At(vs, c, FALSE)
      BY DEF BoolTaken
    <3>2. t = v
      BY <2>3
    <3> HIDE DEF t
    <3> QED BY <1>5, <2>1, <3>1, <3>2, Zenon DEF Given
  <2> QED BY <1>2, <1>3, <1>6, <2>4, Zenon DEF StepOver, yes
<1>7. CASE ~(c + 1 <= Len(bytes))
  <2>1. ~(Len(bytes) - c >= 1)
    BY <1>7
  <2>2. BoolTaken(bytes, vs, c, yes) = At(vs, c, FALSE)
    BY <2>1, Zenon DEF BoolTaken
  <2> QED BY <1>2, <1>3, <1>5, <1>7, <2>2, Zenon DEF StepOver
<1> QED BY <1>6, <1>7

LEMMA StringOver ==
  ASSUME NEW bytes \in Seq(Nat), NEW vs, NEW c \in Nat, NEW f, NEW s \in Seq(Octets!Byte),
         f.kind = "string", Here(bytes, c, Octets!Inserted(Octets!AString(s)))
  PROVE  StepOver(bytes, vs, c, f, Octets!AString(s))
<1> DEFINE t == Octets!Cut(s)
           n == Len(t)
           b == Octets!Inserted(Octets!AString(s))
           h == <<n>>
           yes == TRUE
<1>1. t \in Seq(Nat) /\ n \in Octets!Byte /\ n \in Nat
  BY CutIs
<1>2. Octets!Read(Octets!AString(s)) = t
  BY ReadIs, Zenon
<1>3. Len(b) = 1 + n /\ b[1] = n /\ \A i \in 1..n : b[1 + i] = t[i]
  BY StringWritten
<1>4. Octets!FromBytes(h) = n
  BY <1>1, OneByte, Zenon
<1> HIDE DEF t, b
<1>5. Octets!Extracts(bytes, At(vs, c, yes), f) =
        StringTaken(bytes, vs, c, Octets!FromBytes(BytesAfter(bytes, c, 1)), yes)
  <2>1. yes = TRUE
    OBVIOUS
  <2> HIDE DEF yes
  <2>2. Extraction(bytes, vs, c, f, yes)
    BY <2>1, ExtractsIs, Zenon
  <2> QED BY <2>2, Zenon DEF Extraction
<1>6. n = Len(t)
  OBVIOUS
<1> HIDE DEF n
<1>7. CASE ~(c + 1 <= Len(bytes))
  <2>1. ~(Len(bytes) - c >= 1) /\ ~(c + Len(b) <= Len(bytes))
    BY <1>1, <1>3, <1>7
  <2>2. Octets!Extracts(bytes, At(vs, c, yes), f) = At(vs, c, FALSE)
    BY <1>5, <2>1, Zenon DEF StringTaken
  <2> QED BY <2>1, <2>2, Zenon DEF StepOver, b
<1>8. CASE c + 1 <= Len(bytes)
  <2>1. Len(bytes) - c >= 1
    BY <1>8
  <2>2. BytesAfter(bytes, c, 1) = h
    <3>1. h \in Seq(Nat) /\ Len(h) = 1 /\ h[1] = n
      BY <1>1
    <3>2. Here(bytes, c, h)
      <4>1. 1 \in 1..Len(b)
        BY <1>1, <1>3
      <4>2. bytes[c + 1] = b[1]
        BY <1>8, <4>1 DEF Here, b
      <4> HIDE DEF h
      <4> QED BY <1>3, <3>1, <4>2 DEF Here
    <3> HIDE DEF h
    <3> QED BY <2>1, <3>1, <3>2, TakenHere
  <2>3. Octets!FromBytes(BytesAfter(bytes, c, 1)) = n
    BY <1>4, <2>2, Zenon
  <2>4. CASE c + (1 + n) <= Len(bytes)
    <3>1. Len(bytes) - (c + 1) >= n
      BY <1>1, <2>4
    <3>2. BytesAfter(bytes, c + 1, n) = t
      <4>1. Here(bytes, c + 1, t)
        <5> SUFFICES ASSUME NEW j \in 1..n, (c + 1) + j <= Len(bytes) PROVE bytes[(c + 1) + j] = t[j]
          BY <1>6, Zenon DEF Here
        <5>1. 1 + j \in 1..Len(b) /\ c + (1 + j) <= Len(bytes) /\ c + (1 + j) = (c + 1) + j
          BY <1>1, <1>3
        <5>2. bytes[c + (1 + j)] = b[1 + j]
          BY <5>1, Zenon DEF Here, b
        <5> QED BY <1>3, <5>1, <5>2
      <4> QED BY <1>1, <1>6, <3>1, <4>1, TakenHere
    <3>3. (c + 1) + n = c + (1 + n)
      BY <1>1
    <3> HIDE DEF yes
    <3>4. Octets!Extracts(bytes, At(vs, c, yes), f) = At(Append(vs, t), c + (1 + n), yes)
      BY <1>5, <2>1, <2>3, <3>1, <3>2, <3>3, Zenon DEF StringTaken, Given
    <3> QED BY <1>2, <1>3, <2>4, <3>4, Zenon DEF StepOver, b, yes
  <2>5. CASE ~(c + (1 + n) <= Len(bytes))
    <3>1. ~(Len(bytes) - (c + 1) >= n)
      BY <1>1, <2>5
    <3>2. Octets!Extracts(bytes, At(vs, c, yes), f) = At(vs, c + 1, FALSE)
      BY <1>5, <2>1, <2>3, <3>1, Zenon DEF StringTaken
    <3>3. c + 1 \in Nat
      OBVIOUS
    <3> QED BY <1>3, <2>5, <3>2, <3>3, Zenon DEF StepOver, b
  <2> QED BY <2>4, <2>5
<1> QED BY <1>7, <1>8

\* Extracting a field over the place where it was written gives it, if it is there to its end,
\* and fails otherwise.
LEMMA FieldOver ==
  ASSUME NEW bytes \in Seq(Nat), NEW vs, NEW c \in Nat, NEW f, NEW x \in AllFields, Like(f, x),
         Here(bytes, c, Octets!Inserted(x))
  PROVE  StepOver(bytes, vs, c, f, x)
<1>1. CASE \E w \in Nat \ {0} : \E v \in Sayable(w) : x = Octets!AnInt(v, w)
  <2>1. PICK w \in Nat \ {0} : \E v \in Sayable(w) : x = Octets!AnInt(v, w)
    BY <1>1
  <2>2. PICK v \in Sayable(w) : x = Octets!AnInt(v, w)
    BY <2>1
  <2>3. Here(bytes, c, Octets!ToBytes(v, w))
    BY <2>2, InsertedIs
  <2>4. f.kind = "int" /\ f.width = w
    BY <2>2, FieldParts DEF Like
  <2> QED BY <2>2, <2>3, <2>4, IntOver, Zenon
<1>2. CASE \E b \in BOOLEAN : x = Octets!ABool(b)
  <2>1. PICK b \in BOOLEAN : x = Octets!ABool(b)
    BY <1>2
  <2>2. f.kind = "bool"
    BY <2>1, FieldParts DEF Like
  <2> QED BY <2>1, <2>2, BoolOver, Zenon
<1>3. CASE \E s \in Seq(Octets!Byte) : x = Octets!AString(s)
  <2>1. PICK s \in Seq(Octets!Byte) : x = Octets!AString(s)
    BY <1>3
  <2>2. f.kind = "string"
    BY <2>1, FieldParts DEF Like
  <2> QED BY <2>1, <2>2, StringOver, Zenon
<1> QED BY <1>1, <1>2, <1>3, FieldIs

LEMMA OctetsFlat ==
  ASSUME NEW s
  PROVE  Octets!FlattenSeq(s) = FlattenSeq(s)
  BY Zenon DEF Octets!FlattenSeq, FlattenSeq

ReadStep(bytes) == [x \in Analyzers \X AllFields |-> Octets!Extracts(bytes, x[1], x[2])]
NewAnalyzer == At(<<>>, 0, TRUE)

LEMMA ReadStepIs ==
  ASSUME NEW bytes \in Seq(Nat)
  PROVE  /\ ReadStep(bytes) \in [Analyzers \X AllFields -> Analyzers]
         /\ \A a \in Analyzers, f \in AllFields : ReadStep(bytes)[<<a, f>>] = Octets!Extracts(bytes, a, f)
<1>1. \A a \in Analyzers, f \in AllFields : Octets!Extracts(bytes, a, f) \in Analyzers
  BY ExtractsTyped
<1> QED BY <1>1 DEF ReadStep

LEMMA AnalyzerNew == NewAnalyzer \in Analyzers /\ NewAnalyzer = Octets!Analyzer
<1>1. <<>> \in Seq(Values) /\ 0 \in Nat /\ TRUE \in BOOLEAN
  OBVIOUS
<1>2. NewAnalyzer \in Analyzers
  BY <1>1, AnalyzerTyped DEF NewAnalyzer
<1> QED BY <1>2, Zenon DEF NewAnalyzer, At, Octets!Analyzer

\* An ArrayAnalyzer asked for fields one after the other.
LEMMA FieldsLead ==
  ASSUME NEW bytes \in Seq(Nat), NEW fields \in Seq(AllFields)
  PROVE  Leads(ReadStep(bytes), NewAnalyzer, fields, Octets!Extracted(bytes, fields))
<1> DEFINE g == ReadStep(bytes)
           base == Octets!Analyzer
           T == SUBSET (DOMAIN fields)
           Is(f) == f = [t \in T |-> IF t = {} THEN base
                                     ELSE Octets!Extracts(bytes, f[t \ {Max(t)}], fields[Max(t)])]
<1>1. Octets!Extracted(bytes, fields) = (CHOOSE f : Is(f))[DOMAIN fields]
  BY Zenon DEF Octets!Extracted, Octets!FoldLeft, Octets!MapThenFoldSet, Octets!Max, Max
<1>2. /\ g \in [Analyzers \X AllFields -> Analyzers]
      /\ \A a \in Analyzers, f \in AllFields : g[<<a, f>>] = Octets!Extracts(bytes, a, f)
  BY ReadStepIs
<1>2a. base \in Analyzers /\ NewAnalyzer = base
  BY AnalyzerNew
<1> HIDE DEF g, base
<1>3. PICK h : IsTable(h, Analyzers, AllFields, fields, base, g)
  BY <1>2, <1>2a, FoldTable
<1>4. Is(h)
  <2>1. \A t \in T : h[t] = IF t = {} THEN base
                            ELSE Octets!Extracts(bytes, h[t \ {Max(t)}], fields[Max(t)])
    BY <1>2, <1>3, Zenon DEF IsTable
  <2>2. h \in [T -> Analyzers]
    BY <1>3 DEF IsTable
  <2> HIDE DEF T
  <2>3. h = [t \in T |-> h[t]]
    BY <2>2
  <2> QED BY <2>1, <2>3, Zenon
<1> DEFINE f == CHOOSE f : Is(f)
<1>5. Is(f)
  BY <1>4, Zenon
<1> HIDE DEF f
<1>6. IsFold(f, Analyzers, fields, base, g)
  <2>1. f[{}] = base
    <3>1. {} \in T
      OBVIOUS
    <3> HIDE DEF T
    <3> QED BY <1>5, <3>1, Zenon
  <2>2. ASSUME NEW t \in T, t # {}, f[t \ {Max(t)}] \in Analyzers
        PROVE  f[t] = g[<<f[t \ {Max(t)}], fields[Max(t)]>>]
    <3>1. f[t] = Octets!Extracts(bytes, f[t \ {Max(t)}], fields[Max(t)])
      BY <1>5, <2>2, Zenon
    <3>2. fields[Max(t)] \in AllFields
      BY <1>3, <2>2 DEF IsTable
    <3> QED BY <1>2, <2>2, <3>1, <3>2, Zenon
  <2> QED BY <2>1, <2>2, Zenon DEF IsFold
<1>7. Leads(g, base, fields, f[DOMAIN fields])
  BY <1>2, <1>2a, <1>6, FoldEnds, Zenon
<1> QED BY <1>1, <1>2a, <1>7, Zenon DEF f, g

LEMMA ReadTyped ==
  ASSUME NEW x \in AllFields
  PROVE  Octets!Read(x) \in Values
<1>0. (\A v \in Nat : v \in Values) /\ (\A v \in BOOLEAN : v \in Values) /\ (\A v \in Seq(Nat) : v \in Values)
  BY Zenon DEF Values
<1>1. CASE \E w \in Nat \ {0} : \E v \in Sayable(w) : x = Octets!AnInt(v, w)
  <2>1. PICK w \in Nat \ {0} : \E v \in Sayable(w) : x = Octets!AnInt(v, w)
    BY <1>1
  <2>2. PICK v \in Sayable(w) : x = Octets!AnInt(v, w)
    BY <2>1
  <2>3. v \in Nat
    BY PowerAt DEF Sayable
  <2>4. Octets!Read(x) = v
    BY <2>2, ReadIs, Zenon
  <2> QED BY <1>0, <2>3, <2>4, Zenon
<1>2. CASE \E b \in BOOLEAN : x = Octets!ABool(b)
  <2>1. PICK b \in BOOLEAN : x = Octets!ABool(b)
    BY <1>2
  <2>2. Octets!Read(x) = b
    BY <2>1, ReadIs, Zenon
  <2> QED BY <1>0, <2>2, Zenon
<1>3. CASE \E s \in Seq(Octets!Byte) : x = Octets!AString(s)
  <2>1. PICK s \in Seq(Octets!Byte) : x = Octets!AString(s)
    BY <1>3
  <2>2. Octets!Read(x) = Octets!Cut(s)
    BY <2>1, ReadIs, Zenon
  <2>3. Octets!Cut(s) \in Seq(Nat)
    BY CutIs
  <2> QED BY <1>0, <2>2, <2>3, Zenon
<1> QED BY <1>1, <1>2, <1>3, FieldIs

\* The first k values.
FirstRead(xs, k) == [i \in 1..k |-> Octets!Read(xs[i])]

LEMMA FirstReadIs ==
  ASSUME NEW xs \in Seq(AllFields), NEW k \in 0..Len(xs)
  PROVE  /\ FirstRead(xs, k) \in Seq(Values) /\ Len(FirstRead(xs, k)) = k
         /\ k < Len(xs) => Append(FirstRead(xs, k), Octets!Read(xs[k + 1])) = FirstRead(xs, k + 1)
<1> DEFINE x(i) == Octets!Read(xs[i])
<1>1. \A i \in 1..Len(xs) : x(i) \in Values
  BY ReadTyped
<1>2. FirstRead(xs, k) = [i \in 1..k |-> x(i)] /\ FirstRead(xs, k + 1) = [i \in 1..k + 1 |-> x(i)]
  BY DEF FirstRead
<1> HIDE DEF x
<1> DEFINE s == [i \in 1..k |-> x(i)]
           t == [i \in 1..k + 1 |-> x(i)]
<1>3. s \in Seq(Values) /\ Len(s) = k /\ \A i \in 1..k : s[i] = x(i)
  BY <1>1
<1>4. ASSUME k < Len(xs) PROVE Append(s, x(k + 1)) = t
  <2>1. t \in Seq(Values) /\ Len(t) = k + 1 /\ \A i \in 1..k + 1 : t[i] = x(i)
    BY <1>1, <1>4
  <2>2. x(k + 1) \in Values
    BY <1>1, <1>4
  <2> HIDE DEF s, t
  <2> DEFINE u == Append(s, x(k + 1))
  <2>3. u \in Seq(Values) /\ Len(u) = k + 1 /\ u[k + 1] = x(k + 1) /\ \A i \in 1..k : u[i] = s[i]
    BY <1>3, <2>2
  <2> HIDE DEF u
  <2>4. \A i \in 1..k + 1 : u[i] = t[i]
    <3>1. \A i \in 1..k + 1 : i = k + 1 \/ i \in 1..k
      OBVIOUS
    <3> QED BY <1>3, <2>1, <2>3, <3>1
  <2>5. u = t
    BY <2>1, <2>3, <2>4, SeqEqual
  <2> QED BY <2>5 DEF u
<1> QED BY <1>2, <1>3, <1>4 DEF x

\* Where an analyzer is after the first k of xs when n bytes of them are there: E[k] is how
\* many bytes those k have.
Arrives(a, xs, E, n, k) ==
  \/ a = At(FirstRead(xs, k), E[k], TRUE) /\ E[k] <= n
  \/ n < E[Len(xs)] /\ \E j \in 0..k, d \in Nat : a = At(FirstRead(xs, j), d, FALSE)

\* E has the places where the writings s end in all.
EndsOf(E, s, all) ==
  /\ E \in [0..Len(s) -> Nat] /\ E[0] = 0 /\ E[Len(s)] = Len(all)
  /\ \A k \in 0..Len(s) - 1 : /\ E[k + 1] = E[k] + Len(s[k + 1]) /\ E[k + 1] <= E[Len(s)]
                              /\ \A j \in 1..Len(s[k + 1]) : all[E[k] + j] = s[k + 1][j]

LEMMA EndsExist ==
  ASSUME NEW B, NEW s \in Seq(Seq(B))
  PROVE  /\ FlattenSeq(s) \in Seq(B)
         /\ \E E : EndsOf(E, s, FlattenSeq(s))
<1> DEFINE all == FlattenSeq(s)
<1>0. all \in Seq(B)
  BY FlatType
<1>1. CASE s = <<>>
  <2> DEFINE E == [k \in 0..0 |-> 0]
  <2>1. Len(s) = 0
    BY <1>1
  <2>2. all = <<>>
    BY <1>1, FlatEmpty, Zenon
  <2>3. Len(all) = 0
    BY <2>2
  <2>4. E \in [0..0 -> Nat] /\ E[0] = 0 /\ 0..0 - 1 = {}
    OBVIOUS
  <2> HIDE DEF E, all
  <2>5. EndsOf(E, s, all)
    BY <2>1, <2>3, <2>4 DEF EndsOf
  <2> QED BY <1>0, <2>5 DEF all
<1>2. CASE s # <<>>
  <2>1. PICK f \in [0..Len(s) -> Seq(B)] : FlatAt(f, s, all)
    BY <1>2, FlatPlaces
  <2> DEFINE E == [k \in 0..Len(s) |-> Len(f[k])]
  <2>2. Len(s) \in Nat /\ Len(s) \in 0..Len(s) /\ 0 \in 0..Len(s)
    BY <1>2
  <2> HIDE DEF all
  <2>3. E \in [0..Len(s) -> Nat] /\ \A k \in 0..Len(s) : E[k] = Len(f[k])
    OBVIOUS
  <2> HIDE DEF E
  <2>4. E[0] = 0 /\ E[Len(s)] = Len(all)
    <3>1. f[0] = <<>> /\ f[Len(s)] = all
      BY <2>1, Zenon DEF FlatAt
    <3> QED BY <2>2, <2>3, <3>1
  <2>5. ASSUME NEW k \in 0..Len(s) - 1
        PROVE  /\ E[k + 1] = E[k] + Len(s[k + 1]) /\ E[k + 1] <= E[Len(s)]
               /\ \A j \in 1..Len(s[k + 1]) : all[E[k] + j] = s[k + 1][j]
    <3>1. k + 1 \in 1..Len(s) /\ (k + 1) - 1 = k /\ k \in 0..Len(s) /\ k + 1 \in 0..Len(s)
      BY <2>2
    <3>2. /\ Len(f[k + 1]) = Len(f[(k + 1) - 1]) + Len(s[k + 1]) /\ Len(f[k + 1]) <= Len(all)
          /\ \A j \in 1..Len(s[k + 1]) : all[Len(f[(k + 1) - 1]) + j] = s[k + 1][j]
      BY <2>1, <3>1, Zenon DEF FlatAt
    <3>3. E[k] = Len(f[k]) /\ E[k + 1] = Len(f[k + 1])
      BY <2>3, <3>1, Zenon
    <3> QED BY <2>4, <3>1, <3>2, <3>3, Zenon
  <2>6. EndsOf(E, s, all)
    BY <2>3, <2>4, <2>5, Zenon DEF EndsOf
  <2> QED BY <1>0, <2>6, Zenon DEF all
<1> QED BY <1>1, <1>2

\* What is at the place of a writing in the beginning of all.
LEMMA HereIn ==
  ASSUME NEW B, NEW s \in Seq(Seq(B)), NEW all \in Seq(B), NEW E, EndsOf(E, s, all), NEW n \in 0..Len(all),
         NEW k \in 0..Len(s) - 1
  PROVE  Here(SubSeq(all, 1, n), E[k], s[k + 1])
<1> DEFINE part == SubSeq(all, 1, n)
<1>1. part \in Seq(B) /\ Len(part) = n /\ \A i \in 1..n : part[i] = all[i]
  OBVIOUS
<1>2. E[k] \in Nat /\ s[k + 1] \in Seq(B)
  <2>1. E \in [0..Len(s) -> Nat]
    BY Zenon DEF EndsOf
  <2>2. k \in 0..Len(s) /\ k + 1 \in 1..Len(s)
    OBVIOUS
  <2>3. E[k] \in Nat
    BY <2>1, <2>2, Zenon
  <2>4. \A i \in 1..Len(s) : s[i] \in Seq(B)
    OBVIOUS
  <2> QED BY <2>2, <2>3, <2>4, Zenon
<1>3. \A j \in 1..Len(s[k + 1]) : all[E[k] + j] = s[k + 1][j]
  BY Zenon DEF EndsOf
<1> HIDE DEF part
<1> DEFINE e == E[k]
           t == s[k + 1]
<1>4. e \in Nat /\ \A j \in 1..Len(t) : all[e + j] = t[j]
  BY <1>2, <1>3
<1> HIDE DEF e, t
<1>5. ASSUME NEW j \in 1..Len(t), e + j <= n PROVE part[e + j] = t[j]
  <2>1. e + j \in 1..n
    BY <1>4, <1>5
  <2> QED BY <1>1, <1>4, <2>1, Zenon
<1>6. Here(part, e, t)
  BY <1>1, <1>5, Zenon DEF Here
<1> QED BY <1>6 DEF part, e, t

Writings(xs) == [i \in DOMAIN xs |-> Octets!Inserted(xs[i])]

LEMMA WritingsTyped ==
  ASSUME NEW xs \in Seq(AllFields)
  PROVE  /\ Writings(xs) \in Seq(Seq(Octets!Byte)) /\ Len(Writings(xs)) = Len(xs)
         /\ \A i \in 1..Len(xs) : Writings(xs)[i] = Octets!Inserted(xs[i])
         /\ Octets!BuiltFrom(xs) = FlattenSeq(Writings(xs))
<1> DEFINE x(i) == Octets!Inserted(xs[i])
           s == [i \in 1..Len(xs) |-> x(i)]
<1>1. DOMAIN xs = 1..Len(xs) /\ Len(xs) \in Nat
  OBVIOUS
<1>2. \A i \in 1..Len(xs) : x(i) \in Seq(Octets!Byte)
  BY InsertedTyped
<1>3. Writings(xs) = s
  BY <1>1 DEF Writings
<1>4. Octets!BuiltFrom(xs) = FlattenSeq(s)
  BY <1>1, <1>3, OctetsFlat, Zenon DEF Octets!BuiltFrom, Writings
<1> HIDE DEF x
<1>5. s \in Seq(Seq(Octets!Byte)) /\ Len(s) = Len(xs) /\ \A i \in 1..Len(xs) : s[i] = x(i)
  BY <1>1, <1>2
<1> QED BY <1>3, <1>4, <1>5, Zenon DEF x

\* One field of data that may end early.
LEMMA ArrivesNext ==
  ASSUME NEW xs \in Seq(AllFields), NEW fields \in Seq(AllFields), Len(fields) = Len(xs),
         \A i \in 1..Len(xs) : Like(fields[i], xs[i]),
         NEW all \in Seq(Octets!Byte), NEW E, EndsOf(E, Writings(xs), all),
         NEW n \in 0..Len(all), NEW k \in 0..Len(xs) - 1, NEW a, Arrives(a, xs, E, n, k)
  PROVE  /\ a \in Analyzers
         /\ Arrives(Octets!Extracts(SubSeq(all, 1, n), a, fields[k + 1]), xs, E, n, k + 1)
<1> DEFINE part == SubSeq(all, 1, n)
           s == Writings(xs)
           x == xs[k + 1]
           f == fields[k + 1]
           l == Len(Octets!Inserted(x))
<1>1. /\ s \in Seq(Seq(Octets!Byte)) /\ Len(s) = Len(xs)
      /\ \A i \in 1..Len(xs) : s[i] = Octets!Inserted(xs[i])
  BY WritingsTyped
<1> HIDE DEF s
<1>2. Len(xs) \in Nat /\ k \in Nat /\ k \in 0..Len(xs) /\ k + 1 \in 1..Len(xs)
  OBVIOUS
<1>3. x \in AllFields /\ f \in AllFields /\ Like(f, x)
  BY <1>2
<1>4. part \in Seq(Octets!Byte) /\ Len(part) = n
  OBVIOUS
<1>5. part \in Seq(Nat)
  <2> HIDE DEF part
  <2> QED BY <1>4, BytesAre
<1>6. Here(part, E[k], Octets!Inserted(x))
  <2>1. Here(part, E[k], s[k + 1])
    BY <1>1, HereIn DEF s
  <2> QED BY <1>1, <1>2, <2>1, Zenon
<1>7. /\ E \in [0..Len(xs) -> Nat]
      /\ E[k + 1] = E[k] + Len(s[k + 1]) /\ E[k + 1] <= E[Len(xs)]
  BY <1>1, Zenon DEF EndsOf, s
<1>8. E[k] \in Nat /\ E[k + 1] = E[k] + l
  BY <1>1, <1>2, <1>7, Zenon
<1> HIDE DEF part, x, f, l
<1>9. CASE a = At(FirstRead(xs, k), E[k], TRUE) /\ E[k] <= n
  <2>1. a \in Analyzers
    <3>1. FirstRead(xs, k) \in Seq(Values)
      BY FirstReadIs
    <3> QED BY <1>8, <1>9, <3>1, AnalyzerTyped
  <2>2. StepOver(part, FirstRead(xs, k), E[k], f, x)
    BY <1>3, <1>5, <1>6, <1>8, FieldOver, Zenon
  <2>3. CASE E[k] + l <= n
    <3>1. Octets!Extracts(part, a, f) = At(Append(FirstRead(xs, k), Octets!Read(x)), E[k] + l, TRUE)
      BY <1>4, <1>9, <2>2, <2>3, Zenon DEF StepOver, l
    <3>2. Append(FirstRead(xs, k), Octets!Read(x)) = FirstRead(xs, k + 1)
      <4>1. k < Len(xs)
        BY <1>2
      <4> QED BY <4>1, <1>2, FirstReadIs, Zenon DEF x
    <3>3. Octets!Extracts(part, a, f) = At(FirstRead(xs, k + 1), E[k + 1], TRUE) /\ E[k + 1] <= n
      BY <1>8, <2>3, <3>1, <3>2, Zenon
    <3> QED BY <2>1, <3>3, Zenon DEF Arrives, part, f
  <2>4. CASE ~(E[k] + l <= n)
    <3>1. PICK d \in Nat : Octets!Extracts(part, a, f) = At(FirstRead(xs, k), d, FALSE)
      BY <1>4, <1>9, <2>2, <2>4, Zenon DEF StepOver, l
    <3>2. n < E[Len(xs)]
      <4>1. E[k + 1] \in Nat /\ E[Len(xs)] \in Nat
        BY <1>2, <1>7
      <4>2. ~(E[k + 1] <= n) /\ n \in Nat
        BY <1>8, <2>4
      <4> QED BY <1>7, <4>1, <4>2
    <3>3. k \in 0..k + 1
      BY <1>2
    <3> QED BY <2>1, <3>1, <3>2, <3>3, Zenon DEF Arrives, part, f
  <2> QED BY <2>3, <2>4
<1>10. CASE n < E[Len(xs)] /\ \E j \in 0..k, d \in Nat : a = At(FirstRead(xs, j), d, FALSE)
  <2>1. PICK j \in 0..k, d \in Nat : a = At(FirstRead(xs, j), d, FALSE)
    BY <1>10
  <2>2. j \in 0..Len(xs) /\ j \in 0..k + 1
    BY <1>2
  <2>3. FirstRead(xs, j) \in Seq(Values)
    BY <2>2, FirstReadIs
  <2>4. a \in Analyzers
    BY <2>1, <2>3, AnalyzerTyped
  <2>5. Octets!Extracts(part, a, f) = a
    <3> DEFINE yes == TRUE
    <3>1. yes = TRUE
      OBVIOUS
    <3> HIDE DEF yes
    <3>2. Extraction(part, FirstRead(xs, j), d, f, yes)
      BY <3>1, ExtractsIs, Zenon
    <3> QED BY <2>1, <3>2, Zenon DEF Extraction
  <2> QED BY <1>10, <2>1, <2>2, <2>4, <2>5, Zenon DEF Arrives, part, f
<1> QED BY <1>9, <1>10, Zenon DEF Arrives

\* All fields of data that may end early: the values are those that were inserted, and all
\* of them are there if the data are.
Extracting(a, xs, n, all) ==
  /\ a.values = FirstRead(xs, Len(a.values))
  /\ a.ok <=> n = Len(all)
  /\ a.ok => a = At(FirstRead(xs, Len(xs)), Len(all), TRUE)

\* Of fields that were written one after the other, and cut short anywhere, the whole ones are read.
LEMMA AllOver ==
  ASSUME NEW xs \in Seq(AllFields), NEW fields \in Seq(AllFields), Len(fields) = Len(xs),
         \A i \in 1..Len(xs) : Like(fields[i], xs[i]),
         NEW all, all = Octets!BuiltFrom(xs), NEW n \in 0..Len(all)
  PROVE  Extracting(Octets!Extracted(SubSeq(all, 1, n), fields), xs, n, all)
<1> DEFINE part == SubSeq(all, 1, n)
           r == Octets!Extracted(part, fields)
           g == ReadStep(part)
           m == Len(xs)
<1>0. all = FlattenSeq(Writings(xs))
  BY WritingsTyped, Zenon
<1>1. Writings(xs) \in Seq(Seq(Octets!Byte)) /\ Len(Writings(xs)) = m /\ m \in Nat
  BY WritingsTyped
<1>2. all \in Seq(Octets!Byte)
  BY <1>0, <1>1, EndsExist, Zenon
<1>3. PICK E : EndsOf(E, Writings(xs), all)
  BY <1>0, <1>1, EndsExist, Zenon
<1>4. part \in Seq(Octets!Byte)
  BY <1>2
<1>5. part \in Seq(Nat)
  <2> HIDE DEF part
  <2> QED BY <1>4, BytesAre
<1>6. Leads(g, NewAnalyzer, fields, r)
  BY <1>5, FieldsLead, Zenon
<1>7. \A a \in Analyzers, f \in AllFields : g[<<a, f>>] = Octets!Extracts(part, a, f)
  BY <1>5, ReadStepIs, Zenon
<1>8. PICK h : h[0] = NewAnalyzer /\ h[Len(fields)] = r
               /\ \A k \in 0..Len(fields) - 1 : h[k + 1] = g[<<h[k], fields[k + 1]>>]
  BY <1>6, Zenon DEF Leads
<1> HIDE DEF part, r, g
<1> DEFINE K == {k \in Nat : k <= m => Arrives(h[k], xs, E, n, k)}
<1>9. 0 \in K
  <2> SUFFICES Arrives(h[0], xs, E, n, 0)
    OBVIOUS
  <2>1. FirstRead(xs, 0) = <<>>
    <3> DEFINE e == FirstRead(xs, 0)
    <3>1. 0 \in 0..Len(xs)
      BY <1>1
    <3>2. e \in Seq(Values) /\ Len(e) = 0
      BY <3>1, FirstReadIs, Zenon
    <3> HIDE DEF e
    <3>3. e = <<>>
      BY <3>2
    <3> QED BY <3>3 DEF e
  <2>2. E[0] = 0
    BY <1>3, Zenon DEF EndsOf
  <2>3. 0 <= n
    OBVIOUS
  <2> QED BY <1>8, <2>1, <2>2, <2>3, Zenon DEF Arrives, NewAnalyzer
<1>10. ASSUME NEW k \in Nat, k \in K PROVE k + 1 \in K
  <2> SUFFICES ASSUME k + 1 <= m PROVE Arrives(h[k + 1], xs, E, n, k + 1)
    OBVIOUS
  <2>1. k \in 0..m - 1 /\ k + 1 \in 1..m /\ k <= m
    BY <1>1
  <2>2. Arrives(h[k], xs, E, n, k)
    BY <1>10, <2>1
  <2>3. h[k] \in Analyzers /\ Arrives(Octets!Extracts(part, h[k], fields[k + 1]), xs, E, n, k + 1)
    BY <1>2, <1>3, <2>1, <2>2, ArrivesNext, Zenon DEF part
  <2>4. fields[k + 1] \in AllFields
    BY <2>1
  <2>5. h[k + 1] = g[<<h[k], fields[k + 1]>>]
    BY <1>8, <2>1, Zenon
  <2> QED BY <1>7, <2>3, <2>4, <2>5, Zenon
<1>11. Arrives(r, xs, E, n, m)
  <2>1. m \in K
    <3> HIDE DEF K
    <3> QED BY <1>1, <1>9, <1>10, NatSets
  <2>2. m <= m
    BY <1>1
  <2> QED BY <1>8, <2>1, <2>2
<1>12. E[m] = Len(all)
  BY <1>1, <1>3, Zenon DEF EndsOf
<1>13. \A j \in 0..m : Len(FirstRead(xs, j)) = j
  BY FirstReadIs
<1>14. m \in 0..m /\ Len(all) \in Nat
  BY <1>1, <1>2
<1>15. CASE r = At(FirstRead(xs, m), E[m], TRUE) /\ E[m] <= n
  <2>1. n = Len(all)
    BY <1>12, <1>14, <1>15
  <2>2. r.values = FirstRead(xs, m) /\ r.ok = TRUE
    <3> DEFINE v == FirstRead(xs, m)
               e == E[m]
    <3>1. r = At(v, e, TRUE)
      BY <1>15, Zenon
    <3> HIDE DEF v, e
    <3>2. r.values = v /\ r.ok = TRUE
      BY <3>1 DEF At
    <3> QED BY <3>2 DEF v
  <2> QED BY <1>12, <1>13, <1>14, <1>15, <2>1, <2>2, Zenon DEF Extracting, r, part
<1>16. CASE n < E[m] /\ \E j \in 0..m, d \in Nat : r = At(FirstRead(xs, j), d, FALSE)
  <2>1. PICK j \in 0..m, d \in Nat : r = At(FirstRead(xs, j), d, FALSE)
    BY <1>16
  <2>2. r.values = FirstRead(xs, j) /\ r.ok = FALSE
    <3> DEFINE v == FirstRead(xs, j)
    <3>1. r = At(v, d, FALSE)
      BY <2>1, Zenon
    <3> HIDE DEF v
    <3>2. r.values = v /\ r.ok = FALSE
      BY <3>1 DEF At
    <3> QED BY <3>2 DEF v
  <2>3. n # Len(all)
    BY <1>12, <1>14, <1>16
  <2> QED BY <1>13, <2>2, <2>3, Zenon DEF Extracting, r, part
<1> QED BY <1>11, <1>15, <1>16, Zenon DEF Arrives

-----------------------------------------------------------------------------
(* The samples.                                                            *)

FieldsOver == {Octets!Fields(f) : f \in Seq(AllFields)}

LEMMA FieldsReach ==
  ASSUME sample \in FieldsOver
  PROVE  Octets!FieldsReadBack
<1> DEFINE xs == sample.fields
<1>1. xs \in Seq(AllFields)
  <2>1. PICK f \in Seq(AllFields) : sample = Octets!Fields(f)
    BY DEF FieldsOver
  <2>2. sample.fields = f
    BY <2>1 DEF Octets!Fields
  <2> QED BY <2>2
<1> HIDE DEF xs
<1> DEFINE bytes == Octets!BuiltFrom(xs)
<1>3. bytes \in Seq(Octets!Byte)
  <2>1. Writings(xs) \in Seq(Seq(Octets!Byte)) /\ bytes = FlattenSeq(Writings(xs))
    BY <1>1, WritingsTyped, Zenon
  <2> QED BY <2>1, EndsExist, Zenon
<1> HIDE DEF bytes
<1>4. ASSUME NEW part \in Octets!Beginnings(bytes)
      PROVE  LET a == Octets!Extracted(part, xs) IN
             /\ a.values = [i \in 1..Len(a.values) |-> Octets!Read(xs[i])]
             /\ a.ok <=> part = bytes
             /\ a.ok => a.cursor = Len(bytes) /\ Len(a.values) = Len(xs)
  <2>1. PICK n \in 0..Len(bytes) : part = SubSeq(bytes, 1, n)
    BY DEF Octets!Beginnings
  <2> DEFINE a == Octets!Extracted(part, xs)
  <2>2. Extracting(a, xs, n, bytes)
    <3>1. \A i \in 1..Len(xs) : Like(xs[i], xs[i])
      BY Zenon DEF Like
    <3> QED BY <1>1, <2>1, <3>1, AllOver, Zenon DEF bytes
  <2>3. part = bytes <=> n = Len(bytes)
    BY <1>3, <2>1
  <2> HIDE DEF a
  <2>4. a.values = [i \in 1..Len(a.values) |-> Octets!Read(xs[i])]
    BY <2>2, Zenon DEF Extracting, FirstRead
  <2>5. a.ok <=> part = bytes
    BY <2>2, <2>3, Zenon DEF Extracting
  <2>6. ASSUME a.ok PROVE a.cursor = Len(bytes) /\ Len(a.values) = Len(xs)
    <3> DEFINE v == FirstRead(xs, Len(xs))
               l == Len(bytes)
    <3>1. a = At(v, l, TRUE)
      BY <2>2, <2>6, Zenon DEF Extracting
    <3>2. Len(v) = Len(xs)
      <4>1. Len(xs) \in 0..Len(xs)
        BY <1>1
      <4> QED BY <1>1, <4>1, FirstReadIs, Zenon
    <3> HIDE DEF v, l
    <3>3. a.cursor = l /\ a.values = v
      BY <3>1 DEF At
    <3> QED BY <3>2, <3>3, Zenon DEF l
  <2> QED BY <2>4, <2>5, <2>6, Zenon DEF a
<1> QED BY <1>4, Zenon DEF Octets!FieldsReadBack, bytes, xs

-----------------------------------------------------------------------------
(* Responses.                                                              *)

LEMMA FlatOfTwo ==
  ASSUME NEW E, NEW a \in Seq(E), NEW b \in Seq(E)
  PROVE  FlattenSeq(<<a, b>>) = a \o b
<1> DEFINE s == <<a, b>>
<1>1. s \in Seq(Seq(E)) /\ Len(s) = 2 /\ s[1] = a /\ s[2] = b /\ s # <<>>
  OBVIOUS
<1> HIDE DEF s
<1>2. PICK f \in [1..Len(s) -> Seq(E)] : Joins(f, s) /\ FlattenSeq(s) = f[Len(s)]
  BY <1>1, FlatSteps
<1>3. 1..2 = {1, 2} /\ 2 > 1 /\ 2 - 1 = 1
  OBVIOUS
<1>4. f[1] = a /\ f[2] = f[1] \o b
  BY <1>1, <1>2, <1>3, Zenon DEF Joins, JoinsUpto
<1> QED BY <1>1, <1>2, <1>4, Zenon DEF s

LEMMA FlatOfThree ==
  ASSUME NEW a \in Seq(Octets!Byte), NEW b \in Seq(Octets!Byte), NEW c \in Seq(Octets!Byte)
  PROVE  FlattenSeq(<<a, b, c>>) = a \o (b \o c)
<1> DEFINE s == <<a, b, c>>
<1>1. s \in Seq(Seq(Octets!Byte)) /\ Len(s) = 3 /\ s[1] = a /\ s[2] = b /\ s[3] = c /\ s # <<>>
  OBVIOUS
<1> HIDE DEF s
<1>2. PICK f \in [1..Len(s) -> Seq(Octets!Byte)] : Joins(f, s) /\ FlattenSeq(s) = f[Len(s)]
  BY <1>1, FlatSteps
<1>3. 2 \in 1..3 /\ 3 \in 1..3 /\ 2 > 1 /\ 3 > 1 /\ 2 - 1 = 1 /\ 3 - 1 = 2
  OBVIOUS
<1>4. f[1] = a /\ f[2] = f[1] \o b /\ f[3] = f[2] \o c
  BY <1>1, <1>2, <1>3, Zenon DEF Joins, JoinsUpto
<1>5. (a \o b) \o c = a \o (b \o c)
  BY ConcatAssociative
<1> QED BY <1>1, <1>2, <1>4, <1>5, Zenon DEF s

ANormal       == [kind |-> "normal"]
AnInsert(f)   == [kind |-> "insert", field |-> f]
AnError(e, m) == [kind |-> "error", error |-> e, message |-> m]
AllSteps ==
  {ANormal} \cup {AnInsert(f) : f \in AllFields}
  \cup {AnError(e, m) : e \in Octets!Byte, m \in Seq(Octets!Byte)}
ErrorSent(e, m) == <<1>> \o Octets!BuiltFrom(<<Octets!AnInt(e, 1), Octets!AString(m)>>)

LEMMA StepKinds ==
  ASSUME NEW x \in AllSteps
  PROVE  \/ x.kind # "error"
         \/ \E e \in Octets!Byte, m \in Seq(Octets!Byte) : x = AnError(e, m)
<1>1. ANormal.kind # "error" /\ \A f : AnInsert(f).kind # "error"
  BY DEF ANormal, AnInsert
<1>2. \/ x = ANormal
      \/ \E f \in AllFields : x = AnInsert(f)
      \/ \E e \in Octets!Byte, m \in Seq(Octets!Byte) : x = AnError(e, m)
  BY DEF AllSteps
<1> QED BY <1>1, <1>2, Zenon

LEMMA ErrorParts ==
  ASSUME NEW e, NEW m
  PROVE  AnError(e, m).kind = "error" /\ AnError(e, m).error = e /\ AnError(e, m).message = m
  BY DEF AnError

LEMMA Errs ==
  ASSUME NEW bytes, NEW e, NEW m
  PROVE  Octets!Responds(bytes, AnError(e, m)) = ErrorSent(e, m)
<1> DEFINE x == AnError(e, m)
<1>1. x.kind = "error" /\ x.error = e /\ x.message = m
  BY ErrorParts
<1> HIDE DEF x
<1>2. x.kind # "normal"
  BY <1>1
<1>3. Octets!Responds(bytes, x) = <<1>> \o Octets!BuiltFrom(<<Octets!AnInt(x.error, 1), Octets!AString(x.message)>>)
  BY <1>1, <1>2 DEF Octets!Responds
<1> QED BY <1>1, <1>3, Zenon DEF x, ErrorSent

\* The fields of an error as it is sent: the first says that it is one.
Sent(e, m) == <<Octets!AnInt(1, 1), Octets!AnInt(e, 1), Octets!AString(m)>>

LEMMA SentTyped ==
  ASSUME NEW e \in Octets!Byte, NEW m \in Seq(Octets!Byte)
  PROVE  /\ Octets!AnInt(1, 1) \in AllFields /\ Octets!AnInt(e, 1) \in AllFields
         /\ Octets!AString(m) \in AllFields /\ Sent(e, m) \in Seq(AllFields)
<1>1. Octets!Power[1] = Base
  <2>1. Octets!Power[0] = 1 /\ 0 \in Nat /\ 0 + 1 = 1
    BY PowerIs
  <2>2. Octets!Power[1] = Base * 1
    BY <2>1, PowerAt
  <2> QED BY <2>2, BytesAre
<1>2. e \in Sayable(1) /\ 1 \in Sayable(1) /\ 1 \in Nat \ {0}
  <2> DEFINE p == Octets!Power[1]
  <2>1. p = Base /\ Sayable(1) = 0..p - 1
    BY <1>1 DEF Sayable
  <2> HIDE DEF p
  <2> QED BY <2>1, BytesAre
<1>3. Octets!AnInt(1, 1) \in AllFields /\ Octets!AnInt(e, 1) \in AllFields
  <2>1. \A v \in Sayable(1) : Octets!AnInt(v, 1) \in UNION {{Octets!AnInt(u, w) : u \in Sayable(w)} : w \in Nat \ {0}}
    BY <1>2
  <2> QED BY <1>2, <2>1, Zenon DEF AllFields
<1>4. Octets!AString(m) \in AllFields
  BY Zenon DEF AllFields
<1> QED BY <1>3, <1>4 DEF Sent

LEMMA ErrorIs ==
  ASSUME NEW e \in Octets!Byte, NEW m \in Seq(Octets!Byte)
  PROVE  /\ ErrorSent(e, m) = Octets!BuiltFrom(Sent(e, m))
         /\ ErrorSent(e, m) \in Seq(Octets!Byte)
<1> DEFINE x == Octets!AnInt(1, 1)
           y == Octets!AnInt(e, 1)
           z == Octets!AString(m)
           two == <<y, z>>
           three == <<x, y, z>>
<1>1. three \in Seq(AllFields) /\ three = Sent(e, m)
  BY SentTyped, Zenon DEF Sent
<1>2. x \in AllFields /\ y \in AllFields /\ z \in AllFields
  BY SentTyped
<1>3. Octets!Inserted(x) = <<1>>
  <2>1. 1 \in Octets!Byte
    BY BytesAre
  <2> QED BY <2>1, InsertedIs, OneByte, Zenon
<1> HIDE DEF x, y, z
<1> DEFINE X == Octets!Inserted(x)
           Y == Octets!Inserted(y)
           Z == Octets!Inserted(z)
<1>4. X \in Seq(Octets!Byte) /\ Y \in Seq(Octets!Byte) /\ Z \in Seq(Octets!Byte)
  BY <1>2, InsertedTyped
<1>5. Writings(two) = <<Y, Z>>
  <2> DEFINE I(f) == Octets!Inserted(f)
  <2>1. Writings(two) = [i \in DOMAIN two |-> I(two[i])]
    BY DEF Writings
  <2> HIDE DEF I
  <2>2. [i \in DOMAIN two |-> I(two[i])] = <<I(y), I(z)>>
    OBVIOUS
  <2> QED BY <2>1, <2>2, Zenon DEF I
<1>6. Writings(three) = <<X, Y, Z>>
  <2> DEFINE I(f) == Octets!Inserted(f)
  <2>1. Writings(three) = [i \in DOMAIN three |-> I(three[i])]
    BY DEF Writings
  <2> HIDE DEF I
  <2>2. [i \in DOMAIN three |-> I(three[i])] = <<I(x), I(y), I(z)>>
    OBVIOUS
  <2> QED BY <2>1, <2>2, Zenon DEF I
<1>7. two \in Seq(AllFields)
  BY <1>2
<1>8. Octets!BuiltFrom(two) = FlattenSeq(Writings(two)) /\ Octets!BuiltFrom(three) = FlattenSeq(Writings(three))
  BY <1>1, <1>7, WritingsTyped, Zenon
<1> HIDE DEF X, Y, Z
<1>9. FlattenSeq(<<Y, Z>>) = Y \o Z /\ FlattenSeq(<<X, Y, Z>>) = X \o (Y \o Z)
  <2>1. FlattenSeq(<<Y, Z>>) = Y \o Z
    BY <1>4, FlatOfTwo, Zenon
  <2>2. FlattenSeq(<<X, Y, Z>>) = X \o (Y \o Z)
    BY <1>4, FlatOfThree, Zenon
  <2> QED BY <2>1, <2>2
<1>10. ErrorSent(e, m) = X \o (Y \o Z) /\ Octets!BuiltFrom(three) = X \o (Y \o Z)
  BY <1>3, <1>5, <1>6, <1>8, <1>9, Zenon DEF ErrorSent, X, y, z
<1>11. X \o (Y \o Z) \in Seq(Octets!Byte)
  BY <1>4
<1> QED BY <1>1, <1>10, <1>11, Zenon

LEMMA RespondsTyped ==
  ASSUME NEW bytes \in Seq(Octets!Byte), NEW x \in AllSteps
  PROVE  Octets!Responds(bytes, x) \in Seq(Octets!Byte)
<1>1. CASE x = ANormal
  <2>1. x.kind = "normal"
    BY <1>1 DEF ANormal
  <2>2. Octets!Responds(bytes, x) = <<0>>
    BY <2>1 DEF Octets!Responds
  <2>3. 0 \in Octets!Byte
    BY BytesAre
  <2> QED BY <2>2, <2>3
<1>2. CASE \E f \in AllFields : x = AnInsert(f)
  <2>1. PICK f \in AllFields : x = AnInsert(f)
    BY <1>2
  <2>2. x.kind = "insert" /\ x.field = f
    BY <2>1 DEF AnInsert
  <2>3. x.kind # "normal" /\ x.kind # "error"
    BY <2>2
  <2>4. Octets!Responds(bytes, x) = bytes \o Octets!Inserted(f)
    BY <2>2, <2>3 DEF Octets!Responds
  <2>5. Octets!Inserted(f) \in Seq(Octets!Byte)
    BY InsertedTyped
  <2> QED BY <2>4, <2>5
<1>3. CASE \E e \in Octets!Byte, m \in Seq(Octets!Byte) : x = AnError(e, m)
  <2>1. PICK e \in Octets!Byte, m \in Seq(Octets!Byte) : x = AnError(e, m)
    BY <1>3
  <2>2. Octets!Responds(bytes, x) = ErrorSent(e, m)
    BY <2>1, Errs, Zenon
  <2>3. ErrorSent(e, m) \in Seq(Octets!Byte)
    BY ErrorIs
  <2> QED BY <2>2, <2>3, Zenon
<1> QED BY <1>1, <1>2, <1>3 DEF AllSteps

\* A handler that ends with an error sends the error and nothing else.
LEMMA ResponseEnds ==
  ASSUME NEW s \in Seq(AllSteps), s # <<>>, NEW e, NEW m, s[Len(s)] = AnError(e, m)
  PROVE  Octets!Response(s) = ErrorSent(e, m)
<1> DEFINE R == Seq(Octets!Byte)
           g == [x \in R \X AllSteps |-> Octets!Responds(x[1], x[2])]
           T == SUBSET (DOMAIN s)
           Is(f) == f = [t \in T |-> IF t = {} THEN <<>>
                                     ELSE Octets!Responds(f[t \ {Max(t)}], s[Max(t)])]
<1>1. Octets!Response(s) = (CHOOSE f : Is(f))[DOMAIN s]
  BY Zenon DEF Octets!Response, Octets!FoldLeft, Octets!MapThenFoldSet, Octets!Max, Max
<1>2. g \in [R \X AllSteps -> R] /\ \A d \in R, x \in AllSteps : g[<<d, x>>] = Octets!Responds(d, x)
  <2>1. \A d \in R, x \in AllSteps : Octets!Responds(d, x) \in R
    BY RespondsTyped
  <2> HIDE DEF R
  <2> QED BY <2>1
<1>2a. <<>> \in R
  OBVIOUS
<1> HIDE DEF g, R
<1>3. PICK h : IsTable(h, R, AllSteps, s, <<>>, g)
  BY <1>2, <1>2a, FoldTable
<1>4. Is(h)
  <2>1. \A t \in T : h[t] = IF t = {} THEN <<>> ELSE Octets!Responds(h[t \ {Max(t)}], s[Max(t)])
    BY <1>2, <1>3, Zenon DEF IsTable
  <2>2. h \in [T -> R]
    BY <1>3 DEF IsTable
  <2> HIDE DEF T
  <2>3. h = [t \in T |-> h[t]]
    BY <2>2
  <2> QED BY <2>1, <2>3, Zenon
<1> DEFINE f == CHOOSE f : Is(f)
<1>5. Is(f)
  BY <1>4, Zenon
<1> HIDE DEF f
<1>6. DOMAIN s \in T /\ DOMAIN s # {} /\ Max(DOMAIN s) = Len(s)
  <2>1. PICK k \in Nat : Len(s) = k + 1
    <3>1. Len(s) \in Nat /\ Len(s) # 0
      OBVIOUS
    <3>2. Len(s) - 1 \in Nat /\ Len(s) = (Len(s) - 1) + 1
      BY <3>1
    <3> QED BY <3>2, Zenon
  <2>2. DOMAIN s = 1..k + 1 /\ k + 1 \in 1..k + 1
    BY <2>1
  <2>3. Max(1..k + 1) = k + 1
    <3>1. 1..k + 1 \in SUBSET (1..k + 1)
      OBVIOUS
    <3> QED BY <2>2, <3>1, MaxIs, Zenon
  <2>4. Max(DOMAIN s) = Len(s)
    BY <2>1, <2>2, <2>3, Zenon
  <2>5. DOMAIN s \in T /\ DOMAIN s # {}
    BY <2>2
  <2> QED BY <2>4, <2>5, Zenon
<1>7. f[DOMAIN s] = Octets!Responds(f[(DOMAIN s) \ {Len(s)}], s[Len(s)])
  BY <1>5, <1>6, Zenon
<1>8. f[DOMAIN s] = ErrorSent(e, m)
  <2> DEFINE d == f[(DOMAIN s) \ {Len(s)}]
  <2>1. f[DOMAIN s] = Octets!Responds(d, AnError(e, m))
    BY <1>7, Zenon
  <2> HIDE DEF d
  <2>2. Octets!Responds(d, AnError(e, m)) = ErrorSent(e, m)
    BY Errs
  <2> QED BY <2>1, <2>2, Zenon
<1> QED BY <1>1, <1>8, Zenon DEF f

StepsOver == {Octets!Steps(s) : s \in Seq(AllSteps)}

LEMMA StepsReach ==
  ASSUME sample \in StepsOver
  PROVE  Octets!ResponseOfOneKind
<1> DEFINE s == sample.steps
           bytes == Octets!Response(s)
           x == Octets!Last(s)
           shape == <<Octets!AnInt(0, 1), Octets!AnInt(0, 1), Octets!AString(<<>>)>>
<1>1. s \in Seq(AllSteps)
  <2>1. PICK t \in Seq(AllSteps) : sample = Octets!Steps(t)
    BY DEF StepsOver
  <2>2. sample.steps = t
    BY <2>1 DEF Octets!Steps
  <2> QED BY <2>2
<1> HIDE DEF s
<1> SUFFICES ASSUME s # <<>>, x.kind = "error"
             PROVE  Octets!Extracted(bytes, shape) =
                      [values |-> <<1, x.error, Octets!Cut(x.message)>>, cursor |-> Len(bytes), ok |-> TRUE]
  BY Zenon DEF Octets!ResponseOfOneKind, s
<1>2. x = s[Len(s)] /\ x \in AllSteps
  BY <1>1 DEF Octets!Last
<1>3. PICK e \in Octets!Byte, m \in Seq(Octets!Byte) : x = AnError(e, m)
  <2> HIDE DEF x
  <2> QED BY <1>2, StepKinds, Zenon
<1>4. x.error = e /\ x.message = m
  <2> HIDE DEF x
  <2> QED BY <1>3, ErrorParts
<1>5. bytes = Octets!BuiltFrom(Sent(e, m)) /\ bytes \in Seq(Octets!Byte)
  <2>1. bytes = ErrorSent(e, m)
    <3>1. s[Len(s)] = AnError(e, m)
      BY <1>2, <1>3, Zenon
    <3> QED BY <1>1, <3>1, ResponseEnds, Zenon
  <2>2. /\ ErrorSent(e, m) = Octets!BuiltFrom(Sent(e, m))
        /\ ErrorSent(e, m) \in Seq(Octets!Byte)
    BY ErrorIs
  <2> QED BY <2>1, <2>2, Zenon
<1> HIDE DEF bytes, x, s
<1>6. Sent(e, m) \in Seq(AllFields) /\ Len(Sent(e, m)) = 3 /\ 3 \in 0..3
  BY SentTyped DEF Sent
<1>7. shape \in Seq(AllFields) /\ Len(shape) = 3 /\ \A i \in 1..3 : Like(shape[i], Sent(e, m)[i])
  <2> DEFINE a == Octets!AnInt(0, 1)
             b == Octets!AString(<<>>)
             c == Octets!AnInt(1, 1)
             d == Octets!AnInt(e, 1)
             t == Octets!AString(m)
  <2>1. a \in AllFields /\ b \in AllFields
    <3>1. 0 \in Sayable(1)
      <4> DEFINE p == Octets!Power[1]
      <4>1. 0 + 1 = 1 /\ 0 \in Nat /\ 1 \in Nat
        OBVIOUS
      <4>2. p \in Nat /\ p > 0
        BY <4>1, PowerAt
      <4>3. Sayable(1) = 0..p - 1
        BY DEF Sayable
      <4> HIDE DEF p
      <4> QED BY <4>2, <4>3
    <3>2. 1 \in Nat \ {0} /\ <<>> \in Seq(Octets!Byte)
      OBVIOUS
    <3>3. a \in UNION {{Octets!AnInt(u, w) : u \in Sayable(w)} : w \in Nat \ {0}}
      BY <3>1, <3>2
    <3> QED BY <3>2, <3>3, Zenon DEF AllFields
  <2>2. /\ a.kind = "int" /\ c.kind = "int" /\ d.kind = "int" /\ b.kind = "string" /\ t.kind = "string"
        /\ a.width = 1 /\ c.width = 1 /\ d.width = 1
    BY DEF Octets!AnInt, Octets!AString
  <2>3. Like(a, c) /\ Like(a, d) /\ Like(b, t)
    <3>1. b.kind # "int"
      BY <2>2
    <3> HIDE DEF a, b, c, d, t
    <3> QED BY <2>2, <3>1, Zenon DEF Like
  <2> HIDE DEF a, b, c, d, t
  <2> DEFINE u == <<a, a, b>>
             v == <<c, d, t>>
  <2>4. u \in Seq(AllFields) /\ Len(u) = 3
    BY <2>1
  <2>5. u[1] = a /\ u[2] = a /\ u[3] = b /\ v[1] = c /\ v[2] = d /\ v[3] = t
    OBVIOUS
  <2>6. \A i \in 1..3 : i = 1 \/ i = 2 \/ i = 3
    OBVIOUS
  <2> HIDE DEF u, v
  <2>7. \A i \in 1..3 : Like(u[i], v[i])
    BY <2>3, <2>5, <2>6, Zenon
  <2> QED BY <2>4, <2>7 DEF u, v, a, b, c, d, t, Sent
<1>8. SubSeq(bytes, 1, Len(bytes)) = bytes /\ Len(bytes) \in 0..Len(bytes)
  BY <1>5
<1> HIDE DEF shape
<1> DEFINE y == Octets!Extracted(bytes, shape)
<1>9. Extracting(y, Sent(e, m), Len(bytes), bytes)
  <2>1. Extracting(Octets!Extracted(SubSeq(bytes, 1, Len(bytes)), shape), Sent(e, m), Len(bytes), bytes)
    BY <1>5, <1>6, <1>7, <1>8, AllOver, Zenon
  <2> QED BY <1>8, <2>1, Zenon
<1> HIDE DEF y
<1>10. y = At(FirstRead(Sent(e, m), 3), Len(bytes), TRUE)
  BY <1>6, <1>9, Zenon DEF Extracting
<1>11. FirstRead(Sent(e, m), 3) = <<1, e, Octets!Cut(m)>>
  <2> DEFINE c == Octets!AnInt(1, 1)
             d == Octets!AnInt(e, 1)
             t == Octets!AString(m)
             I(f) == Octets!Read(f)
             v == <<c, d, t>>
  <2>1. I(c) = 1 /\ I(d) = e /\ I(t) = Octets!Cut(m)
    BY ReadIs
  <2>2. FirstRead(Sent(e, m), 3) = [i \in 1..3 |-> I(v[i])]
    BY Zenon DEF FirstRead, Sent
  <2> HIDE DEF c, d, t, I
  <2>3. [i \in 1..3 |-> I(v[i])] = <<I(c), I(d), I(t)>>
    OBVIOUS
  <2> QED BY <2>1, <2>2, <2>3, Zenon
<1> QED BY <1>4, <1>10, <1>11, Zenon DEF y, At

-----------------------------------------------------------------------------
(* Listings.                                                               *)

ListedFile(t, s, n) == [type |-> t, size |-> s, name |-> n]
ShortNames == {s \in Seq(Octets!Byte) : Len(s) < Base}
AllFiles   == [type : Octets!Byte, size : Sayable(2), name : ShortNames]

LEMMA PieceParts ==
  ASSUME NEW t, NEW s, NEW n
  PROVE  ListedFile(t, s, n).type = t /\ ListedFile(t, s, n).size = s /\ ListedFile(t, s, n).name = n
  BY DEF ListedFile

LEMMA FileParts ==
  ASSUME NEW x \in AllFiles
  PROVE  /\ x.type \in Octets!Byte /\ x.size \in Nat /\ x.size < Octets!Power[2]
         /\ x.name \in Seq(Octets!Byte) /\ Len(x.name) < Base
         /\ x = ListedFile(x.type, x.size, x.name)
<1> DEFINE p == Octets!Power[2]
<1>1. p \in Nat
  BY PowerAt
<1>2. x.type \in Octets!Byte /\ x.size \in 0..p - 1 /\ x.name \in ShortNames
  BY DEF AllFiles, Sayable
<1>3. x = ListedFile(x.type, x.size, x.name)
  BY DEF AllFiles, ListedFile
<1> HIDE DEF p
<1>4. x.size \in Nat /\ x.size < p
  BY <1>1, <1>2
<1>5. x.name \in Seq(Octets!Byte) /\ Len(x.name) < Base
  BY <1>2 DEF ShortNames
<1> QED BY <1>2, <1>3, <1>4, <1>5, Zenon DEF p

\* A file is its type, its size, the length of its name and its name.
Lies(p, x) ==
  /\ p \in Seq(Octets!Byte) /\ Len(p) = 4 + Len(x.name) /\ p[1] = x.type
  /\ \A i \in 1..2 : p[1 + i] = Octets!ToBytes(x.size, 2)[i]
  /\ p[4] = Len(x.name) /\ \A i \in 1..Len(x.name) : p[4 + i] = x.name[i]

LEMMA PushedIs ==
  ASSUME NEW x \in AllFiles
  PROVE  Lies(Octets!Pushed(x), x)
<1> DEFINE a == <<x.type>>
           b == Octets!ToBytes(x.size, 2)
           n == Len(x.name)
           c == <<n>>
           ab == a \o b
           abc == ab \o c
           p == abc \o x.name
<1>1. /\ x.type \in Octets!Byte /\ x.size \in Nat
      /\ x.name \in Seq(Octets!Byte) /\ Len(x.name) < Base
  BY FileParts, Zenon
<1>2. n \in Octets!Byte /\ n % Base = n /\ n \in Nat
  <2>1. n \in Nat /\ n < Base
    BY <1>1
  <2> HIDE DEF n
  <2> QED BY <2>1, BytesAre
<1>3. Octets!Pushed(x) = p
  BY <1>2, Zenon DEF Octets!Pushed, Octets!Wide
<1>4. b \in Seq(Octets!Byte) /\ Len(b) = 2
  BY <1>1, ToBytesIs
<1>5. /\ a \in Seq(Octets!Byte) /\ Len(a) = 1 /\ a[1] = x.type
      /\ c \in Seq(Octets!Byte) /\ Len(c) = 1 /\ c[1] = n
  <2> HIDE DEF n
  <2> QED BY <1>1, <1>2
<1> DEFINE name == x.name
           type == x.type
<1>6. n = Len(name) /\ name \in Seq(Octets!Byte) /\ a[1] = type
  BY <1>1, <1>5
<1> HIDE DEF a, b, c, name, n, type
<1>7. /\ ab \in Seq(Octets!Byte) /\ Len(ab) = 3 /\ ab[1] = type
      /\ \A i \in 1..2 : ab[1 + i] = b[i]
  <2>1. /\ ab \in Seq(Octets!Byte) /\ Len(ab) = Len(a) + Len(b)
        /\ \A i \in 1..Len(a) + Len(b) : ab[i] = IF i <= Len(a) THEN a[i] ELSE b[i - Len(a)]
    BY <1>4, <1>5, ConcatProperties, Zenon
  <2> HIDE DEF ab
  <2> QED BY <1>4, <1>5, <1>6, <2>1
<1> HIDE DEF ab
<1>8. /\ abc \in Seq(Octets!Byte) /\ Len(abc) = 4 /\ abc[1] = type
      /\ (\A i \in 1..2 : abc[1 + i] = b[i]) /\ abc[4] = n
  <2>1. /\ abc \in Seq(Octets!Byte) /\ Len(abc) = Len(ab) + Len(c)
        /\ \A i \in 1..Len(ab) + Len(c) : abc[i] = IF i <= Len(ab) THEN ab[i] ELSE c[i - Len(ab)]
    BY <1>5, <1>7, ConcatProperties, Zenon
  <2> HIDE DEF abc
  <2> QED BY <1>5, <1>7, <2>1
<1> HIDE DEF abc
<1> DEFINE q == abc \o name
<1>9. /\ q \in Seq(Octets!Byte) /\ Len(q) = 4 + n /\ q[1] = type
      /\ (\A i \in 1..2 : q[1 + i] = b[i]) /\ q[4] = n
      /\ \A i \in 1..n : q[4 + i] = name[i]
  <2>1. /\ q \in Seq(Octets!Byte) /\ Len(q) = Len(abc) + Len(name)
        /\ \A i \in 1..Len(abc) + Len(name) : q[i] = IF i <= Len(abc) THEN abc[i] ELSE name[i - Len(abc)]
    BY <1>6, <1>8, ConcatProperties, Zenon
  <2> HIDE DEF q
  <2> QED BY <1>2, <1>6, <1>8, <2>1
<1>10. Octets!Pushed(x) = q
  BY <1>3 DEF name
<1> HIDE DEF q
<1> QED BY <1>9, <1>10, Zenon DEF Lies, b, n, name, type

CursorSet(r, t) == [r EXCEPT !.cursor = t]

LEMMA AnalyzerMoved ==
  ASSUME NEW vs, NEW c, NEW o, NEW t
  PROVE  CursorSet(At(vs, c, o), t) = At(vs, t, o)
  BY DEF At, CursorSet

\* What decodeFile makes of a decoder that has given vs and is at c.
FileTaken(bfl, vs, c, e, n, o) ==
  IF Len(bfl) - c >= 4
  THEN IF Len(bfl) - e >= n
       THEN Given(vs, e, o, ListedFile(bfl[c + 1], Octets!FromBytes(BytesAfter(bfl, c + 1, 2)), BytesAfter(bfl, e, n)), n)
       ELSE At(vs, c, FALSE)
  ELSE At(vs, c, FALSE)
Decoding(bfl, vs, c, o) ==
  /\ Octets!Decodes(bfl, At(vs, c, FALSE)) = At(vs, c, FALSE)
  /\ Octets!Decodes(bfl, At(vs, c, o)) = FileTaken(bfl, vs, c, c + 4, bfl[c + 4], o)

LEMMA DecodesIs ==
  ASSUME NEW bfl, NEW vs, NEW c \in Nat, NEW o, o = TRUE
  PROVE  Decoding(bfl, vs, c, o)
<1>1. Octets!Decodes(bfl, At(vs, c, FALSE)) = At(vs, c, FALSE)
  <2> DEFINE r == At(vs, c, FALSE)
  <2>1. ~r.ok
    BY DEF At
  <2>2. [r EXCEPT !.ok = FALSE] = r
    BY AnalyzerFails, Zenon
  <2> HIDE DEF r
  <2>3. Octets!Decodes(bfl, r) = [r EXCEPT !.ok = FALSE]
    BY <2>1, Zenon DEF Octets!Decodes
  <2> QED BY <2>2, <2>3 DEF r
<1> DEFINE r == At(vs, c, o)
           b == At(vs, c + 1, o)
           t == c + 4
           e == At(vs, t, o)
<1>2. r.ok = TRUE /\ r.cursor = c
  BY DEF At
<1>3. Served(bfl, r, vs, c, o)
  BY ServedIs, Zenon
<1>3a. Served(bfl, b, vs, c + 1, o)
  BY ServedIs, Zenon
<1>3b. Served(bfl, e, vs, t, o)
  BY ServedIs, Zenon
<1>4. [r EXCEPT !.ok = FALSE] = At(vs, c, FALSE)
  BY AnalyzerFails, Zenon
<1>5. [r EXCEPT !.cursor = @ + 1] = b
  <2>1. [r EXCEPT !.cursor = @ + 1] = Past(vs, c, o, 1)
    BY AnalyzerGoesOn, Zenon
  <2> QED BY <2>1, Zenon DEF Past
<1>6. c + 2 + Octets!Wide = t /\ 2 + Octets!Wide = 4
  BY DEF Octets!Wide
<1>7. [r EXCEPT !.cursor = @ + 2 + Octets!Wide] = e
  <2>1. CursorSet(r, t) = At(vs, t, o)
    BY AnalyzerMoved, Zenon
  <2> HIDE DEF r, t
  <2> QED BY <1>2, <1>6, <2>1, Zenon DEF CursorSet
<1>8. Octets!Wide = 2
  BY DEF Octets!Wide
<1> HIDE DEF r, b, e, t
<1>9. Octets!Decodes(bfl, r) =
        IF ~Octets!Has(bfl, r, 2 + Octets!Wide) THEN [r EXCEPT !.ok = FALSE]
        ELSE LET n == bfl[c + 2 + Octets!Wide] IN
             IF ~Octets!Has(bfl, e, n) THEN [r EXCEPT !.ok = FALSE]
             ELSE Octets!Gives(e, ListedFile(bfl[c + 1], Octets!FromBytes(Octets!Bytes(bfl, b, Octets!Wide)),
                                        Octets!Bytes(bfl, e, n)), n)
  BY <1>2, <1>5, <1>7, Zenon DEF Octets!Decodes, ListedFile
<1> DEFINE n == bfl[t]
<1>10. Octets!Decodes(bfl, r) =
        IF ~Octets!Has(bfl, r, 4) THEN [r EXCEPT !.ok = FALSE]
        ELSE IF ~Octets!Has(bfl, e, n) THEN [r EXCEPT !.ok = FALSE]
             ELSE Octets!Gives(e, ListedFile(bfl[c + 1], Octets!FromBytes(Octets!Bytes(bfl, b, 2)),
                                        Octets!Bytes(bfl, e, n)), n)
  BY <1>6, <1>8, <1>9, Zenon
<1> HIDE DEF n
<1>11. Octets!Decodes(bfl, r) = FileTaken(bfl, vs, c, t, n, o)
  BY <1>3, <1>3a, <1>3b, <1>4, <1>10, Zenon DEF FileTaken, Served
<1> QED BY <1>1, <1>11, Zenon DEF Decoding, r, t, n

Listed   == [type : Nat, size : Nat, name : Seq(Nat)]
Decoders == [values : Seq(Listed), cursor : Nat, ok : BOOLEAN]

LEMMA DecoderTyped ==
  ASSUME NEW vs \in Seq(Listed), NEW c \in Nat, NEW o \in BOOLEAN
  PROVE  At(vs, c, o) \in Decoders
  BY DEF At, Decoders

LEMMA DecoderOf ==
  ASSUME NEW a \in Decoders
  PROVE  \E vs \in Seq(Listed), c \in Nat, o \in BOOLEAN : a = At(vs, c, o)
<1>1. a = At(a.values, a.cursor, a.ok)
  BY DEF At, Decoders
<1>2. a.values \in Seq(Listed) /\ a.cursor \in Nat /\ a.ok \in BOOLEAN
  BY DEF Decoders
<1> QED BY <1>1, <1>2, Zenon

\* A decoder that has failed stays as it is, and any other gives a file or fails.
LEMMA DecodesTyped ==
  ASSUME NEW bfl \in Seq(Nat), NEW d \in Decoders
  PROVE  Octets!Decodes(bfl, d) \in Decoders
<1>1. PICK vs \in Seq(Listed), c \in Nat, o \in BOOLEAN : d = At(vs, c, o)
  BY DecoderOf
<1> DEFINE yes == TRUE
           e == c + 4
           n == bfl[e]
           no == At(vs, c, FALSE)
<1>2. yes = TRUE /\ yes \in BOOLEAN
  OBVIOUS
<1> HIDE DEF yes
<1>3. Decoding(bfl, vs, c, yes)
  BY <1>2, DecodesIs, Zenon
<1>4. no \in Decoders
  BY DecoderTyped
<1>5. FileTaken(bfl, vs, c, e, n, yes) \in Decoders
  <2> HIDE DEF no
  <2>1. CASE Len(bfl) - c >= 4 /\ Len(bfl) - e >= n
    <3>1. n \in Nat /\ e \in Nat /\ bfl[c + 1] \in Nat
      <4>1. e \in 1..Len(bfl) /\ c + 1 \in 1..Len(bfl)
        BY <2>1
      <4> HIDE DEF e
      <4> QED BY <4>1
    <3> DEFINE s == Octets!FromBytes(BytesAfter(bfl, c + 1, 2))
               m == BytesAfter(bfl, e, n)
               x == ListedFile(bfl[c + 1], s, m)
               t == bfl[c + 1]
    <3>2. m \in Seq(Nat)
      <4> HIDE DEF e, n
      <4> QED BY <3>1, TakenTyped, Zenon
    <3>3. s \in Nat
      <4>1. 2 \in Nat
        OBVIOUS
      <4>2. BytesAfter(bfl, c + 1, 2) \in Seq(Nat)
        BY <4>1, TakenTyped, Zenon
      <4> QED BY <4>2, ValueLeads, Zenon
    <3>4. x \in Listed
      <4>1. t \in Nat
        BY <3>1
      <4> HIDE DEF s, m, t
      <4>2. ListedFile(t, s, m) \in Listed
        BY <3>2, <3>3, <4>1 DEF ListedFile, Listed
      <4> QED BY <4>2 DEF t
    <3> HIDE DEF s, m, x, t, e, n
    <3>5. Append(vs, x) \in Seq(Listed) /\ e + n \in Nat
      BY <3>1, <3>4
    <3>6. Given(vs, e, yes, x, n) \in Decoders
      BY <1>2, <3>5, DecoderTyped, Zenon DEF Given
    <3>7. FileTaken(bfl, vs, c, e, n, yes) = Given(vs, e, yes, x, n)
      BY <2>1, Zenon DEF FileTaken, x, s, m, e, n
    <3> QED BY <3>6, <3>7, Zenon
  <2>2. CASE ~(Len(bfl) - c >= 4 /\ Len(bfl) - e >= n)
    <3> HIDE DEF e, n
    <3>1. FileTaken(bfl, vs, c, e, n, yes) = no
      BY <2>2, Zenon DEF FileTaken, no
    <3> QED BY <1>4, <3>1, Zenon
  <2> QED BY <2>1, <2>2
<1>6. CASE o = TRUE
  <2>1. Octets!Decodes(bfl, At(vs, c, yes)) = FileTaken(bfl, vs, c, e, n, yes)
    BY <1>3, Zenon DEF Decoding
  <2>2. d = At(vs, c, yes)
    BY <1>1, <1>2, <1>6, Zenon
  <2> QED BY <1>5, <2>1, <2>2, Zenon
<1>7. CASE o = FALSE
  <2>1. Octets!Decodes(bfl, no) = no
    BY <1>3, Zenon DEF Decoding
  <2> QED BY <1>1, <1>4, <1>7, <2>1, Zenon
<1> QED BY <1>6, <1>7

\* One file, where it was encoded.
FileOver(bfl, vs, c, x) ==
  LET n == Len(Octets!Pushed(x)) IN
  IF c + n <= Len(bfl)
  THEN Octets!Decodes(bfl, At(vs, c, TRUE)) = At(Append(vs, x), c + n, TRUE)
  ELSE Octets!Decodes(bfl, At(vs, c, TRUE)) = At(vs, c, FALSE)

\* So does decoding a file of a listing.
LEMMA FileDecoded ==
  ASSUME NEW bfl \in Seq(Nat), NEW vs, NEW c \in Nat, NEW x \in AllFiles, Here(bfl, c, Octets!Pushed(x))
  PROVE  FileOver(bfl, vs, c, x)
<1> DEFINE p == Octets!Pushed(x)
           l == Len(x.name)
           yes == TRUE
           e == c + 4
           n == bfl[e]
           name == x.name
           b == Octets!ToBytes(x.size, 2)
<1>1. yes = TRUE
  OBVIOUS
<1> HIDE DEF yes
<1>2. Decoding(bfl, vs, c, yes)
  BY <1>1, DecodesIs, Zenon
<1>3. Octets!Decodes(bfl, At(vs, c, yes)) = FileTaken(bfl, vs, c, e, n, yes)
  BY <1>2, Zenon DEF Decoding
<1>4. Lies(p, x)
  BY PushedIs
<1>5. /\ x.type \in Octets!Byte /\ x.size \in Nat /\ x.size < Octets!Power[2]
      /\ x.name \in Seq(Octets!Byte)
      /\ x = ListedFile(x.type, x.size, x.name)
  BY FileParts, Zenon
<1>6. name \in Seq(Nat) /\ l = Len(name) /\ l \in Nat
  BY <1>5, BytesAre
<1>7. /\ Len(p) = 4 + l /\ p[1] = x.type /\ (\A i \in 1..2 : p[1 + i] = b[i])
      /\ p[4] = l /\ \A i \in 1..l : p[4 + i] = name[i]
  BY <1>4, Zenon DEF Lies
<1>8. b \in Seq(Nat) /\ Len(b) = 2 /\ Octets!FromBytes(b) = x.size
  <2>1. 2 \in Nat
    OBVIOUS
  <2>2. b \in Seq(Nat) /\ Len(b) = 2
    BY <1>5, <2>1, ToBytesIs
  <2>3. Octets!FromBytes(b) = x.size
    BY <1>5, <2>1, IntegerReadBack, Zenon
  <2> QED BY <2>2, <2>3
<1>9. \A j \in 1..Len(p) : c + j <= Len(bfl) => bfl[c + j] = p[j]
  BY Zenon DEF Here
<1> HIDE DEF p, l, name, b
<1>10. ASSUME ~(Len(bfl) - c >= 4) PROVE FileOver(bfl, vs, c, x)
  <2>1. ~(c + Len(p) <= Len(bfl))
    BY <1>6, <1>7, <1>10
  <2>2. FileTaken(bfl, vs, c, e, n, yes) = At(vs, c, FALSE)
    BY <1>10, Zenon DEF FileTaken
  <2> QED BY <1>1, <1>3, <2>1, <2>2, Zenon DEF FileOver, p
<1>11. ASSUME Len(bfl) - c >= 4 PROVE FileOver(bfl, vs, c, x)
  <2>1. n = l /\ bfl[c + 1] = x.type /\ e \in Nat
    <3>1. Len(p) = 4 + l /\ Len(bfl) \in Nat
      BY <1>7
    <3>2. 1 \in 1..Len(p) /\ 4 \in 1..Len(p) /\ c + 1 <= Len(bfl) /\ c + 4 <= Len(bfl) /\ e \in Nat
      BY <1>6, <1>11, <3>1
    <3>3. bfl[c + 1] = p[1] /\ bfl[c + 4] = p[4]
      BY <1>9, <3>2, Zenon
    <3> QED BY <1>7, <3>2, <3>3, Zenon
  <2>2. Here(bfl, c + 1, b)
    <3>1. ASSUME NEW j \in 1..Len(b), (c + 1) + j <= Len(bfl) PROVE bfl[(c + 1) + j] = b[j]
      <4>1. 1 + j \in 1..Len(p) /\ c + (1 + j) = (c + 1) + j /\ j \in 1..2
        BY <1>6, <1>7, <1>8
      <4>2. bfl[c + (1 + j)] = p[1 + j]
        BY <1>9, <3>1, <4>1, Zenon
      <4>3. p[1 + j] = b[j]
        BY <1>7, <4>1, Zenon
      <4> QED BY <4>1, <4>2, <4>3, Zenon
    <3> QED BY <3>1, Zenon DEF Here
  <2>3. Here(bfl, e, name)
    <3>1. ASSUME NEW j \in 1..Len(name), e + j <= Len(bfl) PROVE bfl[e + j] = name[j]
      <4>1. 4 + j \in 1..Len(p) /\ c + (4 + j) = e + j /\ j \in 1..l
        BY <1>6, <1>7
      <4>2. bfl[c + (4 + j)] = p[4 + j]
        BY <1>9, <3>1, <4>1, Zenon
      <4>3. p[4 + j] = name[j]
        BY <1>7, <4>1, Zenon
      <4> QED BY <4>1, <4>2, <4>3, Zenon
    <3> QED BY <3>1, Zenon DEF Here
  <2>4. BytesAfter(bfl, c + 1, 2) = b
    <3>1. c + 1 \in Nat /\ 2 \in Nat /\ Len(bfl) - (c + 1) >= 2 /\ 2 = Len(b)
      BY <1>8, <1>11
    <3> QED BY <1>8, <2>2, <3>1, TakenHere
  <2>5. CASE Len(bfl) - e >= l
    <3>1. c + Len(p) <= Len(bfl) /\ e + l = c + Len(p)
      BY <1>6, <1>7, <2>5
    <3>2. BytesAfter(bfl, e, l) = name
      <4> HIDE DEF e, n
      <4> QED BY <1>6, <2>1, <2>3, <2>5, TakenHere
    <3>3. FileTaken(bfl, vs, c, e, l, yes) = Given(vs, e, yes, ListedFile(x.type, x.size, name), l)
      <4> HIDE DEF e, n
      <4> QED BY <1>8, <1>11, <2>1, <2>4, <2>5, <3>2, Zenon DEF FileTaken
    <3>4. ListedFile(x.type, x.size, name) = x
      BY <1>5, Zenon DEF name
    <3>5. Octets!Decodes(bfl, At(vs, c, yes)) = At(Append(vs, x), c + Len(p), yes)
      <4> HIDE DEF e, n
      <4> QED BY <1>3, <2>1, <3>1, <3>3, <3>4, Zenon DEF Given
    <3> QED BY <1>1, <3>1, <3>5, Zenon DEF FileOver, p
  <2>6. CASE ~(Len(bfl) - e >= l)
    <3>1. ~(c + Len(p) <= Len(bfl))
      BY <1>6, <1>7, <2>6
    <3>2. FileTaken(bfl, vs, c, e, l, yes) = At(vs, c, FALSE)
      <4> HIDE DEF e, n
      <4> QED BY <2>6, Zenon DEF FileTaken
    <3> QED BY <1>1, <1>3, <2>1, <3>1, <3>2, Zenon DEF FileOver, p
  <2> QED BY <2>5, <2>6
<1> QED BY <1>10, <1>11

DecodeStep(bfl) == [x \in Decoders \X Nat |-> Octets!Decodes(bfl, x[1])]
Counted(n)      == [i \in 1..n |-> i]
Started         == At(<<>>, 1, TRUE)

LEMMA DecodeStepIs ==
  ASSUME NEW bfl \in Seq(Nat)
  PROVE  /\ DecodeStep(bfl) \in [Decoders \X Nat -> Decoders]
         /\ \A d \in Decoders, i \in Nat : DecodeStep(bfl)[<<d, i>>] = Octets!Decodes(bfl, d)
<1>1. \A d \in Decoders : Octets!Decodes(bfl, d) \in Decoders
  BY DecodesTyped
<1> QED BY <1>1 DEF DecodeStep

LEMMA StartedIs == Started \in Decoders /\ Started = [Octets!Analyzer EXCEPT !.cursor = 1]
<1>1. <<>> \in Seq(Listed) /\ 1 \in Nat /\ TRUE \in BOOLEAN
  OBVIOUS
<1>2. Started \in Decoders
  BY <1>1, DecoderTyped DEF Started
<1>3. CursorSet(At(<<>>, 0, TRUE), 1) = At(<<>>, 1, TRUE)
  BY AnalyzerMoved
<1> QED BY <1>2, <1>3, Zenon DEF Started, CursorSet, At, Octets!Analyzer

\* decode asks for as many files as the first byte says.
LEMMA ListingLeads ==
  ASSUME NEW bfl \in Seq(Nat), bfl # <<>>
  PROVE  Leads(DecodeStep(bfl), Started, Counted(bfl[1]), Octets!Decoded(bfl))
<1> DEFINE g == DecodeStep(bfl)
           base == [Octets!Analyzer EXCEPT !.cursor = 1]
           s == Counted(bfl[1])
           T == SUBSET (DOMAIN s)
           Is(f) == f = [t \in T |-> IF t = {} THEN base ELSE Octets!Decodes(bfl, f[t \ {Max(t)}])]
<1>1. Octets!Decoded(bfl) = (CHOOSE f : Is(f))[DOMAIN s]
  BY Zenon DEF Octets!Decoded, Octets!FoldLeft, Octets!MapThenFoldSet, Octets!Max, Max, Counted
<1>2. /\ g \in [Decoders \X Nat -> Decoders]
      /\ \A d \in Decoders, i \in Nat : g[<<d, i>>] = Octets!Decodes(bfl, d)
  BY DecodeStepIs
<1>2a. base \in Decoders /\ Started = base
  BY StartedIs
<1>2b. s \in Seq(Nat)
  <2>1. bfl[1] \in Nat
    OBVIOUS
  <2> QED BY <2>1 DEF Counted
<1> HIDE DEF g, base, s
<1>3. PICK h : IsTable(h, Decoders, Nat, s, base, g)
  BY <1>2, <1>2a, <1>2b, FoldTable
<1>4. Is(h)
  <2>1. \A t \in T : h[t] = IF t = {} THEN base ELSE Octets!Decodes(bfl, h[t \ {Max(t)}])
    BY <1>2, <1>3, Zenon DEF IsTable
  <2>2. h \in [T -> Decoders]
    BY <1>3 DEF IsTable
  <2> HIDE DEF T
  <2>3. h = [t \in T |-> h[t]]
    BY <2>2
  <2> QED BY <2>1, <2>3, Zenon
<1> DEFINE f == CHOOSE f : Is(f)
<1>5. Is(f)
  BY <1>4, Zenon
<1> HIDE DEF f
<1>6. IsFold(f, Decoders, s, base, g)
  <2>1. f[{}] = base
    <3>1. {} \in T
      OBVIOUS
    <3> HIDE DEF T
    <3> QED BY <1>5, <3>1, Zenon
  <2>2. ASSUME NEW t \in T, t # {}, f[t \ {Max(t)}] \in Decoders
        PROVE  f[t] = g[<<f[t \ {Max(t)}], s[Max(t)]>>]
    <3>1. f[t] = Octets!Decodes(bfl, f[t \ {Max(t)}])
      BY <1>5, <2>2, Zenon
    <3>2. s[Max(t)] \in Nat
      BY <1>3, <2>2 DEF IsTable
    <3> QED BY <1>2, <2>2, <3>1, <3>2, Zenon
  <2> QED BY <2>1, <2>2, Zenon DEF IsFold
<1>7. Leads(g, base, s, f[DOMAIN s])
  BY <1>2, <1>2a, <1>2b, <1>6, FoldEnds, Zenon
<1> QED BY <1>1, <1>2a, <1>7, Zenon DEF f, g, s

PushedAll(xs) == [i \in DOMAIN xs |-> Octets!Pushed(xs[i])]

LEMMA EntriesTyped ==
  ASSUME NEW xs \in Seq(AllFiles), Len(xs) < Base
  PROVE  /\ PushedAll(xs) \in Seq(Seq(Octets!Byte)) /\ Len(PushedAll(xs)) = Len(xs)
         /\ \A i \in 1..Len(xs) : PushedAll(xs)[i] = Octets!Pushed(xs[i])
         /\ Octets!Encoded(xs) = <<Len(xs)>> \o FlattenSeq(PushedAll(xs))
         /\ Len(xs) \in Octets!Byte
<1> DEFINE x(i) == Octets!Pushed(xs[i])
           s == [i \in 1..Len(xs) |-> x(i)]
<1>1. DOMAIN xs = 1..Len(xs) /\ Len(xs) \in Nat
  OBVIOUS
<1>2. \A i \in 1..Len(xs) : x(i) \in Seq(Octets!Byte)
  <2>1. \A f \in AllFiles : Octets!Pushed(f) \in Seq(Octets!Byte)
    BY PushedIs, Zenon DEF Lies
  <2> QED BY <2>1
<1>3. PushedAll(xs) = s
  BY <1>1 DEF PushedAll
<1>4. Len(xs) % Base = Len(xs) /\ Len(xs) \in Octets!Byte
  <2> DEFINE n == Len(xs)
  <2>1. n \in Nat /\ n < Base
    BY <1>1
  <2> HIDE DEF n
  <2>2. n % Base = n /\ n \in Octets!Byte
    BY <2>1, BytesAre
  <2> QED BY <2>2 DEF n
<1>5. Octets!Encoded(xs) = <<Len(xs)>> \o FlattenSeq(s)
  BY <1>1, <1>3, <1>4, OctetsFlat, Zenon DEF Octets!Encoded, PushedAll
<1> HIDE DEF x
<1>6. s \in Seq(Seq(Octets!Byte)) /\ Len(s) = Len(xs) /\ \A i \in 1..Len(xs) : s[i] = x(i)
  BY <1>1, <1>2
<1> QED BY <1>3, <1>4, <1>5, <1>6, Zenon DEF x

\* Where a decoder is after k files when n bytes are there.
FirstFiles(xs, k) == SubSeq(xs, 1, k)
Came(d, xs, E, n, k) ==
  \/ d = At(FirstFiles(xs, k), 1 + E[k], TRUE) /\ 1 + E[k] <= n
  \/ n < 1 + E[Len(xs)] /\ \E vs \in Seq(Listed), c \in Nat : d = At(vs, c, FALSE)

LEMMA FirstFilesAre ==
  ASSUME NEW xs \in Seq(AllFiles), NEW k \in 0..Len(xs)
  PROVE  /\ FirstFiles(xs, k) \in Seq(Listed)
         /\ k < Len(xs) => Append(FirstFiles(xs, k), xs[k + 1]) = FirstFiles(xs, k + 1)
<1>1. AllFiles \subseteq Listed
  <2> SUFFICES ASSUME NEW x \in AllFiles PROVE x \in Listed
    OBVIOUS
  <2>1. /\ x.type \in Octets!Byte /\ x.size \in Nat /\ x.size < Octets!Power[2]
        /\ x.name \in Seq(Octets!Byte) /\ x = ListedFile(x.type, x.size, x.name)
    BY FileParts, Zenon
  <2> DEFINE t == x.type
             s == x.size
             n == x.name
  <2>2. t \in Nat /\ s \in Nat /\ n \in Seq(Nat)
    BY <2>1, BytesAre
  <2>3. x = ListedFile(t, s, n)
    BY <2>1, Zenon
  <2> HIDE DEF t, s, n
  <2> QED BY <2>2, <2>3 DEF ListedFile, Listed
<1>2. xs \in Seq(Listed)
  BY <1>1
<1>3. FirstFiles(xs, k) \in Seq(Listed)
  BY <1>2 DEF FirstFiles
<1>4. ASSUME k < Len(xs) PROVE Append(FirstFiles(xs, k), xs[k + 1]) = FirstFiles(xs, k + 1)
  <2> DEFINE a == SubSeq(xs, 1, k)
             b == SubSeq(xs, 1, k + 1)
             x == xs[k + 1]
             u == Append(a, x)
  <2>1. /\ a \in Seq(Listed) /\ Len(a) = k /\ \A i \in 1..k : a[i] = xs[i]
        /\ b \in Seq(Listed) /\ Len(b) = k + 1 /\ \A i \in 1..k + 1 : b[i] = xs[i]
        /\ x \in Listed
    BY <1>2, <1>4
  <2> HIDE DEF a, b, x
  <2>2. u \in Seq(Listed) /\ Len(u) = k + 1 /\ u[k + 1] = x /\ \A i \in 1..k : u[i] = a[i]
    BY <2>1
  <2> HIDE DEF u
  <2>3. \A i \in 1..k + 1 : u[i] = b[i]
    <3>1. \A i \in 1..k + 1 : i = k + 1 \/ i \in 1..k
      OBVIOUS
    <3> QED BY <2>1, <2>2, <3>1 DEF x
  <2>4. u = b
    BY <2>1, <2>2, <2>3, SeqEqual
  <2> QED BY <2>4 DEF u, a, b, x, FirstFiles
<1> QED BY <1>3, <1>4

LEMMA CameNext ==
  ASSUME NEW xs \in Seq(AllFiles), Len(xs) < Base,
         NEW flat \in Seq(Octets!Byte), NEW E, EndsOf(E, PushedAll(xs), flat),
         NEW part \in Seq(Octets!Byte), NEW n \in Nat, n = Len(part), n <= 1 + Len(flat),
         \A i \in 1..Len(flat) : 1 + i <= n => part[1 + i] = flat[i],
         NEW k \in 0..Len(xs) - 1, NEW d, Came(d, xs, E, n, k)
  PROVE  d \in Decoders /\ Came(Octets!Decodes(part, d), xs, E, n, k + 1)
<1> DEFINE s == PushedAll(xs)
           x == xs[k + 1]
           p == Octets!Pushed(x)
           l == Len(p)
           c == 1 + E[k]
           vs == FirstFiles(xs, k)
<1>1. s \in Seq(Seq(Octets!Byte)) /\ Len(s) = Len(xs) /\ \A i \in 1..Len(xs) : s[i] = Octets!Pushed(xs[i])
  BY EntriesTyped, Zenon
<1> HIDE DEF s
<1>2. /\ Len(xs) \in Nat /\ k \in Nat /\ k \in 0..Len(xs) /\ k + 1 \in 1..Len(xs) /\ k < Len(xs)
      /\ k + 1 \in 0..Len(xs) /\ Len(xs) \in 0..Len(xs)
  OBVIOUS
<1>3. x \in AllFiles /\ s[k + 1] = p
  BY <1>1, <1>2
<1>4. E \in [0..Len(xs) -> Nat] /\ E[Len(xs)] = Len(flat)
      /\ E[k + 1] = E[k] + Len(s[k + 1]) /\ E[k + 1] <= E[Len(xs)]
      /\ \A j \in 1..Len(s[k + 1]) : flat[E[k] + j] = s[k + 1][j]
  BY <1>1, Zenon DEF EndsOf, s
<1>5. E[k] \in Nat /\ E[k + 1] \in Nat /\ E[Len(xs)] \in Nat
  BY <1>2, <1>4, Zenon
<1>6. E[k + 1] = E[k] + l /\ \A j \in 1..l : flat[E[k] + j] = p[j]
  BY <1>3, <1>4, Zenon
<1>7. part \in Seq(Nat)
  BY BytesAre
<1>8. l \in Nat
  <2>1. p \in Seq(Octets!Byte)
    BY <1>3, PushedIs, Zenon DEF Lies
  <2> HIDE DEF p
  <2> QED BY <2>1
<1> HIDE DEF x, p, l
<1> DEFINE a == E[k]
           b == E[k + 1]
           z == E[Len(xs)]
<1>9. a \in Nat /\ b \in Nat /\ z \in Nat /\ b = a + l /\ b <= z /\ z = Len(flat) /\ c = 1 + a
  BY <1>4, <1>5, <1>6
<1>10. \A j \in 1..l : flat[a + j] = p[j]
  BY <1>6
<1>11. vs \in Seq(Listed) /\ Append(vs, x) = FirstFiles(xs, k + 1)
  BY <1>2, FirstFilesAre, Zenon DEF x
<1> HIDE DEF a, b, z, c, vs
<1>12. Here(part, c, p)
  <2>1. ASSUME NEW j \in 1..l, c + j <= n PROVE part[c + j] = p[j]
    <3>1. a + j \in 1..Len(flat) /\ 1 + (a + j) = c + j
      BY <1>8, <1>9
    <3>2. part[1 + (a + j)] = flat[a + j]
      BY <2>1, <3>1
    <3> QED BY <1>10, <3>1, <3>2, Zenon
  <2> QED BY <2>1, Zenon DEF Here, l
<1>13. c \in Nat
  BY <1>9
<1>14. CASE d = At(vs, c, TRUE) /\ c <= n
  <2>1. d \in Decoders
    BY <1>11, <1>13, <1>14, DecoderTyped
  <2>2. FileOver(part, vs, c, x)
    BY <1>3, <1>7, <1>12, <1>13, FileDecoded, Zenon DEF p
  <2>3. CASE c + l <= n
    <3>1. Octets!Decodes(part, d) = At(FirstFiles(xs, k + 1), c + l, TRUE)
      BY <1>11, <1>14, <2>2, <2>3, Zenon DEF FileOver, l, p
    <3>2. c + l = 1 + b
      BY <1>8, <1>9
    <3> QED BY <2>1, <2>3, <3>1, <3>2, Zenon DEF Came, b
  <2>4. CASE ~(c + l <= n)
    <3>1. Octets!Decodes(part, d) = At(vs, c, FALSE)
      BY <1>14, <2>2, <2>4, Zenon DEF FileOver, l, p
    <3>2. n < 1 + z
      BY <1>8, <1>9, <2>4
    <3> QED BY <1>11, <1>13, <2>1, <3>1, <3>2, Zenon DEF Came, z
  <2> QED BY <2>3, <2>4
<1>15. CASE n < 1 + z /\ \E u \in Seq(Listed), e \in Nat : d = At(u, e, FALSE)
  <2>1. PICK u \in Seq(Listed), e \in Nat : d = At(u, e, FALSE)
    BY <1>15
  <2>2. d \in Decoders
    BY <2>1, DecoderTyped
  <2>3. Octets!Decodes(part, d) = d
    <3> DEFINE yes == TRUE
    <3>1. yes = TRUE
      OBVIOUS
    <3> HIDE DEF yes
    <3>2. Decoding(part, u, e, yes)
      BY <3>1, DecodesIs, Zenon
    <3> QED BY <2>1, <3>2, Zenon DEF Decoding
  <2> QED BY <1>15, <2>1, <2>2, <2>3, Zenon DEF Came, z
<1> QED BY <1>14, <1>15, Zenon DEF Came, vs, c, z

ListingsOver == {Octets!Listing(f) : f \in {s \in Seq(AllFiles) : Len(s) < Base}}

\* A listing is decoded if it is there to its end.
LEMMA AllFilesOver ==
  ASSUME NEW xs \in Seq(AllFiles), Len(xs) < Base,
         NEW all, all = Octets!Encoded(xs), NEW n \in 0..Len(all)
  PROVE  LET d == Octets!Decoded(SubSeq(all, 1, n)) IN
         /\ d.ok <=> SubSeq(all, 1, n) = all
         /\ d.ok => d.values = xs
<1> DEFINE part == SubSeq(all, 1, n)
           flat == FlattenSeq(PushedAll(xs))
           r == Octets!Decoded(part)
           m == Len(xs)
<1>1. PushedAll(xs) \in Seq(Seq(Octets!Byte)) /\ Len(PushedAll(xs)) = m /\ m \in Octets!Byte
  BY EntriesTyped, Zenon
<1>2. flat \in Seq(Octets!Byte)
  BY <1>1, EndsExist, Zenon
<1>3. PICK E : EndsOf(E, PushedAll(xs), flat)
  BY <1>1, EndsExist, Zenon
<1>4. all = <<m>> \o flat
  BY EntriesTyped, Zenon
<1>5. m \in Nat /\ m \in 0..m
  BY <1>1, BytesAre
<1> HIDE DEF flat, m
<1>6. /\ all \in Seq(Octets!Byte) /\ Len(all) = 1 + Len(flat) /\ all[1] = m
      /\ \A i \in 1..Len(flat) : all[1 + i] = flat[i]
  BY <1>1, <1>2, <1>4, Headed
<1>7. /\ part \in Seq(Octets!Byte) /\ Len(part) = n /\ n \in Nat /\ n <= 1 + Len(flat)
      /\ \A i \in 1..n : part[i] = all[i]
      /\ part = all <=> n = Len(all)
  BY <1>6
<1> HIDE DEF part
<1>8. CASE n = 0
  <2>1. part = <<>>
    BY <1>7, <1>8
  <2>2. r.ok = FALSE
    <3>1. r = [Octets!Analyzer EXCEPT !.ok = FALSE]
      BY <2>1, Zenon DEF Octets!Decoded
    <3>2. Octets!Analyzer = At(<<>>, 0, TRUE)
      BY Zenon DEF At, Octets!Analyzer
    <3>3. r = At(<<>>, 0, FALSE)
      BY <3>1, <3>2, AnalyzerFails, Zenon
    <3> HIDE DEF r
    <3> QED BY <3>3 DEF At
  <2>3. part # all
    BY <1>2, <1>6, <1>7, <1>8
  <2> QED BY <2>2, <2>3, Zenon DEF r, part
<1>9. CASE n # 0
  <2>1. part[1] = m /\ part # <<>> /\ 1 <= n /\ part \in Seq(Nat)
    BY <1>6, <1>7, <1>9, BytesAre
  <2>2. Leads(DecodeStep(part), Started, Counted(m), r)
    BY <2>1, ListingLeads, Zenon
  <2>3. Len(Counted(m)) = m /\ \A k \in 0..m - 1 : Counted(m)[k + 1] \in Nat
    <3>1. Counted(m) \in Seq(Nat) /\ Len(Counted(m)) = m
      BY <1>5 DEF Counted
    <3>2. \A k \in 0..m - 1 : k + 1 \in 1..m
      BY <1>5
    <3> HIDE DEF Counted
    <3> QED BY <3>1, <3>2
  <2>4. PICK h : h[0] = Started /\ h[m] = r
                 /\ \A k \in 0..m - 1 : h[k + 1] = DecodeStep(part)[<<h[k], Counted(m)[k + 1]>>]
    BY <2>2, <2>3, Zenon DEF Leads
  <2>5. \A a \in Decoders, i \in Nat : DecodeStep(part)[<<a, i>>] = Octets!Decodes(part, a)
    BY <2>1, DecodeStepIs, Zenon
  <2>6. \A i \in 1..Len(flat) : 1 + i <= n => part[1 + i] = flat[i]
    <3>1. \A i \in 1..Len(flat) : 1 + i <= n => 1 + i \in 1..n
      BY <1>2, <1>7
    <3> QED BY <1>6, <1>7, <3>1, Zenon
  <2> HIDE DEF r
  <2> DEFINE K == {k \in Nat : k <= m => Came(h[k], xs, E, n, k)}
  <2>7. 0 \in K
    <3> SUFFICES Came(h[0], xs, E, n, 0)
      OBVIOUS
    <3>1. FirstFiles(xs, 0) = <<>>
      BY DEF FirstFiles
    <3>2. E[0] = 0 /\ 1 + 0 = 1
      <4>1. E[0] = 0
        BY <1>3, Zenon DEF EndsOf
      <4> QED BY <4>1
    <3> QED BY <2>1, <2>4, <3>1, <3>2, Zenon DEF Came, Started
  <2>8. ASSUME NEW k \in Nat, k \in K PROVE k + 1 \in K
    <3> SUFFICES ASSUME k + 1 <= m PROVE Came(h[k + 1], xs, E, n, k + 1)
      OBVIOUS
    <3>1. k \in 0..m - 1 /\ k <= m
      BY <1>5
    <3>2. Came(h[k], xs, E, n, k)
      BY <2>8, <3>1
    <3>3. h[k] \in Decoders /\ Came(Octets!Decodes(part, h[k]), xs, E, n, k + 1)
      <4>1. n = Len(part)
        BY <1>7
      <4> QED BY <1>2, <1>3, <1>7, <2>6, <3>1, <3>2, <4>1, CameNext, Zenon DEF m
    <3>4. h[k + 1] = Octets!Decodes(part, h[k])
      BY <2>3, <2>4, <2>5, <3>1, <3>3, Zenon
    <3> QED BY <3>3, <3>4, Zenon
  <2>9. Came(r, xs, E, n, m)
    <3>1. m \in K
      <4> HIDE DEF K
      <4> QED BY <1>5, <2>7, <2>8, NatSets
    <3>2. m <= m
      BY <1>5
    <3> QED BY <2>4, <3>1, <3>2
  <2>10. E[m] = Len(flat)
    BY <1>1, <1>3, Zenon DEF EndsOf
  <2>11. FirstFiles(xs, m) = xs
    BY DEF FirstFiles, m
  <2>12. CASE r = At(xs, 1 + E[m], TRUE) /\ 1 + E[m] <= n
    <3>1. r.ok = TRUE /\ r.values = xs
      <4> DEFINE e == 1 + E[m]
      <4>1. r = At(xs, e, TRUE)
        BY <2>12
      <4> HIDE DEF e
      <4> QED BY <4>1 DEF At
    <3>2. n = Len(all)
      BY <1>2, <1>6, <1>7, <2>10, <2>12
    <3> QED BY <1>7, <3>1, <3>2, Zenon DEF r, part
  <2>13. CASE n < 1 + E[m] /\ \E vs \in Seq(Listed), c \in Nat : r = At(vs, c, FALSE)
    <3>1. r.ok = FALSE
      BY <2>13 DEF At
    <3>2. n # Len(all)
      BY <1>2, <1>6, <1>7, <2>10, <2>13
    <3> QED BY <1>7, <3>1, <3>2, Zenon DEF r, part
  <2> QED BY <2>9, <2>11, <2>12, <2>13, Zenon DEF Came, m
<1> QED BY <1>8, <1>9

LEMMA ListingsReach ==
  ASSUME sample \in ListingsOver
  PROVE  Octets!ListingReadBack
<1> DEFINE xs == sample.files
           bfl == Octets!Encoded(xs)
<1>1. xs \in Seq(AllFiles) /\ Len(xs) < Base
  <2>1. PICK f \in Seq(AllFiles) : sample = Octets!Listing(f) /\ Len(f) < Base
    BY DEF ListingsOver
  <2>2. sample.files = f
    BY <2>1 DEF Octets!Listing
  <2> QED BY <2>1, <2>2
<1> HIDE DEF xs, bfl
<1>2. ASSUME NEW part \in Octets!Beginnings(bfl)
      PROVE  /\ Octets!Decoded(part).ok <=> part = bfl
             /\ Octets!Decoded(part).ok => Octets!Decoded(part).values = xs
  <2>1. PICK n \in 0..Len(bfl) : part = SubSeq(bfl, 1, n)
    BY DEF Octets!Beginnings
  <2>2. bfl = Octets!Encoded(xs)
    BY DEF bfl
  <2>3. /\ Octets!Decoded(SubSeq(bfl, 1, n)).ok <=> SubSeq(bfl, 1, n) = bfl
        /\ Octets!Decoded(SubSeq(bfl, 1, n)).ok => Octets!Decoded(SubSeq(bfl, 1, n)).values = xs
    BY <1>1, <2>2, AllFilesOver
  <2> QED BY <2>1, <2>3
<1>3. ASSUME NEW part \in Octets!Beginnings(Octets!Encoded(sample.files))
      PROVE  /\ Octets!Decoded(part).ok <=> part = Octets!Encoded(sample.files)
             /\ Octets!Decoded(part).ok => Octets!Decoded(part).values = sample.files
  BY <1>2 DEF bfl, xs
<1>4. \A part \in Octets!Beginnings(Octets!Encoded(sample.files)) :
        /\ Octets!Decoded(part).ok <=> part = Octets!Encoded(sample.files)
        /\ Octets!Decoded(part).ok => Octets!Decoded(part).values = sample.files
  BY <1>3
<1> QED BY <1>4 DEF Octets!ListingReadBack

-----------------------------------------------------------------------------
(* User files.                                                             *)

Names == {s \in Seq(Octets!Byte \ {0}) : Len(s) <= LongestName}
UsersOver == {Octets!AUser(r, u, p) : r \in Octets!Byte, u \in Names, p \in Names}

LEMMA BlockIs ==
  ASSUME NEW s \in Names
  PROVE  /\ Octets!Block(s) \in Seq(Octets!Byte) /\ Len(Octets!Block(s)) = LongestName
         /\ \A i \in 1..LongestName : Octets!Block(s)[i] = IF i <= Len(s) THEN s[i] ELSE 0
<1>1. s \in Seq(Octets!Byte \ {0}) /\ Len(s) <= LongestName
  BY DEF Names
<1>2. LongestName \in Nat /\ 0 \in Octets!Byte
  BY BytesAre, BytesAssumption
<1>3. \A i \in 1..LongestName : (IF i <= Len(s) THEN s[i] ELSE 0) \in Octets!Byte
  <2>1. \A i \in 1..LongestName : i <= Len(s) => s[i] \in Octets!Byte
    BY <1>1
  <2> QED BY <1>2, <2>1
<1> QED BY <1>2, <1>3 DEF Octets!Block

\* A name is read back from its block, also when it fills it.
LEMMA FromBlock ==
  ASSUME NEW s \in Names
  PROVE  Octets!FromArray(Octets!Block(s)) = s
<1> DEFINE b == Octets!Block(s)
           I == {i \in 1..Len(b) : b[i] = 0}
           z == Octets!SelectInSeq(b, LAMBDA c : c = 0)
           n == Len(s)
<1>1. s \in Seq(Octets!Byte \ {0}) /\ n <= LongestName /\ n \in Nat
  BY DEF Names
<1>2. LongestName \in Nat /\ Octets!Byte \subseteq Nat
  BY BytesAre, BytesAssumption
<1>3. /\ b \in Seq(Octets!Byte) /\ Len(b) = LongestName
      /\ \A i \in 1..LongestName : b[i] = IF i <= n THEN s[i] ELSE 0
  BY BlockIs
<1>4. z = IF I # {} THEN Octets!Min(I) ELSE 0
  BY Zenon DEF Octets!SelectInSeq
<1>5. Octets!FromArray(b) = IF z = 0 THEN b ELSE SubSeq(b, 1, z - 1)
  BY Zenon DEF Octets!FromArray
<1> HIDE DEF z, b
<1>6. \A i \in 1..n : s[i] # 0
  <2>1. \A i \in 1..n : s[i] \in Octets!Byte \ {0}
    BY <1>1
  <2> QED BY <2>1
<1>7. CASE n = LongestName
  <2>1. I = {}
    BY <1>1, <1>3, <1>6, <1>7
  <2>2. z = 0
    BY <1>4, <2>1, Zenon
  <2>3. b = s
    <3>1. \A i \in 1..n : b[i] = s[i]
      BY <1>1, <1>3, <1>7
    <3> QED BY <1>1, <1>3, <1>7, <3>1, SeqEqual
  <2> QED BY <1>5, <2>2, <2>3, Zenon DEF b
<1>8. CASE n # LongestName
  <2>1. n + 1 \in I /\ \A i \in I : n + 1 <= i
    BY <1>1, <1>2, <1>3, <1>6, <1>8
  <2>2. I \subseteq Nat
    BY <1>3
  <2> HIDE DEF I
  <2>3. Octets!Min(I) = n + 1
    <3>1. Octets!Min(I) \in I /\ \A i \in I : Octets!Min(I) <= i
      BY <2>1, Zenon DEF Octets!Min
    <3> DEFINE m == Octets!Min(I)
    <3>2. m \in Nat /\ m <= n + 1 /\ n + 1 <= m
      BY <2>1, <2>2, <3>1, Zenon
    <3> HIDE DEF m
    <3>3. m = n + 1
      BY <1>1, <3>2
    <3> QED BY <3>3 DEF m
  <2>4. z = n + 1 /\ z # 0 /\ z - 1 = n
    BY <1>1, <1>4, <2>1, <2>3
  <2>5. SubSeq(b, 1, n) = s
    <3> DEFINE t == SubSeq(b, 1, n)
    <3>1. t \in Seq(Octets!Byte) /\ Len(t) = n /\ \A i \in 1..n : t[i] = b[i]
      BY <1>1, <1>2, <1>3
    <3> HIDE DEF t
    <3>2. \A i \in 1..n : t[i] = s[i]
      <4>1. \A i \in 1..n : i \in 1..LongestName /\ i <= n
        BY <1>1, <1>2
      <4> QED BY <1>3, <3>1, <4>1
    <3>3. t = s
      BY <1>1, <3>1, <3>2, SeqEqual
    <3> QED BY <3>3 DEF t
  <2> QED BY <1>5, <2>4, <2>5, Zenon DEF b
<1> QED BY <1>7, <1>8

Laid(all, r, a, b) ==
  /\ all \in Seq(Octets!Byte) /\ Len(all) = 4 + LongestName + LongestName
  /\ all[1] = 1 /\ all[2] = 0 /\ all[3] = r
  /\ \A i \in 1..LongestName : all[4 + i] = a[i] /\ all[(4 + LongestName) + i] = b[i]

LEMMA UserLaid ==
  ASSUME NEW r \in Octets!Byte, NEW u \in Names, NEW p \in Names, NEW x, x.role = r, x.username = u,
         x.password = p
  PROVE  Laid(Octets!UserFile(x), r, Octets!Block(u), Octets!Block(p))
<1> DEFINE s == Octets!Signature
           f == <<r, 0>>
           a == Octets!Block(u)
           b == Octets!Block(p)
           N == LongestName
           sf == s \o f
           sfa == sf \o a
           all == sfa \o b
<1>1. Octets!UserFile(x) = all
  BY Zenon DEF Octets!UserFile
<1>2. N \in Nat /\ 0 \in Octets!Byte /\ 1 \in Octets!Byte
  BY BytesAre, BytesAssumption
<1>3. /\ a \in Seq(Octets!Byte) /\ Len(a) = N /\ b \in Seq(Octets!Byte) /\ Len(b) = N
  BY BlockIs, Zenon
<1>4. s \in Seq(Octets!Byte) /\ Len(s) = 2 /\ s[1] = 1 /\ s[2] = 0
  BY <1>2 DEF Octets!Signature
<1>5. f \in Seq(Octets!Byte) /\ Len(f) = 2 /\ f[1] = r
  BY <1>2
<1> HIDE DEF s, f, a, b, N
<1>6. sf \in Seq(Octets!Byte) /\ Len(sf) = 4 /\ sf[1] = 1 /\ sf[2] = 0 /\ sf[3] = r
  <2>1. /\ sf \in Seq(Octets!Byte) /\ Len(sf) = Len(s) + Len(f)
        /\ \A i \in 1..Len(s) + Len(f) : sf[i] = IF i <= Len(s) THEN s[i] ELSE f[i - Len(s)]
    BY <1>4, <1>5, ConcatProperties, Zenon
  <2> HIDE DEF sf
  <2> QED BY <1>4, <1>5, <2>1
<1> HIDE DEF sf
<1>7. /\ sfa \in Seq(Octets!Byte) /\ Len(sfa) = 4 + N /\ sfa[1] = 1 /\ sfa[2] = 0 /\ sfa[3] = r
      /\ \A i \in 1..N : sfa[4 + i] = a[i]
  <2>1. /\ sfa \in Seq(Octets!Byte) /\ Len(sfa) = Len(sf) + Len(a)
        /\ \A i \in 1..Len(sf) + Len(a) : sfa[i] = IF i <= Len(sf) THEN sf[i] ELSE a[i - Len(sf)]
    BY <1>3, <1>6, ConcatProperties, Zenon
  <2> HIDE DEF sfa
  <2> QED BY <1>2, <1>3, <1>6, <2>1
<1> HIDE DEF sfa
<1>8. /\ all \in Seq(Octets!Byte) /\ Len(all) = 4 + N + N /\ all[1] = 1 /\ all[2] = 0 /\ all[3] = r
      /\ \A i \in 1..N : all[4 + i] = a[i] /\ all[(4 + N) + i] = b[i]
  <2>1. /\ all \in Seq(Octets!Byte) /\ Len(all) = Len(sfa) + Len(b)
        /\ \A i \in 1..Len(sfa) + Len(b) : all[i] = IF i <= Len(sfa) THEN sfa[i] ELSE b[i - Len(sfa)]
    BY <1>3, <1>7, ConcatProperties, Zenon
  <2> HIDE DEF all
  <2> QED BY <1>2, <1>3, <1>7, <2>1
<1> HIDE DEF all
<1> QED BY <1>1, <1>8, Zenon DEF Laid, a, b, N

LEMMA OffsetsAre ==
  /\ Octets!RoleOffset = 2 /\ Octets!UsernameOffset = 4 /\ Octets!PasswordOffset = 4 + LongestName
  /\ Octets!DataSize = 4 + LongestName + LongestName /\ Octets!Signature = <<1, 0>> /\ Len(Octets!Signature) = 2
<1>1. Octets!Signature = <<1, 0>>
  BY DEF Octets!Signature
<1>2. Len(Octets!Signature) = 2
  BY <1>1
<1>3. Octets!RoleOffset = 2
  BY <1>2, Zenon DEF Octets!RoleOffset
<1>4. Octets!UsernameOffset = 4
  BY <1>3 DEF Octets!UsernameOffset
<1>5. Octets!PasswordOffset = 4 + LongestName
  BY <1>4, Zenon DEF Octets!PasswordOffset
<1> QED BY <1>1, <1>2, <1>3, <1>4, <1>5, Zenon DEF Octets!DataSize

UserRead(u, p, all, r, n, w) ==
  /\ u.ok <=> p = all /\ n # <<>>
  /\ u.ok => u.role = r /\ u.username = n /\ u.password = w

LEMMA UserReadBack ==
  ASSUME NEW r \in Octets!Byte, NEW n \in Names, NEW w \in Names, NEW all,
         Laid(all, r, Octets!Block(n), Octets!Block(w)), NEW k \in 0..Len(all), NEW part, part = SubSeq(all, 1, k)
  PROVE  UserRead(Octets!UserFrom(part), part, all, r, n, w)
<1> DEFINE N == LongestName
           a == Octets!Block(n)
           b == Octets!Block(w)
           U == Octets!UserFrom(part)
<1>1. N \in Nat
  BY BytesAssumption
<1>2. /\ a \in Seq(Octets!Byte) /\ Len(a) = N /\ b \in Seq(Octets!Byte) /\ Len(b) = N
  BY BlockIs, Zenon
<1>3. Octets!FromArray(a) = n /\ Octets!FromArray(b) = w
  BY FromBlock, Zenon
<1>4. /\ all \in Seq(Octets!Byte) /\ Len(all) = 4 + N + N
      /\ all[1] = 1 /\ all[2] = 0 /\ all[3] = r
      /\ \A i \in 1..N : all[4 + i] = a[i] /\ all[(4 + N) + i] = b[i]
  BY Zenon DEF Laid
<1>5. part \in Seq(Octets!Byte) /\ Len(part) = k /\ (part = all <=> k = Len(all))
  BY <1>4
<1>6. Octets!Refused.ok = FALSE
  BY DEF Octets!Refused
<1> HIDE DEF a, b, N
<1>7. CASE k < 4 + N + N
  <2>1. Len(part) < Octets!DataSize
    BY <1>5, <1>7, OffsetsAre DEF N
  <2>2. U = Octets!Refused
    BY <2>1, Zenon DEF Octets!UserFrom
  <2>3. part # all
    BY <1>1, <1>4, <1>5, <1>7
  <2> QED BY <1>6, <2>2, <2>3, Zenon DEF UserRead
<1>8. CASE ~(k < 4 + N + N)
  <2>1. part = all
    BY <1>1, <1>4, <1>5, <1>8
  <2>2. ~(Len(all) < Octets!DataSize)
    <3>1. Octets!DataSize = 4 + N + N
      BY OffsetsAre, Zenon DEF N
    <3> QED BY <1>1, <1>4, <3>1
  <2>3. SubSeq(all, 1, Len(Octets!Signature)) = Octets!Signature
    <3> DEFINE h == SubSeq(all, 1, 2)
               g == <<1, 0>>
    <3>1. h \in Seq(Octets!Byte) /\ Len(h) = 2 /\ h[1] = 1 /\ h[2] = 0
      BY <1>1, <1>4
    <3>2. g \in Seq(Nat) /\ Len(g) = 2 /\ g[1] = 1 /\ g[2] = 0 /\ 1..2 = {1, 2}
      OBVIOUS
    <3> HIDE DEF h, g
    <3>3. \A i \in 1..2 : h[i] = g[i]
      BY <3>1, <3>2
    <3>4. h = g
      BY <3>1, <3>2, <3>3, SeqEqual
    <3> QED BY <3>4, OffsetsAre, Zenon DEF h, g
  <2>4. SubSeq(all, 4 + 1, 4 + N) = a
    <3> DEFINE h == SubSeq(all, 4 + 1, 4 + N)
    <3>1. h \in Seq(Octets!Byte) /\ Len(h) = N /\ \A i \in 1..N : h[i] = all[4 + i]
      BY <1>1, <1>4
    <3> HIDE DEF h
    <3>2. \A i \in 1..N : h[i] = a[i]
      BY <1>4, <3>1, Zenon
    <3>3. h = a
      BY <1>2, <3>1, <3>2, SeqEqual
    <3> QED BY <3>3 DEF h
  <2>5. SubSeq(all, (4 + N) + 1, (4 + N) + N) = b
    <3> DEFINE h == SubSeq(all, (4 + N) + 1, (4 + N) + N)
    <3>1. h \in Seq(Octets!Byte) /\ Len(h) = N /\ \A i \in 1..N : h[i] = all[(4 + N) + i]
      BY <1>1, <1>4
    <3> HIDE DEF h
    <3>2. \A i \in 1..N : h[i] = b[i]
      BY <1>4, <3>1, Zenon
    <3>3. h = b
      BY <1>2, <3>1, <3>2, SeqEqual
    <3> QED BY <3>3 DEF h
  <2>6. 2 + 1 = 3
    OBVIOUS
  <2> DEFINE x == [ok |-> TRUE, role |-> r, username |-> n, password |-> w]
  <2>7. U = IF x.username = <<>> THEN Octets!Refused ELSE x
    <3> HIDE DEF U
    <3>1. U = LET user == [ok |-> TRUE, role |-> all[2 + 1],
                           username |-> Octets!FromArray(SubSeq(all, 4 + 1, 4 + N)),
                           password |-> Octets!FromArray(SubSeq(all, (4 + N) + 1, (4 + N) + N))]
              IN IF user.username = <<>> THEN Octets!Refused ELSE user
      BY <2>1, <2>2, <2>3, OffsetsAre, Zenon DEF U, N, Octets!UserFrom
    <3> QED BY <1>3, <1>4, <2>4, <2>5, <2>6, <3>1, Zenon
  <2>8. x.ok = TRUE /\ x.role = r /\ x.username = n /\ x.password = w
    OBVIOUS
  <2> HIDE DEF x, U
  <2> QED BY <1>6, <2>1, <2>7, <2>8, Zenon DEF UserRead, U
<1> QED BY <1>7, <1>8

LEMMA UsersReach ==
  ASSUME sample \in UsersOver
  PROVE  Octets!UserFileReadBack
<1> DEFINE r == sample.role
           n == sample.username
           w == sample.password
           all == Octets!UserFile(sample)
<1>1. r \in Octets!Byte /\ n \in Names /\ w \in Names
  <2>1. PICK a \in Octets!Byte, b \in Names, c \in Names : sample = Octets!AUser(a, b, c)
    BY DEF UsersOver
  <2>2. sample.role = a /\ sample.username = b /\ sample.password = c
    BY <2>1 DEF Octets!AUser
  <2> QED BY <2>2
<1>2. Laid(all, r, Octets!Block(n), Octets!Block(w))
  BY <1>1, UserLaid, Zenon
<1> HIDE DEF r, n, w, all
<1>3. ASSUME NEW part \in Octets!Beginnings(all)
      PROVE  /\ Octets!UserFrom(part).ok <=> part = all /\ n # <<>>
             /\ Octets!UserFrom(part).ok =>
                  <<Octets!UserFrom(part).role, Octets!UserFrom(part).username, Octets!UserFrom(part).password>> =
                  <<r, n, w>>
  <2>1. PICK k \in 0..Len(all) : part = SubSeq(all, 1, k)
    BY DEF Octets!Beginnings
  <2>2. UserRead(Octets!UserFrom(part), part, all, r, n, w)
    BY <1>1, <1>2, <2>1, UserReadBack, Zenon
  <2> QED BY <2>2, Zenon DEF UserRead
<1> QED BY <1>3, Zenon DEF Octets!UserFileReadBack, r, n, w, all

-----------------------------------------------------------------------------
(* Versions.                                                               *)

VersionNumbers == {0, 1, 2} \cap Octets!Byte
SomeVersions == {<<i, j, k>> : i \in VersionNumbers, j \in VersionNumbers, k \in VersionNumbers}
VersionsOver == {Octets!Versions(v, w) : v \in SomeVersions, w \in SomeVersions}

LEMMA VersionIs ==
  ASSUME NEW v \in SomeVersions
  PROVE  \E i \in VersionNumbers, j \in VersionNumbers, k \in VersionNumbers : v = <<i, j, k>>
  BY DEF SomeVersions

LEMMA Grows ==
  ASSUME NEW n \in Nat, NEW q \in Nat, NEW p \in Nat, q < p
  PROVE  q * n + n <= p * n
<1>1. PICK d \in Nat : p = q + 1 + d
  <2>1. p - q - 1 \in Nat /\ p = q + 1 + (p - q - 1)
    OBVIOUS
  <2> QED BY <2>1
<1>2. p * n = q * n + n + d * n
  BY <1>1
<1>3. q * n \in Nat /\ d * n \in Nat
  OBVIOUS
<1> QED BY <1>2, <1>3

\* Numbers are ordered by their quotients and then by their rests.
LEMMA Ordered ==
  ASSUME NEW n \in Nat, NEW q \in Nat, NEW p \in Nat, NEW r \in 0..n - 1, NEW s \in 0..n - 1
  PROVE  q * n + r < p * n + s <=> q < p \/ (q = p /\ r < s)
<1> DEFINE a == q * n
           b == p * n
<1>1. a \in Nat /\ b \in Nat
  OBVIOUS
<1>2. q < p => a + n <= b
  BY Grows
<1>3. p < q => b + n <= a
  BY Grows
<1>4. q = p => a = b
  OBVIOUS
<1> HIDE DEF a, b
<1>5. a + r < b + s <=> q < p \/ (q = p /\ r < s)
  BY <1>1, <1>2, <1>3, <1>4
<1> QED BY <1>5 DEF a, b

LEMMA SmallPowers == Octets!Power[0] = 1 /\ Octets!Power[1] = Base /\ Octets!Power[2] = Base * Base
<1>1. 0 \in Nat /\ 1 \in Nat /\ 0 + 1 = 1 /\ 1 + 1 = 2
  OBVIOUS
<1>2. Octets!Power[0] = 1
  BY PowerIs, Zenon
<1>3. Octets!Power[1] = Base * 1 /\ Octets!Power[2] = Base * Octets!Power[1]
  BY <1>1, <1>2, PowerIs, Zenon
<1>4. Base * 1 = Base
  BY BytesAre
<1> QED BY <1>2, <1>3, <1>4, Zenon

DividedInto(v, n, q, r) == v % n = r /\ v \div n = q

LEMMA DividedIs ==
  ASSUME NEW n \in Nat, n > 0, NEW q \in Nat, NEW r \in 0..n - 1, NEW v, v = q * n + r
  PROVE  DividedInto(v, n, q, r)
  BY RestIs DEF DividedInto

\* What is sent of a version.
CombinedAs(i, j, k) ==
  /\ Octets!Combined(<<i, j, k>>) = (i * Base + j) * Base + k
  /\ Octets!Combined(<<i, j, k>>) = i * (Base * Base) + (j * Base + k)

LEMMA CombinedIs ==
  ASSUME NEW i \in Octets!Byte, NEW j \in Octets!Byte, NEW k \in Octets!Byte
  PROVE  CombinedAs(i, j, k)
<1> DEFINE v == <<i, j, k>>
<1>1. v[1] = i /\ v[2] = j /\ v[3] = k
  OBVIOUS
<1> HIDE DEF v
<1>2. Octets!Combined(v) = i * (Base * Base) + j * Base + k
  BY <1>1, SmallPowers, Zenon DEF Octets!Combined
<1>3. i * (Base * Base) + j * Base + k = (i * Base + j) * Base + k
  BY BytesAre
<1>4. i * (Base * Base) + j * Base + k = i * (Base * Base) + (j * Base + k)
  <2> DEFINE a == i * (Base * Base)
             b == j * Base
  <2>1. a \in Nat /\ b \in Nat /\ k \in Nat
    BY BytesAre
  <2> HIDE DEF a, b
  <2>2. a + b + k = a + (b + k)
    BY <2>1
  <2> QED BY <2>2 DEF a, b
<1> QED BY <1>2, <1>3, <1>4, Zenon DEF v, CombinedAs

LEMMA VersionsOrdered ==
  ASSUME NEW i \in Octets!Byte, NEW j \in Octets!Byte, NEW k \in Octets!Byte,
         NEW l \in Octets!Byte, NEW m \in Octets!Byte, NEW n \in Octets!Byte
  PROVE  Octets!Combined(<<i, j, k>>) < Octets!Combined(<<l, m, n>>) <=>
           i < l \/ (i = l /\ j < m) \/ (i = l /\ j = m /\ k < n)
<1> DEFINE B == Base
           q == i * B + j
           p == l * B + m
<1>1. B \in Nat /\ i \in Nat /\ l \in Nat
      /\ j \in 0..B - 1 /\ k \in 0..B - 1 /\ m \in 0..B - 1 /\ n \in 0..B - 1
  BY BytesAre
<1> HIDE DEF B
<1>2. q \in Nat /\ p \in Nat
  BY <1>1
<1>3. q < p <=> i < l \/ (i = l /\ j < m)
  BY <1>1, Ordered
<1>3a. p < q <=> l < i \/ (l = i /\ m < j)
  BY <1>1, Ordered
<1>4. Octets!Combined(<<i, j, k>>) = q * B + k /\ Octets!Combined(<<l, m, n>>) = p * B + n
  <2>1. CombinedAs(i, j, k) /\ CombinedAs(l, m, n)
    BY CombinedIs
  <2> QED BY <2>1, Zenon DEF B, CombinedAs
<1> HIDE DEF q, p
<1>5. q * B + k < p * B + n <=> q < p \/ (q = p /\ k < n)
  BY <1>1, <1>2, Ordered
<1>6. q = p <=> i = l /\ j = m
  BY <1>1, <1>2, <1>3, <1>3a
<1> QED BY <1>3, <1>4, <1>5, <1>6, Zenon

LEMMA SeparatedIs ==
  ASSUME NEW i \in Octets!Byte, NEW j \in Octets!Byte, NEW k \in Octets!Byte
  PROVE  Octets!Separated(Octets!Combined(<<i, j, k>>)) = <<i, j, k>>
<1> DEFINE B == Base
           n == Octets!Combined(<<i, j, k>>)
           q == i * B + j
           C == B * B
           r == j * B + k
<1>1. /\ B \in Nat /\ B > 1 /\ i \in Nat /\ j \in Nat /\ k \in Nat
      /\ i \in 0..B - 1 /\ j \in 0..B - 1 /\ k \in 0..B - 1
  BY BytesAre
<1>2. n = q * B + k /\ n = i * C + r
  <2>1. CombinedAs(i, j, k)
    BY CombinedIs
  <2> QED BY <2>1, Zenon DEF CombinedAs
<1> HIDE DEF B, n
<1>3. q \in Nat /\ C \in Nat /\ C > 0 /\ r \in 0..C - 1
  <2>1. q \in Nat /\ C \in Nat /\ r \in Nat
    BY <1>1
  <2>2. C > 0
    BY <1>1
  <2>3. j * B + B <= C
    BY <1>1, Grows
  <2>4. r < j * B + B
    <3> DEFINE a == j * B
    <3>1. a \in Nat
      BY <1>1
    <3> HIDE DEF a
    <3>2. a + k < a + B
      BY <1>1, <3>1
    <3> QED BY <3>2 DEF a
  <2> DEFINE a == j * B + B
  <2>5. a \in Nat
    BY <1>1
  <2> HIDE DEF a, C, r
  <2>6. r < a /\ a <= C
    BY <2>3, <2>4 DEF a, r
  <2> QED BY <2>1, <2>2, <2>5, <2>6
<1>4. DividedInto(n, B, q, k)
  <2>1. B > 0
    BY <1>1
  <2> HIDE DEF q
  <2> QED BY <1>1, <1>2, <1>3, <2>1, DividedIs, Zenon
<1>5. DividedInto(q, B, i, j)
  <2>1. B > 0 /\ q = i * B + j
    BY <1>1
  <2> HIDE DEF q
  <2> QED BY <1>1, <2>1, DividedIs, Zenon
<1>6. DividedInto(n, C, i, r)
  <2> HIDE DEF C, r
  <2> QED BY <1>1, <1>2, <1>3, DividedIs, Zenon
<1>7. i % B = i
  BY <1>1
<1>8. n \div 1 = n
  <2>1. n \in Nat
    <3> DEFINE a == q * B
    <3>1. a \in Nat
      BY <1>1, <1>3
    <3> HIDE DEF a
    <3>2. a + k \in Nat
      BY <1>1, <3>1
    <3> QED BY <1>2, <3>2 DEF a
  <2> QED BY <2>1
<1> HIDE DEF q, r, C
<1> DEFINE d(x) == (n \div Octets!Power[3 - x]) % B
<1>9. d(1) = i /\ d(2) = j /\ d(3) = k
  <2>1. 3 - 1 = 2 /\ 3 - 2 = 1 /\ 3 - 3 = 0
    OBVIOUS
  <2>2. Octets!Power[2] = C /\ Octets!Power[1] = B /\ Octets!Power[0] = 1
    BY SmallPowers, Zenon DEF B, C
  <2> QED BY <1>4, <1>5, <1>6, <1>7, <1>8, <2>1, <2>2, Zenon DEF DividedInto
<1>10. Octets!Separated(n) = [x \in 1..3 |-> d(x)]
  BY Zenon DEF Octets!Separated, B
<1> HIDE DEF d
<1>11. [x \in 1..3 |-> d(x)] = <<d(1), d(2), d(3)>>
  OBVIOUS
<1> QED BY <1>9, <1>10, <1>11, Zenon DEF n

\* The numeral of a number, and reading it.
NumeralOf(n) == CHOOSE c \in DOMAIN Octets!Numeral : Octets!Numeral[c] = n

LEMMA DigitIs ==
  ASSUME NEW n \in {0, 1, 2}
  PROVE  /\ NumeralOf(n) \in DOMAIN Octets!Numeral /\ Octets!Numeral[NumeralOf(n)] = n /\ NumeralOf(n) # "."
<1>1. DOMAIN Octets!Numeral = {"0", "1", "2"}
  BY DEF Octets!Numeral
<1>2. Octets!Numeral["0"] = 0 /\ Octets!Numeral["1"] = 1 /\ Octets!Numeral["2"] = 2
  BY DEF Octets!Numeral
<1>3. \E c \in DOMAIN Octets!Numeral : Octets!Numeral[c] = n
  BY <1>1, <1>2
<1>4. NumeralOf(n) \in DOMAIN Octets!Numeral /\ Octets!Numeral[NumeralOf(n)] = n
  BY <1>3, Zenon DEF NumeralOf
<1>5. NumeralOf(n) # "."
  BY <1>1, <1>4
<1> QED BY <1>4, <1>5

LEMMA StoiIs ==
  ASSUME NEW s, s # <<>>, NEW n \in {0, 1, 2}, s[1] = NumeralOf(n)
  PROVE  Octets!Stoi(s) = <<n>>
<1>1. NumeralOf(n) \in DOMAIN Octets!Numeral /\ Octets!Numeral[NumeralOf(n)] = n
  BY DigitIs, Zenon
<1> QED BY <1>1, Zenon DEF Octets!Stoi

Dotted(a, b, c) == <<a, ".", b, ".", c>>

\* The parts of a version between its points.
Parted(s, a, b, c) ==
  LET p == Octets!Parts(s, 2, 4) IN
  /\ p[1] # <<>> /\ p[1][1] = a
  /\ p[2] # <<>> /\ p[2][1] = b
  /\ p[3] # <<>> /\ p[3][1] = c

LEMMA PartsAre ==
  ASSUME NEW a, NEW b, NEW c, NEW d, NEW s, s = <<a, d, b, d, c>>
  PROVE  Parted(s, a, b, c)
<1> DEFINE E == {a, b, c, d}
           x == SubSeq(s, 1, 2 - 1)
           y == SubSeq(s, 2 + 1, IF 2 + 4 <= Len(s) THEN 2 + 4 - 1 ELSE Len(s))
           z == SubSeq(s, 4 + 1, Len(s))
           p == Octets!Parts(s, 2, 4)
<1>1. s \in Seq(E) /\ Len(s) = 5 /\ s[1] = a /\ s[3] = b /\ s[5] = c
  OBVIOUS
<1>2. p = <<x, y, z>>
  BY Zenon DEF Octets!Parts
<1> HIDE DEF E
<1>3. 2 - 1 = 1 /\ 2 + 1 = 3 /\ 4 + 1 = 5 /\ ~(2 + 4 <= 5)
  OBVIOUS
<1>4. x = SubSeq(s, 1, 1) /\ y = SubSeq(s, 3, 5) /\ z = SubSeq(s, 5, 5)
  <2> HIDE DEF p
  <2> QED BY <1>1, <1>3, Zenon
<1> HIDE DEF x, y, z
<1>5. SubSeq(s, 1, 1) # <<>> /\ SubSeq(s, 1, 1)[1] = a
  BY <1>1
<1>6. SubSeq(s, 3, 5) # <<>> /\ SubSeq(s, 3, 5)[1] = b
  BY <1>1
<1>7. SubSeq(s, 5, 5) # <<>> /\ SubSeq(s, 5, 5)[1] = c
  BY <1>1
<1>8. <<x, y, z>>[1] = x /\ <<x, y, z>>[2] = y /\ <<x, y, z>>[3] = z
  OBVIOUS
<1> HIDE DEF p
<1> QED BY <1>2, <1>4, <1>5, <1>6, <1>7, <1>8, Zenon DEF Parted, p

\* What setFromString reads of three parts.
PartRead(parts, v, p) == IF Len(v) < p THEN v ELSE v \o Octets!Stoi(parts[p + 1])
Three == <<0, 1, 2>>
ReadParts(parts) == Octets!FoldLeft(LAMBDA v, p : PartRead(parts, v, p), <<>>, Three)

LEMMA PartsRead ==
  ASSUME NEW parts, NEW i \in Nat, NEW j \in Nat, NEW k \in Nat,
         Octets!Stoi(parts[1]) = <<i>>, Octets!Stoi(parts[2]) = <<j>>, Octets!Stoi(parts[3]) = <<k>>
  PROVE  ReadParts(parts) = <<i, j, k>>
<1> DEFINE R == Seq(Nat)
           E == {0, 1, 2}
           s == Three
           g == [x \in R \X E |-> PartRead(parts, x[1], x[2])]
           T == SUBSET (DOMAIN s)
           Is(f) == f = [t \in T |-> IF t = {} THEN <<>> ELSE PartRead(parts, f[t \ {Max(t)}], s[Max(t)])]
<1>1. ReadParts(parts) = (CHOOSE f : Is(f))[DOMAIN s]
  BY Zenon DEF ReadParts, Octets!FoldLeft, Octets!MapThenFoldSet, Octets!Max, Max
<1>2. s \in Seq(E) /\ Len(s) = 3 /\ s[1] = 0 /\ s[2] = 1 /\ s[3] = 2
  BY DEF Three
<1>3. /\ \A v \in R : PartRead(parts, v, 0) = v \o <<i>>
      /\ PartRead(parts, <<i>>, 1) = <<i, j>>
      /\ PartRead(parts, <<i, j>>, 2) = <<i, j, k>>
  <2>1. \A v \in R : ~(Len(v) < 0)
    OBVIOUS
  <2>2. ~(Len(<<i>>) < 1) /\ ~(Len(<<i, j>>) < 2) /\ 0 + 1 = 1 /\ 1 + 1 = 2 /\ 2 + 1 = 3
    OBVIOUS
  <2>3. \A v \in R : PartRead(parts, v, 0) = v \o <<i>>
    BY <2>1, <2>2, Zenon DEF PartRead
  <2>4. PartRead(parts, <<i>>, 1) = <<i>> \o <<j>>
    BY <2>2, Zenon DEF PartRead
  <2>5. PartRead(parts, <<i, j>>, 2) = <<i, j>> \o <<k>>
    BY <2>2, Zenon DEF PartRead
  <2>6. <<i>> \o <<j>> = <<i, j>>
    <3> DEFINE a == <<i>> \o <<j>>
               b == <<i, j>>
    <3>1. a \in Seq(Nat) /\ Len(a) = 2 /\ a[1] = i /\ a[2] = j
      OBVIOUS
    <3>2. b \in Seq(Nat) /\ Len(b) = 2 /\ b[1] = i /\ b[2] = j
      OBVIOUS
    <3>3. \A n \in 1..2 : n = 1 \/ n = 2
      OBVIOUS
    <3> HIDE DEF a, b
    <3>4. \A n \in 1..2 : a[n] = b[n]
      BY <3>1, <3>2, <3>3, Zenon
    <3>5. a = b
      BY <3>1, <3>2, <3>4, SeqEqual
    <3> QED BY <3>5 DEF a, b
  <2>7. <<i, j>> \o <<k>> = <<i, j, k>>
    <3> DEFINE a == <<i, j>> \o <<k>>
               b == <<i, j, k>>
    <3>1. a \in Seq(Nat) /\ Len(a) = 3 /\ a[1] = i /\ a[2] = j /\ a[3] = k
      OBVIOUS
    <3>2. b \in Seq(Nat) /\ Len(b) = 3 /\ b[1] = i /\ b[2] = j /\ b[3] = k
      OBVIOUS
    <3>3. \A n \in 1..3 : n = 1 \/ n = 2 \/ n = 3
      OBVIOUS
    <3> HIDE DEF a, b
    <3>4. \A n \in 1..3 : a[n] = b[n]
      BY <3>1, <3>2, <3>3, Zenon
    <3>5. a = b
      BY <3>1, <3>2, <3>4, SeqEqual
    <3> QED BY <3>5 DEF a, b
  <2> QED BY <2>3, <2>4, <2>5, <2>6, <2>7, Zenon
<1>4. \A v \in R, p \in E : PartRead(parts, v, p) \in R
  <2>1. <<i>> \in R /\ <<j>> \in R /\ <<k>> \in R /\ \A a, b \in R : a \o b \in R
    OBVIOUS
  <2>2. 0 + 1 = 1 /\ 1 + 1 = 2 /\ 2 + 1 = 3 /\ \A p \in E : p = 0 \/ p = 1 \/ p = 2
    OBVIOUS
  <2>3. \A p \in E : Octets!Stoi(parts[p + 1]) \in R
    BY <2>1, <2>2, Zenon
  <2> HIDE DEF R, E
  <2> QED BY <2>1, <2>3, Zenon DEF PartRead
<1>5. <<>> \in R
  OBVIOUS
<1>6. g \in [R \X E -> R] /\ \A v \in R, p \in E : g[<<v, p>>] = PartRead(parts, v, p)
  <2> HIDE DEF R, E
  <2> QED BY <1>4
<1>7. <<i>> \in R /\ <<i, j>> \in R /\ <<>> \o <<i>> = <<i>> /\ 0 \in E /\ 1 \in E /\ 2 \in E
  OBVIOUS
<1> HIDE DEF g, s, R, E
<1>8. PICK h : IsTable(h, R, E, s, <<>>, g)
  BY <1>2, <1>5, <1>6, FoldTable
<1>9. Is(h)
  <2>1. \A t \in T : h[t] = IF t = {} THEN <<>> ELSE PartRead(parts, h[t \ {Max(t)}], s[Max(t)])
    BY <1>6, <1>8, Zenon DEF IsTable
  <2>2. h \in [T -> R]
    BY <1>8 DEF IsTable
  <2> HIDE DEF T
  <2>3. h = [t \in T |-> h[t]]
    BY <2>2
  <2> QED BY <2>1, <2>3, Zenon
<1> DEFINE f == CHOOSE f : Is(f)
<1>10. Is(f)
  BY <1>9, Zenon
<1> HIDE DEF f
<1>11. IsFold(f, R, s, <<>>, g)
  <2>1. f[{}] = <<>>
    <3>1. {} \in T
      OBVIOUS
    <3> HIDE DEF T
    <3> QED BY <1>10, <3>1, Zenon
  <2>2. ASSUME NEW t \in T, t # {}, f[t \ {Max(t)}] \in R
        PROVE  f[t] = g[<<f[t \ {Max(t)}], s[Max(t)]>>]
    <3>1. f[t] = PartRead(parts, f[t \ {Max(t)}], s[Max(t)])
      BY <1>10, <2>2, Zenon
    <3>2. s[Max(t)] \in E
      BY <1>8, <2>2 DEF IsTable
    <3> QED BY <1>6, <2>2, <3>1, <3>2, Zenon
  <2> QED BY <2>1, <2>2, Zenon DEF IsFold
<1>12. Leads(g, <<>>, s, f[DOMAIN s])
  BY <1>2, <1>5, <1>6, <1>11, FoldEnds, Zenon
<1>13. PICK h2 : h2[0] = <<>> /\ h2[3] = f[DOMAIN s] /\ \A n \in 0..3 - 1 : h2[n + 1] = g[<<h2[n], s[n + 1]>>]
  BY <1>2, <1>12, Zenon DEF Leads
<1>14. 0 \in 0..3 - 1 /\ 1 \in 0..3 - 1 /\ 2 \in 0..3 - 1 /\ 0 + 1 = 1 /\ 1 + 1 = 2 /\ 2 + 1 = 3
  OBVIOUS
<1>15. h2[1] = g[<<<<>>, 0>>] /\ h2[2] = g[<<h2[1], 1>>] /\ h2[3] = g[<<h2[2], 2>>]
  <2>1. h2[0 + 1] = g[<<h2[0], s[0 + 1]>>]
    BY <1>13, <1>14, Zenon
  <2>2. h2[1 + 1] = g[<<h2[1], s[1 + 1]>>]
    BY <1>13, <1>14, Zenon
  <2>3. h2[2 + 1] = g[<<h2[2], s[2 + 1]>>]
    BY <1>13, <1>14, Zenon
  <2> QED BY <1>2, <1>13, <1>14, <2>1, <2>2, <2>3, Zenon
<1>16. h2[1] = <<i>>
  <2>1. g[<<<<>>, 0>>] = PartRead(parts, <<>>, 0)
    BY <1>5, <1>6, <1>7, Zenon
  <2>2. PartRead(parts, <<>>, 0) = <<>> \o <<i>>
    BY <1>3, <1>5, Zenon
  <2> QED BY <1>7, <1>15, <2>1, <2>2, Zenon
<1>17. h2[2] = <<i, j>>
  <2>1. g[<<<<i>>, 1>>] = PartRead(parts, <<i>>, 1)
    BY <1>6, <1>7, Zenon
  <2> QED BY <1>3, <1>15, <1>16, <2>1, Zenon
<1>18. h2[3] = <<i, j, k>>
  <2>1. g[<<<<i, j>>, 2>>] = PartRead(parts, <<i, j>>, 2)
    BY <1>6, <1>7, Zenon
  <2> QED BY <1>3, <1>15, <1>17, <2>1, Zenon
<1> QED BY <1>1, <1>13, <1>18, Zenon DEF f

\* setFromString, by the places of the points.
Points(s)     == {x \in DOMAIN s : s[x] = "."}
FirstOf(P)    == CHOOSE x \in P : \A y \in P : x <= y
OtherOf(P, x) == CHOOSE y \in P : y # x
Changed(new, old) == [x \in 1..3 |-> IF x <= Len(new) THEN new[x] ELSE old[x]]
TwoPoints(P)  == \E x, y \in P : x < y /\ P = {x, y}
BetweenPoints(s, P) == Octets!Parts(s, FirstOf(P), OtherOf(P, FirstOf(P)))

LEMMA FromStringIs ==
  ASSUME NEW s, NEW old
  PROVE  Octets!FromString(s, old) =
           IF TwoPoints(Points(s)) THEN Changed(ReadParts(BetweenPoints(s, Points(s))), old) ELSE old
  BY Zenon DEF Octets!FromString, Points, FirstOf, OtherOf, Changed, TwoPoints, BetweenPoints, ReadParts,
               PartRead, Three

\* What is written of a version is read as it.
ReadAsWritten(v, old) == Octets!FromString(Octets!Written(v), old) = v

LEMMA VersionRead ==
  ASSUME NEW i \in {0, 1, 2}, NEW j \in {0, 1, 2}, NEW k \in {0, 1, 2}, NEW old
  PROVE  ReadAsWritten(<<i, j, k>>, old)
<1> DEFINE a == NumeralOf(i)
           b == NumeralOf(j)
           c == NumeralOf(k)
           d == "."
           s == <<a, d, b, d, c>>
           v == <<i, j, k>>
           points == Points(s)
           parts == Octets!Parts(s, 2, 4)
           new == ReadParts(parts)
<1>1. v[1] = i /\ v[2] = j /\ v[3] = k
  OBVIOUS
<1>2. a # d /\ b # d /\ c # d
  BY DigitIs, Zenon
<1>3. Octets!Written(v) = s
  <2> HIDE DEF v
  <2> QED BY <1>1, Zenon DEF Octets!Written, NumeralOf
<1> HIDE DEF a, b, c, v
<1>4. points = {2, 4}
  <2>0. points = {x \in DOMAIN s : s[x] = d}
    BY Zenon DEF Points
  <2> HIDE DEF d
  <2>1. DOMAIN s = 1..5 /\ s[1] = a /\ s[2] = d /\ s[3] = b /\ s[4] = d /\ s[5] = c
    OBVIOUS
  <2>2. 1..5 = {1, 2, 3, 4, 5}
    OBVIOUS
  <2> HIDE DEF s, points
  <2> QED BY <1>2, <2>0, <2>1, <2>2
<1>5. Parted(s, a, b, c)
  <2> HIDE DEF d
  <2> QED BY PartsAre, Zenon
<1>6. new = <<i, j, k>>
  <2> HIDE DEF parts
  <2>1. /\ parts[1] # <<>> /\ parts[1][1] = NumeralOf(i)
        /\ parts[2] # <<>> /\ parts[2][1] = NumeralOf(j)
        /\ parts[3] # <<>> /\ parts[3][1] = NumeralOf(k)
    BY <1>5, Zenon DEF Parted, parts, a, b, c
  <2>2. Octets!Stoi(parts[1]) = <<i>>
    BY <2>1, StoiIs, Zenon
  <2>3. Octets!Stoi(parts[2]) = <<j>>
    BY <2>1, StoiIs, Zenon
  <2>4. Octets!Stoi(parts[3]) = <<k>>
    BY <2>1, StoiIs, Zenon
  <2>5. i \in Nat /\ j \in Nat /\ k \in Nat
    OBVIOUS
  <2> QED BY <2>2, <2>3, <2>4, <2>5, PartsRead, Zenon
<1>7. FirstOf(points) = 2
  <2> HIDE DEF points
  <2> QED BY <1>4 DEF FirstOf
<1>8. OtherOf(points, 2) = 4
  <2> HIDE DEF points
  <2> QED BY <1>4 DEF OtherOf
<1>9. TwoPoints(points)
  <2> HIDE DEF points
  <2>1. 2 \in points /\ 4 \in points /\ 2 < 4
    BY <1>4
  <2> QED BY <1>4, <2>1, Zenon DEF TwoPoints
<1> HIDE DEF s
<1>10. Octets!FromString(s, old) = Changed(new, old)
  <2>1. BetweenPoints(s, points) = parts
    BY <1>7, <1>8, Zenon DEF BetweenPoints
  <2> QED BY <1>9, <2>1, FromStringIs, Zenon
<1> HIDE DEF new
<1>11. Changed(new, old) = <<i, j, k>>
  <2>1. Len(new) = 3 /\ new[1] = i /\ new[2] = j /\ new[3] = k
    BY <1>6
  <2>2. \A x \in 1..3 : x <= Len(new)
    BY <2>1
  <2> DEFINE h == Changed(new, old)
  <2>3. h = [x \in 1..3 |-> new[x]]
    BY <2>2 DEF Changed
  <2> HIDE DEF h
  <2>4. [x \in 1..3 |-> new[x]] = <<new[1], new[2], new[3]>>
    OBVIOUS
  <2> QED BY <2>1, <2>3, <2>4, Zenon DEF h
<1> QED BY <1>3, <1>10, <1>11, Zenon DEF v, ReadAsWritten

LEMMA VersionsReach ==
  ASSUME sample \in VersionsOver
  PROVE  Octets!VersionsAgree
<1> DEFINE v == sample.v
           w == sample.w
<1>1. v \in SomeVersions /\ w \in SomeVersions
  <2>1. PICK a \in SomeVersions, b \in SomeVersions : sample = Octets!Versions(a, b)
    BY DEF VersionsOver
  <2>2. sample.v = a /\ sample.w = b
    BY <2>1 DEF Octets!Versions
  <2> QED BY <2>2
<1> HIDE DEF v, w
<1>2. PICK i \in VersionNumbers, j \in VersionNumbers, k \in VersionNumbers : v = <<i, j, k>>
  BY <1>1, VersionIs
<1>3. PICK l \in VersionNumbers, m \in VersionNumbers, n \in VersionNumbers : w = <<l, m, n>>
  BY <1>1, VersionIs
<1>4. /\ i \in Octets!Byte /\ j \in Octets!Byte /\ k \in Octets!Byte
      /\ l \in Octets!Byte /\ m \in Octets!Byte /\ n \in Octets!Byte
      /\ i \in {0, 1, 2} /\ j \in {0, 1, 2} /\ k \in {0, 1, 2}
  BY DEF VersionNumbers
<1>5. Octets!Combined(v) < Octets!Combined(w) <=>
        i < l \/ (i = l /\ j < m) \/ (i = l /\ j = m /\ k < n)
  <2>1. Octets!Combined(<<i, j, k>>) < Octets!Combined(<<l, m, n>>) <=>
          i < l \/ (i = l /\ j < m) \/ (i = l /\ j = m /\ k < n)
    BY <1>4, VersionsOrdered
  <2> QED BY <1>2, <1>3, <2>1, Zenon
<1>6. (\E x \in 1..3 : v[x] < w[x] /\ \A y \in 1..(x - 1) : v[y] = w[y]) <=>
        i < l \/ (i = l /\ j < m) \/ (i = l /\ j = m /\ k < n)
  <2>1. v[1] = i /\ v[2] = j /\ v[3] = k /\ w[1] = l /\ w[2] = m /\ w[3] = n
    BY <1>2, <1>3
  <2>2. 1..3 = {1, 2, 3} /\ 1..(1 - 1) = {} /\ 1..(2 - 1) = {1} /\ 1..(3 - 1) = {1, 2}
    OBVIOUS
  <2> QED BY <2>1, <2>2, Zenon
<1>7. Octets!Separated(Octets!Combined(v)) = v
  <2>1. Octets!Separated(Octets!Combined(<<i, j, k>>)) = <<i, j, k>>
    BY <1>4, SeparatedIs
  <2> QED BY <1>2, <2>1, Zenon
<1>8. Octets!FromString(Octets!Written(v), w) = v
  <2>1. ReadAsWritten(<<i, j, k>>, w)
    BY <1>4, VersionRead
  <2> QED BY <1>2, <2>1, Zenon DEF ReadAsWritten
<1> QED BY <1>5, <1>6, <1>7, <1>8, Zenon DEF Octets!VersionsAgree, v, w

-----------------------------------------------------------------------------

\* What is sampled of one kind says nothing of the others.
LEMMA KindsOfSamples ==
  /\ sample \in FieldsOver => sample.kind = "fields"
  /\ sample \in StepsOver => sample.kind = "steps"
  /\ sample \in ListingsOver => sample.kind = "listing"
  /\ sample \in UsersOver => sample.kind = "user"
  /\ sample \in VersionsOver => sample.kind = "versions"
<1>1. ASSUME sample \in FieldsOver PROVE sample.kind = "fields"
  BY <1>1 DEF FieldsOver, Octets!Fields
<1>2. ASSUME sample \in StepsOver PROVE sample.kind = "steps"
  BY <1>2 DEF StepsOver, Octets!Steps
<1>3. ASSUME sample \in ListingsOver PROVE sample.kind = "listing"
  BY <1>3 DEF ListingsOver, Octets!Listing
<1>4. ASSUME sample \in UsersOver PROVE sample.kind = "user"
  BY <1>4 DEF UsersOver, Octets!AUser
<1>5. ASSUME sample \in VersionsOver PROVE sample.kind = "versions"
  BY <1>5 DEF VersionsOver, Octets!Versions
<1> QED BY <1>1, <1>2, <1>3, <1>4, <1>5

\* What one program writes the other reads, whatever it is: fields and responses
\* (ArrayEditor, ResponseBuilder), directory listings (BFL), user files (UIFDecoder) and
\* versions, of any number and any length: integers that fit their width, names and listings
\* of a length that a byte can say, names that fit their block.  What ends early is refused.
THEOREM BytesReach ==
  ASSUME sample \in FieldsOver \cup StepsOver \cup ListingsOver \cup UsersOver \cup VersionsOver
  PROVE  WrittenIsRead
<1> DEFINE All == /\ Octets!FieldsReadBack /\ Octets!ResponseOfOneKind /\ Octets!ListingReadBack
                  /\ Octets!UserFileReadBack /\ Octets!VersionsAgree
<1> SUFFICES All
  BY Zenon DEF WrittenIsRead, Octets!WrittenIsRead
<1>0. /\ sample.kind # "fields" => Octets!FieldsReadBack
      /\ sample.kind # "steps" => Octets!ResponseOfOneKind
      /\ sample.kind # "listing" => Octets!ListingReadBack
      /\ sample.kind # "user" => Octets!UserFileReadBack
      /\ sample.kind # "versions" => Octets!VersionsAgree
  BY Zenon DEF Octets!FieldsReadBack, Octets!ResponseOfOneKind, Octets!ListingReadBack,
               Octets!UserFileReadBack, Octets!VersionsAgree
<1>1. CASE sample \in FieldsOver
  <2>1. /\ sample.kind # "steps" /\ sample.kind # "listing" /\ sample.kind # "user"
        /\ sample.kind # "versions"
    <3>1. sample.kind = "fields"
      BY <1>1, KindsOfSamples
    <3> QED BY <3>1
  <2> QED BY <1>0, <1>1, <2>1, FieldsReach, Zenon
<1>2. CASE sample \in StepsOver
  <2>1. /\ sample.kind # "fields" /\ sample.kind # "listing" /\ sample.kind # "user"
        /\ sample.kind # "versions"
    <3>1. sample.kind = "steps"
      BY <1>2, KindsOfSamples
    <3> QED BY <3>1
  <2> QED BY <1>0, <1>2, <2>1, StepsReach, Zenon
<1>3. CASE sample \in ListingsOver
  <2>1. /\ sample.kind # "fields" /\ sample.kind # "steps" /\ sample.kind # "user"
        /\ sample.kind # "versions"
    <3>1. sample.kind = "listing"
      BY <1>3, KindsOfSamples
    <3> QED BY <3>1
  <2> QED BY <1>0, <1>3, <2>1, ListingsReach, Zenon
<1>4. CASE sample \in UsersOver
  <2>1. /\ sample.kind # "fields" /\ sample.kind # "steps" /\ sample.kind # "listing"
        /\ sample.kind # "versions"
    <3>1. sample.kind = "user"
      BY <1>4, KindsOfSamples
    <3> QED BY <3>1
  <2> QED BY <1>0, <1>4, <2>1, UsersReach, Zenon
<1>5. CASE sample \in VersionsOver
  <2>1. /\ sample.kind # "fields" /\ sample.kind # "steps" /\ sample.kind # "listing"
        /\ sample.kind # "user"
    <3>1. sample.kind = "versions"
      BY <1>5, KindsOfSamples
    <3> QED BY <3>1
  <2> QED BY <1>0, <1>5, <2>1, VersionsReach, Zenon
<1> QED BY <1>1, <1>2, <1>3, <1>4, <1>5
=============================================================================

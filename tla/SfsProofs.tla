----------------------------- MODULE SfsProofs -----------------------------
(***************************************************************************)
(* Proofs about Sfs: its types, and what requests may and may not change,  *)
(* for all trees, paths, names and numbers of sessions.                    *)
(*                                                                         *)
(* Paths are normalised by a fold, so that what is proved of them is       *)
(* proved by induction.  An induction is over a set: one that contains 0   *)
(* and with every number the next contains them all.                       *)
(***************************************************************************)
EXTENDS Sfs, Integers, SequenceTheorems, WellFoundedInduction, TLAPS

Plain == Names \ {".."}

-----------------------------------------------------------------------------
(* Induction.                                                              *)

LEMMA LeastNat ==
  ASSUME NEW T, T \subseteq Nat, T # {}
  PROVE  \E x \in T : \A y \in T : x <= y
<1>1. IsWellFoundedOn(OpToRel(<, Nat), Nat)
  BY NatLessThanWellFounded, Zenon
<1>2. \E x \in T : \A y \in T : ~ (<<y, x>> \in OpToRel(<, Nat))
  BY <1>1, WFMin, Zenon
<1>3. PICK x \in T : \A y \in T : ~ (<<y, x>> \in OpToRel(<, Nat))
  BY <1>2, Zenon
<1>4. ASSUME NEW y \in T PROVE x <= y
  <2>1. ~ (<<y, x>> \in {ab \in Nat \X Nat : ab[1] < ab[2]})
    BY <1>3 DEF OpToRel
  <2> QED BY <2>1
<1> QED BY <1>4

LEMMA NatSets ==
  ASSUME NEW S, 0 \in S, \A n \in Nat : n \in S => n + 1 \in S
  PROVE  Nat \subseteq S
<1> SUFFICES ASSUME Nat \ S # {} PROVE FALSE
  OBVIOUS
<1>1. PICK x \in Nat \ S : \A y \in Nat \ S : x <= y
  BY LeastNat
<1> QED BY <1>1

-----------------------------------------------------------------------------
(* Folds.                                                                  *)

LEMMA MaxIs ==
  ASSUME NEW k \in Nat, NEW s \in SUBSET (1..k + 1), k + 1 \in s
  PROVE  Max(s) = k + 1
<1>1. \A x \in s : k + 1 >= x
  OBVIOUS
<1>2. \A m \in s : (\A x \in s : m >= x) => m = k + 1
  BY <1>1
<1> DEFINE P(m) == \A x \in s : m >= x
<1>3. \E m \in s : P(m)
  BY <1>1
<1>4. Max(s) = CHOOSE m \in s : P(m)
  BY DEF Max
<1>5. (CHOOSE m \in s : P(m)) \in s /\ P(CHOOSE m \in s : P(m))
  BY <1>3, Zenon
<1> QED BY <1>2, <1>4, <1>5

LEMMA MaxIn ==
  ASSUME NEW n \in Nat, NEW s \in SUBSET (1..n), s # {}
  PROVE  Max(s) \in s
<1> DEFINE T == {n - x : x \in s}
<1>1. T \subseteq Nat
  <2>1. ASSUME NEW x \in s PROVE n - x \in Nat
    <3>1. x \in 1..n
      OBVIOUS
    <3> QED BY <3>1
  <2> QED BY <2>1
<1>1a. T # {}
  OBVIOUS
<1>2. PICK t \in T : \A u \in T : t <= u
  BY <1>1, <1>1a, LeastNat
<1>3. PICK m \in s : t = n - m
  OBVIOUS
<1>4. \A x \in s : m >= x
  <2>1. ASSUME NEW x \in s PROVE m >= x
    <3>1. n - m <= n - x
      BY <1>2, <1>3
    <3> QED BY <3>1
  <2> QED BY <2>1
<1> DEFINE P(y) == \A x \in s : y >= x
<1>5. (CHOOSE y \in s : P(y)) \in s
  BY <1>4, Zenon
<1> QED BY <1>5 DEF Max

\* What a fold goes through, as a function of the places it has folded.
Iterated(h, k, base, g, p) ==
  \A s \in SUBSET (1..k) : h[s] = IF s = {} THEN base ELSE g[<<h[s \ {Max(s)}], p[Max(s)]>>]

LEMMA FoldExists ==
  ASSUME NEW R, NEW E, NEW p \in Seq(E), NEW base \in R, NEW g \in [R \X E -> R]
  PROVE  \E h \in [SUBSET (1..Len(p)) -> R] : Iterated(h, Len(p), base, g, p)
<1> DEFINE Some(k) == \E h \in [SUBSET (1..k) -> R] : Iterated(h, k, base, g, p)
<1> DEFINE K == {k \in Nat : k <= Len(p) => Some(k)}
<1>1. Some(0)
  <2>1. 1..0 = {} /\ SUBSET (1..0) = {{}}
    OBVIOUS
  <2> DEFINE f == [s \in SUBSET (1..0) |-> base]
  <2>2. f \in [SUBSET (1..0) -> R]
    OBVIOUS
  <2>3. \A s \in SUBSET (1..0) : s = {} /\ f[s] = base
    BY <2>1
  <2> HIDE DEF f
  <2>4. Iterated(f, 0, base, g, p)
    BY <2>3 DEF Iterated
  <2> QED BY <2>2, <2>4
<1>2. ASSUME NEW k \in Nat, Some(k), k + 1 <= Len(p) PROVE Some(k + 1)
  <2>1. PICK h \in [SUBSET (1..k) -> R] : Iterated(h, k, base, g, p)
    BY <1>2
  <2> DEFINE f == [s \in SUBSET (1..k + 1) |->
                     IF k + 1 \in s THEN g[<<h[s \ {k + 1}], p[k + 1]>>] ELSE h[s]]
  <2>2. p[k + 1] \in E
    BY <1>2
  <2>3. ASSUME NEW s \in SUBSET (1..k + 1), k + 1 \notin s PROVE s \in SUBSET (1..k)
    BY <2>3
  <2>4. ASSUME NEW s \in SUBSET (1..k + 1) PROVE f[s] \in R
    <3>1. CASE k + 1 \in s
      <4>1. s \ {k + 1} \in SUBSET (1..k) /\ h[s \ {k + 1}] \in R
        BY <2>1, <2>3
      <4> QED BY <2>2, <3>1, <4>1
    <3>2. CASE k + 1 \notin s
      BY <2>1, <2>3, <3>2
    <3> QED BY <3>1, <3>2
  <2>5. f \in [SUBSET (1..k + 1) -> R]
    BY <2>4
  <2>6. ASSUME NEW s \in SUBSET (1..k + 1)
        PROVE  f[s] = IF s = {} THEN base ELSE g[<<f[s \ {Max(s)}], p[Max(s)]>>]
    <3>1. CASE k + 1 \in s
      <4>1. Max(s) = k + 1 /\ s # {}
        BY <3>1, MaxIs
      <4>2. s \ {k + 1} \in SUBSET (1..k + 1) /\ k + 1 \notin s \ {k + 1}
        OBVIOUS
      <4>3. f[s \ {k + 1}] = h[s \ {k + 1}]
        BY <4>2
      <4>4. f[s] = g[<<h[s \ {k + 1}], p[k + 1]>>]
        BY <3>1
      <4> QED BY <4>1, <4>3, <4>4
    <3>2. CASE k + 1 \notin s
      <4>1. s \in SUBSET (1..k) /\ f[s] = h[s]
        BY <2>3, <3>2
      <4>2. CASE s = {}
        BY <2>1, <4>1, <4>2 DEF Iterated
      <4>3. CASE s # {}
        <5>1. h[s] = g[<<h[s \ {Max(s)}], p[Max(s)]>>]
          BY <2>1, <4>1, <4>3 DEF Iterated
        <5>2. s \ {Max(s)} \in SUBSET (1..k + 1) /\ k + 1 \notin s \ {Max(s)}
          BY <3>2
        <5>3. f[s \ {Max(s)}] = h[s \ {Max(s)}]
          BY <5>2
        <5> QED BY <4>1, <4>3, <5>1, <5>3
      <4> QED BY <4>2, <4>3
    <3> QED BY <3>1, <3>2
  <2>7. Iterated(f, k + 1, base, g, p)
    BY <2>6 DEF Iterated
  <2> QED BY <2>5, <2>7
<1>3. Nat \subseteq K
  <2> HIDE DEF Some
  <2>1. 0 \in K
    BY <1>1
  <2>2. ASSUME NEW k \in Nat, k \in K PROVE k + 1 \in K
    <3>1. k + 1 <= Len(p) => k <= Len(p)
      OBVIOUS
    <3> QED BY <1>2, <2>2, <3>1
  <2> QED BY <2>1, <2>2, NatSets
<1>4. Len(p) \in Nat /\ Len(p) <= Len(p)
  OBVIOUS
<1>5. Some(Len(p))
  <2> HIDE DEF Some
  <2> QED BY <1>3, <1>4
<1> QED BY <1>5
-----------------------------------------------------------------------------
(* Normal paths.                                                           *)

\* The next name of a path, when what comes before it leads to q.
Down(q, n) == IF n = ".." THEN SubSeq(q, 1, Len(q) - 1) ELSE Append(q, n)

LEMMA DownPlain ==
  ASSUME NEW q \in Seq(Plain), NEW n \in Names
  PROVE  Down(q, n) \in Seq(Plain)
<1>1. CASE n = ".."
  BY <1>1 DEF Down
<1>2. CASE n # ".."
  BY <1>2 DEF Down, Plain
<1> QED BY <1>1, <1>2

LEMMA NormalSteps ==
  ASSUME NEW p \in Seq(Names)
  PROVE  \E r \in [0..Len(p) -> Seq(Plain)] :
           /\ r[0] = <<>> /\ r[Len(p)] = Normal(p)
           /\ \A k \in 0..Len(p) - 1 : r[k + 1] = Down(r[k], p[k + 1])
<1> DEFINE g == [x \in Seq(Plain) \X Names |-> Down(x[1], x[2])]
<1> DEFINE D == SUBSET (DOMAIN p)
<1> DEFINE Is(f) ==
     f = [s \in D |-> IF s = {} THEN <<>>
                       ELSE IF p[Max(s)] = ".." THEN SubSeq(f[s \ {Max(s)}], 1, Len(f[s \ {Max(s)}]) - 1)
                       ELSE Append(f[s \ {Max(s)}], p[Max(s)])]
<1>1. Normal(p) = (CHOOSE f : Is(f))[DOMAIN p]
  BY Zenon DEF Normal, FoldLeft, MapThenFoldSet
<1>2. DOMAIN p = 1..Len(p) /\ Len(p) \in Nat /\ \A k \in 1..Len(p) : p[k] \in Names
  OBVIOUS
<1>3. \E f : Is(f)
  <2>1. <<>> \in Seq(Plain) /\ g \in [Seq(Plain) \X Names -> Seq(Plain)]
    <3>1. \A x \in Seq(Plain) \X Names : Down(x[1], x[2]) \in Seq(Plain)
      BY DownPlain
    <3>2. <<>> \in Seq(Plain)
      OBVIOUS
    <3> QED BY <3>1, <3>2
  <2>2. PICK h \in [SUBSET (1..Len(p)) -> Seq(Plain)] : Iterated(h, Len(p), <<>>, g, p)
    BY <2>1, FoldExists, Zenon
  <2>3. ASSUME NEW s \in SUBSET (1..Len(p)), s # {}
        PROVE  /\ Max(s) \in 1..Len(p) /\ h[s \ {Max(s)}] \in Seq(Plain)
               /\ h[s] = Down(h[s \ {Max(s)}], p[Max(s)])
    <3>1. Max(s) \in s
      BY <1>2, <2>3, MaxIn
    <3>2. Max(s) \in 1..Len(p) /\ s \ {Max(s)} \in SUBSET (1..Len(p))
      BY <3>1
    <3>3. h[s \ {Max(s)}] \in Seq(Plain) /\ p[Max(s)] \in Names
      BY <2>2, <3>2, <1>2
    <3>4. h[s] = g[<<h[s \ {Max(s)}], p[Max(s)]>>]
      BY <2>2, <2>3 DEF Iterated
    <3> QED BY <3>2, <3>3, <3>4
  <2>4. ASSUME NEW s \in D
        PROVE  h[s] = IF s = {} THEN <<>>
                      ELSE IF p[Max(s)] = ".." THEN SubSeq(h[s \ {Max(s)}], 1, Len(h[s \ {Max(s)}]) - 1)
                      ELSE Append(h[s \ {Max(s)}], p[Max(s)])
    <3>1. CASE s = {}
      BY <2>2, <3>1 DEF Iterated
    <3>2. CASE s # {}
      BY <1>2, <2>3, <3>2 DEF Down
    <3> QED BY <3>1, <3>2
  <2>5. D = SUBSET (1..Len(p))
    BY <1>2
  <2>6. Is(h)
    BY <2>2, <2>4, <2>5
  <2> QED BY <2>6
<1> DEFINE f == CHOOSE f : Is(f)
<1>4. Is(f)
  BY <1>3, Zenon
<1> HIDE DEF f
<1>5. f[{}] = <<>>
  BY <1>4
<1>6. ASSUME NEW k \in 0..Len(p) - 1 PROVE f[1..k + 1] = Down(f[1..k], p[k + 1])
  <2>1. 1..k + 1 \in D /\ 1..k + 1 # {} /\ (1..k + 1) \ {k + 1} = 1..k
    BY <1>2
  <2>2. Max(1..k + 1) = k + 1
    BY MaxIs
  <2> QED BY <1>4, <2>1, <2>2 DEF Down
<1> DEFINE r == [k \in 0..Len(p) |-> f[1..k]]
<1>7. \A k \in 0..Len(p) - 1 : r[k + 1] = Down(r[k], p[k + 1])
  BY <1>2, <1>6
<1>8. r[0] = <<>> /\ r[Len(p)] = Normal(p)
  <2>1. 1..0 = {} /\ 0 \in 0..Len(p) /\ Len(p) \in 0..Len(p)
    BY <1>2
  <2>2. r[Len(p)] = f[DOMAIN p]
    BY <1>2, <2>1
  <2> QED BY <1>1, <1>5, <2>1, <2>2 DEF f
<1> HIDE DEF r
<1> DEFINE K == {k \in Nat : k <= Len(p) => r[k] \in Seq(Plain)}
<1>9. Nat \subseteq K
  <2>1. 0 \in K
    <3>1. <<>> \in Seq(Plain)
      OBVIOUS
    <3> QED BY <1>8, <3>1
  <2>2. ASSUME NEW k \in Nat, k \in K, k + 1 <= Len(p) PROVE r[k + 1] \in Seq(Plain)
    <3>1. k \in 0..Len(p) - 1 /\ k + 1 \in 1..Len(p) /\ r[k] \in Seq(Plain)
      BY <1>2, <2>2
    <3> QED BY <1>2, <1>7, <3>1, DownPlain
  <2>3. \A k \in Nat : k \in K => k + 1 \in K
    BY <2>2
  <2> HIDE DEF K
  <2> QED BY <2>1, <2>3, NatSets
<1>10. r \in [0..Len(p) -> Seq(Plain)]
  <2>1. \A k \in 0..Len(p) : k \in Nat /\ k <= Len(p) /\ k \in K
    BY <1>2, <1>9
  <2>2. \A k \in 0..Len(p) : r[k] \in Seq(Plain)
    BY <2>1
  <2> HIDE DEF K
  <2> QED BY <2>2 DEF r
<1> QED BY <1>7, <1>8, <1>10

LEMMA NormalIs ==
  ASSUME NEW p \in Seq(Names)
  PROVE  Normal(p) \in Seq(Plain)
<1>1. PICK r \in [0..Len(p) -> Seq(Plain)] : r[Len(p)] = Normal(p)
  BY NormalSteps
<1>2. Len(p) \in 0..Len(p)
  OBVIOUS
<1> QED BY <1>1, <1>2

\* There is one way to go through the names of a path.
LEMMA NormalBy ==
  ASSUME NEW p \in Seq(Names), NEW h, h[0] = <<>>,
         \A k \in 0..Len(p) - 1 : h[k + 1] = Down(h[k], p[k + 1])
  PROVE  h[Len(p)] = Normal(p)
<1>1. PICK r \in [0..Len(p) -> Seq(Plain)] :
        /\ r[0] = <<>> /\ r[Len(p)] = Normal(p)
        /\ \A k \in 0..Len(p) - 1 : r[k + 1] = Down(r[k], p[k + 1])
  BY NormalSteps
<1>2. Len(p) \in Nat
  OBVIOUS
<1> DEFINE K == {k \in Nat : k <= Len(p) => h[k] = r[k]}
<1>3. 0 \in K
  BY <1>1
<1>4. ASSUME NEW k \in Nat, k \in K PROVE k + 1 \in K
  <2> SUFFICES ASSUME k + 1 <= Len(p) PROVE h[k + 1] = r[k + 1]
    BY <1>2
  <2>1. k \in 0..Len(p) - 1 /\ h[k] = r[k]
    BY <1>2, <1>4
  <2> QED BY <1>1, <2>1
<1>5. Len(p) \in K
  <2> HIDE DEF K
  <2> QED BY <1>2, <1>3, <1>4, NatSets
<1> QED BY <1>1, <1>2, <1>5

LEMMA NormalOfPlain ==
  ASSUME NEW p \in Seq(Plain)
  PROVE  Normal(p) = p
<1> DEFINE h == [k \in 0..Len(p) |-> SubSeq(p, 1, k)]
<1>1. p \in Seq(Names) /\ Len(p) \in Nat
  BY DEF Plain
<1>2. h[0] = <<>>
  <2>1. 0 \in 0..Len(p) /\ SubSeq(p, 1, 0) = <<>>
    BY <1>1
  <2> QED BY <2>1
<1>3. ASSUME NEW k \in 0..Len(p) - 1 PROVE h[k + 1] = Down(h[k], p[k + 1])
  <2>1. k \in 0..Len(p) /\ k + 1 \in 0..Len(p) /\ k + 1 \in 1..Len(p)
    BY <1>1
  <2>2. p[k + 1] # ".."
    BY <2>1 DEF Plain
  <2>3. SubSeq(p, 1, k + 1) = Append(SubSeq(p, 1, k), p[k + 1])
    <3>1. /\ SubSeq(p, 1, k + 1) \in Seq(Plain) /\ Append(SubSeq(p, 1, k), p[k + 1]) \in Seq(Plain)
          /\ Len(SubSeq(p, 1, k + 1)) = k + 1 /\ Len(Append(SubSeq(p, 1, k), p[k + 1])) = k + 1
      BY <1>1, <2>1
    <3>2. \A i \in 1..k + 1 : SubSeq(p, 1, k + 1)[i] = Append(SubSeq(p, 1, k), p[k + 1])[i]
      BY <1>1, <2>1
    <3> QED BY <3>1, <3>2, SeqEqual
  <2> QED BY <2>1, <2>2, <2>3 DEF Down
<1>4. h[Len(p)] = Normal(p)
  <2> HIDE DEF h
  <2> QED BY <1>1, <1>2, <1>3, NormalBy
<1>5. Len(p) \in 0..Len(p) /\ SubSeq(p, 1, Len(p)) = p
  BY <1>1, SubSeqFull
<1> QED BY <1>4, <1>5

LEMMA NormalAppend ==
  ASSUME NEW p \in Seq(Names), NEW n \in Names
  PROVE  Normal(Append(p, n)) = Down(Normal(p), n)
<1>1. PICK r \in [0..Len(p) -> Seq(Plain)] :
        /\ r[0] = <<>> /\ r[Len(p)] = Normal(p)
        /\ \A k \in 0..Len(p) - 1 : r[k + 1] = Down(r[k], p[k + 1])
  BY NormalSteps
<1>2. PICK m \in Nat : m = Len(p)
  OBVIOUS
<1> DEFINE h == [k \in 0..m + 1 |-> IF k <= m THEN r[k] ELSE Down(Normal(p), n)]
<1>3. h[0] = <<>> /\ h[m + 1] = Down(Normal(p), n) /\ \A k \in 0..m : h[k] = r[k]
  <2>1. 0 \in 0..m /\ ~(m + 1 <= m) /\ m + 1 \in 0..m + 1
    OBVIOUS
  <2>2. \A k \in 0..m : k \in 0..m + 1 /\ k <= m
    OBVIOUS
  <2>3. \A k \in 0..m : h[k] = r[k]
    BY <2>2
  <2>4. h[m + 1] = Down(Normal(p), n)
    BY <2>1, Zenon
  <2> HIDE DEF h
  <2> QED BY <1>1, <2>1, <2>3, <2>4
<1>4. /\ Append(p, n) \in Seq(Names) /\ Len(Append(p, n)) = m + 1 /\ Append(p, n)[m + 1] = n
      /\ \A i \in 1..m : Append(p, n)[i] = p[i]
  BY <1>2
<1>5. ASSUME NEW k \in 0..m PROVE h[k + 1] = Down(h[k], Append(p, n)[k + 1])
  <2> HIDE DEF h
  <2>1. CASE k = m
    <3>1. h[k] = Normal(p)
      BY <1>1, <1>2, <1>3, <2>1
    <3> QED BY <1>3, <1>4, <2>1, <3>1
  <2>2. CASE k # m
    <3>1. k \in 0..m - 1 /\ k \in 0..m /\ k + 1 \in 1..m /\ k + 1 \in 0..m
      BY <2>2
    <3> QED BY <1>1, <1>2, <1>3, <1>4, <3>1
  <2> QED BY <2>1, <2>2
<1>6. h[m + 1] = Normal(Append(p, n))
  <2> HIDE DEF h
  <2>1. \A k \in 0..Len(Append(p, n)) - 1 : h[k + 1] = Down(h[k], Append(p, n)[k + 1])
    BY <1>4, <1>5
  <2> QED BY <1>3, <1>4, <2>1, NormalBy
<1> QED BY <1>3, <1>6

-----------------------------------------------------------------------------
(* Paths and what lies above them.                                         *)

\* The names of p behind a.
Rest(a, p) == SubSeq(p, Len(a) + 1, Len(p))

LEMMA LengthIs ==
  ASSUME NEW p \in Seq(Names)
  PROVE  Len(p) \in Nat /\ (p = <<>> <=> Len(p) = 0)
OBVIOUS

LEMMA PlainIs ==
  ASSUME NEW p
  PROVE  p \in Seq(Plain) <=> p \in Seq(Names) /\ \A i \in 1..Len(p) : p[i] # ".."
<1>1. ASSUME p \in Seq(Plain) PROVE p \in Seq(Names) /\ \A i \in 1..Len(p) : p[i] # ".."
  BY <1>1 DEF Plain
<1>2. ASSUME p \in Seq(Names), \A i \in 1..Len(p) : p[i] # ".." PROVE p \in Seq(Plain)
  <2>1. p \in [1..Len(p) -> Plain] /\ Len(p) \in Nat
    BY <1>2 DEF Plain
  <2> QED BY <2>1, SeqDef
<1> QED BY <1>1, <1>2

LEMMA PrefixIs ==
  ASSUME NEW s \in Seq(Names), NEW t \in Seq(Names)
  PROVE  IsPrefix(s, t) <=> Len(s) <= Len(t) /\ \A i \in 1..Len(s) : s[i] = t[i]
<1>1. PICK m, n : m = Len(s) /\ n = Len(t)
  OBVIOUS
<1>2. m \in Nat /\ n \in Nat /\ SubSeq(s, 1, m) = s
  BY <1>1, SubSeqFull
<1>3. CASE m <= n
  <2>1. /\ SubSeq(t, 1, m) \in Seq(Names) /\ Len(SubSeq(t, 1, m)) = m
        /\ \A i \in 1..m : SubSeq(t, 1, m)[i] = t[i]
    BY <1>1, <1>2, <1>3
  <2>2. s = SubSeq(t, 1, m) <=> \A i \in 1..m : s[i] = t[i]
    <3>1. ASSUME \A i \in 1..m : s[i] = t[i] PROVE s = SubSeq(t, 1, m)
      BY <1>1, <1>2, <2>1, <3>1, SeqEqual
    <3> QED BY <2>1, <3>1
  <2> QED BY <1>1, <1>2, <1>3, <2>2 DEF IsPrefix
<1> QED BY <1>1, <1>2, <1>3 DEF IsPrefix

LEMMA PrefixSame ==
  ASSUME NEW s \in Seq(Names), NEW t \in Seq(Names), IsPrefix(s, t), Len(s) = Len(t)
  PROVE  s = t
<1>1. \A i \in 1..Len(s) : s[i] = t[i]
  BY PrefixIs
<1> QED BY <1>1, SeqEqual

LEMMA PrefixTransitive ==
  ASSUME NEW r \in Seq(Names), NEW s \in Seq(Names), NEW t \in Seq(Names),
         IsPrefix(r, s), IsPrefix(s, t)
  PROVE  IsPrefix(r, t)
<1>1. Len(r) \in Nat /\ Len(s) \in Nat /\ Len(t) \in Nat
  BY LengthIs
<1>2. Len(r) <= Len(s) /\ \A i \in 1..Len(r) : r[i] = s[i]
  BY PrefixIs
<1>3. Len(s) <= Len(t) /\ \A i \in 1..Len(s) : s[i] = t[i]
  BY PrefixIs
<1>4. Len(r) <= Len(t) /\ \A i \in 1..Len(r) : r[i] = t[i]
  BY <1>1, <1>2, <1>3
<1> QED BY <1>4, PrefixIs

LEMMA PrefixesCompare ==
  ASSUME NEW r \in Seq(Names), NEW s \in Seq(Names), NEW t \in Seq(Names),
         IsPrefix(r, t), IsPrefix(s, t)
  PROVE  IsPrefix(r, s) \/ IsPrefix(s, r)
<1>1. Len(r) \in Nat /\ Len(s) \in Nat /\ Len(t) \in Nat
  BY LengthIs
<1>2. Len(r) <= Len(t) /\ \A i \in 1..Len(r) : r[i] = t[i]
  BY PrefixIs
<1>3. Len(s) <= Len(t) /\ \A i \in 1..Len(s) : s[i] = t[i]
  BY PrefixIs
<1>4. CASE Len(r) <= Len(s)
  <2>1. \A i \in 1..Len(r) : r[i] = s[i]
    BY <1>1, <1>2, <1>3, <1>4
  <2> QED BY <1>4, <2>1, PrefixIs
<1>5. CASE Len(s) <= Len(r)
  <2>1. \A i \in 1..Len(s) : s[i] = r[i]
    BY <1>1, <1>2, <1>3, <1>5
  <2> QED BY <1>5, <2>1, PrefixIs
<1> QED BY <1>1, <1>4, <1>5

LEMMA FrontIs ==
  ASSUME NEW p \in Seq(Names), p # <<>>
  PROVE  /\ Front(p) \in Seq(Names) /\ Len(Front(p)) = Len(p) - 1 /\ Last(p) \in Names
         /\ Front(p) # p /\ IsPrefix(Front(p), p) /\ p = Append(Front(p), Last(p))
         /\ p \in Seq(Plain) => Front(p) \in Seq(Plain) /\ Last(p) \in Plain
<1>1. PICK n : n = Len(p)
  OBVIOUS
<1>2. n \in Nat /\ n > 0
  BY <1>1
<1>3. /\ Front(p) \in Seq(Names) /\ Len(Front(p)) = n - 1 /\ Last(p) = p[n] /\ p[n] \in Names
      /\ \A i \in 1..n - 1 : Front(p)[i] = p[i]
  BY <1>1, <1>2 DEF Front, Last
<1>4. IsPrefix(Front(p), p)
  BY <1>1, <1>2, <1>3, PrefixIs
<1>5. p = Append(Front(p), Last(p))
  <2>1. PICK f : f = Front(p)
    OBVIOUS
  <2>2. Append(f, p[n]) \in Seq(Names) /\ Len(Append(f, p[n])) = n
    BY <1>2, <1>3, <2>1
  <2>3. \A i \in 1..n : Append(f, p[n])[i] = p[i]
    BY <1>2, <1>3, <2>1
  <2> QED BY <1>1, <1>3, <2>1, <2>2, <2>3, SeqEqual
<1>6. p \in Seq(Plain) => Front(p) \in Seq(Plain) /\ Last(p) \in Plain
  BY <1>1, <1>2 DEF Front, Last
<1> QED BY <1>1, <1>2, <1>3, <1>4, <1>5, <1>6

LEMMA PrefixFront ==
  ASSUME NEW a \in Seq(Names), NEW p \in Seq(Names), IsPrefix(a, p), a # p
  PROVE  p # <<>> /\ IsPrefix(a, Front(p)) /\ Len(a) < Len(p)
<1>1. Len(a) \in Nat /\ Len(p) \in Nat /\ Len(a) <= Len(p) /\ \A i \in 1..Len(a) : a[i] = p[i]
  BY LengthIs, PrefixIs
<1>2. Len(a) < Len(p)
  BY <1>1, PrefixSame
<1>3. p # <<>>
  BY <1>1, <1>2, LengthIs
<1>4. Front(p) \in Seq(Names) /\ Len(Front(p)) = Len(p) - 1 /\ IsPrefix(Front(p), p)
  BY <1>3, FrontIs
<1>5. \A i \in 1..Len(p) - 1 : Front(p)[i] = p[i]
  BY <1>4, PrefixIs
<1>6. Len(a) <= Len(p) - 1 /\ \A i \in 1..Len(a) : a[i] = Front(p)[i]
  BY <1>1, <1>2, <1>5
<1> QED BY <1>2, <1>3, <1>4, <1>6, PrefixIs

LEMMA AncestorsAre ==
  ASSUME NEW p \in Seq(Names), NEW q
  PROVE  q \in Ancestors(p) <=> q \in Seq(Names) /\ IsPrefix(q, p)
<1>1. PICK n : n = Len(p)
  OBVIOUS
<1>2. n \in Nat
  BY <1>1
<1>3. ASSUME NEW m \in 0..n, q = SubSeq(p, 1, m) PROVE q \in Seq(Names) /\ IsPrefix(q, p)
  <2>1. q \in Seq(Names) /\ Len(q) = m /\ \A i \in 1..m : q[i] = p[i]
    BY <1>1, <1>2, <1>3
  <2> QED BY <1>1, <1>2, <2>1, PrefixIs
<1>4. ASSUME q \in Seq(Names), IsPrefix(q, p) PROVE q \in Ancestors(p)
  <2>1. PICK m : m = Len(q)
    OBVIOUS
  <2>2. m \in 0..n
    BY <1>1, <1>2, <1>4, <2>1, LengthIs DEF IsPrefix
  <2>3. SubSeq(q, 1, m) = q
    BY <1>4, <2>1, SubSeqFull
  <2>4. q = SubSeq(p, 1, m)
    BY <1>4, <2>1, <2>3 DEF IsPrefix
  <2> QED BY <1>1, <2>2, <2>4 DEF Ancestors
<1>5. q \in Ancestors(p) => \E m \in 0..n : q = SubSeq(p, 1, m)
  BY <1>1 DEF Ancestors
<1> QED BY <1>3, <1>4, <1>5

\* What lies below a path is that path and a rest.
LEMMA RestIs ==
  ASSUME NEW a \in Seq(Names), NEW p \in Seq(Names), IsPrefix(a, p)
  PROVE  /\ Rest(a, p) \in Seq(Names) /\ p = a \o Rest(a, p)
         /\ p \in Seq(Plain) => Rest(a, p) \in Seq(Plain)
<1>1. PICK m, n, r : m = Len(a) /\ n = Len(p) /\ r = Rest(a, p)
  OBVIOUS
<1>2. m \in Nat /\ n \in Nat /\ m <= n /\ \A i \in 1..m : a[i] = p[i]
  BY <1>1, PrefixIs
<1>3. /\ r \in Seq(Names) /\ Len(r) = n - m /\ \A i \in 1..n - m : r[i] = p[m + i]
  BY <1>1, <1>2 DEF Rest
<1>4. p = a \o r
  <2>1. a \o r \in Seq(Names) /\ Len(a \o r) = n
    BY <1>1, <1>2, <1>3
  <2>2. ASSUME NEW i \in 1..n PROVE (a \o r)[i] = p[i]
    <3>1. CASE i <= m
      BY <1>1, <1>2, <1>3, <3>1
    <3>2. CASE i > m
      <4>1. i - m \in 1..n - m /\ m + (i - m) = i
        BY <1>2, <3>2
      <4>2. (a \o r)[i] = r[i - m]
        BY <1>1, <1>2, <1>3, <3>2
      <4> QED BY <1>3, <4>1, <4>2
    <3>3. i <= m \/ i > m
      BY <1>2
    <3> QED BY <3>1, <3>2, <3>3, Zenon
  <2> QED BY <1>1, <2>1, <2>2, SeqEqual
<1>5. p \in Seq(Plain) => r \in Seq(Plain)
  <2> SUFFICES ASSUME p \in Seq(Plain) PROVE \A i \in 1..Len(r) : r[i] # ".."
    BY <1>3, PlainIs
  <2>1. \A i \in 1..n : p[i] # ".."
    BY <1>1, PlainIs
  <2>2. ASSUME NEW i \in 1..Len(r) PROVE r[i] # ".."
    <3>1. i \in 1..n - m /\ m + i \in 1..n
      BY <1>2, <1>3
    <3> QED BY <1>3, <2>1, <3>1
  <2> QED BY <2>2
<1> QED BY <1>1, <1>3, <1>4, <1>5

LEMMA ConcatIs ==
  ASSUME NEW a \in Seq(Names), NEW r \in Seq(Names)
  PROVE  /\ a \o r \in Seq(Names) /\ Len(a \o r) = Len(a) + Len(r)
         /\ IsPrefix(a, a \o r) /\ Rest(a, a \o r) = r
         /\ a \in Seq(Plain) /\ r \in Seq(Plain) => a \o r \in Seq(Plain)
         /\ r # <<>> => a \o r # <<>> /\ Front(a \o r) = a \o Front(r) /\ Last(a \o r) = Last(r)
<1>1. PICK m, n, p : m = Len(a) /\ n = Len(r) /\ p = a \o r
  OBVIOUS
<1>2. /\ m \in Nat /\ n \in Nat /\ p \in Seq(Names) /\ Len(p) = m + n
      /\ (\A i \in 1..m : p[i] = a[i]) /\ \A i \in 1..n : p[m + i] = r[i]
  BY <1>1
<1>3. IsPrefix(a, p)
  <2>1. Len(a) <= Len(p) /\ \A i \in 1..Len(a) : a[i] = p[i]
    BY <1>1, <1>2
  <2> QED BY <1>2, <2>1, PrefixIs
<1>4. Rest(a, p) = r
  <2>1. Rest(a, p) \in Seq(Names) /\ Len(Rest(a, p)) = n /\ \A i \in 1..n : Rest(a, p)[i] = p[m + i]
    BY <1>1, <1>2 DEF Rest
  <2> QED BY <1>1, <1>2, <2>1, SeqEqual
<1>5. a \in Seq(Plain) /\ r \in Seq(Plain) => p \in Seq(Plain)
  BY <1>1
<1>6. ASSUME r # <<>> PROVE p # <<>> /\ Front(p) = a \o Front(r) /\ Last(p) = Last(r)
  <2>1. n > 0
    BY <1>1, <1>6
  <2>2. p # <<>>
    BY <1>2, <2>1
  <2>3. /\ Front(p) \in Seq(Names) /\ Len(Front(p)) = m + n - 1
        /\ \A i \in 1..m + n - 1 : Front(p)[i] = p[i]
    BY <1>2, <2>1 DEF Front
  <2>4. /\ Front(r) \in Seq(Names) /\ Len(Front(r)) = n - 1
        /\ \A i \in 1..n - 1 : Front(r)[i] = r[i]
    BY <1>1, <1>2, <2>1 DEF Front
  <2>5. PICK f : f = Front(r)
    OBVIOUS
  <2>6. a \o f \in Seq(Names) /\ Len(a \o f) = m + n - 1
    <3>1. f \in Seq(Names) /\ Len(f) = n - 1
      BY <2>4, <2>5
    <3>2. a \o f \in Seq(Names) /\ Len(a \o f) = Len(a) + Len(f)
      BY <3>1
    <3> QED BY <1>1, <1>2, <3>1, <3>2
  <2>7. ASSUME NEW i \in 1..m + n - 1 PROVE (a \o f)[i] = p[i]
    <3>1. CASE i <= m
      BY <1>1, <1>2, <2>4, <2>5, <3>1
    <3>2. CASE i > m
      <4>1. i - m \in 1..n - 1 /\ i - m \in 1..n /\ m + (i - m) = i
        BY <1>2, <3>2
      <4>2. (a \o f)[i] = f[i - m]
        BY <1>1, <1>2, <2>4, <2>5, <3>2
      <4> QED BY <1>2, <2>4, <2>5, <4>1, <4>2
    <3>3. i <= m \/ i > m
      BY <1>2
    <3> QED BY <3>1, <3>2, <3>3, Zenon
  <2>8. Front(p) = a \o f
    BY <2>3, <2>6, <2>7, SeqEqual
  <2>9. Last(p) = Last(r)
    BY <1>1, <1>2, <2>1 DEF Last
  <2> QED BY <2>2, <2>5, <2>8, <2>9
<1> QED BY <1>1, <1>2, <1>3, <1>4, <1>5, <1>6

-----------------------------------------------------------------------------
(* Trees.                                                                  *)

\* A tree of normal paths.
IsTree(t) ==
  /\ Rooted(t) /\ DOMAIN t \subseteq Seq(Plain)
  /\ \A p \in DOMAIN t : t[p] \in Kinds

\* The tree t has the same at p as the tree of the server; or a directory that is new.
Same(t, p) ==
  /\ p \in DOMAIN tree <=> p \in DOMAIN t
  /\ p \in DOMAIN tree => tree[p] = t[p]
New(t, p) == p \notin DOMAIN tree /\ p \in DOMAIN t /\ t[p] = Dir

LEMMA PlainAre == Seq(Plain) \subseteq Seq(Names)
BY PlainIs

LEMMA RootedAt ==
  ASSUME NEW t, IsTree(t), NEW p \in DOMAIN t, p # <<>>
  PROVE  /\ p \in Seq(Plain) /\ p \in Seq(Names) /\ Front(p) \in DOMAIN t /\ t[Front(p)] = Dir
         /\ Front(p) \in Seq(Plain) /\ Front(p) # p
BY PlainAre, FrontIs DEF IsTree, Rooted

\* Whatever lies above an entry is a directory.
LEMMA TreeAbove ==
  ASSUME NEW t, IsTree(t), NEW q \in DOMAIN t, NEW p \in Seq(Names), IsPrefix(p, q), p # q
  PROVE  p \in DOMAIN t /\ t[p] = Dir
<1> DEFINE Far(x, k) == IsPrefix(p, x) /\ p # x /\ Len(x) = Len(p) + k
           Held == p \in DOMAIN t /\ t[p] = Dir
           K == {k \in Nat : (\E x \in DOMAIN t : Far(x, k)) => Held}
<1>1. DOMAIN t \subseteq Seq(Names) /\ Len(p) \in Nat
  BY PlainAre DEF IsTree
<1>2. 0 \in K
  <2>1. \A x \in DOMAIN t : ~Far(x, 0)
    BY <1>1, PrefixSame
  <2> QED BY <2>1
<1>3. ASSUME NEW k \in Nat, k \in K PROVE k + 1 \in K
  <2> SUFFICES ASSUME NEW x \in DOMAIN t, Far(x, k + 1) PROVE Held
    <3> HIDE DEF Far, Held
    <3>1. k + 1 \in Nat
      OBVIOUS
    <3> QED BY <3>1
  <2>1. x \in Seq(Names)
    BY <1>1
  <2>2. x # <<>> /\ IsPrefix(p, Front(x))
    BY <2>1, PrefixFront
  <2>3. Front(x) \in DOMAIN t /\ t[Front(x)] = Dir
    BY <2>2, RootedAt
  <2>4. Len(Front(x)) = Len(p) + k
    BY <1>1, <2>1, <2>2, FrontIs
  <2>5. CASE Front(x) = p
    BY <2>3, <2>5
  <2>6. CASE Front(x) # p
    <3>1. Far(Front(x), k)
      BY <2>2, <2>4, <2>6
    <3> QED BY <1>3, <2>3, <3>1
  <2> QED BY <2>5, <2>6
<1>4. q \in Seq(Names) /\ Len(q) \in Nat /\ Len(p) < Len(q)
  BY <1>1, PrefixFront
<1>5. Len(q) - Len(p) \in Nat /\ Far(q, Len(q) - Len(p))
  BY <1>1, <1>4
<1> HIDE DEF Far, Held
<1>6. Len(q) - Len(p) \in K
  <2> HIDE DEF K
  <2> QED BY <1>2, <1>3, <1>5, NatSets
<1> QED BY <1>5, <1>6 DEF Held

LEMMA KindsAre == Dir \in Kinds /\ Empty \in Kinds /\ Empty # Dir
BY DEF Kinds, Dir, Empty

LEMMA MadeDirs ==
  ASSUME IsTree(tree), NEW d \in Seq(Plain), CanMakeDirs(d)
  PROVE  /\ IsTree(MakeDirs(d)) /\ d \in DOMAIN MakeDirs(d) /\ MakeDirs(d)[d] = Dir
         /\ DOMAIN tree \subseteq DOMAIN MakeDirs(d)
         /\ \A q \in DOMAIN MakeDirs(d) :
              Same(MakeDirs(d), q) \/ (New(MakeDirs(d), q) /\ IsPrefix(q, d))
<1> DEFINE t == MakeDirs(d)
<1>1. d \in Seq(Names)
  BY PlainAre
<1>2. /\ DOMAIN t = DOMAIN tree \cup Ancestors(d)
      /\ \A q \in DOMAIN t : t[q] = IF q \in DOMAIN tree THEN tree[q] ELSE Dir
  BY DEF MakeDirs, Over
<1>3. \A q \in Ancestors(d) : q \in Seq(Plain) /\ IsPrefix(q, d) /\ t[q] = Dir
  <2> SUFFICES ASSUME NEW q \in Ancestors(d) PROVE q \in Seq(Plain) /\ IsPrefix(q, d) /\ t[q] = Dir
    OBVIOUS
  <2>1. q \in Seq(Names) /\ IsPrefix(q, d)
    BY <1>1, AncestorsAre
  <2>2. Len(q) \in Nat /\ Len(d) \in Nat /\ Len(q) <= Len(d) /\ \A i \in 1..Len(q) : q[i] = d[i]
    BY <1>1, <2>1, LengthIs, PrefixIs
  <2>3. \A i \in 1..Len(q) : q[i] # ".."
    BY <2>2, PlainIs
  <2>4. q \in Seq(Plain)
    BY <2>1, <2>3, PlainIs
  <2>5. t[q] = Dir
    BY <1>2 DEF CanMakeDirs
  <2> QED BY <2>1, <2>4, <2>5
<1>4. d \in Ancestors(d)
  <2>1. Len(d) \in Nat
    BY <1>1
  <2>2. IsPrefix(d, d)
    BY <1>1, <2>1, PrefixIs
  <2> QED BY <1>1, <2>2, AncestorsAre
<1> HIDE DEF t
<1>5. ASSUME NEW q \in DOMAIN t PROVE Same(t, q) \/ (New(t, q) /\ IsPrefix(q, d))
  <2>1. CASE q \in DOMAIN tree
    BY <1>2, <2>1 DEF Same
  <2>2. CASE q \notin DOMAIN tree
    <3>1. q \in Ancestors(d)
      BY <1>2, <2>2
    <3> QED BY <1>3, <2>2, <3>1 DEF New
  <2> QED BY <2>1, <2>2
<1>6. DOMAIN t \subseteq Seq(Plain) /\ \A q \in DOMAIN t : t[q] \in Kinds
  BY <1>2, <1>3, KindsAre DEF IsTree
<1>7. <<>> \in DOMAIN t /\ t[<<>>] = Dir
  BY <1>2 DEF IsTree, Rooted
<1>8. ASSUME NEW q \in DOMAIN t, q # <<>> PROVE Front(q) \in DOMAIN t /\ t[Front(q)] = Dir
  <2>1. CASE q \in DOMAIN tree
    BY <1>2, <1>8, <2>1, RootedAt
  <2>2. CASE q \in Ancestors(d)
    <3>1. q \in Seq(Names) /\ IsPrefix(q, d)
      BY <1>1, <2>2, AncestorsAre
    <3>2. Front(q) \in Seq(Names) /\ IsPrefix(Front(q), q)
      BY <1>8, <3>1, FrontIs
    <3>3. Front(q) \in Ancestors(d)
      BY <1>1, <3>1, <3>2, PrefixTransitive, AncestorsAre
    <3> QED BY <1>2, <1>3, <3>3
  <2> QED BY <1>2, <2>1, <2>2
<1>9. IsTree(t)
  BY <1>6, <1>7, <1>8 DEF IsTree, Rooted
<1>10. DOMAIN tree \subseteq DOMAIN t /\ d \in DOMAIN t /\ t[d] = Dir
  BY <1>2, <1>3, <1>4
<1> QED BY <1>5, <1>9, <1>10 DEF t

LEMMA CreatedIs ==
  ASSUME IsTree(tree), NEW p \in Seq(Plain), p # <<>>, CanMakeDirs(Front(p)), ~IsDir(p),
         NEW t, t = Created(p)
  PROVE  /\ IsTree(t) /\ DOMAIN tree \subseteq DOMAIN t
         /\ \A q \in DOMAIN t : Same(t, q) \/ q = p \/ (New(t, q) /\ IsPrefix(q, p))
<1>1. /\ p \in Seq(Names) /\ Front(p) \in Seq(Plain) /\ Front(p) \in Seq(Names)
      /\ IsPrefix(Front(p), p) /\ Front(p) # p
  BY FrontIs, PlainAre
<1>2. PICK m : m = MakeDirs(Front(p))
  OBVIOUS
<1>3. /\ IsTree(m) /\ Front(p) \in DOMAIN m /\ m[Front(p)] = Dir /\ DOMAIN tree \subseteq DOMAIN m
      /\ \A q \in DOMAIN m : Same(m, q) \/ (New(m, q) /\ IsPrefix(q, Front(p)))
  BY <1>1, <1>2, MadeDirs
<1>4. /\ DOMAIN t = DOMAIN m \cup {p}
      /\ \A q \in DOMAIN t : t[q] = IF q = p THEN Empty ELSE m[q]
  BY <1>2 DEF Created, Over
<1>5. \A q \in DOMAIN t : Same(t, q) \/ q = p \/ (New(t, q) /\ IsPrefix(q, p))
  <2> SUFFICES ASSUME NEW q \in DOMAIN t, q # p PROVE Same(t, q) \/ (New(t, q) /\ IsPrefix(q, p))
    BY Zenon
  <2>1. q \in DOMAIN m /\ t[q] = m[q] /\ q \in Seq(Names)
    BY <1>3, <1>4, PlainAre DEF IsTree
  <2>2. CASE Same(m, q)
    <3>1. q \in DOMAIN tree /\ tree[q] = m[q]
      BY <2>1, <2>2 DEF Same
    <3> QED BY <2>1, <3>1 DEF Same
  <2>3. CASE New(m, q) /\ IsPrefix(q, Front(p))
    <3>1. IsPrefix(q, p)
      BY <1>1, <2>1, <2>3, PrefixTransitive
    <3> QED BY <2>1, <2>3, <3>1 DEF New
  <2> QED BY <1>3, <2>1, <2>2, <2>3
<1>6. DOMAIN t \subseteq Seq(Plain) /\ \A q \in DOMAIN t : t[q] \in Kinds
  BY <1>3, <1>4, KindsAre DEF IsTree
<1>7. <<>> \in DOMAIN t /\ t[<<>>] = Dir
  BY <1>3, <1>4 DEF IsTree, Rooted
<1>8. ASSUME NEW q \in DOMAIN t, q # <<>> PROVE Front(q) \in DOMAIN t /\ t[Front(q)] = Dir
  <2>1. CASE q = p
    BY <1>1, <1>3, <1>4, <2>1
  <2>2. CASE q # p
    <3>1. q \in DOMAIN m /\ q \in Seq(Names)
      BY <1>3, <1>4, <2>2, PlainAre DEF IsTree
    <3>2. Front(q) \in DOMAIN m /\ m[Front(q)] = Dir
      BY <1>3, <1>8, <3>1, RootedAt
    <3>3. Front(q) # p
      <4> SUFFICES ASSUME Front(q) = p PROVE FALSE
        OBVIOUS
      <4>1. CASE p \in DOMAIN tree
        <5>1. m[p] = tree[p]
          BY <1>3, <3>2, <4>1 DEF Same, New
        <5> QED BY <3>2, <4>1, <5>1, NormalOfPlain DEF IsDir, IsEntry
      <4>2. CASE p \notin DOMAIN tree
        <5>1. IsPrefix(p, Front(p))
          BY <1>3, <3>2, <4>2 DEF Same
        <5>2. Len(p) <= Len(Front(p))
          BY <5>1 DEF IsPrefix
        <5>3. Len(Front(p)) = Len(p) - 1 /\ Len(p) \in Nat
          BY <1>1, FrontIs, LengthIs
        <5> QED BY <5>2, <5>3
      <4> QED BY <4>1, <4>2
    <3> QED BY <1>4, <3>2, <3>3
  <2> QED BY <2>1, <2>2
<1>9. IsTree(t)
  BY <1>6, <1>7, <1>8 DEF IsTree, Rooted
<1> QED BY <1>3, <1>4, <1>5, <1>9

LEMMA UnderIs ==
  ASSUME IsTree(tree), NEW p \in Seq(Names)
  PROVE  /\ Under(p) \subseteq DOMAIN tree
         /\ \A q \in DOMAIN tree : q \in Under(p) <=> IsPrefix(p, q)
         /\ \A q \in DOMAIN tree : q # <<>> /\ Front(q) \in Under(p) => q \in Under(p)
<1>1. ASSUME NEW q \in DOMAIN tree, q # <<>>, Front(q) \in Under(p) PROVE q \in Under(p)
  <2>1. q \in Seq(Names) /\ Front(q) \in Seq(Names) /\ IsPrefix(Front(q), q)
    BY <1>1, RootedAt, FrontIs, PlainAre
  <2>2. IsPrefix(p, Front(q))
    BY <1>1 DEF Under
  <2> QED BY <2>1, <2>2, PrefixTransitive DEF Under
<1> QED BY <1>1 DEF Under

\* Without some entries below a path, the root not among them.
LEMMA RemovedSome ==
  ASSUME IsTree(tree), NEW p \in Seq(Names), NEW gone \in SUBSET Under(p),
         NEW t, t = Restrict(tree, DOMAIN tree \ gone)
  PROVE  /\ Rooted(t) => IsTree(t)
         /\ \A q \in DOMAIN tree \cup DOMAIN t : Same(t, q) \/ IsPrefix(p, q)
<1>1. DOMAIN t = DOMAIN tree \ gone /\ \A q \in DOMAIN t : t[q] = tree[q]
  BY DEF Restrict
<1>2. \A q \in gone : IsPrefix(p, q)
  BY DEF Under
<1> QED BY <1>1, <1>2 DEF IsTree, Same

LEMMA RemovedIs ==
  ASSUME IsTree(tree), NEW p \in Seq(Plain), p # <<>>
  PROVE  /\ IsTree(Removed(p))
         /\ \A q \in DOMAIN tree \cup DOMAIN Removed(p) : Same(Removed(p), q) \/ IsPrefix(p, q)
<1>1. PICK t : t = Removed(p)
  OBVIOUS
<1>2. p \in Seq(Names)
  BY PlainAre
<1>3. DOMAIN t = DOMAIN tree \ Under(p) /\ \A q \in DOMAIN t : t[q] = tree[q]
  BY <1>1 DEF Removed, Restrict
<1>4. <<>> \notin Under(p)
  <2>1. Len(p) \in Nat /\ Len(p) # 0 /\ Len(<<>>) = 0
    BY <1>2
  <2> QED BY <2>1 DEF Under, IsPrefix
<1>5. <<>> \in DOMAIN t /\ t[<<>>] = Dir
  BY <1>3, <1>4 DEF IsTree, Rooted
<1>6. ASSUME NEW q \in DOMAIN t, q # <<>> PROVE Front(q) \in DOMAIN t /\ t[Front(q)] = Dir
  BY <1>2, <1>3, <1>6, UnderIs, RootedAt
<1>7. Rooted(t)
  BY <1>5, <1>6 DEF Rooted
<1> QED BY <1>1, <1>2, <1>7, RemovedSome DEF Removed

LEMMA PartlyRemovedIs ==
  ASSUME IsTree(tree), NEW p \in Seq(Names), NEW t \in PartlyRemoved(p)
  PROVE  /\ IsTree(t)
         /\ \A q \in DOMAIN tree \cup DOMAIN t : Same(t, q) \/ IsPrefix(p, q)
<1>1. PICK gone \in SUBSET (Under(p) \ {p}) : t = Restrict(tree, DOMAIN tree \ gone) /\ Rooted(t)
  BY DEF PartlyRemoved
<1>2. gone \in SUBSET Under(p)
  OBVIOUS
<1> QED BY <1>1, <1>2, RemovedSome

\* What is grafted under "to" is what lies under "from".
IsGraft(g, from, to) ==
  /\ DOMAIN g \subseteq Seq(Plain)
  /\ \A q \in DOMAIN g :
       /\ IsPrefix(to, q) /\ from \o Rest(to, q) \in DOMAIN tree
       /\ Rest(to, q) \in Seq(Plain) /\ q = to \o Rest(to, q)
       /\ g[q] = tree[from \o Rest(to, q)]
  /\ \A r \in Seq(Plain) : from \o r \in DOMAIN tree => to \o r \in DOMAIN g

LEMMA GraftedIs ==
  ASSUME IsTree(tree), NEW from \in Seq(Plain), NEW to \in Seq(Plain)
  PROVE  IsGraft(Grafted(from, to), from, to)
<1> DEFINE g == Grafted(from, to)
<1>1. from \in Seq(Names) /\ to \in Seq(Names)
  BY PlainAre
<1>2. /\ DOMAIN g = {to \o Rest(from, p) : p \in Under(from)}
      /\ \A q \in DOMAIN g : g[q] = tree[from \o Rest(to, q)]
  BY DEF Grafted, Rest
<1> HIDE DEF g
<1>3. ASSUME NEW p \in Under(from)
      PROVE  /\ Rest(from, p) \in Seq(Plain) /\ from \o Rest(from, p) = p /\ p \in DOMAIN tree
             /\ to \o Rest(from, p) \in Seq(Plain) /\ IsPrefix(to, to \o Rest(from, p))
             /\ Rest(to, to \o Rest(from, p)) = Rest(from, p)
  <2>1. p \in DOMAIN tree /\ p \in Seq(Plain) /\ IsPrefix(from, p)
    BY DEF Under, IsTree
  <2>2. Rest(from, p) \in Seq(Plain) /\ from \o Rest(from, p) = p
    BY <1>1, <2>1, PlainAre, RestIs
  <2> QED BY <1>1, <2>1, <2>2, PlainAre, ConcatIs
<1>4. ASSUME NEW q \in DOMAIN g
      PROVE  /\ q \in Seq(Plain) /\ IsPrefix(to, q) /\ from \o Rest(to, q) \in DOMAIN tree
             /\ Rest(to, q) \in Seq(Plain) /\ q = to \o Rest(to, q)
             /\ g[q] = tree[from \o Rest(to, q)]
  <2>1. PICK p \in Under(from) : q = to \o Rest(from, p)
    BY <1>2
  <2> QED BY <1>2, <1>3, <2>1
<1>5. ASSUME NEW r \in Seq(Plain), from \o r \in DOMAIN tree PROVE to \o r \in DOMAIN g
  <2>1. IsPrefix(from, from \o r) /\ Rest(from, from \o r) = r
    BY <1>1, PlainAre, ConcatIs
  <2>2. from \o r \in Under(from)
    BY <1>5, <2>1 DEF Under
  <2> QED BY <1>2, <2>1, <2>2
<1>6. IsGraft(g, from, to)
  BY <1>4, <1>5 DEF IsGraft
<1> QED BY <1>6 DEF g

\* Below its top, what is grafted has its directories with it.
LEMMA GraftedBelow ==
  ASSUME IsTree(tree), NEW from \in Seq(Plain), NEW to \in Seq(Plain),
         NEW g, IsGraft(g, from, to), NEW q \in DOMAIN g, q # to
  PROVE  q # <<>> /\ Front(q) \in DOMAIN g /\ g[Front(q)] = Dir
<1>1. PICK r : r = Rest(to, q)
  OBVIOUS
<1>1a. /\ IsPrefix(to, q) /\ from \o r \in DOMAIN tree /\ r \in Seq(Plain) /\ q = to \o r
       /\ q \in Seq(Plain)
  BY <1>1 DEF IsGraft
<1>2. from \in Seq(Names) /\ to \in Seq(Names) /\ q \in Seq(Names) /\ r \in Seq(Names)
  BY <1>1a, PlainAre
<1>3. r # <<>>
  <2> SUFFICES ASSUME r = <<>> PROVE FALSE
    OBVIOUS
  <2>1. to \o <<>> = to
    BY <1>2
  <2> QED BY <1>1a, <2>1
<1>4. /\ q # <<>> /\ Front(q) = to \o Front(r)
      /\ from \o r # <<>> /\ Front(from \o r) = from \o Front(r)
  BY <1>1a, <1>2, <1>3, ConcatIs
<1>5. Front(r) \in Seq(Plain) /\ Front(r) \in Seq(Names)
  BY <1>1a, <1>2, <1>3, FrontIs
<1>6. from \o Front(r) \in DOMAIN tree /\ tree[from \o Front(r)] = Dir
  BY <1>1a, <1>4, RootedAt
<1>7. Front(q) \in DOMAIN g
  BY <1>4, <1>5, <1>6 DEF IsGraft
<1>8. Rest(to, Front(q)) = Front(r)
  BY <1>2, <1>4, <1>5, ConcatIs
<1> QED BY <1>4, <1>6, <1>7, <1>8 DEF IsGraft

LEMMA RenamedIs ==
  ASSUME IsTree(tree), NEW from \in Seq(Plain), NEW to \in Seq(Plain), CanRename(from, to),
         NEW t, t = Renamed(from, to)
  PROVE  /\ IsTree(t)
         /\ \A q \in DOMAIN tree \cup DOMAIN t : Same(t, q) \/ IsPrefix(from, q) \/ IsPrefix(to, q)
<1>1. PICK g : g = Grafted(from, to)
  OBVIOUS
<1>2. /\ DOMAIN t = DOMAIN g \cup (DOMAIN tree \ Under(from))
      /\ \A q \in DOMAIN t : t[q] = IF q \in DOMAIN g THEN g[q] ELSE tree[q]
  BY <1>1 DEF Renamed, Over, Restrict
<1>3. /\ from \in Seq(Names) /\ to \in Seq(Names) /\ Front(to) \in Seq(Names)
      /\ from \in DOMAIN tree /\ from # <<>> /\ to # <<>> /\ Front(to) \in Seq(Plain)
      /\ ~IsStrictPrefix(from, to)
      /\ to \in DOMAIN tree => to = from \/ (tree[from] # Dir /\ tree[to] # Dir)
  BY PlainAre, FrontIs DEF CanRename
<1>4. Front(to) \in DOMAIN tree /\ tree[Front(to)] = Dir
  BY <1>3, NormalOfPlain DEF CanRename, IsDir, IsEntry
<1>5. /\ DOMAIN g \subseteq Seq(Plain)
      /\ \A q \in DOMAIN g : IsPrefix(to, q) /\ from \o Rest(to, q) \in DOMAIN tree
                             /\ g[q] = tree[from \o Rest(to, q)]
      /\ IsGraft(g, from, to)
  <2>1. IsGraft(g, from, to)
    BY <1>1, GraftedIs
  <2> QED BY <2>1 DEF IsGraft
<1>6. \A q \in Seq(Names) : Len(q) < Len(to) => q \notin DOMAIN g
  <2> SUFFICES ASSUME NEW q \in Seq(Names), Len(q) < Len(to), IsPrefix(to, q) PROVE FALSE
    BY <1>5
  <2>1. Len(to) <= Len(q) /\ Len(to) \in Nat /\ Len(q) \in Nat
    BY <1>3, LengthIs DEF IsPrefix
  <2> QED BY <2>1
<1>7. <<>> \in DOMAIN t /\ t[<<>>] = Dir
  <2>1. Len(<<>>) = 0 /\ <<>> \in Seq(Names) /\ Len(to) > 0 /\ Len(from) > 0
    BY <1>3
  <2>2. <<>> \notin DOMAIN g
    BY <1>6, <2>1
  <2>3. ~IsPrefix(from, <<>>)
    <3>1. Len(from) \in Nat
      BY PlainAre, LengthIs
    <3> QED BY <2>1, <3>1 DEF IsPrefix
  <2>4. <<>> \notin Under(from)
    BY <2>3 DEF Under
  <2> QED BY <1>2, <2>2, <2>4 DEF IsTree, Rooted
<1>8. ASSUME NEW q \in DOMAIN t, q # <<>> PROVE Front(q) \in DOMAIN t /\ t[Front(q)] = Dir
  <2>1. CASE q \in DOMAIN g /\ q = to
    <3>1. Front(to) \notin DOMAIN g
      <4>1. Len(Front(to)) < Len(to)
        BY <1>3, FrontIs, LengthIs
      <4> QED BY <1>3, <1>6, <4>1
    <3>2. Front(to) \notin Under(from)
      <4> SUFFICES ASSUME IsPrefix(from, Front(to)) PROVE FALSE
        BY DEF Under
      <4>1. IsPrefix(from, to)
        BY <1>3, FrontIs, PrefixTransitive
      <4>2. from = to
        BY <1>3, <4>1 DEF IsStrictPrefix
      <4>3. Len(from) <= Len(Front(to)) /\ Len(Front(to)) = Len(to) - 1 /\ Len(to) \in Nat
        BY <1>3, FrontIs, LengthIs DEF IsPrefix
      <4> QED BY <4>2, <4>3
    <3> QED BY <1>2, <1>4, <2>1, <3>1, <3>2
  <2>2. CASE q \in DOMAIN g /\ q # to
    <3>1. Front(q) \in DOMAIN g /\ g[Front(q)] = Dir
      BY <1>5, <2>2, GraftedBelow
    <3> QED BY <1>2, <3>1
  <2>3. CASE q \in DOMAIN tree \ Under(from)
    <3>1. /\ Front(q) \in DOMAIN tree /\ tree[Front(q)] = Dir /\ Front(q) \notin Under(from)
          /\ q \in Seq(Names) /\ Front(q) \in Seq(Names) /\ ~IsPrefix(from, q)
      BY <1>3, <1>8, <2>3, UnderIs, RootedAt, PlainAre
    <3>2. Front(q) \notin DOMAIN g
      <4> SUFFICES ASSUME IsPrefix(to, Front(q)) PROVE FALSE
        BY <1>5
      <4>1. to \in DOMAIN tree /\ tree[to] = Dir
        BY <1>3, <3>1, TreeAbove
      <4>2. to = from
        BY <1>3, <4>1
      <4>3. IsPrefix(to, q)
        BY <1>3, <1>8, <3>1, FrontIs, PrefixTransitive
      <4> QED BY <3>1, <4>2, <4>3
    <3> QED BY <1>2, <3>1, <3>2
  <2> QED BY <1>2, <2>1, <2>2, <2>3
<1>9. \A q \in DOMAIN tree \cup DOMAIN t : Same(t, q) \/ IsPrefix(from, q) \/ IsPrefix(to, q)
  <2> SUFFICES ASSUME NEW q \in DOMAIN tree \cup DOMAIN t, ~IsPrefix(from, q), ~IsPrefix(to, q)
               PROVE  Same(t, q)
    BY Zenon
  <2>1. q \notin DOMAIN g /\ q \notin Under(from)
    BY <1>5 DEF Under
  <2> QED BY <1>2, <2>1 DEF Same
<1>10. DOMAIN t \subseteq Seq(Plain) /\ \A q \in DOMAIN t : t[q] \in Kinds
  BY <1>2, <1>5 DEF IsTree
<1> QED BY <1>7, <1>8, <1>9, <1>10 DEF IsTree, Rooted

LEMMA AppendIs ==
  ASSUME NEW q \in Seq(Plain), NEW n \in Plain
  PROVE  /\ Append(q, n) \in Seq(Plain) /\ Len(Append(q, n)) = Len(q) + 1
         /\ \A i \in 1..Len(q) : Append(q, n)[i] = q[i]
OBVIOUS

LEMMA CopyPlaceIs ==
  ASSUME IsTree(tree), NEW from \in Seq(Plain), NEW to \in Seq(Plain), NEW p, p = CopyPlace(from, to)
  PROVE  /\ p \in Seq(Plain) /\ IsPrefix(to, p)
         /\ p # to => p # <<>> /\ Front(p) = to /\ to \in DOMAIN tree /\ tree[to] = Dir
<1>1. from \in Seq(Names) /\ to \in Seq(Names)
  BY PlainAre
<1>2. IsPrefix(to, to)
  BY <1>1, LengthIs, PrefixIs
<1>3. CASE p = to
  BY <1>2, <1>3
<1>4. CASE p # to
  <2>1. from # <<>> /\ p = Append(to, Last(from)) /\ to \in DOMAIN tree /\ tree[to] = Dir
    BY <1>4, NormalOfPlain DEF CopyPlace, IsDir, IsEntry
  <2>2. Last(from) \in Plain
    BY <1>1, <2>1, FrontIs
  <2>3. p \in Seq(Plain) /\ p \in Seq(Names) /\ Len(p) = Len(to) + 1 /\ \A i \in 1..Len(to) : p[i] = to[i]
    BY <1>1, <2>1, <2>2, PlainAre, AppendIs
  <2>4. Len(to) \in Nat /\ Len(to) <= Len(p) /\ \A i \in 1..Len(to) : to[i] = p[i]
    BY <1>1, <2>3
  <2>5. IsPrefix(to, p)
    BY <1>1, <2>3, <2>4, PrefixIs
  <2>6. p # <<>>
    BY <2>3, <2>4
  <2>7. Front(p) \in Seq(Names) /\ Len(Front(p)) = Len(to) /\ IsPrefix(to, Front(p))
    BY <1>1, <1>4, <2>3, <2>4, <2>5, <2>6, FrontIs, PrefixFront
  <2>8. Front(p) = to
    BY <1>1, <2>7, PrefixSame
  <2> QED BY <2>1, <2>3, <2>5, <2>6, <2>8
<1> QED BY <1>3, <1>4

\* What is laid over the tree under "to" is of kinds and changes nothing elsewhere.
LEMMA LaidOver ==
  ASSUME IsTree(tree), NEW from \in Seq(Plain), NEW to \in Seq(Plain),
         NEW done \in SUBSET DOMAIN Grafted(from, CopyPlace(from, to)),
         NEW t, t = Over(Restrict(Grafted(from, CopyPlace(from, to)), done), tree)
  PROVE  /\ Rooted(t) => IsTree(t)
         /\ DOMAIN tree \subseteq DOMAIN t
         /\ \A q \in DOMAIN t : Same(t, q) \/ IsPrefix(to, q)
<1>1. PICK p, g : p = CopyPlace(from, to) /\ g = Grafted(from, p)
  OBVIOUS
<1>2. p \in Seq(Plain) /\ IsPrefix(to, p) /\ to \in Seq(Names) /\ p \in Seq(Names)
  BY <1>1, CopyPlaceIs, PlainAre
<1>3. IsGraft(g, from, p)
  BY <1>1, <1>2, GraftedIs
<1>4. /\ DOMAIN t = done \cup DOMAIN tree /\ done \subseteq DOMAIN g
      /\ \A q \in DOMAIN t : t[q] = IF q \in done THEN g[q] ELSE tree[q]
  BY <1>1 DEF Over, Restrict
<1>5. \A q \in done : q \in Seq(Plain) /\ IsPrefix(p, q) /\ g[q] \in Kinds
  BY <1>3, <1>4 DEF IsGraft, IsTree
<1>6. \A q \in done : IsPrefix(to, q)
  BY <1>2, <1>5, PlainAre, PrefixTransitive
<1>7. DOMAIN t \subseteq Seq(Plain) /\ \A q \in DOMAIN t : t[q] \in Kinds
  BY <1>4, <1>5 DEF IsTree
<1>8. \A q \in DOMAIN t : Same(t, q) \/ IsPrefix(to, q)
  BY <1>4, <1>6 DEF Same
<1> QED BY <1>4, <1>7, <1>8 DEF IsTree

LEMMA CopiedIs ==
  ASSUME IsTree(tree), NEW from \in Seq(Plain), NEW to \in Seq(Plain),
         from \in DOMAIN tree, CanCopy(from, to), NEW t, t = Copied(from, to)
  PROVE  IsTree(t) /\ DOMAIN tree \subseteq DOMAIN t /\ \A q \in DOMAIN t : Same(t, q) \/ IsPrefix(to, q)
<1>1. PICK p, g : p = CopyPlace(from, to) /\ g = Grafted(from, p)
  OBVIOUS
<1>2. /\ p \in Seq(Plain) /\ IsPrefix(to, p) /\ to \in Seq(Names) /\ p \in Seq(Names)
      /\ p # to => p # <<>> /\ Front(p) = to /\ to \in DOMAIN tree /\ tree[to] = Dir
  BY <1>1, CopyPlaceIs, PlainAre
<1>3. IsGraft(g, from, p)
  BY <1>1, <1>2, GraftedIs
<1>4. /\ to # <<>> /\ IsDir(Front(to))
      /\ \A q \in DOMAIN g \cap DOMAIN tree : g[q] = Dir <=> tree[q] = Dir
  BY <1>1 DEF CanCopy
<1>5. Front(to) \in Seq(Plain) /\ Front(to) \in DOMAIN tree /\ tree[Front(to)] = Dir
  <2>1. Front(to) \in Seq(Plain)
    BY <1>2, <1>4, FrontIs
  <2> QED BY <1>4, <2>1, NormalOfPlain DEF IsDir, IsEntry
<1>6. Restrict(g, DOMAIN g) = g
  BY <1>1 DEF Restrict, Grafted
<1>7. t = Over(Restrict(g, DOMAIN g), tree)
  BY <1>1, <1>6 DEF Copied
<1>8. /\ DOMAIN t = DOMAIN g \cup DOMAIN tree
      /\ \A q \in DOMAIN t : t[q] = IF q \in DOMAIN g THEN g[q] ELSE tree[q]
  BY <1>1 DEF Copied, Over
<1>9. /\ Rooted(t) => IsTree(t)
      /\ DOMAIN tree \subseteq DOMAIN t
      /\ \A q \in DOMAIN t : Same(t, q) \/ IsPrefix(to, q)
  BY <1>1, <1>7, LaidOver
<1>10. \A q \in DOMAIN tree : tree[q] = Dir => q \in DOMAIN t /\ t[q] = Dir
  BY <1>4, <1>8
<1>11. <<>> \in DOMAIN t /\ t[<<>>] = Dir
  BY <1>10 DEF IsTree, Rooted
<1>12. ASSUME NEW q \in DOMAIN t, q # <<>> PROVE Front(q) \in DOMAIN t /\ t[Front(q)] = Dir
  <2>1. CASE q \in DOMAIN g /\ q # p
    <3>1. Front(q) \in DOMAIN g /\ g[Front(q)] = Dir
      BY <1>2, <1>3, <2>1, GraftedBelow
    <3> QED BY <1>8, <3>1
  <2>2. CASE q = p /\ p = to
    BY <1>5, <1>10, <2>2
  <2>3. CASE q = p /\ p # to
    BY <1>2, <1>10, <2>3
  <2>4. CASE q \in DOMAIN tree
    BY <1>10, <1>12, <2>4, RootedAt
  <2> QED BY <1>8, <2>1, <2>2, <2>3, <2>4
<1>13. Rooted(t)
  BY <1>11, <1>12 DEF Rooted
<1> QED BY <1>9, <1>13

LEMMA PartlyCopiedIs ==
  ASSUME IsTree(tree), NEW from \in Seq(Plain), NEW to \in Seq(Plain), NEW t \in PartlyCopied(from, to)
  PROVE  IsTree(t) /\ DOMAIN tree \subseteq DOMAIN t /\ \A q \in DOMAIN t : Same(t, q) \/ IsPrefix(to, q)
<1>1. PICK done \in SUBSET DOMAIN Grafted(from, CopyPlace(from, to)) :
        t = Over(Restrict(Grafted(from, CopyPlace(from, to)), done), tree)
  BY DEF PartlyCopied
<1>2. Rooted(t)
  BY DEF PartlyCopied
<1> QED BY <1>1, <1>2, LaidOver

-----------------------------------------------------------------------------
(* The inductive invariant.                                                *)

Requests == [op : Operations \cup {"none"}, path : Seq(Names), target : Seq(Names),
             valid : BOOLEAN]

TypeInv ==
  /\ TypeOK /\ IsTree(tree)
  /\ req \in [Sessions -> Requests] /\ cwd \in [Sessions -> Seq(Names)]
  /\ asked \in [Sessions -> Nat]

CopyOrMove == {"copy", "move"}
Create == {"mkfile", "mkdir"}

\* The path is one that the role of the session may work on.
Reach(s, p) == IsPrefix(Scope(s), Normal(p))

\* What the checks of a request have shown for good, whatever becomes of the tree.
Lexical(s, place, r) ==
  /\ place \in {"checked", "placed", "real"} => Reach(s, r.path)
  /\ place \in {"checked", "placed"} /\ r.op \in CopyOrMove =>
       Reach(s, r.target) /\ \E d \in Seq(Plain), n \in Names : r.target = Append(d, n)
  /\ place = "real" => r.target = Relative(s, Normal(r.path))

\* The file of a user at q.
UserFile(q) == tree[q] # Dir /\ IsUIFFile(q)
NotUserFile(p) == \A q \in DOMAIN tree : UserFile(q) => q # Normal(p)

\* What they have shown of the tree, until another session changes it.
Fresh(s, place, r) ==
  /\ place = "checked" /\ r.op \in Create => Normal(r.path) \notin DOMAIN tree
  /\ place \in {"checked", "placed"} =>
       NotUserFile(r.path) /\ (r.op \in CopyOrMove => NotUserFile(r.target))
  /\ place = "real" => CanAccess(s, r.path)

Known(s) == Lexical(s, at[s], req[s]) /\ (~stale[s] => Fresh(s, at[s], req[s]))

Inv == TypeInv /\ \A s \in Sessions : Known(s)

-----------------------------------------------------------------------------
(* What may be worked on.                                                  *)

LEMMA TwoNames ==
  ASSUME NEW d \in Seq(Plain), Len(d) = 1, NEW n \in Plain
  PROVE  d \o <<n>> \in Seq(Plain) /\ Len(d \o <<n>>) = 2 /\ (d \o <<n>>)[2] = n
<1> DEFINE e == <<n>>
<1>1. Len(e) = 1 /\ e[1] = n /\ e \in Seq(Plain)
  OBVIOUS
<1> HIDE DEF e
<1>2. d \o e \in Seq(Plain) /\ Len(d \o e) = Len(d) + Len(e)
  BY <1>1, ConcatProperties
<1>3. (d \o e)[Len(d) + 1] = e[1]
  BY <1>1, <1>2, ConcatProperties
<1>4. d \o e \in Seq(Plain) /\ Len(d \o e) = 2 /\ (d \o e)[2] = n
  BY <1>1, <1>2, <1>3
<1> QED BY <1>4 DEF e

LEMMA PlacesAre ==
  /\ Strg \in Seq(Plain) /\ SUsers \in Seq(Plain) /\ SNetwork \in Seq(Plain) /\ SShared \in Seq(Plain)
  /\ Strg # <<>> /\ SNetwork # <<>>
  /\ Len(SUsers) = 2 /\ SUsers[2] = "users" /\ Len(SNetwork) = 2 /\ SNetwork[2] = "network"
  /\ IsPrefix(SNetwork, SShared)
<1>1. /\ "strg" \in Names /\ "users" \in Names /\ "network" \in Names /\ "shared" \in Names
      /\ "strg" # ".." /\ "users" # ".." /\ "network" # ".." /\ "shared" # ".."
  BY SfsAssumption
<1>2. "strg" \in Plain /\ "users" \in Plain /\ "network" \in Plain /\ "shared" \in Plain
  BY <1>1 DEF Plain
<1>3. /\ Strg \in Seq(Plain) /\ Len(Strg) = 1
      /\ <<"users">> \in Seq(Plain) /\ <<"network">> \in Seq(Plain) /\ <<"shared">> \in Seq(Plain)
  BY <1>2 DEF Strg
<1>4. SUsers \in Seq(Plain) /\ Len(SUsers) = 2 /\ SUsers[2] = "users"
  BY <1>2, <1>3, TwoNames DEF SUsers
<1>5. SNetwork \in Seq(Plain) /\ Len(SNetwork) = 2 /\ SNetwork[2] = "network"
  BY <1>2, <1>3, TwoNames DEF SNetwork
<1>6. IsPrefix(SNetwork, SShared) /\ SShared \in Seq(Plain)
  <2> DEFINE e == <<"shared">>
  <2>1. e \in Seq(Plain) /\ e \in Seq(Names) /\ SNetwork \in Seq(Names) /\ SNetwork \in Seq(Plain)
    BY <1>3, <1>5, PlainAre
  <2> HIDE DEF e
  <2>2. IsPrefix(SNetwork, SNetwork \o e) /\ SNetwork \o e \in Seq(Plain)
    BY <2>1, ConcatIs
  <2> QED BY <2>2 DEF SShared, e
<1>7. Strg # <<>> /\ SNetwork # <<>>
  <2>1. Len(<<>>) = 0
    OBVIOUS
  <2>2. Strg \in Seq(Plain) /\ Len(Strg) = 1 /\ SNetwork \in Seq(Plain) /\ Len(SNetwork) = 2
    BY <1>3, <1>5
  <2>3. Len(Strg) # Len(<<>>) /\ Len(SNetwork) # Len(<<>>)
    BY <2>1, <2>2
  <2> QED BY <2>3, Zenon
<1> QED BY <1>3, <1>4, <1>5, <1>6, <1>7

LEMMA ScopeIs ==
  ASSUME NEW s \in Sessions
  PROVE  /\ Scope(s) \in Seq(Plain) /\ Scope(s) \in Seq(Names) /\ Scope(s) # <<>>
         /\ Role[s] = "User" => Scope(s) = SNetwork
         /\ Role[s] # "User" => Role[s] = "Admin" /\ Scope(s) = Strg
         /\ IsPrefix(SNetwork, Perso(s)) /\ Perso(s) \in Seq(Names)
<1>1. <<PersoName[s]>> \in Seq(Names)
  BY SfsAssumption
<1>2. IsPrefix(SNetwork, Perso(s)) /\ Perso(s) \in Seq(Names)
  BY <1>1, PlacesAre, PlainAre, ConcatIs DEF Perso
<1> QED BY <1>2, PlacesAre, PlainAre, SfsAssumption DEF Scope

\* A path that may be worked on lies in what the role may see, and is no file of a user.
LEMMA AccessIs ==
  ASSUME IsTree(tree), NEW s \in Sessions, NEW p \in Seq(Names), CanAccess(s, p)
  PROVE  Reach(s, p) /\ NotUserFile(p)
<1>1. Normal(p) \in Seq(Plain) /\ Normal(p) \in Seq(Names) /\ Normal(Normal(p)) = Normal(p)
  BY NormalIs, NormalOfPlain, PlainAre
<1>2. CASE Role[s] = "User"
  <2>1. SNetwork \in Seq(Names) /\ SShared \in Seq(Names) /\ Perso(s) \in Seq(Names)
    BY PlacesAre, PlainAre, ScopeIs
  <2>2. IsPrefix(SNetwork, SNetwork)
    BY <2>1, LengthIs, PrefixIs
  <2>3. IsPrefix(SNetwork, Normal(p))
    <3>1. CASE Normal(p) = SNetwork
      BY <2>2, <3>1
    <3>2. CASE IsIn(p, Perso(s))
      BY <1>1, <2>1, <3>2, ScopeIs, PrefixTransitive DEF IsIn
    <3>3. CASE IsIn(p, SShared)
      BY <1>1, <2>1, <3>3, PlacesAre, PrefixTransitive DEF IsIn
    <3> QED BY <1>2, <3>1, <3>2, <3>3 DEF CanAccess
  <2>4. Normal(p)[2] = "network"
    <3>1. 2 \in 1..Len(SNetwork) /\ SNetwork[2] = "network"
      BY PlacesAre
    <3> QED BY <1>1, <2>1, <2>3, <3>1, PrefixIs
  <2>5. ASSUME NEW q \in DOMAIN tree, UserFile(q) PROVE q[2] = "users"
    <3>1. q # <<>> /\ IsIn(Front(q), SUsers)
      BY <2>5 DEF UserFile, IsUIFFile
    <3>2. q \in Seq(Names) /\ Front(q) \in Seq(Plain) /\ Front(q) \in Seq(Names) /\ IsPrefix(Front(q), q)
      BY <3>1, RootedAt, FrontIs, PlainAre
    <3>3. IsPrefix(SUsers, Front(q))
      BY <3>1, <3>2, NormalOfPlain DEF IsIn
    <3>4. SUsers \in Seq(Names) /\ IsPrefix(SUsers, q)
      BY <3>2, <3>3, PlacesAre, PlainAre, PrefixTransitive
    <3>5. 2 \in 1..Len(SUsers) /\ SUsers[2] = "users"
      BY PlacesAre
    <3> QED BY <3>2, <3>4, <3>5, PrefixIs
  <2> QED BY <1>2, <2>3, <2>4, <2>5, ScopeIs DEF Reach, NotUserFile
<1>3. CASE Role[s] # "User"
  BY <1>3, ScopeIs DEF CanAccess, Reach, IsIn, NotUserFile, UserFile
<1> QED BY <1>2, <1>3

\* Access depends on the normal path.
LEMMA AccessSame ==
  ASSUME NEW s, NEW p, NEW q, Normal(p) = Normal(q)
  PROVE  /\ CanAccess(s, p) <=> CanAccess(s, q)
         /\ IsEntry(p) <=> IsEntry(q)
         /\ IsDir(p) <=> IsDir(q)
BY DEF CanAccess, IsIn, IsEntry, IsDir

-----------------------------------------------------------------------------
(* What the handler of a session makes of the tree.                        *)

Confines(s, t) ==
  \A q \in DOMAIN tree \cup DOMAIN t :
    \/ IsPrefix(Scope(s), q) \/ Same(t, q)
    \/ New(t, q) /\ IsPrefix(q, Scope(s))

Guards(s, t) ==
  ~stale[s] => \A q \in DOMAIN tree : UserFile(q) =>
    \/ Same(t, q)
    \/ IsStrictPrefix(Normal(req[s].path), q)
    \/ IsStrictPrefix(Normal(req[s].target), q)

Keeps(s, t) ==
  at[s] = "checked" /\ req[s].op \in Create /\ ~stale[s] => \A q \in DOMAIN tree : Same(t, q)

Lawful(s, t) == IsTree(t) /\ Confines(s, t) /\ Guards(s, t) /\ Keeps(s, t)

LEMMA Unchanged ==
  ASSUME NEW s \in Sessions, IsTree(tree)
  PROVE  Lawful(s, tree)
<1>1. \A q : Same(tree, q)
  BY DEF Same
<1> QED BY <1>1 DEF Lawful, Confines, Guards, Keeps

\* Below a path within reach all is within reach; above it what is new is a directory.
LEMMA InReach ==
  ASSUME IsTree(tree), NEW t, IsTree(t), NEW s \in Sessions,
         NEW p \in Seq(Plain), IsPrefix(Scope(s), p),
         NEW q \in DOMAIN tree \cup DOMAIN t, IsPrefix(p, q) \/ IsPrefix(q, p)
  PROVE  IsPrefix(Scope(s), q) \/ IsPrefix(q, Scope(s))
<1>1. q \in Seq(Names) /\ p \in Seq(Names) /\ Scope(s) \in Seq(Names)
  BY PlainAre, ScopeIs DEF IsTree
<1>2. CASE IsPrefix(p, q)
  BY <1>1, <1>2, PrefixTransitive
<1>3. CASE IsPrefix(q, p)
  BY <1>1, <1>3, PrefixesCompare
<1> QED BY <1>2, <1>3

LEMMA Below ==
  ASSUME IsTree(tree), NEW t, IsTree(t), NEW s \in Sessions,
         NEW p \in Seq(Plain), IsPrefix(Scope(s), p),
         NEW q \in DOMAIN tree \cup DOMAIN t, IsPrefix(p, q)
  PROVE  IsPrefix(Scope(s), q)
BY PlainAre, ScopeIs, PrefixTransitive DEF IsTree

\* Directories that are new, above a path within reach.
LEMMA AddsDirs ==
  ASSUME IsTree(tree), NEW t, IsTree(t), NEW s \in Sessions,
         DOMAIN tree \subseteq DOMAIN t,
         NEW p \in Seq(Plain), IsPrefix(Scope(s), p),
         \A q \in DOMAIN t : Same(t, q) \/ (New(t, q) /\ IsPrefix(q, p))
  PROVE  Lawful(s, t)
<1>1. \A q \in DOMAIN tree : Same(t, q)
  BY DEF New
<1>2. Confines(s, t)
  <2> SUFFICES ASSUME NEW q \in DOMAIN tree \cup DOMAIN t, ~Same(t, q)
               PROVE  IsPrefix(Scope(s), q) \/ (New(t, q) /\ IsPrefix(q, Scope(s)))
    BY DEF Confines
  <2>1. New(t, q) /\ IsPrefix(q, p)
    BY <1>1
  <2> QED BY <2>1, InReach
<1> QED BY <1>1, <1>2 DEF Lawful, Guards, Keeps

\* A new file, and the directories above it.
LEMMA AddsFile ==
  ASSUME IsTree(tree), NEW t, IsTree(t), NEW s \in Sessions,
         DOMAIN tree \subseteq DOMAIN t,
         Normal(req[s].path) \in Seq(Plain), Reach(s, req[s].path),
         ~stale[s] => Normal(req[s].path) \notin DOMAIN tree,
         \A q \in DOMAIN t :
           \/ Same(t, q) \/ q = Normal(req[s].path)
           \/ New(t, q) /\ IsPrefix(q, Normal(req[s].path))
  PROVE  Lawful(s, t)
<1>1. PICK p \in Seq(Plain) : p = Normal(req[s].path)
  OBVIOUS
<1>2. IsPrefix(Scope(s), p)
  BY <1>1 DEF Reach
<1>3. \A q \in DOMAIN t : Same(t, q) \/ q = p \/ (New(t, q) /\ IsPrefix(q, p))
  BY <1>1
<1>4. ~stale[s] => \A q \in DOMAIN tree : Same(t, q)
  BY <1>1, <1>3 DEF New
<1>5. Confines(s, t)
  <2> SUFFICES ASSUME NEW q \in DOMAIN tree \cup DOMAIN t, ~Same(t, q)
               PROVE  IsPrefix(Scope(s), q) \/ (New(t, q) /\ IsPrefix(q, Scope(s)))
    BY DEF Confines
  <2>1. CASE q = p
    BY <1>2, <2>1
  <2>2. CASE New(t, q) /\ IsPrefix(q, p)
    BY <1>2, <2>2, InReach
  <2> QED BY <1>3, <2>1, <2>2
<1> QED BY <1>4, <1>5 DEF Lawful, Guards, Keeps

\* Changes at and below two of the paths of the request.
LEMMA WorksBelow ==
  ASSUME IsTree(tree), NEW t, IsTree(t), NEW s \in Sessions, req[s].op \notin Create,
         NEW a \in {req[s].path, req[s].target}, NEW b \in {req[s].path, req[s].target},
         Normal(a) \in Seq(Plain), Normal(b) \in Seq(Plain), Reach(s, a), Reach(s, b),
         ~stale[s] => NotUserFile(a) /\ NotUserFile(b),
         \A q \in DOMAIN tree \cup DOMAIN t :
           Same(t, q) \/ IsPrefix(Normal(a), q) \/ IsPrefix(Normal(b), q)
  PROVE  Lawful(s, t)
<1>1. Confines(s, t)
  <2> SUFFICES ASSUME NEW q \in DOMAIN tree \cup DOMAIN t, ~Same(t, q)
               PROVE  IsPrefix(Scope(s), q)
    BY DEF Confines
  <2>1. CASE IsPrefix(Normal(a), q)
    BY <2>1, Below DEF Reach
  <2>2. CASE IsPrefix(Normal(b), q)
    BY <2>2, Below DEF Reach
  <2> QED BY <2>1, <2>2
<1>2. Guards(s, t)
  <2> SUFFICES ASSUME ~stale[s], NEW q \in DOMAIN tree, UserFile(q), ~Same(t, q)
               PROVE  \/ IsStrictPrefix(Normal(req[s].path), q)
                      \/ IsStrictPrefix(Normal(req[s].target), q)
    BY DEF Guards
  <2>1. q # Normal(a) /\ q # Normal(b)
    BY DEF NotUserFile
  <2>2. IsStrictPrefix(Normal(a), q) \/ IsStrictPrefix(Normal(b), q)
    BY <2>1 DEF IsStrictPrefix
  <2> QED BY <2>2
<1> QED BY <1>1, <1>2 DEF Lawful, Keeps

\* What every step of a handler that works on the tree comes down to.
Worked(s) ==
  \E t :
    /\ Lawful(s, t) /\ Write(s, t)
    /\ \/ \E code \in Answers : Respond(s, code)
       \/ /\ at[s] = "checked" /\ req[s].op \in CopyOrMove
          /\ \A q \in DOMAIN t : Same(t, q) \/ New(t, q)
          /\ \E place \in {"placed", "lost"} : at' = [at EXCEPT ![s] = place]
          /\ UNCHANGED <<cwd, req, answer, asked>>

LEMMA KnownPaths ==
  ASSUME Inv, NEW s \in Sessions
  PROVE  /\ IsTree(tree) /\ Known(s) /\ req[s] \in Requests
         /\ req[s].path \in Seq(Names) /\ req[s].target \in Seq(Names)
         /\ Normal(req[s].path) \in Seq(Plain) /\ Normal(req[s].target) \in Seq(Plain)
         /\ Normal(req[s].path) \in Seq(Names)
         /\ req[s].op \in Operations \cup {"none"}
<1>1. IsTree(tree) /\ Known(s) /\ req[s] \in Requests
  BY DEF Inv, TypeInv
<1>2. /\ req[s].path \in Seq(Names) /\ req[s].target \in Seq(Names)
      /\ req[s].op \in Operations \cup {"none"}
  BY <1>1 DEF Requests
<1> QED BY <1>1, <1>2, NormalIs, PlainAre

LEMMA AnswersAre ==
  /\ "Ok" \in Answers /\ "InvalidPermissions" \in Answers /\ "IOFileNotExists" \in Answers
  /\ "IOFileAlreadyExists" \in Answers /\ "IOInvalidFileName" \in Answers
  /\ "IORenameError" \in Answers /\ "IOMoveError" \in Answers /\ "IOCopyError" \in Answers
  /\ "IOCreateDirError" \in Answers /\ "IOCreateFileError" \in Answers
  /\ "IODeleteError" \in Answers /\ "NotDirectory" \in Answers
BY DEF Answers

LEMMA AbovePlain ==
  ASSUME NEW p \in Seq(Plain), NEW d \in Ancestors(p)
  PROVE  d \in Seq(Plain) /\ IsPrefix(d, p)
<1>1. p \in Seq(Names)
  BY PlainAre
<1>2. d \in Seq(Names) /\ IsPrefix(d, p)
  BY <1>1, AncestorsAre
<1>3. Len(d) \in Nat /\ Len(p) \in Nat /\ Len(d) <= Len(p) /\ \A i \in 1..Len(d) : d[i] = p[i]
  BY <1>1, <1>2, LengthIs, PrefixIs
<1>4. \A i \in 1..Len(p) : p[i] # ".."
  BY PlainIs
<1>5. \A i \in 1..Len(d) : d[i] # ".."
  BY <1>3, <1>4
<1> QED BY <1>2, <1>5, PlainIs

\* The directories made for d lie above whatever d lies above.
LEMMA MakesDirs ==
  ASSUME IsTree(tree), NEW s \in Sessions, NEW d \in Seq(Plain), CanMakeDirs(d),
         NEW p \in Seq(Plain), IsPrefix(Scope(s), p), IsPrefix(d, p)
  PROVE  /\ Lawful(s, MakeDirs(d))
         /\ \A q \in DOMAIN MakeDirs(d) : Same(MakeDirs(d), q) \/ New(MakeDirs(d), q)
<1>1. PICK t : t = MakeDirs(d)
  OBVIOUS
<1>2. /\ IsTree(t) /\ DOMAIN tree \subseteq DOMAIN t
      /\ \A q \in DOMAIN t : Same(t, q) \/ (New(t, q) /\ IsPrefix(q, d))
  BY <1>1, MadeDirs
<1>3. \A q \in DOMAIN t : IsPrefix(q, d) => IsPrefix(q, p)
  BY <1>2, PlainAre, PrefixTransitive DEF IsTree
<1>4. Lawful(s, t)
  BY <1>2, <1>3, AddsDirs
<1> QED BY <1>1, <1>2, <1>4

LEMMA CreateFileWorks ==
  ASSUME Inv, NEW s \in Sessions, CreateFile(s)
  PROVE  Worked(s)
<1>1. PICK p : p = Normal(req[s].path)
  OBVIOUS
<1>2. at[s] = "checked" /\ req[s].op = "mkfile"
  BY DEF CreateFile, In
<1>3. IsTree(tree) /\ Known(s) /\ p \in Seq(Plain) /\ p \in Seq(Names)
  BY <1>1, KnownPaths
<1>4. Reach(s, req[s].path) /\ (~stale[s] => p \notin DOMAIN tree) /\ IsPrefix(Scope(s), p)
  BY <1>1, <1>2, <1>3 DEF Known, Lexical, Fresh, Create, Reach
<1>5. CASE p # <<>> /\ CanMakeDirs(Front(p)) /\ ~IsDir(p) /\ Write(s, Created(p)) /\ Respond(s, "Ok")
  <2>1. PICK t : t = Created(p)
    OBVIOUS
  <2>2. /\ IsTree(t) /\ DOMAIN tree \subseteq DOMAIN t
        /\ \A q \in DOMAIN t : Same(t, q) \/ q = p \/ (New(t, q) /\ IsPrefix(q, p))
    BY <1>3, <1>5, <2>1, CreatedIs
  <2>3. Lawful(s, t)
    BY <1>1, <1>3, <1>4, <2>2, AddsFile
  <2> QED BY <1>5, <2>1, <2>3, AnswersAre DEF Worked
<1>6. CASE Write(s, tree) /\ Respond(s, "IOCreateFileError")
  BY <1>3, <1>6, Unchanged, AnswersAre DEF Worked
<1>7. CASE /\ p # <<>> /\ CanMakeDirs(Front(p)) /\ Write(s, MakeDirs(Front(p)))
           /\ Respond(s, "IOCreateFileError")
  <2>1. Front(p) \in Seq(Plain) /\ IsPrefix(Front(p), p)
    BY <1>3, <1>7, FrontIs
  <2>2. Lawful(s, MakeDirs(Front(p)))
    BY <1>3, <1>4, <1>7, <2>1, MakesDirs
  <2> QED BY <1>7, <2>2, AnswersAre DEF Worked
<1> QED BY <1>1, <1>5, <1>6, <1>7 DEF CreateFile

LEMMA CreateDirectoryWorks ==
  ASSUME Inv, NEW s \in Sessions, CreateDirectory(s)
  PROVE  Worked(s)
<1>1. PICK p : p = Normal(req[s].path)
  OBVIOUS
<1>2. at[s] = "checked"
  BY DEF CreateDirectory, In
<1>3. IsTree(tree) /\ Known(s) /\ p \in Seq(Plain) /\ p \in Seq(Names)
  BY <1>1, KnownPaths
<1>4. IsPrefix(Scope(s), p)
  BY <1>1, <1>2, <1>3 DEF Known, Lexical, Reach
<1>5. \A d \in Ancestors(p) : d \in Seq(Plain) /\ IsPrefix(d, p)
  BY <1>3, AbovePlain
<1>6. IsPrefix(p, p)
  BY <1>3, LengthIs, PrefixIs
<1>7. CASE CanMakeDirs(p) /\ Write(s, MakeDirs(p)) /\ Respond(s, "Ok")
  <2>1. Lawful(s, MakeDirs(p))
    BY <1>3, <1>4, <1>6, <1>7, MakesDirs
  <2> QED BY <1>7, <2>1, AnswersAre DEF Worked
<1>8. CASE Write(s, tree) /\ Respond(s, "IOCreateDirError")
  BY <1>3, <1>8, Unchanged, AnswersAre DEF Worked
<1>9. CASE /\ \E d \in Ancestors(p) \ {p} : CanMakeDirs(d) /\ Write(s, MakeDirs(d))
           /\ Respond(s, "IOCreateDirError")
  <2>1. PICK d \in Ancestors(p) : CanMakeDirs(d) /\ Write(s, MakeDirs(d))
    BY <1>9
  <2>2. Lawful(s, MakeDirs(d))
    BY <1>3, <1>4, <1>5, <2>1, MakesDirs
  <2> QED BY <1>9, <2>1, <2>2, AnswersAre DEF Worked
<1> QED BY <1>1, <1>7, <1>8, <1>9 DEF CreateDirectory

LEMMA DeleteFileWorks ==
  ASSUME Inv, NEW s \in Sessions, DeleteFile(s)
  PROVE  Worked(s)
<1>1. PICK r, p : r = req[s].path /\ p = Normal(r)
  OBVIOUS
<1>2. at[s] = "checked" /\ req[s].op = "delete" /\ p # <<>>
  BY <1>1 DEF DeleteFile, In
<1>3. IsTree(tree) /\ Known(s) /\ p \in Seq(Plain) /\ p \in Seq(Names)
  BY <1>1, KnownPaths
<1>4. Reach(s, r) /\ (~stale[s] => NotUserFile(r)) /\ req[s].op \notin Create
  BY <1>1, <1>2, <1>3 DEF Known, Lexical, Fresh, Create
<1>5. ASSUME NEW t, IsTree(t), \A q \in DOMAIN tree \cup DOMAIN t : Same(t, q) \/ IsPrefix(p, q)
      PROVE  Lawful(s, t)
  BY <1>1, <1>3, <1>4, <1>5, WorksBelow
<1>6. CASE Write(s, Removed(p)) /\ Respond(s, "Ok")
  <2>1. Lawful(s, Removed(p))
    BY <1>2, <1>3, <1>5, RemovedIs
  <2> QED BY <1>6, <2>1, AnswersAre DEF Worked
<1>7. CASE \E t \in PartlyRemoved(p) : Write(s, t) /\ Respond(s, "IODeleteError")
  <2>1. PICK t \in PartlyRemoved(p) : Write(s, t) /\ Respond(s, "IODeleteError")
    BY <1>7
  <2>2. Lawful(s, t)
    BY <1>3, <1>5, PartlyRemovedIs
  <2> QED BY <2>1, <2>2, AnswersAre DEF Worked
<1> QED BY <1>1, <1>6, <1>7 DEF DeleteFile

\* What is renamed is looked at again, wherever it is now.
LEMMA RenameFileWorks ==
  ASSUME Inv, NEW s \in Sessions, RenameFile(s)
  PROVE  Worked(s)
<1>1. PICK a, b : a = req[s].path /\ b = req[s].target
  OBVIOUS
<1>2. at[s] = "checked" /\ req[s].op = "rename" /\ req[s].op \notin Create
  BY DEF RenameFile, In, Create
<1>3. /\ IsTree(tree) /\ Normal(a) \in Seq(Plain) /\ Normal(b) \in Seq(Plain)
      /\ a \in Seq(Names) /\ b \in Seq(Names)
  BY <1>1, KnownPaths
<1>4. CASE /\ CanAccess(s, a) /\ CanAccess(s, b)
           /\ CanRename(Normal(a), Normal(b)) /\ Write(s, Renamed(Normal(a), Normal(b)))
           /\ \E code \in Answers : Respond(s, code)
  <2>1. PICK t : t = Renamed(Normal(a), Normal(b))
    OBVIOUS
  <2>2. IsTree(t)
    BY <1>3, <1>4, <2>1, RenamedIs
  <2>3. \A q \in DOMAIN tree \cup DOMAIN t :
          Same(t, q) \/ IsPrefix(Normal(a), q) \/ IsPrefix(Normal(b), q)
    BY <1>3, <1>4, <2>1, RenamedIs
  <2>4. Reach(s, a) /\ Reach(s, b) /\ NotUserFile(a) /\ NotUserFile(b)
    BY <1>3, <1>4, AccessIs
  <2>5. Lawful(s, t)
    BY <1>1, <1>2, <1>3, <2>2, <2>3, <2>4, WorksBelow
  <2> QED BY <1>4, <2>1, <2>5 DEF Worked
<1>5. CASE Write(s, tree) /\ \E code \in Answers : Respond(s, code)
  BY <1>3, <1>5, Unchanged DEF Worked
<1>6. (IF req[s].valid THEN "Ok" ELSE "IOInvalidFileName") \in Answers
  BY AnswersAre
<1>7. CASE CanAccess(s, a) /\ CanAccess(s, Front(a)) /\ CanAccess(s, b)
  BY <1>1, <1>4, <1>5, <1>6, <1>7, AnswersAre DEF RenameFile
<1>8. CASE ~(CanAccess(s, a) /\ CanAccess(s, Front(a)) /\ CanAccess(s, b))
  BY <1>1, <1>5, <1>8, AnswersAre DEF RenameFile
<1> QED BY <1>7, <1>8

LEMMA MoveFileWorks ==
  ASSUME Inv, NEW s \in Sessions, MoveFile(s)
  PROVE  Worked(s)
<1>1. PICK a, b : a = req[s].path /\ b = req[s].target
  OBVIOUS
<1>2. at[s] = "placed" /\ req[s].op = "move"
  BY DEF MoveFile, In
<1>3. /\ IsTree(tree) /\ Known(s) /\ Normal(a) \in Seq(Plain) /\ Normal(b) \in Seq(Plain)
  BY <1>1, KnownPaths
<1>4. /\ Reach(s, a) /\ Reach(s, b) /\ (~stale[s] => NotUserFile(a) /\ NotUserFile(b))
      /\ req[s].op \notin Create
  BY <1>1, <1>2, <1>3 DEF Known, Lexical, Fresh, Create, CopyOrMove
<1>5. CASE /\ CanRename(Normal(a), Normal(b)) /\ Write(s, Renamed(Normal(a), Normal(b)))
           /\ Respond(s, "Ok")
  <2>1. PICK t : t = Renamed(Normal(a), Normal(b))
    OBVIOUS
  <2>2. IsTree(t)
    BY <1>3, <1>5, <2>1, RenamedIs
  <2>3. \A q \in DOMAIN tree \cup DOMAIN t :
          Same(t, q) \/ IsPrefix(Normal(a), q) \/ IsPrefix(Normal(b), q)
    BY <1>3, <1>5, <2>1, RenamedIs
  <2>4. Lawful(s, t)
    BY <1>1, <1>3, <1>4, <2>2, <2>3, WorksBelow
  <2> QED BY <1>5, <2>1, <2>4, AnswersAre DEF Worked
<1>6. CASE Write(s, tree) /\ Respond(s, "IOMoveError")
  BY <1>3, <1>6, Unchanged, AnswersAre DEF Worked
<1> QED BY <1>1, <1>5, <1>6 DEF MoveFile

LEMMA CopyFileWorks ==
  ASSUME Inv, NEW s \in Sessions, CopyFile(s)
  PROVE  Worked(s)
<1>1. PICK from, to, b : from = Normal(req[s].path) /\ b = req[s].target /\ to = Normal(b)
  OBVIOUS
<1>2. at[s] = "placed" /\ req[s].op = "copy"
  BY DEF CopyFile, In
<1>3. /\ IsTree(tree) /\ Known(s) /\ from \in Seq(Plain) /\ to \in Seq(Plain)
  BY <1>1, KnownPaths
<1>4. Reach(s, b) /\ (~stale[s] => NotUserFile(b)) /\ req[s].op \notin Create
  BY <1>1, <1>2, <1>3 DEF Known, Lexical, Fresh, Create, CopyOrMove
<1>5. ASSUME NEW t, IsTree(t), DOMAIN tree \subseteq DOMAIN t,
             \A q \in DOMAIN t : Same(t, q) \/ IsPrefix(to, q)
      PROVE  Lawful(s, t)
  BY <1>1, <1>3, <1>4, <1>5, WorksBelow
<1>6. CASE /\ from \in DOMAIN tree /\ CanCopy(from, to) /\ Write(s, Copied(from, to))
           /\ Respond(s, "Ok")
  <2>1. PICK t : t = Copied(from, to)
    OBVIOUS
  <2>2. IsTree(t) /\ DOMAIN tree \subseteq DOMAIN t /\ \A q \in DOMAIN t : Same(t, q) \/ IsPrefix(to, q)
    BY <1>3, <1>6, <2>1, CopiedIs
  <2>3. Lawful(s, t)
    BY <1>5, <2>2
  <2> QED BY <1>6, <2>1, <2>3, AnswersAre DEF Worked
<1>7. CASE Write(s, tree) /\ Respond(s, "IOCopyError")
  BY <1>3, <1>7, Unchanged, AnswersAre DEF Worked
<1>8. CASE (\E t \in PartlyCopied(from, to) : Write(s, t)) /\ Respond(s, "IOCopyError")
  <2>1. PICK t \in PartlyCopied(from, to) : Write(s, t)
    BY <1>8
  <2>2. IsTree(t) /\ DOMAIN tree \subseteq DOMAIN t /\ \A q \in DOMAIN t : Same(t, q) \/ IsPrefix(to, q)
    BY <1>3, PartlyCopiedIs
  <2>3. Lawful(s, t)
    BY <1>5, <2>2
  <2> QED BY <1>8, <2>1, <2>3, AnswersAre DEF Worked
<1> QED BY <1>1, <1>6, <1>7, <1>8 DEF CopyFile

\* The target of a copy or a move is a name after a normal path.
LEMMA TargetPlace ==
  ASSUME NEW s \in Sessions, NEW r, NEW d \in Seq(Plain), NEW n \in Names,
         r = Append(d, n), Reach(s, r)
  PROVE  /\ Normal(Front(r)) = d
         /\ \E p \in Seq(Plain) : IsPrefix(Scope(s), p) /\ IsPrefix(d, p)
<1>1. d \in Seq(Names) /\ r \in Seq(Names) /\ Len(r) = Len(d) + 1 /\ \A i \in 1..Len(d) : r[i] = d[i]
  BY PlainAre
<1>2. Len(d) \in Nat /\ r # <<>>
  BY <1>1, LengthIs
<1>3. Front(r) = d
  <2>0. Front(r) \in Seq(Names) /\ Len(Front(r)) = Len(r) - 1 /\ IsPrefix(Front(r), r)
    BY <1>1, <1>2, FrontIs, Zenon
  <2>1. Front(r) \in Seq(Names) /\ Len(Front(r)) = Len(d) /\ IsPrefix(Front(r), r)
    BY <1>1, <1>2, <2>0
  <2>2. \A i \in 1..Len(Front(r)) : Front(r)[i] = r[i]
    BY <1>1, <2>0, PrefixIs, Zenon
  <2>3. \A i \in 1..Len(d) : Front(r)[i] = d[i]
    BY <1>1, <2>1, <2>2, Zenon
  <2> QED BY <1>1, <2>1, <2>3, SeqEqual
<1>4. Normal(d) = d /\ Normal(r) = Down(d, n) /\ IsPrefix(Scope(s), Down(d, n))
  BY <1>1, NormalOfPlain, NormalAppend DEF Reach
<1>5. CASE n = ".."
  <2>1. d # <<>>
    <3>1. SUFFICES ASSUME d = <<>> PROVE FALSE
      OBVIOUS
    <3>2. Down(d, n) = <<>>
      BY <1>5, <3>1 DEF Down
    <3>3. Len(Scope(s)) <= Len(<<>>)
      BY <1>4, <3>2 DEF IsPrefix
    <3> QED BY <3>3, ScopeIs, LengthIs
  <2>2. Down(d, n) = Front(d)
    BY <1>5 DEF Down, Front
  <2>3. Front(d) \in Seq(Names) /\ IsPrefix(Front(d), d) /\ IsPrefix(d, d)
    BY <1>1, <2>1, FrontIs, LengthIs, PrefixIs
  <2>4. IsPrefix(Scope(s), d)
    BY <1>1, <1>4, <2>2, <2>3, ScopeIs, PrefixTransitive
  <2> QED BY <1>3, <1>4, <2>3, <2>4
<1>6. CASE n # ".."
  <2>1. Down(d, n) = r /\ r \in Seq(Plain)
    BY <1>6, AppendIs DEF Down, Plain
  <2>2. Len(d) <= Len(r) /\ \A i \in 1..Len(d) : d[i] = r[i]
    BY <1>1, <1>2
  <2>3. IsPrefix(d, r)
    BY <1>1, <2>2, PrefixIs, Zenon
  <2> QED BY <1>3, <1>4, <2>1, <2>3
<1> QED BY <1>5, <1>6

LEMMA PlaceWorks ==
  ASSUME Inv, NEW s \in Sessions, Place(s)
  PROVE  Worked(s)
<1>1. PICK r, d : r = req[s].target /\ d = Normal(Front(r))
  OBVIOUS
<1>2. at[s] = "checked" /\ req[s].op \in CopyOrMove
  BY DEF Place, CopyOrMove
<1>3. IsTree(tree) /\ Known(s)
  BY KnownPaths
<1>4. d \in Seq(Plain) /\ \E p \in Seq(Plain) : IsPrefix(Scope(s), p) /\ IsPrefix(d, p)
  <2>1. Reach(s, r) /\ \E e \in Seq(Plain), n \in Names : r = Append(e, n)
    BY <1>1, <1>2, <1>3 DEF Known, Lexical
  <2>2. PICK e \in Seq(Plain), n \in Names : r = Append(e, n)
    BY <2>1
  <2>3. /\ Normal(Front(r)) = e
        /\ \E p \in Seq(Plain) : IsPrefix(Scope(s), p) /\ IsPrefix(e, p)
    BY <2>1, <2>2, TargetPlace
  <2> QED BY <1>1, <2>3
<1>5. PICK p \in Seq(Plain) : IsPrefix(Scope(s), p) /\ IsPrefix(d, p)
  BY <1>4
<1>6. \A q : Same(tree, q)
  BY DEF Same
<1>7. CASE /\ Write(s, tree)
           /\ \E place \in {"placed", "lost"} : at' = [at EXCEPT ![s] = place]
           /\ UNCHANGED <<cwd, req, answer, asked>>
  BY <1>2, <1>3, <1>6, <1>7, Unchanged DEF Worked
<1>8. CASE /\ CanMakeDirs(d) /\ Write(s, MakeDirs(d))
           /\ \E place \in {"placed", "lost"} : at' = [at EXCEPT ![s] = place]
           /\ UNCHANGED <<cwd, req, answer, asked>>
  <2>1. PICK t : t = MakeDirs(d)
    OBVIOUS
  <2>2. Lawful(s, t) /\ \A q \in DOMAIN t : Same(t, q) \/ New(t, q)
    BY <1>3, <1>4, <1>5, <1>8, <2>1, MakesDirs
  <2> QED BY <1>2, <1>8, <2>1, <2>2 DEF Worked
<1>9. CASE Write(s, tree) /\ Respond(s, "IOCreateDirError")
  BY <1>3, <1>9, Unchanged, AnswersAre DEF Worked
<1>10. CASE /\ \E e \in Ancestors(d) \ {d} : CanMakeDirs(e) /\ Write(s, MakeDirs(e))
            /\ Respond(s, "IOCreateDirError")
  <2>1. PICK e \in Ancestors(d) : CanMakeDirs(e) /\ Write(s, MakeDirs(e))
    BY <1>10
  <2>2. e \in Seq(Plain) /\ IsPrefix(e, d)
    BY <1>4, AbovePlain
  <2>3. IsPrefix(e, p)
    BY <1>4, <1>5, <2>2, PlainAre, PrefixTransitive
  <2>4. Lawful(s, MakeDirs(e))
    BY <1>3, <1>5, <2>1, <2>2, <2>3, MakesDirs
  <2> QED BY <1>10, <2>1, <2>4, AnswersAre DEF Worked
<1> QED BY <1>1, <1>7, <1>8, <1>9, <1>10 DEF Place

-----------------------------------------------------------------------------
(* The invariant is inductive.                                             *)

\* What the checks have shown stays true as long as the tree does not change.
LEMMA Steady ==
  ASSUME NEW k \in Sessions, Known(k), tree' = tree, at'[k] = at[k], req'[k] = req[k],
         stale[k] => stale'[k]
  PROVE  Known(k)'
<1>1. Lexical(k, at[k], req[k])'
  BY DEF Known, Lexical, Reach, Relative, Scope
<1>2. NotUserFile(req[k].path) => NotUserFile(req[k].path)'
  BY DEF NotUserFile, UserFile, IsUIFFile, IsIn, IsDir, IsEntry
<1>3. NotUserFile(req[k].target) => NotUserFile(req[k].target)'
  BY DEF NotUserFile, UserFile, IsUIFFile, IsIn, IsDir, IsEntry
<1>4. CanAccess(k, req[k].path) => CanAccess(k, req[k].path)'
  BY DEF CanAccess, Perso, IsUIFFile, IsIn, IsDir, IsEntry
<1>5. Fresh(k, at[k], req[k]) => Fresh(k, at[k], req[k])'
  BY <1>2, <1>3, <1>4 DEF Fresh
<1> QED BY <1>1, <1>5 DEF Known

\* A session that does nothing has nothing to know.
LEMMA Idle ==
  ASSUME NEW k \in Sessions, at'[k] \in {"idle", "lost"}
  PROVE  Known(k)'
<1>1. Lexical(k, at[k], req[k])'
  BY DEF Lexical
<1>2. Fresh(k, at[k], req[k])'
  BY DEF Fresh
<1> QED BY <1>1, <1>2 DEF Known

\* Whatever becomes of the tree, the paths stay within reach.
LEMMA Outdated ==
  ASSUME NEW k \in Sessions, Known(k), at'[k] = at[k], req'[k] = req[k], stale'[k]
  PROVE  Known(k)'
<1>1. Lexical(k, at[k], req[k])'
  BY DEF Known, Lexical, Reach, Relative, Scope
<1> QED BY <1>1 DEF Known

LEMMA TypeIs ==
  ASSUME TypeInv
  PROVE  /\ at \in [Sessions -> {"idle", "checked", "placed", "real", "lost"}]
         /\ answer \in [Sessions -> Answers] /\ req \in [Sessions -> Requests]
         /\ cwd \in [Sessions -> Seq(Names)] /\ asked \in [Sessions -> Nat]
         /\ touched \in [Sessions -> BOOLEAN] /\ stale \in [Sessions -> BOOLEAN]
         /\ MaxRequests \in [Sessions -> Nat]
         /\ \A s \in Sessions : asked[s] \in 0..MaxRequests[s]
         /\ \A p \in DOMAIN tree : tree[p] \in Kinds /\ Len(p) <= MaxDepth
         /\ Rooted(tree)
BY SfsAssumption DEF TypeInv, TypeOK

LEMMA BeginKeeps ==
  ASSUME Inv, NEW s \in Sessions, NEW r, NEW code \in Answers, NEW next \in {"checked", "real"},
         Begin(s, r, code, next),
         code = "Ok" => r \in Requests /\ Lexical(s, next, r) /\ Fresh(s, next, r)
  PROVE  Inv'
<1>1. TypeInv /\ \A k \in Sessions : Known(k)
  BY DEF Inv
<1>2. /\ at \in [Sessions -> {"idle", "checked", "placed", "real", "lost"}]
      /\ answer \in [Sessions -> Answers] /\ req \in [Sessions -> Requests]
      /\ cwd \in [Sessions -> Seq(Names)] /\ asked \in [Sessions -> Nat]
      /\ touched \in [Sessions -> BOOLEAN] /\ stale \in [Sessions -> BOOLEAN]
      /\ MaxRequests \in [Sessions -> Nat]
      /\ \A k \in Sessions : asked[k] \in 0..MaxRequests[k]
  BY <1>1, TypeIs
<1>3. NoRequest \in Requests
  <2>1. <<>> \in Seq(Names)
    OBVIOUS
  <2> QED BY <2>1 DEF NoRequest, Requests
<1>4. /\ tree' = tree /\ cwd' = cwd /\ asked[s] < MaxRequests[s]
      /\ asked' = [asked EXCEPT ![s] = @ + 1]
      /\ touched' = [touched EXCEPT ![s] = FALSE] /\ stale' = [stale EXCEPT ![s] = FALSE]
      /\ at' = [at EXCEPT ![s] = IF code = "Ok" THEN next ELSE "idle"]
      /\ answer' = [answer EXCEPT ![s] = code]
      /\ req' = [req EXCEPT ![s] = IF code = "Ok" THEN r ELSE NoRequest]
  BY DEF Begin
<1>5. req' \in [Sessions -> Requests]
  BY <1>2, <1>3, <1>4
<1>6. \A k \in Sessions : req'[k].op \in Operations \cup {"none"}
  BY <1>5 DEF Requests
<1>7. /\ at' \in [Sessions -> {"idle", "checked", "placed", "real", "lost"}]
      /\ answer' \in [Sessions -> Answers]
  BY <1>2, <1>4
<1>8. touched' \in [Sessions -> BOOLEAN] /\ stale' \in [Sessions -> BOOLEAN]
  BY <1>2, <1>4
<1>9. asked' \in [Sessions -> Nat] /\ \A k \in Sessions : asked'[k] \in 0..MaxRequests[k]
  <2>1. asked[s] \in Nat /\ MaxRequests[s] \in Nat
    BY <1>2
  <2>2. ASSUME NEW k \in Sessions PROVE asked'[k] \in 0..MaxRequests[k]
    BY <1>2, <1>4, <2>1
  <2> QED BY <1>2, <1>4, <2>1, <2>2
<1>10. TypeInv'
  <2>1. TypeOK'
    BY <1>1, <1>4, <1>6, <1>7, <1>8, <1>9 DEF TypeInv, TypeOK, Rooted
  <2>2. IsTree(tree)'
    BY <1>1, <1>4 DEF TypeInv, IsTree, Rooted
  <2> QED BY <1>2, <1>4, <1>5, <1>9, <2>1, <2>2 DEF TypeInv
<1>11. ASSUME NEW k \in Sessions, k # s PROVE Known(k)'
  <2>1. at'[k] = at[k] /\ req'[k] = req[k] /\ stale'[k] = stale[k]
    BY <1>2, <1>4, <1>11
  <2> QED BY <1>1, <1>4, <2>1, Steady
<1>12. Known(s)'
  <2>1. CASE code # "Ok"
    <3>1. at'[s] = "idle"
      BY <1>2, <1>4, <2>1
    <3> QED BY <3>1, Idle
  <2>2. CASE code = "Ok"
    <3>1. at'[s] = next /\ req'[s] = r
      BY <1>2, <1>4, <2>2
    <3>2. Lexical(s, at[s], req[s])'
      BY <2>2, <3>1 DEF Lexical, Reach, Relative, Scope
    <3>3. NotUserFile(r.path) => NotUserFile(req[s].path)'
      BY <1>4, <3>1 DEF NotUserFile, UserFile, IsUIFFile, IsIn, IsDir, IsEntry
    <3>4. NotUserFile(r.target) => NotUserFile(req[s].target)'
      BY <1>4, <3>1 DEF NotUserFile, UserFile, IsUIFFile, IsIn, IsDir, IsEntry
    <3>5. CanAccess(s, r.path) => CanAccess(s, req[s].path)'
      BY <1>4, <3>1 DEF CanAccess, Perso, IsUIFFile, IsIn, IsDir, IsEntry
    <3>6. Fresh(s, at[s], req[s])'
      BY <1>4, <2>2, <3>1, <3>3, <3>4, <3>5 DEF Fresh
    <3> QED BY <3>2, <3>6 DEF Known
  <2> QED BY <2>1, <2>2
<1> QED BY <1>10, <1>11, <1>12 DEF Inv

LEMMA WorkedKeeps ==
  ASSUME Inv, NEW s \in Sessions, Worked(s)
  PROVE  Inv'
<1>1. TypeInv /\ \A k \in Sessions : Known(k)
  BY DEF Inv
<1>2. /\ at \in [Sessions -> {"idle", "checked", "placed", "real", "lost"}]
      /\ answer \in [Sessions -> Answers] /\ req \in [Sessions -> Requests]
      /\ cwd \in [Sessions -> Seq(Names)] /\ asked \in [Sessions -> Nat]
      /\ touched \in [Sessions -> BOOLEAN] /\ stale \in [Sessions -> BOOLEAN]
      /\ \A k \in Sessions : asked[k] \in 0..MaxRequests[k]
  BY <1>1, TypeIs
<1>3. PICK t :
        /\ Lawful(s, t) /\ Write(s, t)
        /\ \/ \E code \in Answers : Respond(s, code)
           \/ /\ at[s] = "checked" /\ req[s].op \in CopyOrMove
              /\ \A q \in DOMAIN t : Same(t, q) \/ New(t, q)
              /\ \E place \in {"placed", "lost"} : at' = [at EXCEPT ![s] = place]
              /\ UNCHANGED <<cwd, req, answer, asked>>
  BY DEF Worked
<1>4. /\ tree' = t /\ IsTree(t) /\ \A p \in DOMAIN t : Len(p) <= MaxDepth
      /\ touched' = [touched EXCEPT ![s] = @ \/ t # tree]
      /\ stale' = [k \in Sessions |-> stale[k] \/ (k # s /\ t # tree /\ at[k] # "idle")]
  BY <1>3 DEF Lawful, Write
<1>5. req' = req /\ cwd' = cwd /\ asked' = asked
  BY <1>3 DEF Respond
<1>6. answer' \in [Sessions -> Answers]
  BY <1>2, <1>3 DEF Respond
<1>7. \E place \in {"idle", "placed", "lost"} : at' = [at EXCEPT ![s] = place]
  BY <1>3 DEF Respond
<1>8. /\ at' \in [Sessions -> {"idle", "checked", "placed", "real", "lost"}]
      /\ \A k \in Sessions : k # s => at'[k] = at[k]
  BY <1>2, <1>7
<1>9. touched' \in [Sessions -> BOOLEAN]
  BY <1>2, <1>4
<1>10. stale' \in [Sessions -> BOOLEAN]
  <2>1. ASSUME NEW k \in Sessions
        PROVE  (stale[k] \/ (k # s /\ t # tree /\ at[k] # "idle")) \in BOOLEAN
    OBVIOUS
  <2> QED BY <1>4, <2>1
<1>11. TypeInv'
  <2>1. \A k \in Sessions : req'[k].op \in Operations \cup {"none"}
    BY <1>2, <1>5 DEF Requests
  <2>2. TypeOK'
    <3>1. \A p \in DOMAIN t : t[p] \in Kinds /\ Len(p) <= MaxDepth
      BY <1>4 DEF IsTree
    <3>2. Rooted(tree')
      BY <1>4 DEF IsTree
    <3> QED BY <1>2, <1>4, <1>5, <1>6, <1>8, <1>9, <1>10, <2>1, <3>1, <3>2 DEF TypeOK, Rooted
  <2>3. IsTree(tree)'
    BY <1>4 DEF IsTree, Rooted
  <2> QED BY <1>2, <1>5, <2>2, <2>3 DEF TypeInv
<1>12. ASSUME NEW k \in Sessions, k # s PROVE Known(k)'
  <2>1. at'[k] = at[k] /\ req'[k] = req[k] /\ Known(k)
    BY <1>1, <1>5, <1>8, <1>12
  <2>2. stale'[k] <=> stale[k] \/ (t # tree /\ at[k] # "idle")
    BY <1>4, <1>12
  <2>3. CASE t = tree
    BY <1>4, <2>1, <2>2, <2>3, Steady
  <2>4. CASE t # tree /\ at[k] # "idle"
    BY <2>1, <2>2, <2>4, Outdated
  <2>5. CASE at[k] = "idle"
    BY <2>1, <2>5, Idle
  <2> QED BY <2>3, <2>4, <2>5
<1>13. Known(s)'
  <2>1. CASE at'[s] \in {"idle", "lost"}
    BY <2>1, Idle
  <2>2. CASE at'[s] = "placed"
    <3>1. /\ at[s] = "checked" /\ req[s].op \in CopyOrMove
          /\ \A q \in DOMAIN t : Same(t, q) \/ New(t, q)
      <4>1. ASSUME NEW code, Respond(s, code) PROVE FALSE
        BY <1>2, <2>2, <4>1 DEF Respond
      <4> QED BY <1>3, <4>1
    <3>2. Known(s) /\ (stale'[s] <=> stale[s])
      BY <1>1, <1>4
    <3>3. Lexical(s, at[s], req[s])'
      BY <1>5, <2>2, <3>1, <3>2 DEF Known, Lexical, Reach, Relative, Scope
    <3>4. ASSUME NEW q \in DOMAIN t, UserFile(q)' PROVE q \in DOMAIN tree /\ UserFile(q)
      <4>1. t[q] # Dir /\ q # <<>> /\ IsUIFFile(q)'
        BY <1>4, <3>4 DEF UserFile, IsUIFFile
      <4>2. Same(t, q) /\ q \in DOMAIN tree
        BY <3>1, <4>1 DEF New, Same
      <4>3. tree[q] # Dir
        BY <4>1, <4>2 DEF Same
      <4>4. Front(q) \in Seq(Plain) /\ Front(q) \in DOMAIN tree /\ tree[Front(q)] = Dir
        BY <1>1, <4>1, <4>2, RootedAt DEF TypeInv
      <4>5. IsDir(Front(q))
        BY <4>4, NormalOfPlain DEF IsDir, IsEntry
      <4>6. Last(q) = ".uif" /\ IsIn(Front(q), SUsers) /\ Front(q) # SUsers
        BY <4>1 DEF IsUIFFile
      <4> QED BY <4>1, <4>2, <4>3, <4>5, <4>6 DEF UserFile, IsUIFFile
    <3>5. NotUserFile(req[s].path) => NotUserFile(req[s].path)'
      BY <1>4, <1>5, <3>4 DEF NotUserFile
    <3>6. NotUserFile(req[s].target) => NotUserFile(req[s].target)'
      BY <1>4, <1>5, <3>4 DEF NotUserFile
    <3>7. Fresh(s, at[s], req[s]) => Fresh(s, at[s], req[s])'
      BY <1>5, <2>2, <3>1, <3>5, <3>6 DEF Fresh
    <3> QED BY <3>2, <3>3, <3>7 DEF Known
  <2>3. at'[s] \in {"idle", "placed", "lost"}
    BY <1>2, <1>7
  <2> QED BY <2>1, <2>2, <2>3
<1> QED BY <1>11, <1>12, <1>13 DEF Inv

LEMMA ChangeDirKeeps ==
  ASSUME Inv, NEW s \in Sessions, ChangeDir(s)
  PROVE  Inv'
<1>1. TypeInv /\ \A k \in Sessions : Known(k)
  BY DEF Inv
<1>2. /\ at \in [Sessions -> {"idle", "checked", "placed", "real", "lost"}]
      /\ answer \in [Sessions -> Answers] /\ req \in [Sessions -> Requests]
      /\ cwd \in [Sessions -> Seq(Names)]
      /\ \A p \in DOMAIN tree : tree[p] \in Kinds /\ Len(p) <= MaxDepth
  BY <1>1, TypeIs
<1>3. /\ at' = [at EXCEPT ![s] = "idle"]
      /\ cwd' = [cwd EXCEPT ![s] = req[s].target] \/ cwd' = cwd
      /\ answer' = [answer EXCEPT ![s] = "NotDirectory"] \/ answer' = answer
      /\ tree' = tree /\ req' = req /\ touched' = touched /\ stale' = stale /\ asked' = asked
  BY DEF ChangeDir
<1>4. req[s].target \in Seq(Names)
  BY KnownPaths
<1>5. cwd' \in [Sessions -> Seq(Names)]
  BY <1>2, <1>3, <1>4
<1>6. answer' \in [Sessions -> Answers]
  BY <1>2, <1>3, AnswersAre
<1>7. at' \in [Sessions -> {"idle", "checked", "placed", "real", "lost"}]
  BY <1>2, <1>3
<1>8. TypeOK'
  BY <1>1, <1>3, <1>6, <1>7 DEF TypeInv, TypeOK, Rooted
<1>9. TypeInv'
  BY <1>1, <1>3, <1>5, <1>8 DEF TypeInv, IsTree, Rooted
<1>10. ASSUME NEW k \in Sessions PROVE Known(k)'
  <2>1. CASE k = s
    <3>1. at'[k] = "idle"
      BY <1>2, <1>3, <2>1
    <3> QED BY <3>1, Idle
  <2>2. CASE k # s
    <3>1. at'[k] = at[k] /\ req'[k] = req[k] /\ stale'[k] = stale[k] /\ Known(k)
      BY <1>1, <1>2, <1>3, <2>2
    <3> QED BY <1>3, <3>1, Steady
  <2> QED BY <2>1, <2>2
<1> QED BY <1>9, <1>10 DEF Inv

LEMMA TypedIs ==
  ASSUME Inv, NEW s \in Sessions, NEW a \in Seq(Names)
  PROVE  /\ Typed(s, a) \in Seq(Names) /\ Typed(s, a) # <<>>
         /\ Front(Typed(s, a)) \in Seq(Names) /\ Last(Typed(s, a)) \in Names
         /\ Normal(Typed(s, a)) \in Seq(Plain)
<1>1. cwd[s] \in Seq(Names)
  BY TypeIs DEF Inv
<1>2. PICK r : r = cwd[s] \o a
  OBVIOUS
<1>3. r \in Seq(Names) /\ Scope(s) \in Seq(Names) /\ Scope(s) # <<>>
  BY <1>1, <1>2, ConcatIs, ScopeIs
<1>4. Typed(s, a) = Scope(s) \o r
  BY <1>2 DEF Typed, Absolute
<1>5. Typed(s, a) \in Seq(Names) /\ Len(Typed(s, a)) = Len(Scope(s)) + Len(r)
  BY <1>3, <1>4, ConcatIs
<1>6. Len(Scope(s)) \in Nat /\ Len(r) \in Nat /\ Len(Scope(s)) # 0
  BY <1>3, LengthIs
<1>7. Typed(s, a) # <<>>
  BY <1>5, <1>6, LengthIs
<1> QED BY <1>5, <1>7, FrontIs, NormalIs

LEMMA CodesDiffer ==
  /\ "InvalidPermissions" # "Ok" /\ "IOFileNotExists" # "Ok" /\ "IOFileAlreadyExists" # "Ok"
  /\ "checked" # "real" /\ "checked" # "placed" /\ "placed" # "real"
OBVIOUS

LEMMA ChecksAre ==
  ASSUME NEW s, NEW p
  PROVE  /\ CheckAlreadyExist(s, p) \in Answers /\ CheckNotExist(s, p) \in Answers
         /\ CheckAlreadyExist(s, p) = "Ok" => CanAccess(s, p) /\ ~IsEntry(p)
         /\ CheckNotExist(s, p) = "Ok" => CanAccess(s, p) /\ IsEntry(p)
BY AnswersAre, CodesDiffer DEF CheckAlreadyExist, CheckNotExist, Exists

LEMMA AskCreateKeeps ==
  ASSUME Inv, NEW s \in Sessions, AskCreate(s)
  PROVE  Inv'
<1>1. PICK a \in Args[s], op \in {"mkfile", "mkdir"} :
        Begin(s, Request(op, Typed(s, a), Typed(s, a)), CheckAlreadyExist(s, Typed(s, a)), "checked")
  BY DEF AskCreate
<1>2. PICK p, r, code :
        p = Typed(s, a) /\ r = Request(op, p, p) /\ code = CheckAlreadyExist(s, p)
  OBVIOUS
<1>3. a \in Seq(Names)
  BY SfsAssumption
<1>4. p \in Seq(Names) /\ code \in Answers /\ IsTree(tree)
  BY <1>2, <1>3, TypedIs, ChecksAre, KnownPaths
<1>5. r \in Requests /\ r.op = op /\ r.path = p /\ r.target = p /\ r.op \notin CopyOrMove
  BY <1>2, <1>4 DEF Request, Requests, Operations, CopyOrMove
<1>6. ASSUME code = "Ok" PROVE Lexical(s, "checked", r) /\ Fresh(s, "checked", r)
  <2>1. CanAccess(s, p) /\ ~IsEntry(p)
    BY <1>2, <1>6, ChecksAre
  <2>2. Reach(s, p) /\ NotUserFile(p) /\ Normal(p) \notin DOMAIN tree
    BY <1>4, <2>1, AccessIs DEF IsEntry
  <2> QED BY <1>5, <2>2, CodesDiffer DEF Lexical, Fresh
<1> QED BY <1>1, <1>2, <1>4, <1>5, <1>6, BeginKeeps

LEMMA AskDeleteKeeps ==
  ASSUME Inv, NEW s \in Sessions, AskDelete(s)
  PROVE  Inv'
<1>1. PICK a \in Args[s] :
        Begin(s, Request("delete", Typed(s, a), Typed(s, a)), CheckNotExist(s, Typed(s, a)), "checked")
  BY DEF AskDelete
<1>2. PICK p, r, code :
        p = Typed(s, a) /\ r = Request("delete", p, p) /\ code = CheckNotExist(s, p)
  OBVIOUS
<1>3. a \in Seq(Names)
  BY SfsAssumption
<1>4. p \in Seq(Names) /\ code \in Answers /\ IsTree(tree)
  BY <1>2, <1>3, TypedIs, ChecksAre, KnownPaths
<1>5. /\ r \in Requests /\ r.path = p /\ r.target = p
      /\ r.op \notin CopyOrMove /\ r.op \notin Create
  BY <1>2, <1>4 DEF Request, Requests, Operations, CopyOrMove, Create
<1>6. ASSUME code = "Ok" PROVE Lexical(s, "checked", r) /\ Fresh(s, "checked", r)
  <2>1. CanAccess(s, p)
    BY <1>2, <1>6, ChecksAre
  <2>2. Reach(s, p) /\ NotUserFile(p)
    BY <1>4, <2>1, AccessIs
  <2> QED BY <1>5, <2>2, CodesDiffer DEF Lexical, Fresh
<1> QED BY <1>1, <1>2, <1>4, <1>5, <1>6, BeginKeeps

LEMMA AskRenameKeeps ==
  ASSUME Inv, NEW s \in Sessions, AskRename(s)
  PROVE  Inv'
<1>1. PICK a \in Args[s], n \in NewNames :
        Begin(s, [Request("rename", Typed(s, a), Front(Typed(s, a)) \o n) EXCEPT !.valid = IsValidName(n)],
              CheckNotExist(s, Typed(s, a)), "checked")
  BY DEF AskRename
<1>2. PICK p, t, r, code :
        /\ p = Typed(s, a) /\ t = Front(p) \o n /\ code = CheckNotExist(s, p)
        /\ r = [Request("rename", p, t) EXCEPT !.valid = IsValidName(n)]
  OBVIOUS
<1>3. a \in Seq(Names) /\ n \in Seq(Names)
  BY SfsAssumption
<1>4. p \in Seq(Names) /\ Front(p) \in Seq(Names) /\ code \in Answers /\ IsTree(tree)
  BY <1>2, <1>3, TypedIs, ChecksAre, KnownPaths
<1>5. t \in Seq(Names)
  BY <1>2, <1>3, <1>4, ConcatIs
<1>6. /\ r \in Requests /\ r.path = p
      /\ r.op \notin CopyOrMove /\ r.op \notin Create
  <2>1. IsValidName(n) \in BOOLEAN
    BY DEF IsValidName
  <2>2. r = [op |-> "rename", path |-> p, target |-> t, valid |-> IsValidName(n)]
    BY <1>2 DEF Request
  <2> QED BY <1>4, <1>5, <2>1, <2>2 DEF Requests, Operations, CopyOrMove, Create
<1>7. ASSUME code = "Ok" PROVE Lexical(s, "checked", r) /\ Fresh(s, "checked", r)
  <2>1. CanAccess(s, p)
    BY <1>2, <1>7, ChecksAre
  <2>2. Reach(s, p) /\ NotUserFile(p)
    BY <1>4, <2>1, AccessIs
  <2> QED BY <1>6, <2>2, CodesDiffer DEF Lexical, Fresh
<1> QED BY <1>1, <1>2, <1>4, <1>6, <1>7, BeginKeeps

LEMMA AskCopyOrMoveKeeps ==
  ASSUME Inv, NEW s \in Sessions, AskCopyOrMove(s)
  PROVE  Inv'
<1>1. PICK a \in Args[s], b \in Args[s], op \in {"copy", "move"} :
        Begin(s, Request(op, Typed(s, a), Append(Normal(Typed(s, b)), Last(Typed(s, a)))),
              CheckCopyOrMove(s, Typed(s, a), Append(Normal(Typed(s, b)), Last(Typed(s, a)))), "checked")
  BY DEF AskCopyOrMove
<1>2. PICK from, d, n, to, r, code :
        /\ from = Typed(s, a) /\ d = Normal(Typed(s, b)) /\ n = Last(from) /\ to = Append(d, n)
        /\ r = Request(op, from, to) /\ code = CheckCopyOrMove(s, from, to)
  OBVIOUS
<1>3. a \in Seq(Names) /\ b \in Seq(Names)
  BY SfsAssumption
<1>4. /\ from \in Seq(Names) /\ n \in Names /\ d \in Seq(Plain) /\ IsTree(tree)
      /\ code \in Answers
  BY <1>2, <1>3, TypedIs, ChecksAre, KnownPaths, AnswersAre DEF CheckCopyOrMove
<1>5. to \in Seq(Names)
  BY <1>2, <1>4, PlainAre
<1>6. /\ r \in Requests /\ r.path = from /\ r.target = to /\ r.op \notin Create
  BY <1>2, <1>4, <1>5 DEF Request, Requests, Operations, Create
<1>7. ASSUME code = "Ok" PROVE Lexical(s, "checked", r) /\ Fresh(s, "checked", r)
  <2>1. CanAccess(s, from) /\ CanAccess(s, to)
    BY <1>2, <1>7, CodesDiffer DEF CheckCopyOrMove
  <2>2. Reach(s, from) /\ NotUserFile(from) /\ Reach(s, to) /\ NotUserFile(to)
    BY <1>4, <1>5, <2>1, AccessIs
  <2>3. \E e \in Seq(Plain), m \in Names : to = Append(e, m)
    BY <1>2, <1>4
  <2> QED BY <1>6, <2>2, <2>3, CodesDiffer DEF Lexical, Fresh
<1> QED BY <1>1, <1>2, <1>4, <1>6, <1>7, BeginKeeps

LEMMA AskRealPathKeeps ==
  ASSUME Inv, NEW s \in Sessions, AskRealPath(s)
  PROVE  Inv'
<1>1. PICK a \in Args[s] :
        Begin(s, Request("chdir", Typed(s, a), Relative(s, Normal(Typed(s, a)))),
              CheckNotExist(s, Typed(s, a)), "real")
  BY DEF AskRealPath
<1>2. PICK p, t, r, code :
        /\ p = Typed(s, a) /\ t = Relative(s, Normal(p)) /\ r = Request("chdir", p, t)
        /\ code = CheckNotExist(s, p)
  OBVIOUS
<1>3. a \in Seq(Names)
  BY SfsAssumption
<1>4. p \in Seq(Names) /\ Normal(p) \in Seq(Plain) /\ code \in Answers /\ IsTree(tree)
  BY <1>2, <1>3, TypedIs, ChecksAre, KnownPaths
<1>5. r.path = p /\ r.target = t /\ r.op = "chdir"
  BY <1>2 DEF Request
<1>6. ASSUME code = "Ok" PROVE r \in Requests /\ Lexical(s, "real", r) /\ Fresh(s, "real", r)
  <2>1. CanAccess(s, p)
    BY <1>2, <1>6, ChecksAre
  <2>2. Reach(s, p)
    BY <1>4, <2>1, AccessIs
  <2>3. t \in Seq(Names)
    BY <1>2, <1>4, <2>2, PlainAre, RestIs, ScopeIs DEF Relative, Rest, Reach
  <2>4. r \in Requests
    BY <1>2, <1>4, <2>3 DEF Request, Requests, Operations
  <2> QED BY <1>2, <1>5, <2>1, <2>2, <2>4, CodesDiffer DEF Lexical, Fresh
<1> QED BY <1>1, <1>2, <1>4, <1>6, BeginKeeps

-----------------------------------------------------------------------------
(* The theorems.                                                           *)

LEMMA InitEstablishes ==
  ASSUME Init
  PROVE  Inv
<1>1. IsTree(tree)
  BY SfsAssumption DEF Init, IsTree, Plain
<1>2. NoRequest \in Requests
  <2>1. <<>> \in Seq(Names)
    OBVIOUS
  <2> QED BY <2>1 DEF NoRequest, Requests
<1>3. req \in [Sessions -> Requests]
  BY <1>2 DEF Init
<1>4. cwd \in [Sessions -> Seq(Names)]
  <2>1. ASSUME NEW s \in Sessions PROVE Home(s) \in Seq(Names)
    <3>1. PersoName[s] \in Names /\ "network" \in Names
      BY SfsAssumption
    <3> QED BY <3>1 DEF Home
  <2> QED BY <2>1 DEF Init
<1>5. asked \in [Sessions -> Nat] /\ \A s \in Sessions : asked[s] \in 0..MaxRequests[s]
  BY SfsAssumption DEF Init
<1>6. answer \in [Sessions -> Answers]
  BY AnswersAre DEF Init
<1>7. TypeOK
  <2>1. \A s \in Sessions : req[s].op \in Operations \cup {"none"}
    BY <1>3 DEF Requests
  <2>2. \A p \in DOMAIN tree : tree[p] \in Kinds /\ Len(p) <= MaxDepth
    BY SfsAssumption DEF Init
  <2>3. Rooted(tree)
    BY <1>1 DEF IsTree
  <2>4. at \in [Sessions -> {"idle", "checked", "placed", "real", "lost"}]
    BY DEF Init
  <2>5. touched \in [Sessions -> BOOLEAN] /\ stale \in [Sessions -> BOOLEAN]
    BY DEF Init
  <2> QED BY <1>5, <1>6, <2>1, <2>2, <2>3, <2>4, <2>5 DEF TypeOK
<1>8. TypeInv
  BY <1>1, <1>3, <1>4, <1>5, <1>7 DEF TypeInv
<1>9. ASSUME NEW s \in Sessions PROVE Known(s)
  <2>1. at[s] = "idle"
    BY DEF Init
  <2> QED BY <2>1 DEF Known, Lexical, Fresh
<1> QED BY <1>8, <1>9 DEF Inv

\* A request that begins, or the client that moves, leaves the tree alone.
Looked(s) == tree' = tree /\ \A k \in Sessions : k # s => at'[k] = at[k]

LEMMA BeginLooks ==
  ASSUME Inv, NEW s \in Sessions, NEW r, NEW code, NEW next, Begin(s, r, code, next)
  PROVE  Looked(s) /\ at[s] = "idle"
BY TypeIs DEF Inv, Begin, Looked

LEMMA StepIs ==
  ASSUME Inv, NEW s \in Sessions, Step(s)
  PROVE  /\ Inv'
         /\ \/ Worked(s) /\ at[s] \in {"checked", "placed"}
            \/ Looked(s) /\ at[s] = "idle"
            \/ Looked(s) /\ ChangeDir(s)
<1>1. CASE AskCreate(s)
  BY <1>1, AskCreateKeeps, BeginLooks DEF AskCreate
<1>2. CASE AskDelete(s)
  BY <1>2, AskDeleteKeeps, BeginLooks DEF AskDelete
<1>3. CASE AskRename(s)
  BY <1>3, AskRenameKeeps, BeginLooks DEF AskRename
<1>4. CASE AskCopyOrMove(s)
  BY <1>4, AskCopyOrMoveKeeps, BeginLooks DEF AskCopyOrMove
<1>5. CASE AskRealPath(s)
  BY <1>5, AskRealPathKeeps, BeginLooks DEF AskRealPath
<1>6. CASE ChangeDir(s)
  BY <1>6, ChangeDirKeeps, TypeIs DEF Inv, ChangeDir, Looked
<1>7. CASE CreateFile(s)
  BY <1>7, CreateFileWorks, WorkedKeeps DEF CreateFile, In
<1>8. CASE CreateDirectory(s)
  BY <1>8, CreateDirectoryWorks, WorkedKeeps DEF CreateDirectory, In
<1>9. CASE DeleteFile(s)
  BY <1>9, DeleteFileWorks, WorkedKeeps DEF DeleteFile, In
<1>10. CASE RenameFile(s)
  BY <1>10, RenameFileWorks, WorkedKeeps DEF RenameFile, In
<1>11. CASE Place(s)
  BY <1>11, PlaceWorks, WorkedKeeps DEF Place
<1>12. CASE MoveFile(s)
  BY <1>12, MoveFileWorks, WorkedKeeps DEF MoveFile, In
<1>13. CASE CopyFile(s)
  BY <1>13, CopyFileWorks, WorkedKeeps DEF CopyFile, In
<1> QED BY <1>1, <1>2, <1>3, <1>4, <1>5, <1>6, <1>7, <1>8, <1>9, <1>10, <1>11, <1>12, <1>13 DEF Step

LEMMA Stutters ==
  ASSUME Inv, UNCHANGED vars
  PROVE  Inv'
<1>1. /\ tree' = tree /\ cwd' = cwd /\ at' = at /\ req' = req /\ answer' = answer
      /\ touched' = touched /\ stale' = stale /\ asked' = asked
  BY DEF vars
<1>2. TypeInv'
  BY <1>1 DEF Inv, TypeInv, TypeOK, Rooted, IsTree
<1>3. \A s \in Sessions : Known(s)'
  BY <1>1, Steady DEF Inv
<1> QED BY <1>2, <1>3 DEF Inv

\* A session of which the place changes is the one that took the step.
LEMMA Mover ==
  ASSUME Inv, [Next]_vars, NEW s \in Sessions, at'[s] # at[s]
  PROVE  \/ Worked(s) /\ at[s] \in {"checked", "placed"}
         \/ tree' = tree /\ at[s] = "idle"
         \/ tree' = tree /\ ChangeDir(s)
<1>1. Next
  BY DEF vars
<1>2. PICK k \in Sessions : Step(k)
  BY <1>1 DEF Next
<1>3. CASE k = s
  BY <1>2, <1>3, StepIs DEF Looked
<1>4. CASE k # s
  <2>1. at'[s] = at[s]
    <3>1. CASE Looked(k)
      BY <1>4, <3>1 DEF Looked
    <3>2. CASE Worked(k)
      <4>1. at \in [Sessions -> {"idle", "checked", "placed", "real", "lost"}]
        BY TypeIs DEF Inv
      <4>2. \E place : at' = [at EXCEPT ![k] = place]
        BY <3>2 DEF Worked, Respond
      <4> QED BY <1>4, <4>1, <4>2
    <3> QED BY <1>2, <3>1, <3>2, StepIs
  <2> QED BY <2>1
<1> QED BY <1>3, <1>4

LEMMA Inductive == Spec => []Inv
<1>1. Inv /\ [Next]_vars => Inv'
  <2> SUFFICES ASSUME Inv, [Next]_vars PROVE Inv'
    OBVIOUS
  <2>1. CASE Next
    BY <2>1, StepIs DEF Next
  <2>2. CASE UNCHANGED vars
    BY <2>2, Stutters
  <2> QED BY <2>1, <2>2
<1> QED BY <1>1, InitEstablishes, PTL DEF Spec

\* The tree of files stays one, of normal paths within the bound, and every session has
\* its place, its request and its answer, whatever the requests.
THEOREM TreeTyped == Spec => []TypeOK
<1>1. Inv => TypeOK
  BY DEF Inv, TypeInv
<1> QED BY <1>1, Inductive, PTL

\* Whatever ".." the paths hold and whatever other sessions did since they were checked,
\* a user's requests change nothing outside the network directory and an admin's nothing
\* outside the storage, but for directories that were missing above.
THEOREM ChangesConfined == Spec => Confined
<1> DEFINE Ok(s) ==
      at'[s] # at[s] =>
        \A p \in DOMAIN tree \cup DOMAIN tree' :
          \/ IsPrefix(Scope(s), p) \/ Kept(p)
          \/ p \notin DOMAIN tree /\ tree'[p] = Dir /\ IsPrefix(p, Scope(s))
<1>1. ASSUME Inv, [Next]_vars, NEW s \in Sessions, at'[s] # at[s],
             NEW p \in DOMAIN tree \cup DOMAIN tree'
      PROVE  \/ IsPrefix(Scope(s), p) \/ Kept(p)
             \/ p \notin DOMAIN tree /\ tree'[p] = Dir /\ IsPrefix(p, Scope(s))
  <2>1. CASE tree' = tree
    BY <2>1 DEF Kept
  <2>2. CASE Worked(s)
    <3>1. PICK t : Confines(s, t) /\ tree' = t
      BY <2>2 DEF Worked, Lawful, Write
    <3> QED BY <1>1, <3>1 DEF Confines, Same, New, Kept
  <2> QED BY <1>1, <2>1, <2>2, Mover
<1>2. Inv /\ [Next]_vars => \A s \in Sessions : Ok(s)
  BY <1>1
<1> QED BY <1>2, Inductive, PTL DEF Spec, Confined

\* The file of a user is replaced or removed only by a request about a directory it lies
\* in, unless another session changed the tree after the check.
THEOREM UserFilesSafe == Spec => UserFilesGuarded
<1> DEFINE Ok(s) ==
      at'[s] # at[s] /\ ~stale[s] =>
        \A p \in DOMAIN tree : tree[p] # Dir /\ IsUIFFile(p) =>
          \/ Kept(p)
          \/ IsStrictPrefix(Normal(req[s].path), p)
          \/ IsStrictPrefix(Normal(req[s].target), p)
<1>1. ASSUME Inv, [Next]_vars, NEW s \in Sessions, at'[s] # at[s], ~stale[s],
             NEW p \in DOMAIN tree, tree[p] # Dir, IsUIFFile(p)
      PROVE  \/ Kept(p)
             \/ IsStrictPrefix(Normal(req[s].path), p)
             \/ IsStrictPrefix(Normal(req[s].target), p)
  <2>1. CASE tree' = tree
    BY <2>1 DEF Kept
  <2>2. CASE Worked(s)
    <3>1. PICK t : Guards(s, t) /\ tree' = t
      BY <2>2 DEF Worked, Lawful, Write
    <3> QED BY <1>1, <3>1 DEF Guards, UserFile, Same, Kept
  <2> QED BY <1>1, <2>1, <2>2, Mover
<1>2. Inv /\ [Next]_vars => \A s \in Sessions : Ok(s)
  BY <1>1
<1> QED BY <1>2, Inductive, PTL DEF Spec, UserFilesGuarded

\* Creating a file or a directory leaves every file with what it holds, unless another
\* session changed the tree after the check.
THEOREM CreationKeeps == Spec => CreateKeepsContent
<1> DEFINE Ok(s) ==
      at[s] = "checked" /\ at'[s] = "idle" /\ req[s].op \in {"mkfile", "mkdir"} /\ ~stale[s]
      => \A p \in DOMAIN tree : p \in DOMAIN tree' /\ tree'[p] = tree[p]
<1>1. ASSUME Inv, [Next]_vars, NEW s \in Sessions, at[s] = "checked", at'[s] = "idle",
             req[s].op \in {"mkfile", "mkdir"}, ~stale[s], NEW p \in DOMAIN tree
      PROVE  p \in DOMAIN tree' /\ tree'[p] = tree[p]
  <2>1. at'[s] # at[s]
    BY <1>1
  <2>2. CASE tree' = tree
    BY <2>2
  <2>3. CASE Worked(s)
    <3>1. PICK t : Keeps(s, t) /\ tree' = t
      BY <2>3 DEF Worked, Lawful, Write
    <3> QED BY <1>1, <3>1 DEF Keeps, Create, Same
  <2> QED BY <1>1, <2>1, <2>2, <2>3, Mover
<1>2. Inv /\ [Next]_vars => \A s \in Sessions : Ok(s)
  BY <1>1
<1> QED BY <1>2, Inductive, PTL DEF Spec, CreateKeepsContent

\* A chdir leads to the directory that was asked for, although the path goes to the client
\* and back in terms relative to the role; and it leads nowhere else.
THEOREM ChdirArrives == Spec => ArrivesWhereAsked
<1> DEFINE Ok(s) ==
      In(s, "real", "chdir") /\ at'[s] = "idle" =>
        LET there == Normal(req[s].path)
            here == Normal(Absolute(s, cwd'[s])) IN
        /\ ~stale[s] /\ IsDir(there) => here = there
        /\ cwd'[s] # cwd[s] => here = there /\ IsDir(there)
<1>1. ASSUME Inv, [Next]_vars, NEW s \in Sessions, In(s, "real", "chdir"), at'[s] = "idle"
      PROVE  /\ ~stale[s] /\ IsDir(Normal(req[s].path)) =>
                  Normal(Absolute(s, cwd'[s])) = Normal(req[s].path)
             /\ cwd'[s] # cwd[s] =>
                  Normal(Absolute(s, cwd'[s])) = Normal(req[s].path) /\ IsDir(Normal(req[s].path))
  <2>1. at[s] = "real" /\ at'[s] # at[s]
    BY <1>1 DEF In
  <2>2. ChangeDir(s)
    BY <1>1, <2>1, Mover
  <2>3. PICK there, p : there = Normal(req[s].path) /\ p = Absolute(s, req[s].target)
    OBVIOUS
  <2>4. /\ IsTree(tree) /\ Known(s) /\ there \in Seq(Plain) /\ there \in Seq(Names)
        /\ cwd \in [Sessions -> Seq(Names)]
    BY <1>1, <2>3, KnownPaths, TypeIs DEF Inv
  <2>5. IsPrefix(Scope(s), there) /\ req[s].target = Rest(Scope(s), there)
    BY <2>1, <2>3, <2>4 DEF Known, Lexical, Reach, Relative, Rest
  <2>6. p = there /\ Normal(p) = there
    <3>1. Scope(s) \in Seq(Names) /\ there = Scope(s) \o Rest(Scope(s), there)
      BY <2>4, <2>5, RestIs, ScopeIs
    <3>2. p = Scope(s) \o Rest(Scope(s), there)
      BY <2>3, <2>5 DEF Absolute
    <3> QED BY <2>4, <3>1, <3>2, NormalOfPlain
  <2>7. IF Exists(s, p) /\ IsDir(p) THEN cwd' = [cwd EXCEPT ![s] = req[s].target] ELSE cwd' = cwd
    BY <2>2, <2>3 DEF ChangeDir
  <2>8. CASE Exists(s, p) /\ IsDir(p)
    <3>1. cwd'[s] = req[s].target
      BY <2>4, <2>7, <2>8
    <3>2. Normal(Absolute(s, cwd'[s])) = there
      BY <2>3, <2>6, <3>1
    <3> QED BY <2>3, <2>6, <2>8, <3>2
  <2>9. CASE ~(Exists(s, p) /\ IsDir(p))
    <3>1. cwd'[s] = cwd[s]
      BY <2>7, <2>9
    <3>2. ASSUME ~stale[s], IsDir(there) PROVE FALSE
      <4>1. CanAccess(s, req[s].path)
        BY <2>1, <2>4, <3>2 DEF Known, Fresh
      <4>2. CanAccess(s, p) /\ IsEntry(p) /\ IsDir(p)
        BY <2>3, <2>6, <3>2, <4>1, AccessSame DEF IsDir
      <4> QED BY <2>9, <4>2 DEF Exists
    <3> QED BY <2>3, <3>1, <3>2
  <2> QED BY <2>8, <2>9
<1>2. Inv /\ [Next]_vars => \A s \in Sessions : Ok(s)
  BY <1>1
<1> QED BY <1>2, Inductive, PTL DEF Spec, ArrivesWhereAsked
=============================================================================

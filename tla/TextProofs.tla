----------------------------- MODULE TextProofs -----------------------------
(***************************************************************************)
(* Proofs about what the client reads: its settings and language files     *)
(* (Settings), for every set of languages, words and strings and all       *)
(* bounds, and the algorithms on texts (Text), for any characters and any  *)
(* lengths.  What they share with the proofs about the server's strings    *)
(* comes first: induction over a set, sequences of sequences, and folds.   *)
(***************************************************************************)
EXTENDS Settings, Text, Integers, SequenceTheorems, FiniteSetTheorems, WellFoundedInduction, TLAPS

-----------------------------------------------------------------------------
(* Induction over a set: one that contains 0 and with every number the     *)
(* next contains them all.                                                 *)

LEMMA LeastNat ==
  ASSUME NEW T, T \subseteq Nat, T # {}
  PROVE  \E x \in T : \A y \in T : x <= y
<1>1. IsWellFoundedOn(OpToRel(<, Nat), Nat)
  BY NatLessThanWellFounded, Zenon
<1>2. \E x \in T : \A y \in T : ~ (<<y, x>> \in OpToRel(<, Nat))
  BY <1>1, WFMin, Zenon
<1>3. PICK x \in T : \A y \in T : ~ (<<y, x>> \in OpToRel(<, Nat))
  BY <1>2, Zenon
<1>4. ASSUME NEW y \in T PROVE x <= y
  <2>1. ~ (<<y, x>> \in {ab \in Nat \X Nat : ab[1] < ab[2]})
    BY <1>3 DEF OpToRel
  <2> QED BY <2>1
<1> QED BY <1>4

LEMMA NatSets ==
  ASSUME NEW S, 0 \in S, \A n \in Nat : n \in S => n + 1 \in S
  PROVE  Nat \subseteq S
<1> SUFFICES ASSUME Nat \ S # {} PROVE FALSE
  OBVIOUS
<1>1. PICK x \in Nat \ S : \A y \in Nat \ S : x <= y
  BY LeastNat
<1> QED BY <1>1

-----------------------------------------------------------------------------
(* Sequences of sequences, one after the other.                            *)

\* f[i] is the first i sequences of s in one, for i up to n.
JoinsUpto(f, s, n) ==
  /\ f[1] = s[1]
  /\ \A i \in 1..n : i > 1 => f[i] = f[i - 1] \o s[i]

Joins(f, s) == JoinsUpto(f, s, Len(s))

Joined(E, s, n) == \E f \in [1..n -> Seq(E)] : JoinsUpto(f, s, n)

\* All sequences have what the first has and each has when the one before it has.
LEMMA AllPlaces ==
  ASSUME NEW n \in Nat, n > 0, NEW S, 1 \in S,
         \A i \in 1..n : i + 1 \in 1..n /\ i \in S => i + 1 \in S
  PROVE  1..n \subseteq S
<1> DEFINE K == {m \in Nat : m + 1 \in 1..n => m + 1 \in S}
<1>1. 0 \in K
  OBVIOUS
<1>2. ASSUME NEW m \in Nat, m \in K PROVE m + 1 \in K
  <2>1. ASSUME (m + 1) + 1 \in 1..n PROVE (m + 1) + 1 \in S
    <3>1. m + 1 \in 1..n
      BY <2>1
    <3>2. m + 1 \in S
      BY <1>2, <3>1
    <3> QED BY <2>1, <3>1, <3>2
  <2>2. m + 1 \in Nat
    OBVIOUS
  <2> QED BY <2>1, <2>2
<1>3. Nat \subseteq K
  <2> HIDE DEF K
  <2> QED BY <1>1, <1>2, NatSets
<1>4. ASSUME NEW i \in 1..n PROVE i \in S
  <2>1. i - 1 \in K /\ (i - 1) + 1 = i
    BY <1>3
  <2> QED BY <2>1
<1> QED BY <1>4

LEMMA JoinsExist ==
  ASSUME NEW E, NEW s \in Seq(Seq(E)), s # <<>>
  PROVE  \E f \in [1..Len(s) -> Seq(E)] : Joins(f, s)
<1>1. Len(s) \in Nat /\ Len(s) > 0 /\ \A i \in 1..Len(s) : s[i] \in Seq(E)
  OBVIOUS
<1> DEFINE K == {n \in Nat : Joined(E, s, n)}
<1>2. 1 \in K
  <2> DEFINE f == [i \in 1..1 |-> s[1]]
  <2>1. f \in [1..1 -> Seq(E)] /\ JoinsUpto(f, s, 1)
    BY <1>1 DEF JoinsUpto
  <2> HIDE DEF f
  <2> QED BY <2>1 DEF Joined
<1>3. ASSUME NEW n \in 1..Len(s), n + 1 \in 1..Len(s), n \in K PROVE n + 1 \in K
  <2>1. PICK f \in [1..n -> Seq(E)] : JoinsUpto(f, s, n)
    BY <1>3 DEF Joined
  <2> DEFINE g == [i \in 1..n + 1 |-> IF i = n + 1 THEN f[n] \o s[n + 1] ELSE f[i]]
  <2>2. g[n + 1] = f[n] \o s[n + 1] /\ \A i \in 1..n : g[i] = f[i]
    BY <1>3
  <2>3. f[n] \o s[n + 1] \in Seq(E)
    <3>1. f[n] \in Seq(E) /\ s[n + 1] \in Seq(E)
      BY <1>1, <1>3
    <3> QED BY <3>1
  <2>4. g \in [1..n + 1 -> Seq(E)]
    BY <2>3
  <2> HIDE DEF g
  <2>5. g[1] = s[1]
    BY <1>3, <2>1, <2>2 DEF JoinsUpto
  <2>6. ASSUME NEW i \in 1..n + 1, i > 1 PROVE g[i] = g[i - 1] \o s[i]
    <3>1. CASE i = n + 1
      <4>1. i - 1 = n /\ n \in 1..n
        BY <1>3, <3>1
      <4> QED BY <2>2, <3>1, <4>1
    <3>2. CASE i # n + 1
      <4>1. i \in 1..n /\ i - 1 \in 1..n
        BY <1>3, <2>6, <3>2
      <4> QED BY <2>1, <2>2, <2>6, <4>1 DEF JoinsUpto
    <3> QED BY <3>1, <3>2
  <2>7. JoinsUpto(g, s, n + 1)
    BY <2>5, <2>6 DEF JoinsUpto
  <2> QED BY <1>3, <2>4, <2>7 DEF Joined
<1>4. 1..Len(s) \subseteq K
  <2> HIDE DEF K
  <2> QED BY <1>1, <1>2, <1>3, AllPlaces
<1>5. Joined(E, s, Len(s))
  BY <1>1, <1>4
<1> QED BY <1>5 DEF Joined, Joins

\* There is one way to join.
LEMMA JoinsOnce ==
  ASSUME NEW E, NEW s \in Seq(Seq(E)), s # <<>>, NEW f, NEW g, Joins(f, s), Joins(g, s)
  PROVE  f[Len(s)] = g[Len(s)]
<1>1. Len(s) \in Nat /\ Len(s) > 0
  OBVIOUS
<1> DEFINE K == {n \in Nat : f[n] = g[n]}
<1>2. 1 \in K
  BY DEF Joins, JoinsUpto
<1>3. ASSUME NEW n \in 1..Len(s), n + 1 \in 1..Len(s), n \in K PROVE n + 1 \in K
  <2>1. n + 1 > 1 /\ (n + 1) - 1 = n /\ f[n] = g[n] /\ n + 1 \in Nat
    BY <1>3
  <2>2. f[n + 1] = f[n] \o s[n + 1] /\ g[n + 1] = g[n] \o s[n + 1]
    BY <1>3, <2>1 DEF Joins, JoinsUpto
  <2> QED BY <2>1, <2>2
<1>4. 1..Len(s) \subseteq K
  <2> HIDE DEF K
  <2> QED BY <1>1, <1>2, <1>3, AllPlaces
<1> QED BY <1>1, <1>4

LEMMA FlatSteps ==
  ASSUME NEW E, NEW s \in Seq(Seq(E)), s # <<>>
  PROVE  \E f \in [1..Len(s) -> Seq(E)] : Joins(f, s) /\ FlattenSeq(s) = f[Len(s)]
<1> DEFINE Is(f) == f = [i \in 1..Len(s) |-> IF i = 1 THEN s[i] ELSE f[i - 1] \o s[i]]
<1>1. Len(s) \in Nat /\ Len(s) > 0
  OBVIOUS
<1>2. FlattenSeq(s) = (CHOOSE f : Is(f))[Len(s)]
  <2>1. Len(s) # 0
    BY <1>1
  <2> QED BY <2>1, Zenon DEF FlattenSeq
<1>3. PICK h \in [1..Len(s) -> Seq(E)] : Joins(h, s)
  BY JoinsExist
<1>4. Is(h)
  <2>1. ASSUME NEW i \in 1..Len(s) PROVE h[i] = IF i = 1 THEN s[i] ELSE h[i - 1] \o s[i]
    <3>1. CASE i = 1
      <4>1. h[i] = s[i]
        BY <1>3, <3>1 DEF Joins, JoinsUpto
      <4> QED BY <3>1, <4>1, Zenon
    <3>2. CASE i # 1
      <4>1. i > 1
        BY <1>1, <3>2
      <4>2. h[i] = h[i - 1] \o s[i]
        BY <1>3, <4>1 DEF Joins, JoinsUpto
      <4> QED BY <3>2, <4>2, Zenon
    <3> QED BY <3>1, <3>2
  <2>2. h = [i \in 1..Len(s) |-> h[i]]
    BY <1>3
  <2> DEFINE v(i) == IF i = 1 THEN s[i] ELSE h[i - 1] \o s[i]
  <2>3. [i \in 1..Len(s) |-> h[i]] = [i \in 1..Len(s) |-> v(i)]
    <3>1. \A i \in 1..Len(s) : h[i] = v(i)
      BY <2>1, Zenon
    <3> HIDE DEF v
    <3> QED BY <3>1
  <2> QED BY <2>2, <2>3
<1>5. Is(CHOOSE f : Is(f))
  BY <1>4, Zenon
<1> DEFINE c == CHOOSE f : Is(f)
<1>6. Is(c)
  BY <1>5, Zenon
<1> HIDE DEF c
<1>7. Joins(c, s)
  <2>1. \A i \in 1..Len(s) : c[i] = IF i = 1 THEN s[i] ELSE c[i - 1] \o s[i]
    BY <1>6, Zenon
  <2>2. 1 \in 1..Len(s) /\ \A i \in 1..Len(s) : i > 1 => i # 1
    BY <1>1
  <2>3. c[1] = s[1] /\ \A i \in 1..Len(s) : i > 1 => c[i] = c[i - 1] \o s[i]
    BY <2>1, <2>2, Zenon
  <2> QED BY <2>3 DEF Joins, JoinsUpto
<1>8. c[Len(s)] = h[Len(s)]
  BY <1>3, <1>7, JoinsOnce
<1> QED BY <1>2, <1>3, <1>8 DEF c

LEMMA FlatEmpty == FlattenSeq(<<>>) = <<>>
  BY DEF FlattenSeq

LEMMA FlatType ==
  ASSUME NEW E, NEW s \in Seq(Seq(E))
  PROVE  FlattenSeq(s) \in Seq(E)
<1>1. CASE s = <<>>
  <2>1. FlattenSeq(s) = <<>>
    BY <1>1, FlatEmpty
  <2> QED BY <2>1
<1>2. CASE s # <<>>
  <2>1. PICK f \in [1..Len(s) -> Seq(E)] : FlattenSeq(s) = f[Len(s)]
    BY <1>2, FlatSteps
  <2>2. Len(s) \in 1..Len(s)
    BY <1>2
  <2> QED BY <2>1, <2>2
<1> QED BY <1>1, <1>2

\* What is joined in any way is the sequence.
LEMMA FlatBy ==
  ASSUME NEW E, NEW s \in Seq(Seq(E)), s # <<>>, NEW g, Joins(g, s)
  PROVE  g[Len(s)] = FlattenSeq(s)
<1>1. PICK f \in [1..Len(s) -> Seq(E)] : Joins(f, s) /\ FlattenSeq(s) = f[Len(s)]
  BY FlatSteps
<1> QED BY <1>1, JoinsOnce

\* Nothing more at the end.
LEMMA FlatNothing ==
  ASSUME NEW E, NEW s \in Seq(Seq(E))
  PROVE  FlattenSeq(Append(s, <<>>)) = FlattenSeq(s)
<1> DEFINE e == <<>>
           w == Append(s, e)
<1>1. w \in Seq(Seq(E)) /\ w # <<>> /\ Len(w) = Len(s) + 1 /\ Len(s) \in Nat
  OBVIOUS
<1>2. w[Len(s) + 1] = e /\ \A i \in 1..Len(s) : w[i] = s[i]
  OBVIOUS
<1>3. CASE s = <<>>
  <2>1. PICK f \in [1..Len(w) -> Seq(E)] : Joins(f, w) /\ FlattenSeq(w) = f[Len(w)]
    BY <1>1, FlatSteps
  <2>2. FlattenSeq(w) = w[1] /\ Len(s) = 0
    BY <1>1, <1>3, <2>1 DEF Joins, JoinsUpto
  <2> QED BY <1>2, <1>3, <2>2, FlatEmpty
<1>4. CASE s # <<>>
  <2>1. PICK f \in [1..Len(s) -> Seq(E)] : Joins(f, s) /\ FlattenSeq(s) = f[Len(s)]
    BY <1>4, FlatSteps
  <2> DEFINE g == [i \in 1..Len(s) + 1 |-> IF i = Len(s) + 1 THEN f[Len(s)] ELSE f[i]]
  <2>2. Len(s) > 0 /\ f[Len(s)] \in Seq(E)
    <3>1. Len(s) > 0 /\ Len(s) \in 1..Len(s)
      BY <1>1, <1>4
    <3> QED BY <3>1
  <2>3. f[Len(s)] \o e = f[Len(s)]
    BY <2>2
  <2> HIDE DEF e, w
  <2>4. g[1] = w[1]
    BY <1>1, <1>2, <2>1, <2>2 DEF Joins, JoinsUpto
  <2>5. ASSUME NEW i \in 1..Len(w), i > 1 PROVE g[i] = g[i - 1] \o w[i]
    <3>1. CASE i = Len(s) + 1
      <4>1. g[i] = f[Len(s)] /\ g[i - 1] = f[Len(s)]
        BY <1>1, <2>2, <3>1
      <4>2. w[i] = e
        BY <1>2, <3>1
      <4> HIDE DEF g
      <4> QED BY <2>3, <4>1, <4>2
    <3>2. CASE i # Len(s) + 1
      <4>1. i \in 1..Len(s) /\ i - 1 \in 1..Len(s) /\ i - 1 # Len(s) + 1
        BY <1>1, <2>5, <3>2
      <4>2. g[i] = f[i] /\ g[i - 1] = f[i - 1] /\ w[i] = s[i]
        BY <1>1, <1>2, <3>2, <4>1
      <4> HIDE DEF g
      <4> QED BY <2>1, <2>5, <4>1, <4>2 DEF Joins, JoinsUpto
    <3> QED BY <3>1, <3>2
  <2>6. g[Len(w)] = f[Len(s)]
    BY <1>1
  <2> HIDE DEF g
  <2>7. Joins(g, w)
    BY <2>4, <2>5 DEF Joins, JoinsUpto
  <2>8. g[Len(w)] = FlattenSeq(w)
    BY <1>1, <2>7, FlatBy
  <2> QED BY <2>1, <2>6, <2>8 DEF w, e
<1> QED BY <1>3, <1>4

\* The first k sequences of s, and nothing where there are fewer.
Upto(s, k) == [j \in 1..k |-> IF j <= Len(s) THEN s[j] ELSE <<>>]

LEMMA FlatPadded ==
  ASSUME NEW E, NEW s \in Seq(Seq(E)), NEW k \in Nat, Len(s) <= k
  PROVE  FlattenSeq(Upto(s, k)) = FlattenSeq(s)
<1>1. Len(s) \in Nat /\ \A i \in 1..Len(s) : s[i] \in Seq(E)
  OBVIOUS
<1> DEFINE K == {n \in Nat : FlattenSeq(Upto(s, Len(s) + n)) = FlattenSeq(s)}
<1>2. 0 \in K
  <2>1. Upto(s, Len(s) + 0) = s
    BY <1>1 DEF Upto
  <2> QED BY <2>1
<1>3. ASSUME NEW n \in Nat, n \in K PROVE n + 1 \in K
  <2> DEFINE u == Upto(s, Len(s) + n)
  <2>1. u \in Seq(Seq(E)) /\ Len(u) = Len(s) + n
    <3>1. \A i \in 1..Len(s) + n : u[i] \in Seq(E)
      BY <1>1 DEF Upto
    <3> QED BY <1>1, <3>1 DEF Upto
  <2>2. Upto(s, Len(s) + (n + 1)) = Append(u, <<>>)
    <3>1. DOMAIN Upto(s, Len(s) + (n + 1)) = 1..Len(u) + 1
      BY <1>1, <2>1 DEF Upto
    <3>2. \A i \in 1..Len(u) + 1 : Upto(s, Len(s) + (n + 1))[i] = Append(u, <<>>)[i]
      BY <1>1, <2>1 DEF Upto
    <3>3. Upto(s, Len(s) + (n + 1)) \in Seq(Seq(E))
      <4>1. \A i \in 1..Len(s) + (n + 1) : Upto(s, Len(s) + (n + 1))[i] \in Seq(E)
        BY <1>1 DEF Upto
      <4> QED BY <1>1, <4>1 DEF Upto
    <3> DEFINE w == Upto(s, Len(s) + (n + 1))
               e == <<>>
    <3>4. w \in Seq(Seq(E)) /\ Len(w) = Len(u) + 1 /\ Append(u, e) \in Seq(Seq(E))
          /\ Len(Append(u, e)) = Len(u) + 1
      BY <1>1, <2>1, <3>1, <3>3
    <3>5. \A i \in 1..Len(w) : w[i] = Append(u, e)[i]
      BY <3>2, <3>4
    <3> HIDE DEF u, w, e
    <3>6. w = Append(u, e)
      BY <3>4, <3>5, SeqEqual, Zenon
    <3> QED BY <3>6 DEF u, w, e
  <2> HIDE DEF u
  <2>3. FlattenSeq(Append(u, <<>>)) = FlattenSeq(u)
    BY <2>1, FlatNothing
  <2>4. FlattenSeq(u) = FlattenSeq(s)
    BY <1>3 DEF u
  <2>5. FlattenSeq(Upto(s, Len(s) + (n + 1))) = FlattenSeq(s)
    BY <2>2, <2>3, <2>4, Zenon
  <2>6. n + 1 \in Nat
    OBVIOUS
  <2> QED BY <2>5, <2>6
<1>4. Nat \subseteq K
  <2> HIDE DEF K
  <2> QED BY <1>2, <1>3, NatSets
<1>5. k - Len(s) \in Nat /\ Len(s) + (k - Len(s)) = k
  BY <1>1
<1>6. k - Len(s) \in K
  BY <1>4, <1>5, Zenon
<1> QED BY <1>5, <1>6

\* Where each of some sequences is when they are one after the other.
FlatAt(f, s, flat) ==
  /\ f[0] = <<>> /\ f[Len(s)] = flat
  /\ \A i \in 1..Len(s) :
       /\ f[i] = f[i - 1] \o s[i] /\ Len(f[i]) = Len(f[i - 1]) + Len(s[i]) /\ Len(f[i]) <= Len(flat)
       /\ \A j \in 1..Len(s[i]) : flat[Len(f[i - 1]) + j] = s[i][j]

LEMMA FlatPlaces ==
  ASSUME NEW E, NEW s \in Seq(Seq(E)), s # <<>>
  PROVE  \E f \in [0..Len(s) -> Seq(E)] : FlatAt(f, s, FlattenSeq(s))
<1>1. PICK c \in [1..Len(s) -> Seq(E)] : Joins(c, s) /\ FlattenSeq(s) = c[Len(s)]
  BY FlatSteps
<1>2. Len(s) \in Nat /\ Len(s) > 0 /\ \A i \in 1..Len(s) : s[i] \in Seq(E)
  OBVIOUS
<1> DEFINE e == <<>>
           f == [i \in 0..Len(s) |-> IF i = 0 THEN e ELSE c[i]]
           flat == FlattenSeq(s)
<1>3. e \in Seq(E) /\ Len(e) = 0 /\ \A x \in Seq(E) : e \o x = x
  BY ConcatEmptySeq
<1>4. f \in [0..Len(s) -> Seq(E)] /\ f[0] = e /\ \A i \in 1..Len(s) : f[i] = c[i]
  BY <1>2, <1>3
<1> HIDE DEF e, f, flat
<1>5. ASSUME NEW i \in 1..Len(s)
      PROVE  f[i] = f[i - 1] \o s[i] /\ Len(f[i]) = Len(f[i - 1]) + Len(s[i])
             /\ (\A j \in 1..Len(f[i - 1]) : f[i][j] = f[i - 1][j])
             /\ (\A j \in 1..Len(s[i]) : f[i][Len(f[i - 1]) + j] = s[i][j])
  <2>1. f[i] = f[i - 1] \o s[i]
    <3>1. CASE i = 1
      <4>1. f[i] = s[i] /\ f[i - 1] = e
        BY <1>1, <1>2, <1>4, <3>1 DEF Joins, JoinsUpto
      <4> QED BY <1>2, <1>3, <4>1
    <3>2. CASE i # 1
      <4>1. i > 1 /\ i - 1 \in 1..Len(s)
        BY <3>2
      <4>2. c[i] = c[i - 1] \o s[i]
        BY <1>1, <4>1 DEF Joins, JoinsUpto
      <4> QED BY <1>4, <4>1, <4>2
    <3> QED BY <3>1, <3>2
  <2>2. f[i - 1] \in Seq(E) /\ s[i] \in Seq(E)
    <3>1. i - 1 \in 0..Len(s)
      BY <1>2
    <3> QED BY <1>2, <1>4, <3>1
  <2> DEFINE x == f[i - 1]
             y == s[i]
             z == f[i]
  <2> HIDE DEF x, y, z
  <2>3. z = x \o y /\ x \in Seq(E) /\ y \in Seq(E)
    BY <2>1, <2>2 DEF x, y, z
  <2>4. Len(z) = Len(x) + Len(y) /\ (\A j \in 1..Len(x) : z[j] = x[j]) /\ \A j \in 1..Len(y) : z[Len(x) + j] = y[j]
    BY <2>3
  <2> QED BY <2>1, <2>4 DEF x, y, z
<1> DEFINE Prefixed(n) == \A i \in 0..n : Len(f[i]) <= Len(f[n]) /\ \A j \in 1..Len(f[i]) : f[n][j] = f[i][j]
           K == {n \in Nat : n <= Len(s) => Prefixed(n)}
<1>6. \A i \in 0..Len(s) : Len(f[i]) \in Nat /\ f[i] \in Seq(E)
  <2>1. \A x \in Seq(E) : Len(x) \in Nat
    OBVIOUS
  <2> QED BY <1>4, <2>1
<1>7. 0 \in K
  BY <1>2, <1>6
<1>8. ASSUME NEW n \in Nat, n \in K PROVE n + 1 \in K
  <2> SUFFICES ASSUME n + 1 <= Len(s), NEW i \in 0..n + 1
               PROVE  Len(f[i]) <= Len(f[n + 1]) /\ \A j \in 1..Len(f[i]) : f[n + 1][j] = f[i][j]
    OBVIOUS
  <2>1. n + 1 \in 1..Len(s) /\ (n + 1) - 1 = n /\ n \in 0..Len(s) /\ i \in 0..Len(s) /\ n <= Len(s)
    BY <1>2
  <2>2. Len(f[n]) <= Len(f[n + 1]) /\ \A j \in 1..Len(f[n]) : f[n + 1][j] = f[n][j]
    <3>1. Len(f[n + 1]) = Len(f[n]) + Len(s[n + 1]) /\ \A j \in 1..Len(f[n]) : f[n + 1][j] = f[n][j]
      <4> DEFINE m == n + 1
      <4>1. m \in 1..Len(s) /\ m - 1 = n
        BY <2>1
      <4> HIDE DEF m
      <4>2. Len(f[m]) = Len(f[m - 1]) + Len(s[m]) /\ \A j \in 1..Len(f[m - 1]) : f[m][j] = f[m - 1][j]
        BY <1>5, <4>1
      <4> QED BY <4>1, <4>2, Zenon DEF m
    <3>2. s[n + 1] \in Seq(E)
      BY <1>2, <2>1
    <3>3. Len(s[n + 1]) \in Nat
      BY <3>2
    <3>4. Len(f[n]) \in Nat
      BY <1>6, <2>1
    <3> DEFINE x == Len(f[n])
               y == Len(f[n + 1])
               z == Len(s[n + 1])
    <3>5. x \in Nat /\ z \in Nat /\ y = x + z
      BY <3>1, <3>3, <3>4
    <3>6. x <= y
      <4> HIDE DEF x, y, z
      <4> QED BY <3>5
    <3> QED BY <3>1, <3>6
  <2>3. CASE i = n + 1
    BY <1>6, <2>1, <2>3
  <2>4. CASE i \in 0..n
    <3>1. Len(f[i]) <= Len(f[n]) /\ \A j \in 1..Len(f[i]) : f[n][j] = f[i][j]
      BY <1>8, <2>1, <2>4
    <3>2. Len(f[i]) \in Nat /\ Len(f[n]) \in Nat /\ Len(f[n + 1]) \in Nat
      BY <1>6, <2>1
    <3>3. ASSUME NEW j \in 1..Len(f[i]) PROVE f[n + 1][j] = f[i][j]
      <4>1. j \in 1..Len(f[n])
        BY <3>1, <3>2
      <4> QED BY <2>2, <3>1, <4>1
    <3> QED BY <2>2, <3>1, <3>2, <3>3
  <2> QED BY <2>1, <2>3, <2>4
<1>9. Nat \subseteq K
  <2> HIDE DEF K
  <2> QED BY <1>7, <1>8, NatSets
<1>10. Prefixed(Len(s))
  BY <1>2, <1>9
<1>11. f[Len(s)] = flat
  BY <1>1, <1>2, <1>4 DEF flat
<1>12. ASSUME NEW i \in 1..Len(s)
       PROVE  Len(f[i]) <= Len(flat) /\ \A j \in 1..Len(s[i]) : flat[Len(f[i - 1]) + j] = s[i][j]
  <2>1. i \in 0..Len(s) /\ i - 1 \in 0..Len(s)
    BY <1>2
  <2>2. Len(f[i]) <= Len(flat) /\ \A j \in 1..Len(f[i]) : flat[j] = f[i][j]
    <3> HIDE DEF K
    <3> QED BY <1>10, <1>11, <2>1
  <2> HIDE DEF Prefixed
  <2>3. s[i] \in Seq(E) /\ Len(f[i - 1]) \in Nat /\ Len(f[i]) \in Nat
    BY <1>2, <1>6, <2>1
  <2>4. Len(s[i]) \in Nat
    BY <2>3
  <2>5. ASSUME NEW j \in 1..Len(s[i]) PROVE flat[Len(f[i - 1]) + j] = s[i][j]
    <3>1. Len(f[i]) = Len(f[i - 1]) + Len(s[i]) /\ f[i][Len(f[i - 1]) + j] = s[i][j]
      BY <1>5
    <3>2. Len(f[i - 1]) + j \in 1..Len(f[i])
      <4> DEFINE x == Len(f[i - 1])
                 y == Len(f[i])
                 z == Len(s[i])
      <4>1. x \in Nat /\ z \in Nat /\ y = x + z /\ j \in 1..z
        BY <2>3, <2>4, <3>1
      <4> HIDE DEF x, y, z
      <4>2. x + j \in 1..y
        BY <4>1
      <4> QED BY <4>2 DEF x, y
    <3> QED BY <2>2, <3>1, <3>2
  <2> QED BY <2>2, <2>5
<1>13. FlatAt(f, s, flat)
  BY <1>4, <1>5, <1>11, <1>12 DEF FlatAt, e
<1> QED BY <1>4, <1>13 DEF flat

-----------------------------------------------------------------------------
(* Folds.                                                                  *)

LEMMA MaxIs ==
  ASSUME NEW k \in Nat, NEW s \in SUBSET (1..k + 1), k + 1 \in s
  PROVE  Max(s) = k + 1
<1>1. \A x \in s : k + 1 >= x
  OBVIOUS
<1>2. \A m \in s : (\A x \in s : m >= x) => m = k + 1
  BY <1>1
<1> DEFINE P(m) == \A x \in s : m >= x
<1>3. \E m \in s : P(m)
  BY <1>1
<1>4. Max(s) = CHOOSE m \in s : P(m)
  BY DEF Max
<1>5. (CHOOSE m \in s : P(m)) \in s /\ P(CHOOSE m \in s : P(m))
  BY <1>3, Zenon
<1> QED BY <1>2, <1>4, <1>5

LEMMA MaxIn ==
  ASSUME NEW n \in Nat, NEW s \in SUBSET (1..n), s # {}
  PROVE  Max(s) \in s
<1> DEFINE T == {n - x : x \in s}
<1>1. T \subseteq Nat
  <2>1. ASSUME NEW x \in s PROVE n - x \in Nat
    <3>1. x \in 1..n
      OBVIOUS
    <3> QED BY <3>1
  <2> QED BY <2>1
<1>1a. T # {}
  OBVIOUS
<1>2. PICK t \in T : \A u \in T : t <= u
  BY <1>1, <1>1a, LeastNat
<1>3. PICK m \in s : t = n - m
  OBVIOUS
<1>4. \A x \in s : m >= x
  <2>1. ASSUME NEW x \in s PROVE m >= x
    <3>1. n - m <= n - x
      BY <1>2, <1>3
    <3> QED BY <3>1
  <2> QED BY <2>1
<1> DEFINE P(y) == \A x \in s : y >= x
<1>5. (CHOOSE y \in s : P(y)) \in s
  BY <1>4, Zenon
<1> QED BY <1>5 DEF Max

\* What a fold goes through, as a function of the places it has folded.
Iterated(h, k, base, g, p) ==
  \A s \in SUBSET (1..k) : h[s] = IF s = {} THEN base ELSE g[<<h[s \ {Max(s)}], p[Max(s)]>>]

LEMMA FoldExists ==
  ASSUME NEW R, NEW E, NEW p \in Seq(E), NEW base \in R, NEW g \in [R \X E -> R]
  PROVE  \E h \in [SUBSET (1..Len(p)) -> R] : Iterated(h, Len(p), base, g, p)
<1> DEFINE Some(k) == \E h \in [SUBSET (1..k) -> R] : Iterated(h, k, base, g, p)
<1> DEFINE K == {k \in Nat : k <= Len(p) => Some(k)}
<1>1. Some(0)
  <2>1. 1..0 = {} /\ SUBSET (1..0) = {{}}
    OBVIOUS
  <2> DEFINE f == [s \in SUBSET (1..0) |-> base]
  <2>2. f \in [SUBSET (1..0) -> R]
    OBVIOUS
  <2>3. \A s \in SUBSET (1..0) : s = {} /\ f[s] = base
    BY <2>1
  <2> HIDE DEF f
  <2>4. Iterated(f, 0, base, g, p)
    BY <2>3 DEF Iterated
  <2> QED BY <2>2, <2>4
<1>2. ASSUME NEW k \in Nat, Some(k), k + 1 <= Len(p) PROVE Some(k + 1)
  <2>1. PICK h \in [SUBSET (1..k) -> R] : Iterated(h, k, base, g, p)
    BY <1>2
  <2> DEFINE f == [s \in SUBSET (1..k + 1) |->
                     IF k + 1 \in s THEN g[<<h[s \ {k + 1}], p[k + 1]>>] ELSE h[s]]
  <2>2. p[k + 1] \in E
    BY <1>2
  <2>3. ASSUME NEW s \in SUBSET (1..k + 1), k + 1 \notin s PROVE s \in SUBSET (1..k)
    BY <2>3
  <2>4. ASSUME NEW s \in SUBSET (1..k + 1) PROVE f[s] \in R
    <3>1. CASE k + 1 \in s
      <4>1. s \ {k + 1} \in SUBSET (1..k) /\ h[s \ {k + 1}] \in R
        BY <2>1, <2>3
      <4> QED BY <2>2, <3>1, <4>1
    <3>2. CASE k + 1 \notin s
      BY <2>1, <2>3, <3>2
    <3> QED BY <3>1, <3>2
  <2>5. f \in [SUBSET (1..k + 1) -> R]
    BY <2>4
  <2>6. ASSUME NEW s \in SUBSET (1..k + 1)
        PROVE  f[s] = IF s = {} THEN base ELSE g[<<f[s \ {Max(s)}], p[Max(s)]>>]
    <3>1. CASE k + 1 \in s
      <4>1. Max(s) = k + 1 /\ s # {}
        BY <3>1, MaxIs
      <4>2. s \ {k + 1} \in SUBSET (1..k + 1) /\ k + 1 \notin s \ {k + 1}
        OBVIOUS
      <4>3. f[s \ {k + 1}] = h[s \ {k + 1}]
        BY <4>2
      <4>4. f[s] = g[<<h[s \ {k + 1}], p[k + 1]>>]
        BY <3>1
      <4> QED BY <4>1, <4>3, <4>4
    <3>2. CASE k + 1 \notin s
      <4>1. s \in SUBSET (1..k) /\ f[s] = h[s]
        BY <2>3, <3>2
      <4>2. CASE s = {}
        BY <2>1, <4>1, <4>2 DEF Iterated
      <4>3. CASE s # {}
        <5>1. h[s] = g[<<h[s \ {Max(s)}], p[Max(s)]>>]
          BY <2>1, <4>1, <4>3 DEF Iterated
        <5>2. s \ {Max(s)} \in SUBSET (1..k + 1) /\ k + 1 \notin s \ {Max(s)}
          BY <3>2
        <5>3. f[s \ {Max(s)}] = h[s \ {Max(s)}]
          BY <5>2
        <5> QED BY <4>1, <4>3, <5>1, <5>3
      <4> QED BY <4>2, <4>3
    <3> QED BY <3>1, <3>2
  <2>7. Iterated(f, k + 1, base, g, p)
    BY <2>6 DEF Iterated
  <2> QED BY <2>5, <2>7
<1>3. Nat \subseteq K
  <2> HIDE DEF Some
  <2>1. 0 \in K
    BY <1>1
  <2>2. ASSUME NEW k \in Nat, k \in K PROVE k + 1 \in K
    <3>1. k + 1 <= Len(p) => k <= Len(p)
      OBVIOUS
    <3> QED BY <1>2, <2>2, <3>1
  <2> QED BY <2>1, <2>2, NatSets
<1>4. Len(p) \in Nat /\ Len(p) <= Len(p)
  OBVIOUS
<1>5. Some(Len(p))
  <2> HIDE DEF Some
  <2> QED BY <1>3, <1>4
<1> QED BY <1>5

\* h is the fold of p by g, as MapThenFoldSet has it.
IsTable(h, R, E, p, base, g) ==
  /\ h \in [SUBSET (DOMAIN p) -> R] /\ h[{}] = base
  /\ \A s \in SUBSET (DOMAIN p) : s # {} =>
       /\ h[s \ {Max(s)}] \in R /\ p[Max(s)] \in E
       /\ h[s] = g[<<h[s \ {Max(s)}], p[Max(s)]>>]

LEMMA FoldTable ==
  ASSUME NEW R, NEW E, NEW p \in Seq(E), NEW base \in R, NEW g \in [R \X E -> R]
  PROVE  \E h : IsTable(h, R, E, p, base, g)
<1>1. DOMAIN p = 1..Len(p) /\ Len(p) \in Nat
  OBVIOUS
<1>2. PICK h \in [SUBSET (1..Len(p)) -> R] : Iterated(h, Len(p), base, g, p)
  BY FoldExists, Zenon
<1>3. h[{}] = base
  BY <1>2 DEF Iterated
<1>4. ASSUME NEW s \in SUBSET (1..Len(p)), s # {}
      PROVE  /\ h[s \ {Max(s)}] \in R /\ p[Max(s)] \in E
             /\ h[s] = g[<<h[s \ {Max(s)}], p[Max(s)]>>]
  <2>1. Max(s) \in s
    BY <1>1, <1>4, MaxIn
  <2>2. Max(s) \in 1..Len(p) /\ s \ {Max(s)} \in SUBSET (1..Len(p))
    BY <2>1
  <2>3. h[s] = g[<<h[s \ {Max(s)}], p[Max(s)]>>]
    BY <1>2, <1>4 DEF Iterated
  <2> QED BY <1>2, <2>2, <2>3
<1>5. IsTable(h, R, E, p, base, g)
  BY <1>1, <1>2, <1>3, <1>4 DEF IsTable
<1> QED BY <1>5

\* g leads from x to y through the elements of s.
Leads(g, x, s, y) ==
  \E h : h[0] = x /\ h[Len(s)] = y /\ \A k \in 0..Len(s) - 1 : h[k + 1] = g[<<h[k], s[k + 1]>>]

LEMMA LeadsNothing ==
  ASSUME NEW g, NEW x
  PROVE  Leads(g, x, <<>>, x)
<1> DEFINE h == [k \in {0} |-> x]
<1>1. h[0] = x
  OBVIOUS
<1>2. Len(<<>>) = 0 /\ 0..0 - 1 = {}
  OBVIOUS
<1> QED BY <1>1, <1>2 DEF Leads

LEMMA LeadsOne ==
  ASSUME NEW g, NEW x, NEW c
  PROVE  Leads(g, x, <<c>>, g[<<x, c>>])
<1> DEFINE y == g[<<x, c>>]
           h == [k \in {0, 1} |-> IF k = 0 THEN x ELSE y]
           s == <<c>>
<1>1. h[0] = x /\ h[1] = y
  OBVIOUS
<1>2. Len(s) = 1 /\ s[1] = c /\ 0..1 - 1 = {0} /\ 0 + 1 = 1
  OBVIOUS
<1> HIDE DEF h, s
<1>3. \A k \in 0..Len(s) - 1 : h[k + 1] = g[<<h[k], s[k + 1]>>]
  BY <1>1, <1>2
<1>4. Leads(g, x, s, y)
  BY <1>1, <1>2, <1>3 DEF Leads
<1> QED BY <1>4 DEF s

LEMMA LeadsOn ==
  ASSUME NEW E, NEW s \in Seq(E), NEW t \in Seq(E), NEW g, NEW x, NEW y, NEW z,
         Leads(g, x, s, y), Leads(g, y, t, z)
  PROVE  Leads(g, x, s \o t, z)
<1>1. PICK a : a[0] = x /\ a[Len(s)] = y /\ \A k \in 0..Len(s) - 1 : a[k + 1] = g[<<a[k], s[k + 1]>>]
  BY DEF Leads
<1>2. PICK b : b[0] = y /\ b[Len(t)] = z /\ \A k \in 0..Len(t) - 1 : b[k + 1] = g[<<b[k], t[k + 1]>>]
  BY DEF Leads
<1> DEFINE u == s \o t
<1>3. /\ Len(s) \in Nat /\ Len(t) \in Nat /\ Len(u) = Len(s) + Len(t)
      /\ \A k \in 1..Len(s) : u[k] = s[k]
      /\ \A k \in 1..Len(t) : u[Len(s) + k] = t[k]
  OBVIOUS
<1> DEFINE h == [k \in 0..Len(u) |-> IF k <= Len(s) THEN a[k] ELSE b[k - Len(s)]]
<1> HIDE DEF u
<1>4. \A k \in 0..Len(s) : h[k] = a[k]
  BY <1>3
<1>5. \A k \in 0..Len(t) : h[Len(s) + k] = b[k]
  <2>1. ASSUME NEW k \in 0..Len(t), k > 0 PROVE h[Len(s) + k] = b[k]
    <3>1. Len(s) + k \in 0..Len(u) /\ ~(Len(s) + k <= Len(s)) /\ (Len(s) + k) - Len(s) = k
      BY <1>3, <2>1
    <3> QED BY <3>1
  <2>2. h[Len(s) + 0] = b[0]
    BY <1>1, <1>2, <1>3, <1>4
  <2> QED BY <2>1, <2>2, SMTT(30)
<1> HIDE DEF h
<1>6. h[0] = x /\ h[Len(u)] = z
  BY <1>1, <1>2, <1>3, <1>4, <1>5
<1>7. ASSUME NEW k \in 0..Len(u) - 1 PROVE h[k + 1] = g[<<h[k], u[k + 1]>>]
  <2>1. CASE k < Len(s)
    <3>1. k \in 0..Len(s) - 1 /\ k \in 0..Len(s) /\ k + 1 \in 0..Len(s) /\ k + 1 \in 1..Len(s)
      BY <1>3, <2>1
    <3>2. h[k] = a[k] /\ h[k + 1] = a[k + 1] /\ u[k + 1] = s[k + 1]
      BY <1>3, <1>4, <3>1
    <3>3. a[k + 1] = g[<<a[k], s[k + 1]>>]
      BY <1>1, <3>1
    <3> QED BY <3>2, <3>3, Zenon
  <2>2. CASE ~(k < Len(s))
    <3>1. PICK j \in 0..Len(t) - 1 : k = Len(s) + j
      <4>1. k - Len(s) \in 0..Len(t) - 1 /\ k = Len(s) + (k - Len(s))
        BY <1>3, <2>2
      <4> QED BY <4>1
    <3>2. j \in 0..Len(t) /\ j + 1 \in 0..Len(t) /\ j + 1 \in 1..Len(t) /\ k + 1 = Len(s) + (j + 1)
      BY <1>3, <3>1
    <3>3. h[k] = b[j] /\ h[k + 1] = b[j + 1] /\ u[k + 1] = t[j + 1]
      BY <1>3, <1>5, <3>1, <3>2
    <3>4. b[j + 1] = g[<<b[j], t[j + 1]>>]
      BY <1>2, <3>1
    <3> QED BY <3>3, <3>4, Zenon
  <2> QED BY <2>1, <2>2
<1>8. Leads(g, x, u, z)
  BY <1>6, <1>7 DEF Leads
<1> QED BY <1>8 DEF u

LEMMA LeadsOnce ==
  ASSUME NEW E, NEW s \in Seq(E), NEW g, NEW x, NEW y, NEW z, Leads(g, x, s, y), Leads(g, x, s, z)
  PROVE  y = z
<1>1. PICK a : a[0] = x /\ a[Len(s)] = y /\ \A k \in 0..Len(s) - 1 : a[k + 1] = g[<<a[k], s[k + 1]>>]
  BY DEF Leads
<1>2. PICK b : b[0] = x /\ b[Len(s)] = z /\ \A k \in 0..Len(s) - 1 : b[k + 1] = g[<<b[k], s[k + 1]>>]
  BY DEF Leads
<1>3. Len(s) \in Nat
  OBVIOUS
<1> DEFINE K == {k \in Nat : k <= Len(s) => a[k] = b[k]}
<1>4. 0 \in K
  BY <1>1, <1>2
<1>5. ASSUME NEW k \in Nat, k \in K PROVE k + 1 \in K
  <2> SUFFICES ASSUME k + 1 <= Len(s) PROVE a[k + 1] = b[k + 1]
    BY <1>3
  <2>1. k \in 0..Len(s) - 1 /\ a[k] = b[k]
    BY <1>3, <1>5
  <2>2. a[k + 1] = g[<<a[k], s[k + 1]>>] /\ b[k + 1] = g[<<b[k], s[k + 1]>>]
    BY <1>1, <1>2, <2>1
  <2> QED BY <2>1, <2>2, Zenon
<1>6. Len(s) \in K
  <2> HIDE DEF K
  <2> QED BY <1>3, <1>4, <1>5, NatSets
<1> QED BY <1>1, <1>2, <1>3, <1>6

\* What leads from state to state through each of some sequences leads through all of them.
LEMMA LeadsFlat ==
  ASSUME NEW E, NEW s \in Seq(Seq(E)), NEW g, NEW st,
         \A i \in 1..Len(s) : Leads(g, st[i - 1], s[i], st[i])
  PROVE  Leads(g, st[0], FlattenSeq(s), st[Len(s)])
<1>1. CASE s = <<>>
  <2>1. FlattenSeq(s) = <<>> /\ Len(s) = 0
    BY <1>1, FlatEmpty
  <2>2. Leads(g, st[0], <<>>, st[0])
    BY LeadsNothing
  <2> QED BY <2>1, <2>2, Zenon
<1>2. CASE s # <<>>
  <2>1. PICK f \in [1..Len(s) -> Seq(E)] : Joins(f, s) /\ FlattenSeq(s) = f[Len(s)]
    BY <1>2, FlatSteps
  <2>2. Len(s) \in Nat /\ Len(s) > 0
    BY <1>2
  <2> DEFINE K == {i \in Nat : Leads(g, st[0], f[i], st[i])}
  <2>3. 1 \in K
    <3>1. 1 \in 1..Len(s) /\ 1 - 1 = 0
      BY <2>2
    <3>2. Leads(g, st[0], s[1], st[1])
      BY <3>1
    <3>3. f[1] = s[1]
      BY <2>1 DEF Joins, JoinsUpto
    <3> QED BY <3>2, <3>3
  <2>4. ASSUME NEW i \in 1..Len(s), i + 1 \in 1..Len(s), i \in K PROVE i + 1 \in K
    <3>1. i + 1 > 1 /\ (i + 1) - 1 = i /\ i + 1 \in Nat
      BY <2>4
    <3>2. f[i + 1] = f[i] \o s[i + 1]
      BY <2>1, <2>4, <3>1 DEF Joins, JoinsUpto
    <3>3. f[i] \in Seq(E) /\ s[i + 1] \in Seq(E)
      <4> HIDE DEF K
      <4>1. f[i] \in Seq(E)
        BY <2>1, <2>4
      <4>2. s[i + 1] \in Seq(E)
        BY <2>4
      <4> QED BY <4>1, <4>2
    <3>4. Leads(g, st[i], s[i + 1], st[i + 1])
      BY <2>4, <3>1
    <3>5. Leads(g, st[0], f[i], st[i])
      BY <2>4
    <3>6. Leads(g, st[0], f[i] \o s[i + 1], st[i + 1])
      BY <3>3, <3>4, <3>5, LeadsOn
    <3> QED BY <3>1, <3>2, <3>6
  <2>5. 1..Len(s) \subseteq K
    <3> HIDE DEF K
    <3> QED BY <2>2, <2>3, <2>4, AllPlaces
  <2>6. Len(s) \in K
    <3>1. Len(s) \in 1..Len(s)
      BY <2>2
    <3> HIDE DEF K
    <3> QED BY <2>5, <3>1
  <2> QED BY <2>1, <2>6
<1> QED BY <1>1, <1>2

\* States that follow each other.
LEMMA LeadsEach ==
  ASSUME NEW E, NEW s \in Seq(E), NEW g, NEW st,
         \A k \in 0..Len(s) - 1 : st[k + 1] = g[<<st[k], s[k + 1]>>]
  PROVE  Leads(g, st[0], s, st[Len(s)])
  BY DEF Leads

\* What a table says of the beginnings of p.
Climbs(f, R, p, base, g) ==
  /\ f[{}] = base
  /\ \A k \in 0..Len(p) - 1 : f[1..k] \in R => f[1..k + 1] = g[<<f[1..k], p[k + 1]>>]

\* A table of a fold ends where its steps lead.
LEMMA TableLeads ==
  ASSUME NEW R, NEW E, NEW p \in Seq(E), NEW base \in R, NEW g \in [R \X E -> R],
         NEW f, Climbs(f, R, p, base, g)
  PROVE  Leads(g, base, p, f[DOMAIN p])
<1>0. /\ f[{}] = base
      /\ \A k \in 0..Len(p) - 1 : f[1..k] \in R => f[1..k + 1] = g[<<f[1..k], p[k + 1]>>]
  BY DEF Climbs
<1>1. Len(p) \in Nat /\ DOMAIN p = 1..Len(p) /\ \A k \in 1..Len(p) : p[k] \in E
  OBVIOUS
<1> DEFINE r == [k \in 0..Len(p) |-> f[1..k]]
<1>2. r[0] = base /\ r[Len(p)] = f[DOMAIN p]
  <2>1. 1..0 = {} /\ 0 \in 0..Len(p) /\ Len(p) \in 0..Len(p)
    BY <1>1
  <2> QED BY <1>0, <1>1, <2>1
<1>3. ASSUME NEW k \in 0..Len(p) - 1, r[k] \in R
      PROVE  r[k + 1] \in R /\ r[k + 1] = g[<<r[k], p[k + 1]>>]
  <2>1. k \in 0..Len(p) /\ k + 1 \in 0..Len(p) /\ k + 1 \in 1..Len(p)
    BY <1>1
  <2>2. r[k] = f[1..k] /\ r[k + 1] = f[1..k + 1] /\ p[k + 1] \in E
    BY <1>1, <2>1
  <2>3. r[k + 1] = g[<<r[k], p[k + 1]>>]
    <3> HIDE DEF r
    <3> QED BY <1>0, <1>3, <2>2
  <2> HIDE DEF r
  <2> QED BY <1>3, <2>2, <2>3
<1> HIDE DEF r
<1> DEFINE K == {k \in Nat : k <= Len(p) => r[k] \in R}
<1>4. 0 \in K
  BY <1>2
<1>5. ASSUME NEW k \in Nat, k \in K PROVE k + 1 \in K
  <2> SUFFICES ASSUME k + 1 <= Len(p) PROVE r[k + 1] \in R
    BY <1>1
  <2>1. k \in 0..Len(p) - 1 /\ r[k] \in R
    BY <1>1, <1>5
  <2> QED BY <1>3, <2>1
<1>6. Nat \subseteq K
  <2> HIDE DEF K
  <2> QED BY <1>4, <1>5, NatSets
<1>7. \A k \in 0..Len(p) - 1 : r[k + 1] = g[<<r[k], p[k + 1]>>]
  <2>1. ASSUME NEW k \in 0..Len(p) - 1 PROVE r[k] \in R
    <3>1. k \in Nat /\ k <= Len(p)
      BY <1>1
    <3>2. k \in K
      BY <1>6, <3>1
    <3> QED BY <3>1, <3>2
  <2> QED BY <1>3, <2>1
<1>8. Leads(g, r[0], p, r[Len(p)])
  BY <1>7 DEF Leads
<1> QED BY <1>2, <1>8

\* One element more of s after o.
LEMMA OneMore ==
  ASSUME NEW D, NEW o \in Seq(D), NEW s \in Seq(D)
  PROVE  /\ o \o SubSeq(s, 1, 0) = o /\ o \o SubSeq(s, 1, Len(s)) = o \o s
         /\ \A k \in 0..Len(s) : o \o SubSeq(s, 1, k) \in Seq(D)
         /\ \A k \in 0..Len(s) - 1 : o \o SubSeq(s, 1, k + 1) = Append(o \o SubSeq(s, 1, k), s[k + 1])
<1>1. Len(s) \in Nat
  OBVIOUS
<1>2. SubSeq(s, 1, 0) = <<>> /\ SubSeq(s, 1, Len(s)) = s
  BY <1>1
<1>3. \A k \in 0..Len(s) : SubSeq(s, 1, k) \in Seq(D)
  BY <1>1
<1>4. ASSUME NEW k \in 0..Len(s) - 1
      PROVE  o \o SubSeq(s, 1, k + 1) = Append(o \o SubSeq(s, 1, k), s[k + 1])
  <2> DEFINE p == SubSeq(s, 1, k)
             n == SubSeq(s, 1, k + 1)
             c == s[k + 1]
  <2>1. p \in Seq(D) /\ n \in Seq(D) /\ c \in D
    BY <1>1
  <2>2. Len(p) = k /\ Len(n) = k + 1 /\ n[k + 1] = c /\ \A j \in 1..k : n[j] = p[j]
    BY <1>1
  <2> HIDE DEF p, n, c
  <2>3. o \o n \in Seq(D) /\ Append(o \o p, c) \in Seq(D)
        /\ Len(o \o n) = Len(o) + (k + 1) /\ Len(Append(o \o p, c)) = Len(o) + (k + 1)
    <3>1. o \o n \in Seq(D) /\ Len(o \o n) = Len(o) + Len(n)
      BY <2>1, ConcatProperties, Zenon
    <3>2. o \o p \in Seq(D) /\ Len(o \o p) = Len(o) + Len(p)
      BY <2>1, ConcatProperties, Zenon
    <3>3. Append(o \o p, c) \in Seq(D) /\ Len(Append(o \o p, c)) = Len(o \o p) + 1
      BY <2>1, <3>2, AppendProperties, ZenonT(40)
    <3>4. Len(o) \in Nat
      OBVIOUS
    <3> HIDE DEF p, n
    <3> QED BY <2>2, <3>1, <3>2, <3>3, <3>4
  <2>4. ASSUME NEW j \in 1..Len(o \o n) PROVE (o \o n)[j] = Append(o \o p, c)[j]
    <3>1. CASE j <= Len(o)
      BY <2>1, <2>2, <2>3, <3>1
    <3>2. CASE j = Len(o) + (k + 1)
      <4>1. (o \o n)[j] = n[k + 1]
        BY <2>1, <2>2, <2>3, <3>2
      <4>2. Append(o \o p, c)[j] = c
        BY <2>1, <2>2, <2>3, <3>2
      <4> QED BY <2>2, <4>1, <4>2
    <3>3. CASE j > Len(o) /\ j # Len(o) + (k + 1)
      <4>1. j - Len(o) \in 1..k
        BY <2>1, <2>3, <3>3
      <4>2. (o \o n)[j] = n[j - Len(o)]
        BY <2>1, <2>2, <3>3, <4>1
      <4>3. Append(o \o p, c)[j] = p[j - Len(o)]
        BY <2>1, <2>2, <3>3, <4>1
      <4> QED BY <2>2, <4>1, <4>2, <4>3
    <3> QED BY <2>1, <2>3, <3>1, <3>2, <3>3
  <2>5. o \o n = Append(o \o p, c)
    BY <2>3, <2>4, SeqEqual
  <2> QED BY <2>5 DEF p, n, c
<1>5. o \o SubSeq(s, 1, 0) = o
  <2> DEFINE e == SubSeq(s, 1, 0)
  <2>1. e = <<>> /\ o \o <<>> = o
    BY <1>2, ConcatEmptySeq
  <2> HIDE DEF e
  <2> QED BY <2>1 DEF e
<1>6. \A k \in 0..Len(s) : o \o SubSeq(s, 1, k) \in Seq(D)
  BY <1>3
<1> QED BY <1>2, <1>4, <1>5, <1>6

OneMoreSound(D, o, s, k) ==
  /\ o \o SubSeq(s, 1, k) \in Seq(D)
  /\ o \o SubSeq(s, 1, k + 1) = Append(o \o SubSeq(s, 1, k), s[k + 1])

LEMMA OneMoreAt ==
  ASSUME NEW D, NEW o \in Seq(D), NEW s \in Seq(D), NEW k \in 0..Len(s) - 1
  PROVE  OneMoreSound(D, o, s, k)
<1>1. k \in 0..Len(s)
  OBVIOUS
<1>2. /\ \A j \in 0..Len(s) : o \o SubSeq(s, 1, j) \in Seq(D)
      /\ \A j \in 0..Len(s) - 1 : o \o SubSeq(s, 1, j + 1) = Append(o \o SubSeq(s, 1, j), s[j + 1])
  BY OneMore
<1> QED BY <1>1, <1>2, Zenon DEF OneMoreSound

LEMMA OneMoreEnds ==
  ASSUME NEW D, NEW o \in Seq(D), NEW s \in Seq(D)
  PROVE  o \o SubSeq(s, 1, 0) = o /\ o \o SubSeq(s, 1, Len(s)) = o \o s
  BY OneMore

LEMMA Beginning ==
  ASSUME NEW L, NEW s \in Seq(L), NEW k \in 1..Len(s)
  PROVE  SubSeq(s, 1, k) = Append(SubSeq(s, 1, k - 1), s[k])
<1> DEFINE e == <<>>
<1>1. Len(s) \in Nat /\ k - 1 \in 0..Len(s) - 1 /\ (k - 1) + 1 = k
  OBVIOUS
<1>2. e \in Seq(L) /\ SubSeq(s, 1, k) \in Seq(L) /\ SubSeq(s, 1, k - 1) \in Seq(L)
  OBVIOUS
<1>3. \A y \in Seq(L) : e \o y = y
  BY ConcatEmptySeq
<1> HIDE DEF e
<1>4. e \o SubSeq(s, 1, (k - 1) + 1) = Append(e \o SubSeq(s, 1, k - 1), s[(k - 1) + 1])
  <2>1. \A i \in 0..Len(s) - 1 : e \o SubSeq(s, 1, i + 1) = Append(e \o SubSeq(s, 1, i), s[i + 1])
    BY <1>2, OneMore
  <2> QED BY <1>1, <2>1, Zenon
<1>5. e \o SubSeq(s, 1, k) = SubSeq(s, 1, k) /\ e \o SubSeq(s, 1, k - 1) = SubSeq(s, 1, k - 1)
  BY <1>2, <1>3
<1> QED BY <1>1, <1>4, <1>5, Zenon

LEMMA MinIs ==
  ASSUME NEW T, T \subseteq Nat, T # {}
  PROVE  Min(T) \in T /\ \A y \in T : Min(T) <= y
<1>1. \E x \in T : \A y \in T : x <= y
  BY LeastNat
<1> QED BY <1>1, Zenon DEF Min

\* What a string is made of before, at and after one of its characters.
LEMMA Around ==
  ASSUME NEW D, NEW s \in Seq(D), NEW m \in 1..Len(s), NEW i \in m..Len(s)
  PROVE  /\ SubSeq(s, m, i - 1) \o <<s[i]>> = SubSeq(s, m, i)
         /\ \A n \in i..Len(s) : SubSeq(s, m, i) \o SubSeq(s, i + 1, n) = SubSeq(s, m, n)
         /\ SubSeq(s, 1, Len(s)) = s
<1>1. SubSeq(s, m, i - 1) \o <<s[i]>> = SubSeq(s, m, i)
  BY SubSeqRecursiveSecond
<1>2. ASSUME NEW n \in i..Len(s) PROVE SubSeq(s, m, i) \o SubSeq(s, i + 1, n) = SubSeq(s, m, n)
  <2>1. m \in 1..Len(s) + 1 /\ i \in m - 1..Len(s)
    OBVIOUS
  <2> QED BY <2>1, ConcatAdjacentSubSeq
<1>3. SubSeq(s, 1, Len(s)) = s
  BY SubSeqFull
<1> QED BY <1>1, <1>2, <1>3

LEMMA Singles ==
  ASSUME NEW D, NEW x \in D, NEW y \in D
  PROVE  <<x>> \in Seq(D) /\ <<x, y>> \in Seq(D) /\ <<x, y>> = <<x>> \o <<y>>
<1> DEFINE a == <<x>>
           b == <<y>>
           c == <<x, y>>
<1>1. a \in Seq(D) /\ b \in Seq(D) /\ c \in Seq(D)
  OBVIOUS
<1>2. Len(a) = 1 /\ Len(b) = 1 /\ Len(c) = 2 /\ a[1] = x /\ b[1] = y /\ c[1] = x /\ c[2] = y
  OBVIOUS
<1> HIDE DEF a, b, c
<1>3. a \o b \in Seq(D) /\ Len(a \o b) = 2 /\ (a \o b)[1] = x /\ (a \o b)[2] = y
  BY <1>1, <1>2, SMTT(30)
<1>4. \A k \in 1..Len(c) : c[k] = (a \o b)[k]
  <2>1. \A k \in 1..2 : k = 1 \/ k = 2
    OBVIOUS
  <2> QED BY <1>2, <1>3, <2>1
<1>5. c = a \o b
  BY <1>1, <1>2, <1>3, <1>4, SeqEqual
<1> QED BY <1>1, <1>5 DEF a, b, c

\* f[i] is the first i sequences of s in one.
FlatUpto(f, s) ==
  /\ f[0] = <<>> /\ f[Len(s)] = FlattenSeq(s)
  /\ \A i \in 1..Len(s) : f[i] = f[i - 1] \o s[i]

LEMMA FlatFrom ==
  ASSUME NEW E, NEW s \in Seq(Seq(E))
  PROVE  \E f \in [0..Len(s) -> Seq(E)] : FlatUpto(f, s)
<1>1. CASE s = <<>>
  <2> DEFINE f == [i \in 0..Len(s) |-> <<>>]
  <2>1. Len(s) = 0 /\ 1..0 = {} /\ 0 \in 0..0
    BY <1>1
  <2>2. FlattenSeq(s) = <<>>
    BY <1>1, FlatEmpty, Zenon
  <2>3. f \in [0..Len(s) -> Seq(E)] /\ f[0] = <<>>
    BY <2>1
  <2> HIDE DEF f
  <2>4. FlatUpto(f, s)
    BY <2>1, <2>2, <2>3 DEF FlatUpto
  <2> QED BY <2>3, <2>4
<1>2. CASE s # <<>>
  <2>1. PICK f \in [0..Len(s) -> Seq(E)] : FlatAt(f, s, FlattenSeq(s))
    BY <1>2, FlatPlaces
  <2>2. FlatUpto(f, s)
    BY <2>1, Zenon DEF FlatAt, FlatUpto
  <2> QED BY <2>2
<1> QED BY <1>1, <1>2

\* What reads each of some sequences and writes something for each writes it all.
LEMMA LeadsThrough ==
  ASSUME NEW E, NEW F, NEW s \in Seq(Seq(E)), NEW t \in Seq(Seq(F)), Len(s) = Len(t), NEW g, NEW m,
         \A i \in 1..Len(s), o \in Seq(F) : Leads(g, m[o], s[i], m[o \o t[i]])
  PROVE  Leads(g, m[<<>>], FlattenSeq(s), m[FlattenSeq(t)])
<1>1. PICK f \in [0..Len(t) -> Seq(F)] : FlatUpto(f, t)
  BY FlatFrom
<1> DEFINE st == [i \in 0..Len(t) |-> m[f[i]]]
<1>2. Len(t) \in Nat /\ 0 \in 0..Len(t) /\ Len(t) \in 0..Len(t)
  OBVIOUS
<1>3. \A i \in 0..Len(t) : st[i] = m[f[i]]
  OBVIOUS
<1> HIDE DEF st
<1>4. ASSUME NEW i \in 1..Len(s) PROVE Leads(g, st[i - 1], s[i], st[i])
  <2>1. i \in 0..Len(t) /\ i - 1 \in 0..Len(t)
    BY <1>2
  <2>2. f[i - 1] \in Seq(F) /\ f[i] = f[i - 1] \o t[i]
    BY <1>1, <2>1 DEF FlatUpto
  <2>3. Leads(g, m[f[i - 1]], s[i], m[f[i - 1] \o t[i]])
    BY <2>2
  <2> QED BY <1>3, <2>1, <2>2, <2>3, Zenon
<1>5. Leads(g, st[0], FlattenSeq(s), st[Len(s)])
  BY <1>4, LeadsFlat
<1>6. st[0] = m[<<>>] /\ st[Len(t)] = m[FlattenSeq(t)]
  BY <1>1, <1>2, <1>3, Zenon DEF FlatUpto
<1> QED BY <1>5, <1>6, Zenon

-----------------------------------------------------------------------------
(* The settings.                                                           *)

\* The tree the client has is the one that was refused, or a valid one.
RefusedTree == phase # "off" => (refused <=> ~Valid(tree))

SettingsInv == RefusedTree /\ LanguageOfSettings /\ UnusableFileHasCause

\* Taking a tree marks it as refused when it is not valid, and takes its language when it is.
LEMMA TakenAsMarked ==
  ASSUME NEW t, TakesTree(t)
  PROVE  /\ tree' = t /\ (refused' <=> ~Valid(t))
         /\ ~refused' => language' = t.language
  BY DEF TakesTree, Taken, Valid

LEMMA StepSettings == SettingsInv /\ [Next]_vars => SettingsInv'
<1> SUFFICES ASSUME SettingsInv, [Next]_vars PROVE SettingsInv'
  OBVIOUS
<1> USE DEF SettingsInv, RefusedTree, LanguageOfSettings, UnusableFileHasCause
<1>1. CASE Start
  BY <1>1 DEF Start, Taken, Valid, EmptyTree
<1>2. CASE Stop
  BY <1>2 DEF Stop, config
<1>3. CASE Edit
  BY <1>3 DEF Edit
<1>4. CASE ConfSet
  <2>1. PICK t : TakesTree(t)
    BY <1>4 DEF ConfSet
  <2>2. UNCHANGED <<phase, ini, faulty>>
    BY <1>4 DEF ConfSet
  <2> QED BY <2>1, <2>2, TakenAsMarked DEF Valid
<1>5. CASE ConfLoad
  <2>1. CASE ini = Unreadable
    BY <1>5, <2>1 DEF ConfLoad
  <2>2. CASE ini # Unreadable
    <3>1. TakesTree(ini) /\ UNCHANGED <<phase, ini, faulty>>
      BY <1>5, <2>2 DEF ConfLoad
    <3> QED BY <3>1, TakenAsMarked
  <2> QED BY <2>1, <2>2
<1>6. CASE ConfSave
  BY <1>6 DEF ConfSave
<1>7. CASE LangReload \/ LangSet
  BY <1>7 DEF LangReload, LangSet, Opens, config
<1>8. CASE ReadToken \/ ReadEof
  BY <1>8 DEF ReadToken, ReadEof, Parses, Loading, config
<1>9. CASE UNCHANGED vars
  BY <1>9 DEF vars
<1> QED BY <1>1, <1>2, <1>3, <1>4, <1>5, <1>6, <1>7, <1>8, <1>9 DEF Next

LEMMA InitSettings == Init => SettingsInv
  BY DEF Init, SettingsInv, RefusedTree, LanguageOfSettings, UnusableFileHasCause

\* Through any settings, saves, loads of languages and restarts the client uses the language
\* of its settings, unless the settings were refused or lang set has come after them.
THEOREM LanguageSafe == Spec => []LanguageOfSettings
<1>1. SettingsInv => LanguageOfSettings
  BY DEF SettingsInv
<1> QED BY <1>1, InitSettings, StepSettings, PTL DEF Spec

\* Settings that were accepted and saved whole are accepted by every later start, through any
\* commands, starts and loads: a file that main refuses was edited outside, saved after a
\* refusal, or left by a save that broke off.
THEOREM CauseSafe == Spec => []UnusableFileHasCause
<1>1. SettingsInv => UnusableFileHasCause
  BY DEF SettingsInv
<1> QED BY <1>1, InitSettings, StepSettings, PTL DEF Spec

-----------------------------------------------------------------------------
(* The parser of language files.                                           *)

\* The fields of a parser.
Shaped(p) ==
  p = [at |-> p.at, sections |-> p.sections, strbegins |-> p.strbegins, given |-> p.given,
       inHeader |-> p.inHeader, headerDefined |-> p.headerDefined, name |-> p.name,
       value |-> p.value, read |-> p.read]

\* A parser that waits for a token: a header is not entered inside a section, a section not
\* inside a header, and a header is left only with all its bindings.
Sound(p) ==
  /\ Shaped(p)
  /\ p.at \in Places
  /\ p.inHeader \in BOOLEAN /\ p.headerDefined \in BOOLEAN
  /\ p.inHeader => p.headerDefined /\ Scope(p) = 0 /\ p.at # "section"
  /\ p.headerDefined /\ ~p.inHeader /\ p.at # "failed" => p.given = HeaderKeys

\* What a step keeps: the parser sound and every text.
Keeps(r, d) ==
  /\ Sound(r.parser)
  /\ \A k \in DOMAIN d : k \in DOMAIN r.data /\ r.data[k] = d[k]

\* q differs from p only in what has been read of a name or a value and in STRBEGINs.
Alike(p, q) ==
  /\ Shaped(q)
  /\ q.at = p.at /\ q.sections = p.sections /\ q.given = p.given
  /\ q.inHeader = p.inHeader /\ q.headerDefined = p.headerDefined

LEMMA AlikeSound ==
  ASSUME NEW p, Sound(p), NEW q, Alike(p, q)
  PROVE  Sound(q) /\ q.at = p.at /\ q.inHeader = p.inHeader
  BY DEF Sound, Scope, Alike

LEMMA ReadApart ==
  ASSUME NEW p, Sound(p), NEW x
  PROVE  /\ Alike(p, [p EXCEPT !.name = x])
         /\ Alike(p, [p EXCEPT !.value = x])
         /\ Alike(p, [p EXCEPT !.read = x])
         /\ Alike(p, [p EXCEPT !.strbegins = x])
  BY DEF Sound, Shaped, Alike

LEMMA ForgetSound ==
  ASSUME NEW p, Sound(p)
  PROVE  Sound(Forget(p)) /\ Forget(p).at = p.at
<1> DEFINE q == [p EXCEPT !.name = <<>>]
           r == [q EXCEPT !.value = <<>>]
           f == [r EXCEPT !.read = 0]
<1>1. Sound(q) /\ q.at = p.at
  BY ReadApart, AlikeSound
<1> HIDE DEF q
<1>2. Sound(r) /\ r.at = p.at
  BY <1>1, ReadApart, AlikeSound
<1> HIDE DEF r
<1>3. Sound(f) /\ f.at = p.at
  BY <1>2, ReadApart, AlikeSound
<1> QED BY <1>3 DEF Forget, q, r

LEMMA GoesKeeps ==
  ASSUME NEW p, NEW d, NEW place \in Places, Sound(p),
         p.at # "failed", p.inHeader => place # "section"
  PROVE  Keeps(Goes(p, d, place), d)
  BY DEF Goes, Result, Keeps, Sound, Shaped, Scope

LEMMA FailsKeeps ==
  ASSUME NEW p, NEW d, Sound(p), p.at # "failed"
  PROVE  Keeps(Fails(p, d), d)
  BY GoesKeeps DEF Fails, Places

LEMMA ReadsValueKeeps ==
  ASSUME NEW p, NEW d, Sound(p), p.at # "failed", NEW place \in Places \ {"section"}
  PROVE  Keeps(ReadsValue(p, d, place), d)
<1> DEFINE q == [p EXCEPT !.value = Begins(p)]
           r == [q EXCEPT !.read = 0]
<1>1. Sound(q) /\ q.at = p.at
  BY ReadApart, AlikeSound
<1> HIDE DEF q
<1>2. Sound(r) /\ r.at = p.at
  BY <1>1, ReadApart, AlikeSound
<1> HIDE DEF r
<1>3. Keeps(Goes(r, d, place), d)
  BY <1>2, GoesKeeps
<1> QED BY <1>3 DEF ReadsValue, q, r

\* The text of a key is stored beside the others.
LEMMA StoredKeeps ==
  ASSUME NEW p, NEW d
  PROVE  \A k \in DOMAIN d : k \in DOMAIN Stored(p, d) /\ Stored(p, d)[k] = d[k]
  BY DEF Stored

\* A header begins and ends, a section ends.
LEMMA BlocksKeep ==
  ASSUME NEW p, NEW d, Sound(p), p.at = "top"
  PROVE  /\ Keeps(OpensHeader(p, d), d)
         /\ p.inHeader => Keeps(ClosesHeader(p, d), d)
         /\ ~p.inHeader => Keeps(Goes(Closed(p), d, "semicolon"), d)
<1> USE DEF Keeps, Goes, Fails, Result, Sound, Shaped, Scope, Places
<1>1. Keeps(OpensHeader(p, d), d)
  BY DEF OpensHeader
<1>2. p.inHeader => Keeps(ClosesHeader(p, d), d)
  BY DEF ClosesHeader
<1>3. ~p.inHeader => Keeps(Goes(Closed(p), d, "semicolon"), d)
  BY DEF Closed
<1> QED BY <1>1, <1>2, <1>3

LEMMA TopKeeps ==
  ASSUME NEW p, NEW d, NEW t, Sound(p), p.at = "top"
  PROVE  Keeps(Top(p, d, t), d)
<1> DEFINE q == [p EXCEPT !.name = <<>>]
<1>1. Sound(q) /\ q.at = p.at /\ q.inHeader = p.inHeader
  BY ReadApart, AlikeSound
<1> HIDE DEF q
<1>2. /\ Keeps(Goes(q, d, "binding"), d)
      /\ ~p.inHeader => Keeps(Goes(q, d, "section"), d)
  BY <1>1, GoesKeeps DEF Places
<1>3. Keeps(Fails(p, d), d) /\ Keeps(Goes(p, d, "top"), d) /\ Keeps(Goes(p, d, "strbegin"), d)
  BY FailsKeeps, GoesKeeps DEF Places
<1>4. Keeps(Ends(p, d), d)
  BY GoesKeeps DEF Ends, Places
<1>5. CASE t.id = "EOF" \/ t.id = ";" \/ t.id = "STRBEGIN"
  BY <1>3, <1>4, <1>5 DEF Top
<1>6. CASE t.id = "." \/ t.id = "SECTION"
  BY <1>2, <1>3, <1>6 DEF Top, q
<1>7. CASE t.id = "HEADER" \/ t.id = "END"
  BY <1>3, <1>7, BlocksKeep DEF Top
<1>8. CASE t.id \notin {"EOF", ";", ".", "SECTION", "STRBEGIN", "HEADER", "END"}
  BY <1>3, <1>8 DEF Top
<1> QED BY <1>5, <1>6, <1>7, <1>8

LEMMA NamedKeeps ==
  ASSUME NEW p, NEW d, Sound(p), p.at \in {"section", "binding"}
  PROVE  Keeps(Named(p, d), d)
<1>1. CASE p.at = "section"
  BY <1>1 DEF Named, Keeps, Goes, Result, Sound, Shaped, Scope, Places
<1>2. CASE p.at # "section" /\ ~p.inHeader
  <2> DEFINE q == [p EXCEPT !.name = SectionsName(p) \o @]
  <2>1. Sound(q) /\ q.at = p.at
    BY ReadApart, AlikeSound
  <2> HIDE DEF q
  <2>2. Keeps(ReadsValue(q, d, "value"), d)
    BY <2>1, ReadsValueKeeps DEF Places
  <2> QED BY <1>2, <2>2 DEF Named, q
<1>3. CASE p.at # "section" /\ p.inHeader
  <2> DEFINE key == Head(p.name)
             q == [p EXCEPT !.given = @ \cup {key}]
             r == [q EXCEPT !.name = <<>>]
             v == [r EXCEPT !.read = 0]
  <2> HIDE DEF key
  <2>1. /\ Shaped(q) /\ q.at = p.at /\ q.sections = p.sections
        /\ q.inHeader = p.inHeader /\ q.headerDefined = p.headerDefined
    BY DEF Sound, Shaped
  <2>2. Sound(q)
    BY <1>3, <2>1 DEF Sound, Scope
  <2> HIDE DEF q
  <2>3. Sound(r) /\ r.at = p.at
    BY <2>1, <2>2, ReadApart, AlikeSound
  <2> HIDE DEF r
  <2>4. Sound(v) /\ v.at = p.at
    BY <2>3, ReadApart, AlikeSound
  <2> HIDE DEF v
  <2>5. Keeps(Fails(p, d), d) /\ Keeps(Goes(v, d, "version"), d) /\ Keeps(Goes(r, d, "bracket"), d)
    BY <2>3, <2>4, FailsKeeps, GoesKeeps DEF Places
  <2>6. Keeps(ReadsValue(q, d, "value"), d)
    BY <2>1, <2>2, ReadsValueKeeps DEF Places
  <2>7. Named(p, d) \in {Fails(p, d), Goes(v, d, "version"), Goes(r, d, "bracket"), ReadsValue(q, d, "value")}
    BY <1>3, Zenon DEF Named, key, q, r, v
  <2> QED BY <2>5, <2>6, <2>7
<1> QED BY <1>1, <1>2, <1>3

LEMMA NameKeeps ==
  ASSUME NEW p, NEW d, NEW t, Sound(p), p.at \in {"section", "binding"}
  PROVE  Keeps(Name(p, d, t), d)
<1> DEFINE q == [p EXCEPT !.name = Append(@, t.text)]
<1>1. Sound(q)
  BY ReadApart, AlikeSound
<1>2. Keeps(Result(q, d), d)
  BY <1>1 DEF Keeps, Result
<1> HIDE DEF q
<1>3. Keeps(Named(p, d), d) /\ Keeps(Fails(p, d), d)
  BY NamedKeeps, FailsKeeps
<1> QED BY <1>2, <1>3 DEF Name, q

LEMMA WithStringKeeps ==
  ASSUME NEW p, NEW d, NEW t, Sound(p)
  PROVE  Keeps(Result(WithString(p, t), d), d)
<1> DEFINE q == [p EXCEPT !.value = Append(@, t.text)]
           r == [q EXCEPT !.read = @ + 1]
<1>1. Sound(q)
  BY ReadApart, AlikeSound
<1>2. q.read = p.read
  BY DEF Sound, Shaped
<1> HIDE DEF q
<1>3. Sound(r)
  BY <1>1, ReadApart, AlikeSound
<1>4. WithString(p, t) = r
  BY <1>2 DEF WithString, q
<1> QED BY <1>3, <1>4 DEF Keeps, Result

LEMMA ValueKeeps ==
  ASSUME NEW p, NEW d, NEW t, Sound(p), p.at = "value"
  PROVE  Keeps(Value(p, d, t), d)
<1>1. Keeps(Fails(p, d), d) /\ Keeps(Result(WithString(p, t), d), d)
  BY FailsKeeps, WithStringKeeps
<1> DEFINE s == Stored(p, d)
<1>2. Keeps(Goes(Forget(p), s, "top"), s)
  BY ForgetSound, GoesKeeps DEF Places
<1>3. Goes(Forget(p), s, "top").data = s
  BY DEF Goes, Result
<1>4. Keeps(Goes(Forget(p), s, "top"), d)
  BY <1>2, <1>3, StoredKeeps DEF Keeps
<1> QED BY <1>1, <1>4 DEF Value

LEMMA ItemKeeps ==
  ASSUME NEW p, NEW d, NEW t, Sound(p), p.at = "item"
  PROVE  Keeps(Item(p, d, t), d)
<1>1. Keeps(Fails(p, d), d) /\ Keeps(Result(WithString(p, t), d), d)
  BY FailsKeeps, WithStringKeeps
<1>2. Keeps(Goes(Forget(p), d, "semicolon"), d) /\ Keeps(ReadsValue(p, d, "item"), d)
  BY ForgetSound, GoesKeeps, ReadsValueKeeps DEF Places
<1> QED BY <1>1, <1>2 DEF Item

LEMMA VersionPartKeeps ==
  ASSUME NEW p, NEW d, NEW t, Sound(p), p.at = "version"
  PROVE  Keeps(VersionPart(p, d, t), d)
<1> DEFINE q == [p EXCEPT !.read = @ + 1]
<1>1. Sound(q)
  BY ReadApart, AlikeSound
<1> HIDE DEF q
<1>2. Keeps(Result(q, d), d)
  BY <1>1 DEF Keeps, Result
<1>3. Keeps(Fails(p, d), d) /\ Keeps(Goes(Forget(p), d, "top"), d)
  BY FailsKeeps, ForgetSound, GoesKeeps DEF Places
<1> QED BY <1>2, <1>3 DEF VersionPart, q

LEMMA StrBeginKeeps ==
  ASSUME NEW p, NEW d, NEW t, Sound(p), p.at = "strbegin"
  PROVE  Keeps(StrBegin(p, d, t), d)
<1> DEFINE w == WithBegin(p, t.text)
<1>1. w = p \/ \E begins : w = [p EXCEPT !.strbegins = begins]
  BY Zenon DEF WithBegin
<1>2. Sound(w) /\ w.at = p.at
  <2>1. CASE w = p
    BY <2>1
  <2>2. ASSUME NEW begins, w = [p EXCEPT !.strbegins = begins] PROVE Sound(w) /\ w.at = p.at
    <3>1. Alike(p, [p EXCEPT !.strbegins = begins])
      BY ReadApart
    <3> HIDE DEF w
    <3>2. Alike(p, w)
      BY <2>2, <3>1
    <3> QED BY <3>2, AlikeSound
  <2> QED BY <1>1, <2>1, <2>2
<1> HIDE DEF w
<1>3. Keeps(Goes(w, d, "semicolon"), d) /\ Keeps(Fails(p, d), d)
  BY <1>2, FailsKeeps, GoesKeeps DEF Places
<1> QED BY <1>3 DEF StrBegin, w

LEMMA StepKeeps ==
  ASSUME NEW p, NEW d, NEW t, Sound(p), Parsing(p)
  PROVE  Keeps(Step(p, d, t), d)
<1>1. p.at \in Places \ {"accepted", "failed"}
  BY DEF Sound, Parsing
<1>2. CASE p.at = "top"
  BY <1>2, TopKeeps DEF Step
<1>3. CASE p.at \in {"section", "binding"}
  BY <1>3, NameKeeps DEF Step
<1>4. CASE p.at \in {"value", "item"}
  BY <1>4, ValueKeeps, ItemKeeps DEF Step
<1>5. CASE p.at \in {"version", "strbegin"}
  BY <1>5, VersionPartKeeps, StrBeginKeeps DEF Step
<1>6. CASE p.at = "bracket"
  <2>1. Keeps(Fails(p, d), d) /\ Keeps(ReadsValue(p, d, "item"), d)
    BY <1>6, FailsKeeps, ReadsValueKeeps DEF Places
  <2> QED BY <1>6, <2>1 DEF Step
<1>7. CASE p.at = "semicolon"
  <2>1. Keeps(Goes(p, d, IF t.id = ";" THEN "top" ELSE "failed"), d)
    BY <1>7, GoesKeeps DEF Places
  <2> QED BY <1>7, <2>1 DEF Step
<1> QED BY <1>1, <1>2, <1>3, <1>4, <1>5, <1>6, <1>7 DEF Places

\* What a step leaves of the texts: all as they were, or the binding that has ended is new.
Same(r, d) == r.data = d
Stores(r, p, d) == r.data \in {d, Stored(p, d)}

LEMMA SameTexts ==
  ASSUME NEW p, NEW d, NEW place
  PROVE  Same(Goes(p, d, place), d) /\ Same(Fails(p, d), d) /\ Same(Result(p, d), d)
         /\ Same(ReadsValue(p, d, place), d)
  BY DEF Same, Goes, Fails, Result, ReadsValue

LEMMA StepStores ==
  ASSUME NEW p, NEW d, NEW t, Sound(p), Parsing(p)
  PROVE  Stores(Step(p, d, t), p, d)
<1>1. Same(Top(p, d, t), d)
  <2>1. Same(OpensHeader(p, d), d) /\ Same(ClosesHeader(p, d), d) /\ Same(Ends(p, d), d)
    BY SameTexts DEF OpensHeader, ClosesHeader, Ends
  <2>2. CASE t.id \in {"EOF", ";", ".", "STRBEGIN", "HEADER"}
    BY <2>1, <2>2, SameTexts DEF Top
  <2>3. CASE t.id \in {"SECTION", "END"}
    BY <2>1, <2>3, SameTexts DEF Top
  <2>4. CASE t.id \notin {"EOF", ";", ".", "STRBEGIN", "HEADER", "SECTION", "END"}
    BY <2>4, SameTexts DEF Top
  <2> QED BY <2>2, <2>3, <2>4
<1>2. Same(Name(p, d, t), d)
  <2>1. Same(Named(p, d), d)
    BY SameTexts DEF Named
  <2> QED BY <2>1, SameTexts DEF Name
<1>3. Same(Value(p, d, t), d) \/ Value(p, d, t) = Goes(Forget(p), Stored(p, d), "top")
  BY SameTexts DEF Value
<1>4. Same(Goes(Forget(p), Stored(p, d), "top"), Stored(p, d))
  BY SameTexts
<1>5. Stores(Value(p, d, t), p, d)
  BY <1>3, <1>4 DEF Same, Stores
<1>6. Same(Item(p, d, t), d) /\ Same(VersionPart(p, d, t), d) /\ Same(StrBegin(p, d, t), d)
  BY SameTexts DEF Item, VersionPart, StrBegin
<1>7. Same(IF t.id = "[" THEN ReadsValue(p, d, "item") ELSE Fails(p, d), d)
      /\ Same(Goes(p, d, IF t.id = ";" THEN "top" ELSE "failed"), d)
  BY SameTexts
<1>8. CASE p.at = "value"
  BY <1>5, <1>8 DEF Step
<1>9. CASE p.at # "value"
  <2>1. p.at \in {"top", "section", "binding", "bracket", "item", "version", "strbegin", "semicolon"}
    BY <1>9 DEF Sound, Parsing, Places
  <2>2. Same(Step(p, d, t), d)
    BY <1>1, <1>2, <1>6, <1>7, <2>1 DEF Step
  <2> QED BY <2>2 DEF Same, Stores
<1> QED BY <1>8, <1>9

ParserSound == Sound(parser) /\ Parsing(parser)

LEMMA NewParserSound == Sound(NewParser) /\ Parsing(NewParser)
  BY DEF NewParser, Sound, Shaped, Scope, Places, Parsing

TextsKept ==
  /\ DOMAIN data \subseteq DOMAIN data'
  /\ \A k \in DOMAIN data' :
       \/ k \in DOMAIN data /\ data'[k] = data[k]
       \/ k = parser.name /\ data'[k] = parser.value

LEMMA ParsesSound ==
  ASSUME NEW t, ParserSound, Parses(t)
  PROVE  ParserSound' /\ TextsKept
<1>1. Keeps(Step(parser, data, t), data)
  BY StepKeeps DEF ParserSound
<1>2. data' = Step(parser, data, t).data
  BY DEF Parses
<1>3. parser' = NewParser \/ (parser' = Step(parser, data, t).parser /\ Parsing(parser'))
  BY DEF Parses
<1>4. ParserSound'
  BY <1>1, <1>3, NewParserSound DEF Keeps, ParserSound
<1>5. data' \in {data, Stored(parser, data)}
  BY <1>2, StepStores DEF ParserSound, Stores
<1>6. CASE data' = data
  BY <1>4, <1>6 DEF TextsKept
<1>7. CASE data' # data
  <2> DEFINE new == [k \in DOMAIN data \cup {parser.name} |->
                       IF k = parser.name THEN parser.value ELSE data[k]]
  <2>1. data' = new
    BY <1>5, <1>7 DEF Stored
  <2>2. /\ DOMAIN new = DOMAIN data \cup {parser.name}
        /\ \A k \in DOMAIN new : new[k] = IF k = parser.name THEN parser.value ELSE data[k]
    OBVIOUS
  <2> HIDE DEF new
  <2>3. TextsKept
    BY <2>1, <2>2 DEF TextsKept
  <2> QED BY <1>4, <2>3
<1> QED BY <1>6, <1>7

LEMMA StepParser ==
  ParserSound /\ [Next]_vars => ParserSound' /\ (phase # "off" => TextsKept)
<1> SUFFICES ASSUME ParserSound, [Next]_vars
             PROVE  ParserSound' /\ (phase # "off" => TextsKept)
  OBVIOUS
<1>1. CASE ReadToken \/ ReadEof
  BY <1>1, ParsesSound DEF ReadToken, ReadEof
<1>2. CASE Start \/ Edit \/ ConfSet \/ ConfLoad \/ ConfSave \/ LangReload \/ LangSet
  <2>1. UNCHANGED parser /\ (phase # "off" => UNCHANGED data)
    BY <1>2 DEF Start, Edit, ConfSet, ConfLoad, ConfSave, LangReload, LangSet, load
  <2> QED BY <2>1 DEF ParserSound, TextsKept
<1>3. CASE Stop
  BY <1>3, NewParserSound DEF Stop, ParserSound, TextsKept
<1>4. CASE UNCHANGED vars
  BY <1>4 DEF vars, ParserSound, TextsKept
<1> QED BY <1>1, <1>2, <1>3, <1>4 DEF Next

LEMMA InitParser == Init => ParserSound
  BY NewParserSound DEF Init, ParserSound

\* In any file, of any tokens in any order and of any length, a header is read outside of
\* all sections and holds every binding when it ends.
THEOREM HeaderSafe == Spec => []HeaderAsRead
<1>1. ParserSound => HeaderAsRead
  BY DEF ParserSound, Sound, Parsing, HeaderAsRead
<1> QED BY <1>1, InitParser, StepParser, PTL DEF Spec

\* Whatever a file holds and wherever it breaks off, no text is lost to a load, and none is
\* half of a value.
THEOREM TextsSafe == Spec => NoTextLost
<1> DEFINE Stays == phase # "off" => TextsKept
<1>1. ParserSound /\ [Next]_vars => ParserSound' /\ [Stays]_vars
  BY StepParser
<1>2. NoTextLost <=> [][Stays]_vars
  BY DEF NoTextLost, TextsKept
<1> HIDE DEF Stays
<1> QED BY <1>1, <1>2, InitParser, PTL DEF Spec

-----------------------------------------------------------------------------
(* What a parser holds.                                                    *)

\* The texts of the tokens of names.
Texts == Words \cup HeaderKeys \cup {"."}

\* A token of a file.
IsToken(t) ==
  /\ t.id = "String" => t.text \in Strings
  /\ t.id \in {"Identifier", "."} => t.text \in Texts

LEMMA FileTokens ==
  /\ \A t \in Offered : IsToken(t)
  /\ IsToken(Tok("EOF"))
<1>1. ASSUME NEW t \in Offered PROVE IsToken(t)
  <2>1. \/ \E s \in Signs \ {"."} : t = Tok(s)
        \/ t \in {Tok("HEADER"), Tok("END"), Number(1), Tok("."), Tok("SECTION"), Tok("STRBEGIN")}
        \/ \E x \in Identifiers : t = Identifier(x)
        \/ \E x \in Strings : t = String(x)
    BY DEF Offered
  <2>2. ASSUME NEW s \in Signs \ {"."}, t = Tok(s) PROVE IsToken(t)
    BY <2>2 DEF Tok, Signs, IsToken
  <2>3. CASE t \in {Tok("HEADER"), Tok("END"), Number(1), Tok("."), Tok("SECTION"), Tok("STRBEGIN")}
    BY <2>3 DEF Tok, Number, IsToken, Texts
  <2>4. ASSUME NEW x \in Identifiers, t = Identifier(x) PROVE IsToken(t)
    BY <2>4 DEF Identifier, Identifiers, IsToken, Texts
  <2>5. ASSUME NEW x \in Strings, t = String(x) PROVE IsToken(t)
    BY <2>5 DEF String, IsToken
  <2> QED BY <2>1, <2>2, <2>3, <2>4, <2>5
<1>2. IsToken(Tok("EOF"))
  BY DEF Tok, IsToken
<1> QED BY <1>1, <1>2

TypedData(d) == DOMAIN d \subseteq WatchedKeys /\ \A k \in DOMAIN d : d[k] \in Seq(Strings)

\* The sections and where values start, one entry more at most than there are sections.
Nested(p) ==
  /\ p.sections \in Seq(Seq(Texts)) /\ p.strbegins \in Seq(Seq(Strings))
  /\ Len(p.strbegins) <= Scope(p) + 1

\* What has been read of a name and a value.
Reads(p) == p.name \in Seq(Texts) /\ p.value \in Seq(Strings) /\ p.given \subseteq HeaderKeys

\* q is p up to what has been read.
Mild(p, q) ==
  /\ Shaped(q) /\ Reads(q)
  /\ q.sections = p.sections /\ q.strbegins = p.strbegins

\* How a token changes what is open: not, a section begins, or an STRBEGIN is given, or a
\* section ends.
Even(p, q)  == q.sections = p.sections /\ q.strbegins = p.strbegins
Opened(p, q) == q.sections = Append(p.sections, p.name) /\ q.strbegins = p.strbegins
Begun(p, q) ==
  q.sections = p.sections /\ \E x \in Strings : q.strbegins = WithBegin(p, x).strbegins
Ended(p, q) ==
  /\ Scope(p) # 0
  /\ q.sections = Closed(p).sections /\ q.strbegins = Closed(p).strbegins
Moves(p, q) == Even(p, q) \/ Opened(p, q) \/ Begun(p, q) \/ Ended(p, q)

\* What a step keeps beside Keeps.
Fits(p, r) == Moves(p, r.parser) /\ Reads(r.parser) /\ TypedData(r.data)

LEMMA MildFields ==
  ASSUME NEW p, Shaped(p), Reads(p)
  PROVE  /\ Mild(p, p)
         /\ \A x \in Seq(Texts) : Mild(p, [p EXCEPT !.name = x])
         /\ \A x \in Seq(Strings) : Mild(p, [p EXCEPT !.value = x])
         /\ \A x : Mild(p, [p EXCEPT !.read = x])
         /\ \A x \in HeaderKeys : Mild(p, [p EXCEPT !.given = @ \cup {x}])
<1>1. Mild(p, p)
  BY DEF Mild
<1>2. ASSUME NEW x \in Seq(Texts) PROVE Mild(p, [p EXCEPT !.name = x])
  <2> DEFINE q == [p EXCEPT !.name = x]
  <2>1. Shaped(q)
    BY DEF Shaped
  <2>2. q.name = x /\ q.value = p.value /\ q.given = p.given /\ q.sections = p.sections /\ q.strbegins = p.strbegins
    BY DEF Shaped
  <2> HIDE DEF q
  <2>3. Reads(q)
    BY <1>2, <2>2 DEF Reads
  <2>4. Mild(p, q)
    BY <2>1, <2>2, <2>3 DEF Mild
  <2> QED BY <2>4 DEF q
<1>3. ASSUME NEW x \in Seq(Strings) PROVE Mild(p, [p EXCEPT !.value = x])
  <2> DEFINE q == [p EXCEPT !.value = x]
  <2>1. Shaped(q)
    BY DEF Shaped
  <2>2. q.value = x /\ q.name = p.name /\ q.given = p.given /\ q.sections = p.sections /\ q.strbegins = p.strbegins
    BY DEF Shaped
  <2> HIDE DEF q
  <2>3. Reads(q)
    BY <1>3, <2>2 DEF Reads
  <2>4. Mild(p, q)
    BY <2>1, <2>2, <2>3 DEF Mild
  <2> QED BY <2>4 DEF q
<1>4. ASSUME NEW x PROVE Mild(p, [p EXCEPT !.read = x])
  <2> DEFINE q == [p EXCEPT !.read = x]
  <2>1. Shaped(q)
    BY DEF Shaped
  <2>2. q.name = p.name /\ q.value = p.value /\ q.given = p.given /\ q.sections = p.sections /\ q.strbegins = p.strbegins
    BY DEF Shaped
  <2> HIDE DEF q
  <2>3. Reads(q)
    BY <1>4, <2>2 DEF Reads
  <2>4. Mild(p, q)
    BY <2>1, <2>2, <2>3 DEF Mild
  <2> QED BY <2>4 DEF q
<1>5. ASSUME NEW x \in SUBSET HeaderKeys PROVE Mild(p, [p EXCEPT !.given = x])
  <2> DEFINE q == [p EXCEPT !.given = x]
  <2>1. Shaped(q)
    BY DEF Shaped
  <2>2. q.given = x /\ q.name = p.name /\ q.value = p.value /\ q.sections = p.sections /\ q.strbegins = p.strbegins
    BY DEF Shaped
  <2> HIDE DEF q
  <2>3. Reads(q)
    BY <1>5, <2>2 DEF Reads
  <2>4. Mild(p, q)
    BY <2>1, <2>2, <2>3 DEF Mild
  <2> QED BY <2>4 DEF q
<1>6. ASSUME NEW x \in HeaderKeys PROVE Mild(p, [p EXCEPT !.given = @ \cup {x}])
  <2> DEFINE g == p.given \cup {x}
  <2>1. g \in SUBSET HeaderKeys /\ [p EXCEPT !.given = @ \cup {x}] = [p EXCEPT !.given = g]
    BY DEF Reads
  <2> HIDE DEF g
  <2> QED BY <1>5, <2>1
<1> QED BY <1>1, <1>2, <1>3, <1>4, <1>6

LEMMA MildTwice ==
  ASSUME NEW p, NEW q, NEW r, Mild(p, q), Mild(q, r)
  PROVE  Mild(p, r)
  BY DEF Mild

LEMMA MildFits ==
  ASSUME NEW p, NEW q, NEW d, NEW place, Mild(p, q), TypedData(d)
  PROVE  Fits(p, Goes(q, d, place)) /\ Fits(p, Result(q, d)) /\ Fits(p, Fails(q, d))
  BY DEF Mild, Shaped, Reads, Fits, Moves, Even, Goes, Fails, Result

LEMMA BeginsType ==
  ASSUME NEW p, Nested(p)
  PROVE  Begins(p) \in Seq(Strings)
  BY FlatType DEF Begins, Nested

LEMMA SectionsNameType ==
  ASSUME NEW p, Nested(p)
  PROVE  SectionsName(p) \in Seq(Texts)
<1> DEFINE w == [i \in DOMAIN p.sections |-> Append(p.sections[i], ".")]
<1>1. \A i \in 1..Len(p.sections) : p.sections[i] \in Seq(Texts)
  BY DEF Nested
<1>2. DOMAIN p.sections = 1..Len(p.sections) /\ Len(p.sections) \in Nat
  BY DEF Nested
<1>3. "." \in Texts
  BY DEF Texts
<1>4. \A i \in 1..Len(p.sections) : Append(p.sections[i], ".") \in Seq(Texts)
  BY <1>1, <1>3
<1>5. w \in [1..Len(p.sections) -> Seq(Texts)]
  BY <1>2, <1>4
<1>6. w \in Seq(Seq(Texts))
  <2> HIDE DEF w
  <2> QED BY <1>2, <1>5
<1> HIDE DEF w
<1>7. FlattenSeq(w) \in Seq(Texts)
  BY <1>6, FlatType
<1> QED BY <1>7 DEF SectionsName, w

\* A parser before a step.
Held(p) == Shaped(p) /\ Nested(p) /\ Reads(p)

LEMMA ReadsValueFits ==
  ASSUME NEW p, Held(p), NEW q, Mild(p, q), NEW d, TypedData(d), NEW place
  PROVE  Fits(p, ReadsValue(q, d, place))
<1> DEFINE u == [q EXCEPT !.value = Begins(q)]
           v == [u EXCEPT !.read = 0]
<1>1. Nested(q)
  BY DEF Held, Nested, Mild, Scope
<1>2. Mild(q, u)
  BY <1>1, BeginsType, MildFields DEF Mild
<1> HIDE DEF u
<1>3. Mild(u, v)
  BY <1>2, MildFields DEF Mild
<1> HIDE DEF v
<1>4. Mild(p, v)
  BY <1>2, <1>3, MildTwice
<1>5. Fits(p, Goes(v, d, place))
  BY <1>4, MildFits
<1> QED BY <1>5 DEF ReadsValue, u, v

LEMMA ForgetMild ==
  ASSUME NEW p, Shaped(p), Reads(p)
  PROVE  Mild(p, Forget(p))
<1> DEFINE q == [p EXCEPT !.name = <<>>]
           r == [q EXCEPT !.value = <<>>]
           f == [r EXCEPT !.read = 0]
<1>1. <<>> \in Seq(Texts) /\ <<>> \in Seq(Strings)
  OBVIOUS
<1>2. Mild(p, q)
  BY <1>1, MildFields
<1> HIDE DEF q
<1>3. Mild(q, r)
  BY <1>1, <1>2, MildFields DEF Mild
<1> HIDE DEF r
<1>4. Mild(r, f)
  BY <1>3, MildFields DEF Mild
<1> HIDE DEF f
<1>5. Mild(p, f)
  BY <1>2, <1>3, <1>4, MildTwice
<1> QED BY <1>5 DEF Forget, q, r, f

LEMMA StoredType ==
  ASSUME NEW p, Reads(p), NEW d, TypedData(d)
  PROVE  TypedData(Stored(p, d))
  BY DEF Stored, Reads, TypedData

LEMMA BlocksFit ==
  ASSUME NEW p, Held(p), NEW d, TypedData(d)
  PROVE  /\ Fits(p, OpensHeader(p, d))
         /\ Fits(p, ClosesHeader(p, d))
         /\ Scope(p) # 0 => Fits(p, Goes(Closed(p), d, "semicolon"))
<1> USE DEF Held, Shaped, Reads, Fits, Moves, Even, Goes, Fails, Result
<1>1. Fits(p, OpensHeader(p, d))
  BY DEF OpensHeader
<1>2. Fits(p, ClosesHeader(p, d))
  BY DEF ClosesHeader
<1>3. ASSUME Scope(p) # 0 PROVE Fits(p, Goes(Closed(p), d, "semicolon"))
  <2>1. Ended(p, Goes(Closed(p), d, "semicolon").parser)
    BY <1>3 DEF Ended, Closed
  <2>2. Reads(Goes(Closed(p), d, "semicolon").parser)
    BY DEF Closed
  <2> QED BY <2>1, <2>2
<1> QED BY <1>1, <1>2, <1>3

LEMMA TopFits ==
  ASSUME NEW p, Held(p), NEW d, TypedData(d), NEW t
  PROVE  Fits(p, Top(p, d, t))
<1> DEFINE q == [p EXCEPT !.name = <<>>]
<1>1. Mild(p, p) /\ Mild(p, q)
  <2>1. <<>> \in Seq(Texts)
    OBVIOUS
  <2> QED BY <2>1, MildFields DEF Held
<1> HIDE DEF q
<1>2. Fits(p, Goes(q, d, "binding")) /\ Fits(p, Goes(q, d, "section"))
  BY <1>1, MildFits
<1>3. Fits(p, Fails(p, d)) /\ \A place : Fits(p, Goes(p, d, place))
  BY <1>1, MildFits
<1>4. Fits(p, Ends(p, d))
  BY <1>3 DEF Ends
<1>5. CASE t.id = "EOF" \/ t.id = ";" \/ t.id = "STRBEGIN"
  BY <1>3, <1>4, <1>5 DEF Top
<1>6. CASE t.id = "." \/ t.id = "SECTION"
  BY <1>2, <1>3, <1>6 DEF Top, q
<1>7. CASE t.id = "HEADER" \/ t.id = "END"
  BY <1>3, <1>7, BlocksFit DEF Top
<1>8. CASE t.id \notin {"EOF", ";", ".", "SECTION", "STRBEGIN", "HEADER", "END"}
  BY <1>3, <1>8 DEF Top
<1> QED BY <1>5, <1>6, <1>7, <1>8

LEMMA NamedFits ==
  ASSUME NEW p, Held(p), NEW d, TypedData(d)
  PROVE  Fits(p, Named(p, d))
<1>1. CASE p.at = "section"
  <2> DEFINE o == [p EXCEPT !.sections = Append(@, p.name), !.name = <<>>]
             g == [o EXCEPT !.at = "top"]
  <2>1. Named(p, d) = Goes(o, d, "top")
    BY <1>1, Zenon DEF Named
  <2>2. Goes(o, d, "top").parser = g /\ Goes(o, d, "top").data = d
    BY DEF Goes, Result
  <2>3. <<>> \in Seq(Texts)
    OBVIOUS
  <2>4. Opened(p, g)
    BY DEF Held, Shaped, Opened
  <2>5. Reads(g)
    BY <2>3 DEF Held, Shaped, Reads
  <2> QED BY <2>1, <2>2, <2>4, <2>5 DEF Fits, Moves
<1>2. CASE p.at # "section" /\ ~p.inHeader
  <2> DEFINE n == SectionsName(p) \o p.name
             q == [p EXCEPT !.name = SectionsName(p) \o @]
  <2>1. n \in Seq(Texts)
    BY SectionsNameType DEF Held, Reads
  <2>2. q = [p EXCEPT !.name = n]
    OBVIOUS
  <2> HIDE DEF n, q
  <2>3. Mild(p, q)
    BY <2>1, <2>2, MildFields DEF Held
  <2>4. Fits(p, ReadsValue(q, d, "value"))
    BY <2>3, ReadsValueFits
  <2> QED BY <1>2, <2>4 DEF Named, q
<1>3. CASE p.at # "section" /\ p.inHeader
  <2> DEFINE key == Head(p.name)
             q == [p EXCEPT !.given = @ \cup {key}]
             r == [q EXCEPT !.name = <<>>]
             v == [r EXCEPT !.read = 0]
  <2> HIDE DEF key
  <2>1. Fits(p, Fails(p, d))
    BY MildFields, MildFits DEF Held
  <2>2. CASE Len(p.name) # 1 \/ key \notin HeaderKeys \ p.given
    <3>1. Named(p, d) = Fails(p, d)
      BY <1>3, <2>2, Zenon DEF Named, key
    <3> QED BY <2>1, <3>1
  <2>3. CASE ~(Len(p.name) # 1 \/ key \notin HeaderKeys \ p.given)
    <3>1. Mild(p, q)
      BY <2>3, MildFields DEF Held
    <3> HIDE DEF q
    <3>2. Mild(q, r)
      <4>1. <<>> \in Seq(Texts)
        OBVIOUS
      <4> QED BY <3>1, <4>1, MildFields DEF Mild
    <3> HIDE DEF r
    <3>3. Mild(r, v)
      BY <3>2, MildFields DEF Mild
    <3> HIDE DEF v
    <3>4. Mild(p, r) /\ Mild(p, v)
      BY <3>1, <3>2, <3>3, MildTwice
    <3>5. Fits(p, Goes(v, d, "version")) /\ Fits(p, Goes(r, d, "bracket"))
      BY <3>4, MildFits
    <3>6. Fits(p, ReadsValue(q, d, "value"))
      BY <3>1, ReadsValueFits
    <3>7. Named(p, d) \in {Goes(v, d, "version"), Goes(r, d, "bracket"), ReadsValue(q, d, "value")}
      BY <1>3, <2>3, Zenon DEF Named, key, q, r, v
    <3> QED BY <3>5, <3>6, <3>7
  <2> QED BY <2>2, <2>3
<1> QED BY <1>1, <1>2, <1>3

LEMMA NameFits ==
  ASSUME NEW p, Held(p), NEW d, TypedData(d), NEW t, IsToken(t)
  PROVE  Fits(p, Name(p, d, t))
<1>1. Fits(p, Named(p, d)) /\ Fits(p, Fails(p, d))
  BY NamedFits, MildFields, MildFits DEF Held
<1>2. ASSUME t.id = "Identifier" \/ t.id = "."
      PROVE  Fits(p, Result([p EXCEPT !.name = Append(@, t.text)], d))
  <2> DEFINE n == Append(p.name, t.text)
             q == [p EXCEPT !.name = Append(@, t.text)]
  <2>1. n \in Seq(Texts)
    BY <1>2 DEF Held, Reads, IsToken
  <2>2. q = [p EXCEPT !.name = n]
    OBVIOUS
  <2> HIDE DEF n, q
  <2>3. Mild(p, q)
    BY <2>1, <2>2, MildFields DEF Held
  <2>4. Fits(p, Result(q, d))
    BY <2>3, MildFits
  <2> QED BY <2>4 DEF q
<1> QED BY <1>1, <1>2 DEF Name

LEMMA WithStringFits ==
  ASSUME NEW p, Held(p), NEW d, TypedData(d), NEW t, IsToken(t), t.id = "String"
  PROVE  Fits(p, Result(WithString(p, t), d))
<1> DEFINE n == Append(p.value, t.text)
           q == [p EXCEPT !.value = n]
           r == [q EXCEPT !.read = p.read + 1]
<1>1. n \in Seq(Strings)
  BY DEF Held, Reads, IsToken
<1>2. WithString(p, t) = r
  BY DEF WithString
<1> HIDE DEF n
<1>3. Mild(p, q)
  BY <1>1, MildFields DEF Held
<1> HIDE DEF q
<1>4. Mild(q, r)
  BY <1>3, MildFields DEF Mild
<1> HIDE DEF r
<1>5. Fits(p, Result(r, d))
  BY <1>3, <1>4, MildTwice, MildFits
<1> QED BY <1>2, <1>5

LEMMA ValueFits ==
  ASSUME NEW p, Held(p), NEW d, TypedData(d), NEW t, IsToken(t)
  PROVE  Fits(p, Value(p, d, t)) /\ Fits(p, Item(p, d, t))
<1>1. Fits(p, Fails(p, d)) /\ Fits(p, ReadsValue(p, d, "item"))
  BY MildFields, MildFits, ReadsValueFits DEF Held
<1>2. t.id = "String" => Fits(p, Result(WithString(p, t), d))
  BY WithStringFits
<1>3. Mild(p, Forget(p))
  BY ForgetMild DEF Held
<1>4. Fits(p, Goes(Forget(p), Stored(p, d), "top")) /\ Fits(p, Goes(Forget(p), d, "semicolon"))
  BY <1>3, StoredType, MildFits DEF Held
<1> QED BY <1>1, <1>2, <1>4 DEF Value, Item

LEMMA VersionPartFits ==
  ASSUME NEW p, Held(p), NEW d, TypedData(d), NEW t
  PROVE  Fits(p, VersionPart(p, d, t))
<1> DEFINE q == [p EXCEPT !.read = @ + 1]
           r == [p EXCEPT !.read = p.read + 1]
<1>1. q = r
  OBVIOUS
<1>2. Mild(p, r)
  BY MildFields DEF Held
<1> HIDE DEF r, q
<1>3. Fits(p, Result(q, d))
  BY <1>1, <1>2, MildFits
<1>4. Fits(p, Fails(p, d)) /\ Fits(p, Goes(Forget(p), d, "top"))
  BY MildFields, MildFits, ForgetMild DEF Held
<1> QED BY <1>3, <1>4 DEF VersionPart, q

LEMMA StrBeginFits ==
  ASSUME NEW p, Held(p), NEW d, TypedData(d), NEW t, IsToken(t)
  PROVE  Fits(p, StrBegin(p, d, t))
<1>1. Fits(p, Fails(p, d))
  BY MildFields, MildFits DEF Held
<1>2. ASSUME t.id = "String" PROVE Fits(p, Goes(WithBegin(p, t.text), d, "semicolon"))
  <2> DEFINE w == WithBegin(p, t.text)
  <2>1. w = p \/ \E begins : w = [p EXCEPT !.strbegins = begins]
    BY Zenon DEF WithBegin
  <2> HIDE DEF w
  <2>2. Shaped(w) /\ Reads(w) /\ w.sections = p.sections
    <3>1. CASE w = p
      BY <3>1 DEF Held
    <3>2. ASSUME NEW begins, w = [p EXCEPT !.strbegins = begins]
          PROVE  Shaped(w) /\ Reads(w) /\ w.sections = p.sections
      BY <3>2 DEF Held, Shaped, Reads
    <3> QED BY <2>1, <3>1, <3>2
  <2> DEFINE g == [w EXCEPT !.at = "semicolon"]
  <2>3. Reads(g) /\ g.sections = p.sections /\ g.strbegins = w.strbegins
    BY <2>2 DEF Shaped, Reads
  <2>4. Goes(w, d, "semicolon").parser = g /\ Goes(w, d, "semicolon").data = d
    BY DEF Goes, Result
  <2> HIDE DEF g
  <2>5. Begun(p, g)
    BY <1>2, <2>3 DEF Begun, IsToken, w
  <2>6. Fits(p, Goes(w, d, "semicolon"))
    BY <2>3, <2>4, <2>5 DEF Fits, Moves
  <2> QED BY <2>6 DEF w
<1> QED BY <1>1, <1>2 DEF StrBegin

LEMMA StepFits ==
  ASSUME NEW p, Held(p), p.at \in Places \ {"accepted", "failed"},
         NEW d, TypedData(d), NEW t, IsToken(t)
  PROVE  Fits(p, Step(p, d, t))
<1>1. CASE p.at = "top"
  BY <1>1, TopFits DEF Step
<1>2. CASE p.at \in {"section", "binding"}
  BY <1>2, NameFits DEF Step
<1>3. CASE p.at \in {"value", "item"}
  BY <1>3, ValueFits DEF Step
<1>4. CASE p.at \in {"version", "strbegin"}
  BY <1>4, VersionPartFits, StrBeginFits DEF Step
<1>5. CASE p.at = "bracket" \/ p.at = "semicolon"
  <2>1. Fits(p, Fails(p, d)) /\ \A place : Fits(p, Goes(p, d, place))
    BY MildFields, MildFits DEF Held
  <2>2. Fits(p, ReadsValue(p, d, "item"))
    BY MildFields, ReadsValueFits DEF Held
  <2> QED BY <1>5, <2>1, <2>2 DEF Step
<1> QED BY <1>1, <1>2, <1>3, <1>4, <1>5 DEF Places

-----------------------------------------------------------------------------
(* What values start with.                                                 *)

\* b has, for each open section, what values started with where it was opened: the STRBEGINs
\* of the scopes around it, which are still the first ones of the parser.
Starts(p, b) ==
  /\ b \in Seq(Seq(Strings)) /\ Len(b) = Scope(p)
  /\ \A i \in 1..Scope(p) : b[i] = FlattenSeq(Upto(p.strbegins, i))

\* What a token makes of blocks.
BlocksAfter(p, q, b) ==
  IF Scope(q) > Scope(p) THEN Append(b, Begins(p)) ELSE SubSeq(b, 1, Scope(q))

LEMMA UptoAlike ==
  ASSUME NEW s, NEW u, NEW k \in Nat,
         \A j \in 1..k : (IF j <= Len(s) THEN s[j] ELSE <<>>) = (IF j <= Len(u) THEN u[j] ELSE <<>>)
  PROVE  Upto(s, k) = Upto(u, k)
<1> DEFINE f(j) == IF j <= Len(s) THEN s[j] ELSE <<>>
           g(j) == IF j <= Len(u) THEN u[j] ELSE <<>>
<1>1. \A j \in 1..k : f(j) = g(j)
  OBVIOUS
<1>2. [j \in 1..k |-> f(j)] = [j \in 1..k |-> g(j)]
  <2> HIDE DEF f, g
  <2> QED BY <1>1
<1> QED BY <1>2 DEF Upto

LEMMA EvenStarts ==
  ASSUME NEW p, Nested(p), NEW q, Even(p, q), NEW b, Starts(p, b)
  PROVE  Nested(q) /\ Starts(q, BlocksAfter(p, q, b)) /\ Len(BlocksAfter(p, q, b)) = Len(b)
<1>1. Scope(q) = Scope(p) /\ Scope(p) \in Nat
  BY DEF Even, Nested, Scope
<1>2. BlocksAfter(p, q, b) = b
  BY <1>1 DEF BlocksAfter, Starts
<1>3. Nested(q)
  BY <1>1 DEF Even, Nested, Scope
<1>4. Starts(q, b)
  BY <1>1 DEF Even, Starts
<1> QED BY <1>2, <1>3, <1>4

LEMMA OpenedStarts ==
  ASSUME NEW p, Nested(p), Reads(p), NEW q, Opened(p, q), NEW b, Starts(p, b)
  PROVE  /\ Nested(q) /\ Starts(q, BlocksAfter(p, q, b))
         /\ ~(Len(BlocksAfter(p, q, b)) < Len(b))
<1>1. Scope(q) = Scope(p) + 1 /\ Scope(p) \in Nat /\ q.sections \in Seq(Seq(Texts))
  BY DEF Opened, Nested, Reads, Scope
<1>2. q.strbegins = p.strbegins /\ p.strbegins \in Seq(Seq(Strings)) /\ Len(p.strbegins) <= Scope(p) + 1
  BY DEF Opened, Nested
<1>3. Nested(q)
  BY <1>1, <1>2 DEF Nested
<1> DEFINE c == Append(b, Begins(p))
<1>4. BlocksAfter(p, q, b) = c
  BY <1>1 DEF BlocksAfter
<1>5. Begins(p) \in Seq(Strings)
  BY BeginsType
<1>6. /\ c \in Seq(Seq(Strings)) /\ Len(c) = Len(b) + 1 /\ Len(b) = Scope(p)
      /\ c[Scope(p) + 1] = Begins(p) /\ \A i \in 1..Scope(p) : c[i] = b[i]
  BY <1>1, <1>5 DEF Starts
<1>7. FlattenSeq(Upto(q.strbegins, Scope(p) + 1)) = Begins(p)
  <2>1. Scope(p) + 1 \in Nat
    BY <1>1
  <2>2. FlattenSeq(Upto(p.strbegins, Scope(p) + 1)) = FlattenSeq(p.strbegins)
    BY <1>2, <2>1, FlatPadded
  <2> QED BY <1>2, <2>2 DEF Begins
<1> HIDE DEF c
<1>8. ASSUME NEW i \in 1..Scope(q) PROVE c[i] = FlattenSeq(Upto(q.strbegins, i))
  <2>1. CASE i = Scope(p) + 1
    BY <1>6, <1>7, <2>1, Zenon
  <2>2. CASE i # Scope(p) + 1
    <3>1. i \in 1..Scope(p)
      BY <1>1, <2>2
    <3>2. b[i] = FlattenSeq(Upto(p.strbegins, i))
      BY <3>1 DEF Starts
    <3> QED BY <1>2, <1>6, <3>1, <3>2, Zenon
  <2> QED BY <2>1, <2>2
<1>9. Starts(q, c)
  BY <1>1, <1>6, <1>8 DEF Starts
<1>10. ~(Len(c) < Len(b))
  BY <1>1, <1>6
<1> QED BY <1>3, <1>4, <1>9, <1>10

LEMMA BegunStarts ==
  ASSUME NEW p, Shaped(p), Nested(p), NEW q, Begun(p, q), NEW b, Starts(p, b)
  PROVE  Nested(q) /\ Starts(q, BlocksAfter(p, q, b)) /\ Len(BlocksAfter(p, q, b)) = Len(b)
<1>1. Scope(q) = Scope(p) /\ Scope(p) \in Nat /\ q.sections = p.sections
  BY DEF Begun, Nested, Scope
<1>2. BlocksAfter(p, q, b) = b
  BY <1>1 DEF BlocksAfter, Starts
<1>3. PICK x \in Strings : q.strbegins = WithBegin(p, x).strbegins
  BY DEF Begun
<1> DEFINE s == p.strbegins
           here == Scope(p) + 1
           u == [i \in 1..here |-> IF i = here THEN <<x>> ELSE IF i <= Len(s) THEN s[i] ELSE <<>>]
<1>4. s \in Seq(Seq(Strings)) /\ Len(s) \in Nat /\ Len(s) <= here
      /\ \A i \in 1..Len(s) : s[i] \in Seq(Strings)
  BY DEF Nested
<1>5. CASE here <= Len(s) /\ s[here] # <<>>
  <2>1. q.strbegins = s
    BY <1>3, <1>5 DEF WithBegin
  <2>2. Even(p, q)
    BY <1>1, <2>1 DEF Even
  <2> QED BY <2>2, EvenStarts
<1>6. CASE ~(here <= Len(s) /\ s[here] # <<>>)
  <2>1. q.strbegins = u
    <3>1. WithBegin(p, x) = [p EXCEPT !.strbegins = u]
      BY <1>6, Zenon DEF WithBegin
    <3> HIDE DEF u
    <3>2. [p EXCEPT !.strbegins = u].strbegins = u
      BY DEF Shaped
    <3> QED BY <1>3, <3>1, <3>2
  <2>2. u \in Seq(Seq(Strings)) /\ Len(u) = here
    <3>1. <<x>> \in Seq(Strings) /\ <<>> \in Seq(Strings)
      OBVIOUS
    <3>2. \A i \in 1..here : u[i] \in Seq(Strings)
      BY <1>4, <3>1
    <3>3. here \in Nat
      BY <1>1
    <3>4. DOMAIN u = 1..here
      OBVIOUS
    <3>5. u \in [1..here -> Seq(Strings)]
      BY <3>2
    <3> HIDE DEF u, here
    <3> QED BY <3>3, <3>4, <3>5
  <2>3. ASSUME NEW i \in 1..Scope(p) PROVE Upto(s, i) = Upto(u, i)
    <3>1. i \in Nat
      BY <1>1
    <3>2. \A j \in 1..i : j \in 1..here /\ j # here /\ j <= here
      BY <1>1
    <3>3. \A j \in 1..i : u[j] = IF j <= Len(s) THEN s[j] ELSE <<>>
      BY <3>2
    <3> HIDE DEF u, s, here
    <3>4. \A j \in 1..i : (IF j <= Len(s) THEN s[j] ELSE <<>>) = (IF j <= Len(u) THEN u[j] ELSE <<>>)
      BY <2>2, <3>2, <3>3
    <3> QED BY <3>1, <3>4, UptoAlike
  <2> HIDE DEF u
  <2>4. Nested(q)
    BY <1>1, <2>1, <2>2 DEF Nested
  <2>5. ASSUME NEW i \in 1..Scope(q) PROVE b[i] = FlattenSeq(Upto(q.strbegins, i))
    <3>1. i \in 1..Scope(p)
      BY <1>1
    <3>2. b[i] = FlattenSeq(Upto(s, i))
      BY <3>1 DEF Starts
    <3> QED BY <2>1, <2>3, <3>1, <3>2, Zenon
  <2>6. Starts(q, b)
    BY <1>1, <2>5 DEF Starts
  <2> QED BY <1>2, <2>4, <2>6
<1> QED BY <1>5, <1>6

\* The section that ends was opened with what the parser now has.
LEMMA EndedStarts ==
  ASSUME NEW p, Shaped(p), Nested(p), NEW q, Ended(p, q), NEW b, Starts(p, b)
  PROVE  /\ Nested(q) /\ Starts(q, BlocksAfter(p, q, b))
         /\ Begins(q) = Last(b)
<1> DEFINE s == p.strbegins
           n == Scope(p)
           u == q.strbegins
<1>1. /\ s \in Seq(Seq(Strings)) /\ Len(s) \in Nat /\ Len(s) <= n + 1
      /\ p.sections \in Seq(Seq(Texts)) /\ n \in Nat /\ n > 0
      /\ \A i \in 1..Len(s) : s[i] \in Seq(Strings)
  BY DEF Nested, Ended, Scope
<1>2. q.sections = Front(p.sections) /\ u = IF Len(s) > n THEN Front(s) ELSE s
  BY DEF Ended, Closed, Shaped
<1>3. q.sections \in Seq(Seq(Texts)) /\ Scope(q) = n - 1
  <2>1. q.sections = SubSeq(p.sections, 1, n - 1) /\ n = Len(p.sections)
    BY <1>2 DEF Front, Scope
  <2> HIDE DEF n
  <2>2. q.sections \in Seq(Seq(Texts)) /\ Len(q.sections) = n - 1
    BY <1>1, <2>1
  <2> QED BY <2>2 DEF Scope
<1>4. /\ u \in Seq(Seq(Strings)) /\ Len(u) <= n /\ Len(u) \in Nat
      /\ \A j \in 1..n : (j <= Len(u) <=> j <= Len(s)) /\ (j <= Len(u) => u[j] = s[j])
  <2>1. CASE Len(s) > n
    <3>1. u = SubSeq(s, 1, n) /\ Len(s) = n + 1
      BY <1>1, <1>2, <2>1 DEF Front
    <3>2. Len(u) = n /\ u \in Seq(Seq(Strings)) /\ \A j \in 1..n : u[j] = s[j]
      BY <1>1, <3>1
    <3> HIDE DEF u
    <3> QED BY <1>1, <3>1, <3>2
  <2>2. CASE ~(Len(s) > n)
    <3>1. u = s
      BY <1>2, <2>2
    <3> QED BY <1>1, <2>2, <3>1
  <2> QED BY <2>1, <2>2
<1> HIDE DEF s, u
<1>5. ASSUME NEW i \in 1..n PROVE Upto(s, i) = Upto(u, i)
  <2>1. \A j \in 1..i : j \in 1..n
    BY <1>1
  <2>2. \A j \in 1..i : (IF j <= Len(s) THEN s[j] ELSE <<>>) = (IF j <= Len(u) THEN u[j] ELSE <<>>)
    BY <1>4, <2>1
  <2>3. i \in Nat
    BY <1>1
  <2> QED BY <2>2, <2>3, UptoAlike
<1>6. b \in Seq(Seq(Strings)) /\ Len(b) = n /\ \A i \in 1..n : b[i] = FlattenSeq(Upto(s, i))
  BY DEF Starts, s
<1> HIDE DEF n
<1>7. Begins(q) = Last(b)
  <2>1. FlattenSeq(Upto(u, n)) = FlattenSeq(u)
    BY <1>1, <1>4, FlatPadded
  <2>2. n \in 1..n
    BY <1>1
  <2>3. b[n] = FlattenSeq(Upto(u, n))
    BY <1>5, <1>6, <2>2, Zenon
  <2> QED BY <1>6, <2>1, <2>3 DEF Last, Begins, u
<1>8. Nested(q)
  BY <1>1, <1>3, <1>4 DEF Nested, u
<1> DEFINE c == SubSeq(b, 1, n - 1)
<1>9. BlocksAfter(p, q, b) = c
  BY <1>1, <1>3 DEF BlocksAfter, n
<1>10. c \in Seq(Seq(Strings)) /\ Len(c) = n - 1 /\ \A i \in 1..n - 1 : c[i] = b[i]
  BY <1>1, <1>6
<1> HIDE DEF c
<1>11. ASSUME NEW i \in 1..n - 1 PROVE c[i] = FlattenSeq(Upto(u, i))
  <2>1. i \in 1..n
    BY <1>1
  <2> QED BY <1>5, <1>6, <1>10, <2>1, Zenon
<1>12. Starts(q, c)
  BY <1>3, <1>10, <1>11 DEF Starts, u
<1> QED BY <1>7, <1>8, <1>9, <1>12

LEMMA MovesStarts ==
  ASSUME NEW p, Held(p), NEW q, Moves(p, q), NEW b, Starts(p, b)
  PROVE  /\ Nested(q) /\ Starts(q, BlocksAfter(p, q, b))
         /\ Len(BlocksAfter(p, q, b)) < Len(b) => Begins(q) = Last(b)
<1>1. Len(b) \in Nat
  BY DEF Starts
<1>2. CASE Even(p, q)
  BY <1>1, <1>2, EvenStarts DEF Held
<1>3. CASE Opened(p, q)
  BY <1>3, OpenedStarts DEF Held
<1>4. CASE Begun(p, q)
  BY <1>1, <1>4, BegunStarts DEF Held
<1>5. CASE Ended(p, q)
  BY <1>5, EndedStarts DEF Held
<1> QED BY <1>2, <1>3, <1>4, <1>5 DEF Moves

LEMMA NewParserHeld == Held(NewParser) /\ Starts(NewParser, <<>>) /\ TypedData(NoData)
<1>1. <<>> \in Seq(Seq(Texts)) /\ <<>> \in Seq(Texts) /\ <<>> \in Seq(Strings) /\ <<>> \in Seq(Seq(Strings))
      /\ Len(<<>>) = 0
  OBVIOUS
<1>2. Shaped(NewParser) /\ Reads(NewParser)
  BY <1>1 DEF NewParser, Shaped, Reads
<1>3. NewParser.sections = <<>> /\ NewParser.strbegins = <<>>
  BY DEF NewParser
<1>4. Nested(NewParser) /\ Scope(NewParser) = 0
  BY <1>1, <1>3 DEF Nested, Scope
<1>5. Starts(NewParser, <<>>)
  BY <1>1, <1>4 DEF Starts
<1>6. TypedData(NoData)
  BY DEF NoData, TypedData
<1> QED BY <1>2, <1>4, <1>5, <1>6 DEF Held

-----------------------------------------------------------------------------
(* The client.                                                             *)

\* The texts and the load.
LoadInv ==
  /\ ParserSound /\ Held(parser) /\ Starts(parser, blocks)
  /\ TypedData(data) /\ read \subseteq WatchedKeys

Restored ==
  Len(blocks') < Len(blocks) /\ Loading /\ phase' = phase => Begins(parser') = Last(blocks)

LEMMA ParsesLoad ==
  ASSUME NEW t, IsToken(t), LoadInv, Loading, Parses(t)
  PROVE  LoadInv' /\ Restored
<1> DEFINE r == Step(parser, data, t)
<1>1. parser.at \in Places \ {"accepted", "failed"}
  BY DEF LoadInv, ParserSound, Sound, Parsing
<1>2. Fits(parser, r)
  BY <1>1, StepFits DEF LoadInv
<1>3. ParserSound'
  BY ParsesSound DEF LoadInv
<1>4. data' = r.data
  BY DEF Parses
<1>5. TypedData(data')
  BY <1>2, <1>4 DEF Fits
<1>6. CASE Parsing(r.parser)
  <2>1. /\ parser' = r.parser
        /\ blocks' = BlocksAfter(parser, r.parser, blocks)
        /\ read' = (IF parser.at = "value" /\ r.parser.at = "top" /\ ~parser.inHeader
                    THEN read \cup ({parser.name} \cap WatchedKeys) ELSE read)
    BY <1>6 DEF Parses, BlocksAfter
  <2>2. /\ Nested(r.parser) /\ Starts(r.parser, BlocksAfter(parser, r.parser, blocks))
        /\ Len(BlocksAfter(parser, r.parser, blocks)) < Len(blocks) => Begins(r.parser) = Last(blocks)
    BY <1>2, MovesStarts DEF LoadInv, Fits
  <2> HIDE DEF r
  <2>3. read' \subseteq WatchedKeys
    BY <2>1 DEF LoadInv
  <2>4. Shaped(parser')
    BY <1>3 DEF ParserSound, Sound
  <2>5. Held(parser')
    BY <1>2, <2>1, <2>2, <2>4 DEF Held, Fits
  <2>6. Starts(parser', blocks')
    BY <2>1, <2>2
  <2>7. Restored
    BY <2>1, <2>2 DEF Restored
  <2> QED BY <1>3, <1>5, <2>3, <2>5, <2>6, <2>7 DEF LoadInv
<1>7. CASE ~Parsing(r.parser)
  <2>1. parser' = NewParser /\ blocks' = <<>> /\ read' = {} /\ phase' \in {"off", "prompt"}
    BY <1>7 DEF Parses
  <2>2. Restored
    BY <2>1 DEF Restored, Loading
  <2> QED BY <1>3, <1>5, <2>1, <2>2, NewParserHeld DEF LoadInv
<1> QED BY <1>6, <1>7

LEMMA StepLoad == LoadInv /\ [Next]_vars => LoadInv' /\ Restored
<1> SUFFICES ASSUME LoadInv, [Next]_vars PROVE LoadInv' /\ Restored
  OBVIOUS
<1>1. ParserSound'
  BY StepParser DEF LoadInv
<1>2. Len(blocks) \in Nat
  BY DEF LoadInv, Starts
<1>3. CASE ReadToken
  BY <1>3, FileTokens, ParsesLoad DEF ReadToken
<1>4. CASE ReadEof
  BY <1>4, FileTokens, ParsesLoad DEF ReadEof
<1>5. CASE Stop
  <2>1. Restored
    BY <1>5 DEF Stop, Restored, Loading
  <2> QED BY <1>1, <1>5, <2>1, NewParserHeld DEF Stop, LoadInv
<1>6. CASE Start
  <2>1. parser' = parser /\ blocks' = blocks /\ read' = read /\ data' = NoData
    BY <1>6 DEF Start
  <2> QED BY <1>1, <1>2, <2>1, NewParserHeld DEF LoadInv, Restored
<1>7. CASE Edit \/ ConfSet \/ ConfLoad \/ ConfSave \/ LangReload \/ LangSet \/ UNCHANGED vars
  <2>1. parser' = parser /\ blocks' = blocks /\ read' = read /\ data' = data
    BY <1>7 DEF Edit, ConfSet, ConfLoad, ConfSave, LangReload, LangSet, load, vars
  <2> QED BY <1>1, <1>2, <2>1 DEF LoadInv, Restored
<1> QED BY <1>3, <1>4, <1>5, <1>6, <1>7 DEF Next

LEMMA InitLoad == Init => LoadInv
  BY InitParser, NewParserHeld DEF Init, LoadInv

\* Wherever a section ends, however deep and whatever STRBEGINs it and the sections in it
\* had, values start again with what they started with where it began.
THEOREM PrefixSafe == Spec => PrefixRestored
<1>1. PrefixRestored <=> [][Restored]_vars
  BY DEF PrefixRestored, Restored
<1> HIDE DEF Restored
<1> QED BY <1>1, InitLoad, StepLoad, PTL DEF Spec, PrefixRestored

\* What a client has in hand.
ConfigType ==
  /\ phase \in {"off", "starting", "prompt", "loading"}
  /\ commands \in 0..MaxCommands
  /\ ini \in Trees \cup {Unreadable} /\ tree \in Trees
  /\ language \in Languages \cup {"none"}
  /\ switched \in BOOLEAN /\ refused \in BOOLEAN /\ faulty \in BOOLEAN

LEMMA TreeParts ==
  ASSUME NEW t \in Trees
  PROVE  /\ t.before \in BOOLEAN /\ t.after \in BOOLEAN /\ t.language \in Languages \cup {"none"}
         /\ \A ok \in BOOLEAN : [t EXCEPT !.before = ok] \in Trees /\ [t EXCEPT !.after = ok] \in Trees
         /\ \A l \in Languages \cup {"none"} : [t EXCEPT !.language = l] \in Trees
  BY DEF Trees

LEMMA EmptyTreeType == EmptyTree \in Trees
  BY DEF Trees, EmptyTree

LEMMA RestsType ==
  ASSUME NEW t \in Trees
  PROVE  Rests(t) \subseteq Trees \cup {Unreadable}
<1>1. {FALSE, t.before} \subseteq BOOLEAN /\ {FALSE, t.after} \subseteq BOOLEAN
      /\ {"none", t.language} \cup (Languages \ Installed) \subseteq Languages \cup {"none"}
  BY TreeParts
<1> QED BY <1>1 DEF Rests, Trees

LEMMA TakenType ==
  ASSUME NEW t \in Trees, TakesTree(t), ConfigType
  PROVE  tree' \in Trees /\ language' \in Languages \cup {"none"} /\ switched' \in BOOLEAN /\ refused' \in BOOLEAN
<1>1. tree' = t /\ refused' = ~Valid(t)
      /\ switched' = (switched /\ (~t.before \/ t.language = "none"))
      /\ language' \in {t.language, language}
  BY DEF TakesTree, Taken
<1>2. t.language \in Languages \cup {"none"} /\ language \in Languages \cup {"none"}
  BY TreeParts DEF ConfigType
<1>3. language' \in Languages \cup {"none"}
  BY <1>1, <1>2
<1>4. refused' \in BOOLEAN
  BY <1>1
<1>5. switched' \in BOOLEAN
  BY <1>1
<1> QED BY <1>1, <1>3, <1>4, <1>5

LEMMA CountsType ==
  ASSUME Counts, commands \in 0..MaxCommands
  PROVE  commands' \in 0..MaxCommands
  BY SettingsAssumption DEF Counts

LEMMA StepConfig ==
  SettingsInv /\ ConfigType /\ [Next]_vars => ConfigType'
<1> SUFFICES ASSUME SettingsInv, ConfigType, [Next]_vars PROVE ConfigType'
  OBVIOUS
<1> USE DEF ConfigType
<1>1. CASE Start
  <2>1. UNCHANGED <<ini, faulty>> /\ switched' = FALSE /\ refused' = FALSE /\ Counts
        /\ language' = Taken(ini, "none").language
    BY <1>1 DEF Start
  <2>2. \/ phase' = "starting" /\ tree' = ini /\ ini # Unreadable
        \/ phase' = "off" /\ tree' = EmptyTree
    BY <1>1 DEF Start
  <2>3. language' \in Languages \cup {"none"}
    <3>1. CASE ini \in Trees
      BY <2>1, <3>1, TreeParts DEF Taken
    <3>2. CASE ini = Unreadable
      BY <2>1, <3>2 DEF Taken, Unreadable
    <3> QED BY <3>1, <3>2
  <2>4. tree' \in Trees /\ phase' \in {"off", "starting", "prompt", "loading"}
    BY <2>2, EmptyTreeType
  <2>5. commands' \in 0..MaxCommands
    BY <2>1, CountsType
  <2>6. ini' \in Trees \cup {Unreadable} /\ switched' \in BOOLEAN /\ refused' \in BOOLEAN /\ faulty' \in BOOLEAN
    BY <2>1
  <2> QED BY <2>3, <2>4, <2>5, <2>6
<1>2. CASE Stop
  BY <1>2 DEF Stop, config
<1>3. CASE Edit
  <2>1. Valid(ini) /\ ini \in Trees
    BY <1>3 DEF Edit, SettingsInv, UnusableFileHasCause, Valid, Unreadable
  <2>2. ini' \in Trees \cup {Unreadable}
    <3>1. ini' \in {Unreadable, [ini EXCEPT !.before = FALSE], [ini EXCEPT !.after = FALSE]}
                    \cup {[ini EXCEPT !.language = l] : l \in Languages \cup {"none"}}
      BY <1>3 DEF Edit
    <3>2. /\ [ini EXCEPT !.before = FALSE] \in Trees /\ [ini EXCEPT !.after = FALSE] \in Trees
          /\ \A l \in Languages \cup {"none"} : [ini EXCEPT !.language = l] \in Trees
      BY <2>1, TreeParts
    <3> QED BY <3>1, <3>2
  <2>3. commands' \in 0..MaxCommands
    BY <1>3, CountsType DEF Edit
  <2>4. UNCHANGED <<phase, tree, language, switched, refused>> /\ faulty' = TRUE
    BY <1>3 DEF Edit
  <2> QED BY <2>2, <2>3, <2>4
<1>4. CASE ConfSet
  <2>1. UNCHANGED <<phase, ini, faulty>> /\ phase = "prompt"
    BY <1>4 DEF ConfSet
  <2>2. PICK t \in Trees : TakesTree(t)
    BY <1>4, TreeParts DEF ConfSet
  <2>3. commands' \in 0..MaxCommands
    BY <1>4, CountsType DEF ConfSet
  <2> QED BY <2>1, <2>2, <2>3, TakenType
<1>5. CASE ConfLoad
  <2>1. UNCHANGED <<phase, ini, faulty>>
    BY <1>5 DEF ConfLoad
  <2>2. commands' \in 0..MaxCommands
    BY <1>5, CountsType DEF ConfLoad
  <2>3. CASE ini = Unreadable
    BY <1>5, <2>1, <2>2, <2>3 DEF ConfLoad
  <2>4. CASE ini # Unreadable
    <3>1. ini \in Trees /\ TakesTree(ini)
      BY <1>5, <2>4 DEF ConfLoad
    <3> QED BY <2>1, <2>2, <3>1, TakenType
  <2> QED BY <2>3, <2>4
<1>6. CASE ConfSave
  <2>1. UNCHANGED <<phase, tree, language, switched, refused>> /\ phase = "prompt"
    BY <1>6 DEF ConfSave
  <2>2. commands' \in 0..MaxCommands
    BY <1>6, CountsType DEF ConfSave
  <2>3. ini' \in Trees \cup {Unreadable} /\ faulty' \in BOOLEAN
    BY <1>6, RestsType DEF ConfSave
  <2> QED BY <2>1, <2>2, <2>3
<1>7. CASE LangReload
  <2>1. commands' \in 0..MaxCommands
    BY <1>7, CountsType DEF LangReload
  <2>2. phase' \in {"prompt", "loading"} /\ phase = "prompt" /\ UNCHANGED config
    BY <1>7 DEF LangReload, Opens
  <2> QED BY <2>1, <2>2 DEF config
<1>8. CASE LangSet
  <2>1. commands' \in 0..MaxCommands
    BY <1>8, CountsType DEF LangSet
  <2>2. phase' \in {"prompt", "loading"} /\ phase = "prompt" /\ UNCHANGED <<ini, tree, refused, faulty>>
    BY <1>8 DEF LangSet, Opens
  <2>3. language' \in Languages \cup {"none"} /\ switched' \in BOOLEAN
    BY <1>8, SettingsAssumption DEF LangSet
  <2> QED BY <2>1, <2>2, <2>3
<1>9. CASE ReadToken \/ ReadEof
  <2>1. phase \in {"starting", "loading"} /\ phase' \in {"off", "prompt", phase}
        /\ UNCHANGED commands /\ UNCHANGED config
    BY <1>9 DEF ReadToken, ReadEof, Parses, Loading
  <2> QED BY <2>1 DEF config
<1>10. CASE UNCHANGED vars
  BY <1>10 DEF vars
<1> QED BY <1>1, <1>2, <1>3, <1>4, <1>5, <1>6, <1>7, <1>8, <1>9, <1>10 DEF Next

LEMMA InitConfig == Init => ConfigType
<1> SUFFICES ASSUME Init PROVE ConfigType
  OBVIOUS
<1>1. commands \in 0..MaxCommands
  BY SettingsAssumption DEF Init
<1>2. ini \in Trees \cup {Unreadable} /\ tree \in Trees
  BY EmptyTreeType DEF Init
<1>3. phase = "off" /\ language = "none" /\ switched = FALSE /\ refused = FALSE /\ faulty = FALSE
  BY DEF Init
<1> QED BY <1>1, <1>2, <1>3 DEF ConfigType

\* The state has its types: the texts are texts of keys that are looked at, and the parser
\* has one place and one start of values for each open section.
THEOREM SettingsTyped == Spec => []TypeOK
<1>1. LoadInv /\ ConfigType => TypeOK
  <2> SUFFICES ASSUME LoadInv, ConfigType PROVE TypeOK
    OBVIOUS
  <2>1. DOMAIN data \subseteq WatchedKeys /\ \A k \in DOMAIN data : data[k] \in Seq(Strings)
    BY DEF LoadInv, TypedData
  <2>2. parser.at \in Places \ {"accepted", "failed"} /\ parser.given \subseteq HeaderKeys
    BY DEF LoadInv, ParserSound, Sound, Parsing, Held, Reads
  <2>3. Len(blocks) = Scope(parser) /\ read \subseteq WatchedKeys
    BY DEF LoadInv, Starts
  <2>4. {switched, refused, faulty} \subseteq BOOLEAN
    BY DEF ConfigType
  <2> QED BY <2>1, <2>2, <2>3, <2>4 DEF TypeOK, ConfigType
<1> QED BY <1>1, InitLoad, StepLoad, InitConfig, StepConfig, InitSettings, StepSettings, PTL DEF Spec

-----------------------------------------------------------------------------
(* EnvVarStrResolver.                                                      *)

\* D has the characters of the values of the variables, and what variables are made of.
Alphabet(D) ==
  /\ {"<", ">"} \subseteq D
  /\ \A v \in DOMAIN Environment : Environment[v] \in Seq(D)

Resolver(out, var, inVar) == [out |-> out, var |-> var, inVar |-> inVar]
Resolvers(D) == [out : Seq(D), var : Seq(D), inVar : BOOLEAN]
NewResolver  == Resolver(<<>>, <<>>, FALSE)
ResolveStep(D) == [x \in Resolvers(D) \X D |-> Resolves(x[1], x[2])]

LEMMA ResolverIs ==
  ASSUME NEW D, NEW r \in Resolvers(D)
  PROVE  \E o \in Seq(D), v \in Seq(D), i \in BOOLEAN : r = Resolver(o, v, i)
<1>1. r = Resolver(r.out, r.var, r.inVar)
  BY DEF Resolvers, Resolver
<1>2. r.out \in Seq(D) /\ r.var \in Seq(D) /\ r.inVar \in BOOLEAN
  BY DEF Resolvers
<1> QED BY <1>1, <1>2, Zenon

LEMMA ResolverTyped ==
  ASSUME NEW D, NEW o \in Seq(D), NEW v \in Seq(D), NEW i \in BOOLEAN
  PROVE  Resolver(o, v, i) \in Resolvers(D)
  BY DEF Resolvers, Resolver

LEMMA VarTextType ==
  ASSUME NEW D, Alphabet(D), NEW v \in Seq(D)
  PROVE  VarText(v) \in Seq(D)
<1> DEFINE a == <<"<">>
           z == <<">">>
<1>1. a \in Seq(D) /\ z \in Seq(D)
  BY DEF Alphabet
<1> HIDE DEF a, z
<1>2. a \o v \o z \in Seq(D)
  BY <1>1
<1>3. v \in DOMAIN Environment => Environment[v] \in Seq(D)
  BY DEF Alphabet
<1>4. VarText(v) = IF v \in DOMAIN Environment THEN Environment[v] ELSE a \o v \o z
  BY Zenon DEF VarText, a, z
<1> QED BY <1>2, <1>3, <1>4

\* What processNextChar does with a character.
LEMMA ResolvesTo ==
  ASSUME NEW o, NEW v, NEW i \in BOOLEAN, NEW c
  PROVE  Resolves(Resolver(o, v, i), c) =
           IF c = "<" /\ ~i THEN Resolver(o, v, TRUE)
           ELSE IF c = ">" /\ i THEN Resolver(o \o VarText(v), v, FALSE)
           ELSE IF i THEN Resolver(o, Append(v, c), i) ELSE Resolver(Append(o, c), v, i)
<1> DEFINE r == Resolver(o, v, i)
           t == VarText(v)
           yes == TRUE
           no == FALSE
<1>1. r.out = o /\ r.var = v /\ r.inVar = i
  BY DEF Resolver
<1> HIDE DEF t, yes, no
<1>2. [r EXCEPT !.inVar = yes] = Resolver(o, v, yes)
  BY DEF Resolver
<1>3. [r EXCEPT !.inVar = no, !.out = @ \o VarText(r.var)] = Resolver(o \o t, v, no)
  <2>1. [r EXCEPT !.inVar = no] = Resolver(o, v, no)
    BY DEF Resolver
  <2> DEFINE u == o \o t
  <2> HIDE DEF u
  <2>2. [Resolver(o, v, no) EXCEPT !.out = u] = Resolver(u, v, no)
    BY DEF Resolver
  <2> HIDE DEF r
  <2> QED BY <1>1, <2>1, <2>2, Zenon DEF t, u
<1>4. [r EXCEPT !.var = Append(@, c)] = Resolver(o, Append(v, c), i)
  BY DEF Resolver
<1>5. [r EXCEPT !.out = Append(@, c)] = Resolver(Append(o, c), v, i)
  BY DEF Resolver
<1>6. Resolves(r, c) =
           IF c = "<" /\ ~r.inVar THEN [r EXCEPT !.inVar = TRUE]
           ELSE IF c = ">" /\ r.inVar THEN [r EXCEPT !.inVar = FALSE, !.out = @ \o VarText(r.var)]
           ELSE IF r.inVar THEN [r EXCEPT !.var = Append(@, c)] ELSE [r EXCEPT !.out = Append(@, c)]
  BY Zenon DEF Resolves
<1> HIDE DEF r
<1> QED BY <1>1, <1>2, <1>3, <1>4, <1>5, <1>6, Zenon DEF r, t, yes, no

\* Outside and inside of a variable.
Outside(o, v) == Resolver(o, v, FALSE)
Inside(o, v)  == Resolver(o, v, TRUE)

LEMMA ResolvesCases ==
  ASSUME NEW o, NEW v, NEW c
  PROVE  /\ c = "<" => Resolves(Outside(o, v), c) = Inside(o, v)
         /\ c # "<" => Resolves(Outside(o, v), c) = Outside(Append(o, c), v)
         /\ c = ">" => Resolves(Inside(o, v), c) = Outside(o \o VarText(v), v)
         /\ c # ">" => Resolves(Inside(o, v), c) = Inside(o, Append(v, c))
<1> DEFINE After(i) == IF c = "<" /\ ~i THEN Resolver(o, v, TRUE)
                      ELSE IF c = ">" /\ i THEN Resolver(o \o VarText(v), v, FALSE)
                      ELSE IF i THEN Resolver(o, Append(v, c), i) ELSE Resolver(Append(o, c), v, i)
<1>1. \A i \in BOOLEAN : Resolves(Resolver(o, v, i), c) = After(i)
  BY ResolvesTo, ZenonT(40)
<1>2. Resolves(Resolver(o, v, FALSE), c) = After(FALSE) /\ Resolves(Resolver(o, v, TRUE), c) = After(TRUE)
  <2> HIDE DEF After
  <2> QED BY <1>1
<1>3. /\ c = "<" => After(FALSE) = Resolver(o, v, TRUE)
      /\ c # "<" => After(FALSE) = Resolver(Append(o, c), v, FALSE)
      /\ c = ">" => After(TRUE) = Resolver(o \o VarText(v), v, FALSE)
      /\ c # ">" => After(TRUE) = Resolver(o, Append(v, c), TRUE)
  BY Zenon
<1> HIDE DEF After
<1> QED BY <1>2, <1>3, Zenon DEF Inside, Outside

LEMMA ResolvesType ==
  ASSUME NEW D, Alphabet(D), NEW r \in Resolvers(D), NEW c \in D
  PROVE  Resolves(r, c) \in Resolvers(D)
<1>1. PICK o \in Seq(D), v \in Seq(D), i \in BOOLEAN : r = Resolver(o, v, i)
  BY ResolverIs
<1>2. o \o VarText(v) \in Seq(D) /\ Append(o, c) \in Seq(D) /\ Append(v, c) \in Seq(D)
  <2>1. VarText(v) \in Seq(D)
    BY VarTextType
  <2> QED BY <2>1
<1>3. Resolves(Resolver(o, v, i), c) =
           IF c = "<" /\ ~i THEN Resolver(o, v, TRUE)
           ELSE IF c = ">" /\ i THEN Resolver(o \o VarText(v), v, FALSE)
           ELSE IF i THEN Resolver(o, Append(v, c), i) ELSE Resolver(Append(o, c), v, i)
  BY ResolvesTo, ZenonT(40)
<1>4. /\ Resolver(o, v, TRUE) \in Resolvers(D) /\ Resolver(o \o VarText(v), v, FALSE) \in Resolvers(D)
      /\ Resolver(o, Append(v, c), i) \in Resolvers(D) /\ Resolver(Append(o, c), v, i) \in Resolvers(D)
  BY <1>2, ResolverTyped
<1> QED BY <1>1, <1>3, <1>4, Zenon

LEMMA SidesTyped ==
  ASSUME NEW D, NEW o \in Seq(D), NEW v \in Seq(D)
  PROVE  Outside(o, v) \in Resolvers(D) /\ Inside(o, v) \in Resolvers(D)
  BY ResolverTyped DEF Outside, Inside

LEMMA ResolveStepIs ==
  ASSUME NEW D, Alphabet(D)
  PROVE  /\ ResolveStep(D) \in [Resolvers(D) \X D -> Resolvers(D)]
         /\ \A r \in Resolvers(D), c \in D : ResolveStep(D)[<<r, c>>] = Resolves(r, c)
         /\ NewResolver \in Resolvers(D)
<1>1. \A r \in Resolvers(D), c \in D : Resolves(r, c) \in Resolvers(D)
  BY ResolvesType
<1>2. <<>> \in Seq(D)
  OBVIOUS
<1>3. NewResolver \in Resolvers(D)
  BY <1>2, ResolverTyped DEF NewResolver
<1> QED BY <1>1, <1>3 DEF ResolveStep

LEMMA ResolvesFold ==
  ASSUME NEW D, Alphabet(D), NEW s \in Seq(D), NEW y, Leads(ResolveStep(D), NewResolver, s, y)
  PROVE  FoldLeft(Resolves, NewResolver, s) = y
<1> DEFINE g == ResolveStep(D)
           T == SUBSET (DOMAIN s)
           Is(f) == f = [t \in T |-> IF t = {} THEN NewResolver ELSE Resolves(f[t \ {Max(t)}], s[Max(t)])]
<1>1. FoldLeft(Resolves, NewResolver, s) = (CHOOSE f : Is(f))[DOMAIN s]
  BY Zenon DEF FoldLeft, MapThenFoldSet
<1>2. /\ g \in [Resolvers(D) \X D -> Resolvers(D)]
      /\ \A r \in Resolvers(D), c \in D : g[<<r, c>>] = Resolves(r, c)
      /\ NewResolver \in Resolvers(D)
  BY ResolveStepIs
<1> HIDE DEF g
<1>3. PICK h : IsTable(h, Resolvers(D), D, s, NewResolver, g)
  BY <1>2, FoldTable
<1>4. Is(h)
  <2>1. \A t \in T : h[t] = IF t = {} THEN NewResolver ELSE Resolves(h[t \ {Max(t)}], s[Max(t)])
    BY <1>2, <1>3, Zenon DEF IsTable
  <2>2. h \in [T -> Resolvers(D)]
    BY <1>3 DEF IsTable
  <2> HIDE DEF T
  <2> QED BY <2>1, <2>2
<1> DEFINE f == CHOOSE f : Is(f)
<1>5. Is(f)
  BY <1>4, Zenon
<1> HIDE DEF f
<1>6. Len(s) \in Nat /\ DOMAIN s = 1..Len(s) /\ \A k \in 1..Len(s) : s[k] \in D
  OBVIOUS
<1>7. f[{}] = NewResolver
  <2>1. {} \in T
    OBVIOUS
  <2> QED BY <1>5, <2>1
<1>8. ASSUME NEW k \in 0..Len(s) - 1, f[1..k] \in Resolvers(D)
      PROVE  f[1..k + 1] = g[<<f[1..k], s[k + 1]>>]
  <2>1. k \in Nat /\ k + 1 \in 1..Len(s)
    BY <1>6
  <2>2. k + 1 \in 1..k + 1 /\ 1..k + 1 \subseteq 1..Len(s) /\ (1..k + 1) \ {k + 1} = 1..k
    BY <1>6, <2>1
  <2>3. 1..k + 1 \in T /\ 1..k + 1 # {} /\ s[k + 1] \in D
    BY <1>6, <2>1, <2>2
  <2>4. Max(1..k + 1) = k + 1
    BY <2>1, <2>2, MaxIs
  <2> HIDE DEF T
  <2>5. f[1..k + 1] = Resolves(f[1..k], s[k + 1])
    BY <1>5, <2>2, <2>3, <2>4
  <2> QED BY <1>2, <1>8, <2>3, <2>5
<1>9. f[DOMAIN s] = y
  <2>1. Leads(g, NewResolver, s, y)
    BY DEF g
  <2>2. Climbs(f, Resolvers(D), s, NewResolver, g)
    BY <1>7, <1>8 DEF Climbs
  <2>3. Leads(g, NewResolver, s, f[DOMAIN s])
    BY <1>2, <2>2, TableLeads
  <2> QED BY <2>1, <2>3, LeadsOnce
<1> QED BY <1>1, <1>9 DEF f

\* Outside of a variable what is no "<" is copied; inside, what is no ">" belongs to the name.
LEMMA TextCopied ==
  ASSUME NEW D, Alphabet(D), NEW s \in Seq(D), \A k \in 1..Len(s) : s[k] # "<",
         NEW o \in Seq(D), NEW v \in Seq(D)
  PROVE  Leads(ResolveStep(D), Outside(o, v), s, Outside(o \o s, v))
<1> DEFINE g == ResolveStep(D)
           st == [k \in 0..Len(s) |-> Outside(o \o SubSeq(s, 1, k), v)]
<1>1. Len(s) \in Nat /\ \A k \in 1..Len(s) : s[k] \in D
  OBVIOUS
<1>2. \A r \in Resolvers(D), c \in D : g[<<r, c>>] = Resolves(r, c)
  BY ResolveStepIs
<1>3. \A k \in 0..Len(s) : st[k] = Outside(o \o SubSeq(s, 1, k), v)
  OBVIOUS
<1> HIDE DEF g, st
<1>4. ASSUME NEW k \in 0..Len(s) - 1 PROVE st[k + 1] = g[<<st[k], s[k + 1]>>]
  <2> DEFINE w == o \o SubSeq(s, 1, k)
             c == s[k + 1]
  <2>1. k \in 0..Len(s) /\ k + 1 \in 0..Len(s) /\ c \in D /\ c # "<"
    BY <1>1
  <2>2. w \in Seq(D) /\ o \o SubSeq(s, 1, k + 1) = Append(w, c)
    <3>1. OneMoreSound(D, o, s, k)
      BY OneMoreAt, Zenon
    <3> QED BY <3>1, Zenon DEF OneMoreSound
  <2> HIDE DEF w, c
  <2>3. st[k] = Outside(w, v) /\ st[k + 1] = Outside(Append(w, c), v)
    BY <1>3, <2>1, <2>2, Zenon DEF w
  <2>4. Outside(w, v) \in Resolvers(D)
    BY <2>2, SidesTyped
  <2>5. g[<<Outside(w, v), c>>] = Resolves(Outside(w, v), c)
    BY <1>2, <2>1, <2>4
  <2>6. Resolves(Outside(w, v), c) = Outside(Append(w, c), v)
    BY <2>1, ResolvesCases
  <2>7. g[<<st[k], c>>] = st[k + 1]
    BY <2>3, <2>5, <2>6, Zenon
  <2> QED BY <2>7 DEF c
<1>5. Leads(g, st[0], s, st[Len(s)])
  BY <1>4, LeadsEach
<1>6. st[0] = Outside(o, v) /\ st[Len(s)] = Outside(o \o s, v)
  <2>1. 0 \in 0..Len(s) /\ Len(s) \in 0..Len(s)
    BY <1>1
  <2>2. o \o SubSeq(s, 1, 0) = o /\ o \o SubSeq(s, 1, Len(s)) = o \o s
    BY OneMoreEnds, Zenon
  <2> QED BY <1>3, <2>1, <2>2, Zenon
<1> QED BY <1>5, <1>6, Zenon DEF g

LEMMA NameRead ==
  ASSUME NEW D, Alphabet(D), NEW s \in Seq(D), \A k \in 1..Len(s) : s[k] # ">",
         NEW o \in Seq(D), NEW v \in Seq(D)
  PROVE  Leads(ResolveStep(D), Inside(o, v), s, Inside(o, v \o s))
<1> DEFINE g == ResolveStep(D)
           st == [k \in 0..Len(s) |-> Inside(o, v \o SubSeq(s, 1, k))]
<1>1. Len(s) \in Nat /\ \A k \in 1..Len(s) : s[k] \in D
  OBVIOUS
<1>2. \A r \in Resolvers(D), c \in D : g[<<r, c>>] = Resolves(r, c)
  BY ResolveStepIs
<1>3. \A k \in 0..Len(s) : st[k] = Inside(o, v \o SubSeq(s, 1, k))
  OBVIOUS
<1> HIDE DEF g, st
<1>4. ASSUME NEW k \in 0..Len(s) - 1 PROVE st[k + 1] = g[<<st[k], s[k + 1]>>]
  <2> DEFINE w == v \o SubSeq(s, 1, k)
             c == s[k + 1]
  <2>1. k \in 0..Len(s) /\ k + 1 \in 0..Len(s) /\ c \in D /\ c # ">"
    BY <1>1
  <2>2. w \in Seq(D) /\ v \o SubSeq(s, 1, k + 1) = Append(w, c)
    <3>1. OneMoreSound(D, v, s, k)
      BY OneMoreAt, Zenon
    <3> QED BY <3>1, Zenon DEF OneMoreSound
  <2> HIDE DEF w, c
  <2>3. st[k] = Inside(o, w) /\ st[k + 1] = Inside(o, Append(w, c))
    BY <1>3, <2>1, <2>2, Zenon DEF w
  <2>4. Inside(o, w) \in Resolvers(D)
    BY <2>2, SidesTyped
  <2>5. g[<<Inside(o, w), c>>] = Resolves(Inside(o, w), c)
    BY <1>2, <2>1, <2>4
  <2>6. Resolves(Inside(o, w), c) = Inside(o, Append(w, c))
    BY <2>1, ResolvesCases
  <2>7. g[<<st[k], c>>] = st[k + 1]
    BY <2>3, <2>5, <2>6, Zenon
  <2> QED BY <2>7 DEF c
<1>5. Leads(g, st[0], s, st[Len(s)])
  BY <1>4, LeadsEach
<1>6. st[0] = Inside(o, v) /\ st[Len(s)] = Inside(o, v \o s)
  <2>1. 0 \in 0..Len(s) /\ Len(s) \in 0..Len(s)
    BY <1>1
  <2>2. v \o SubSeq(s, 1, 0) = v /\ v \o SubSeq(s, 1, Len(s)) = v \o s
    BY OneMoreEnds, Zenon
  <2> QED BY <1>3, <2>1, <2>2, Zenon
<1> QED BY <1>5, <1>6, Zenon DEF g

\* The ends of a variable.
LEMMA VariableEnds ==
  ASSUME NEW D, Alphabet(D), NEW o \in Seq(D), NEW v \in Seq(D)
  PROVE  /\ Leads(ResolveStep(D), Outside(o, v), <<"<">>, Inside(o, v))
         /\ Leads(ResolveStep(D), Inside(o, v), <<">">>, Outside(o \o VarText(v), v))
<1>1. "<" \in D /\ ">" \in D
  BY DEF Alphabet
<1>2. \A r \in Resolvers(D), c \in D : ResolveStep(D)[<<r, c>>] = Resolves(r, c)
  BY ResolveStepIs
<1>3. Outside(o, v) \in Resolvers(D) /\ Inside(o, v) \in Resolvers(D)
  BY SidesTyped
<1>4. Resolves(Outside(o, v), "<") = Inside(o, v)
  BY ResolvesCases
<1>5. Resolves(Inside(o, v), ">") = Outside(o \o VarText(v), v)
  BY ResolvesCases
<1>6. /\ ResolveStep(D)[<<Outside(o, v), "<">>] = Inside(o, v)
      /\ ResolveStep(D)[<<Inside(o, v), ">">>] = Outside(o \o VarText(v), v)
  BY <1>1, <1>2, <1>3, <1>4, <1>5, Zenon
<1> QED BY <1>6, LeadsOne, Zenon

LEMMA ResolvedIs ==
  ASSUME NEW D, Alphabet(D), NEW s \in Seq(D), NEW o, NEW v
  PROVE  /\ Leads(ResolveStep(D), NewResolver, s, Outside(o, v)) => Resolved(s) = o
         /\ Leads(ResolveStep(D), NewResolver, s, Inside(o, v)) => Resolved(s) = o \o <<"<">> \o v
<1> DEFINE r == FoldLeft(Resolves, NewResolver, s)
<1>1. Resolved(s) = IF r.inVar THEN r.out \o <<"<">> \o r.var ELSE r.out
  BY Zenon DEF Resolved, NewResolver, Resolver
<1>2. ASSUME Leads(ResolveStep(D), NewResolver, s, Outside(o, v)) PROVE Resolved(s) = o
  <2>1. r = Outside(o, v)
    BY <1>2, ResolvesFold
  <2> HIDE DEF r
  <2>2. ~r.inVar /\ r.out = o
    BY <2>1 DEF Outside, Resolver
  <2> QED BY <1>1, <2>2, Zenon
<1>3. ASSUME Leads(ResolveStep(D), NewResolver, s, Inside(o, v)) PROVE Resolved(s) = o \o <<"<">> \o v
  <2>1. r = Inside(o, v)
    BY <1>3, ResolvesFold
  <2> HIDE DEF r
  <2>2. r.inVar /\ r.out = o /\ r.var = v
    BY <2>1 DEF Inside, Resolver
  <2> QED BY <1>1, <2>2, Zenon
<1> QED BY <1>2, <1>3

\* What has no variable is what was typed.
LEMMA PlainResolved ==
  ASSUME NEW D, Alphabet(D), NEW s \in Seq(D), \A k \in 1..Len(s) : s[k] # "<"
  PROVE  Resolved(s) = s
<1> DEFINE e == <<>>
<1>1. e \in Seq(D) /\ e \o s = s
  BY ConcatEmptySeq
<1>2. Leads(ResolveStep(D), Outside(e, e), s, Outside(e \o s, e))
  <2> HIDE DEF e
  <2> QED BY <1>1, TextCopied
<1>3. Leads(ResolveStep(D), NewResolver, s, Outside(s, e))
  <2>1. NewResolver = Outside(e, e)
    BY DEF NewResolver, Outside
  <2> HIDE DEF e
  <2> QED BY <1>1, <1>2, <2>1, Zenon
<1> HIDE DEF e
<1> QED BY <1>3, ResolvedIs

\* A string with one opening.
LEMMA OneOpening ==
  ASSUME NEW D, Alphabet(D), NEW s \in Seq(D), NEW i \in 1..Len(s), s[i] = "<",
         \A k \in 1..Len(s) : s[k] = "<" => k = i
  PROVE  LET a == SubSeq(s, 1, i - 1) IN
         /\ a \in Seq(D)
         /\ \A k \in 1..Len(a) : a[k] # "<"
         /\ Leads(ResolveStep(D), NewResolver, SubSeq(s, 1, i), Inside(a, <<>>))
<1> DEFINE a == SubSeq(s, 1, i - 1)
           e == <<>>
           c == <<"<">>
           g == ResolveStep(D)
<1>1. i \in Nat /\ i - 1 \in 0..Len(s) /\ Len(s) \in Nat
  OBVIOUS
<1>2. a \in Seq(D) /\ Len(a) = i - 1 /\ \A k \in 1..i - 1 : a[k] = s[k]
  <2>1. \A k \in 1..i - 1 : s[k] \in D
    BY <1>1
  <2> QED BY <1>1, <2>1, SubSeqProperties
<1>3. \A k \in 1..Len(a) : a[k] # "<"
  BY <1>1, <1>2
<1>4. e \in Seq(D) /\ c \in Seq(D)
  BY DEF Alphabet
<1>5. NewResolver = Outside(e, e)
  BY DEF NewResolver, Outside
<1>6. e \o a = a
  BY <1>2, ConcatEmptySeq
<1>7. a \o c = SubSeq(s, 1, i)
  <2>1. 1 \in 1..Len(s) /\ i \in 1..Len(s)
    BY <1>1
  <2>2. a \o <<s[i]>> = SubSeq(s, 1, i)
    BY <2>1, Around
  <2> QED BY <2>2
<1> HIDE DEF a, e, c, g
<1>8. Leads(g, Outside(e, e), a, Outside(e \o a, e))
  BY <1>2, <1>3, <1>4, TextCopied DEF g
<1>9. Leads(g, Outside(a, e), c, Inside(a, e))
  BY <1>2, <1>4, VariableEnds DEF g, c
<1>10. Leads(g, NewResolver, a, Outside(a, e))
  BY <1>5, <1>6, <1>8, Zenon
<1>11. Leads(g, NewResolver, a \o c, Inside(a, e))
  BY <1>2, <1>4, <1>9, <1>10, LeadsOn
<1>12. Leads(g, NewResolver, SubSeq(s, 1, i), Inside(a, e))
  BY <1>7, <1>11, Zenon
<1> QED BY <1>2, <1>3, <1>12, Zenon DEF a, e, g

\* A variable, closed at j or not at all, among characters that are none.
LEMMA InsertedThere ==
  ASSUME NEW D, Alphabet(D), NEW s \in Seq(D), NEW i \in 1..Len(s), s[i] = "<",
         \A k \in 1..Len(s) : s[k] = "<" => k = i
  PROVE  /\ (\A k \in 1..Len(s) : k > i => s[k] # ">") => Resolved(s) = s
         /\ \A j \in 1..Len(s) :
              /\ j > i /\ s[j] = ">" /\ \A k \in 1..Len(s) : k > i /\ s[k] = ">" => j <= k
              => Resolved(s) = SubSeq(s, 1, i - 1) \o VarText(SubSeq(s, i + 1, j - 1)) \o SubSeq(s, j + 1, Len(s))
<1> DEFINE a == SubSeq(s, 1, i - 1)
           e == <<>>
           g == ResolveStep(D)
           o == <<"<">>
           c == <<">">>
<1>1. /\ a \in Seq(D)
      /\ Leads(g, NewResolver, SubSeq(s, 1, i), Inside(a, e))
  BY OneOpening
<1>2. e \in Seq(D) /\ o \in Seq(D) /\ c \in Seq(D)
  BY DEF Alphabet
<1>3. i \in Nat /\ Len(s) \in Nat /\ 1 \in 1..Len(s) /\ i \in 1..Len(s)
  OBVIOUS
<1>4. ASSUME NEW n \in i..Len(s), \A k \in i + 1..n : s[k] # ">"
      PROVE  /\ SubSeq(s, i + 1, n) \in Seq(D)
             /\ Leads(g, NewResolver, SubSeq(s, 1, n), Inside(a, SubSeq(s, i + 1, n)))
  <2> DEFINE v == SubSeq(s, i + 1, n)
             b == SubSeq(s, 1, i)
  <2>1. \A k \in i + 1..n : s[k] \in D
    BY <1>3
  <2>2. \A k \in 1..i : s[k] \in D
    BY <1>3
  <2>3. /\ v \in Seq(D) /\ Len(v) = IF i + 1 <= n THEN n - (i + 1) + 1 ELSE 0
        /\ \A k \in 1..n - (i + 1) + 1 : v[k] = s[(i + 1) + k - 1]
    BY <1>3, <2>1, SubSeqProperties
  <2>4. \A k \in 1..Len(v) : v[k] # ">"
    <3>1. ASSUME NEW k \in 1..Len(v) PROVE v[k] # ">"
      <4> HIDE DEF v
      <4>1. k \in 1..n - (i + 1) + 1 /\ (i + 1) + k - 1 \in i + 1..n
        BY <1>3, <2>3
      <4> QED BY <1>4, <2>3, <4>1
    <3> QED BY <3>1
  <2>5. b \in Seq(D)
    BY <1>3, <2>2, SubSeqProperties
  <2>6. b \o v = SubSeq(s, 1, n)
    BY <1>3, Around
  <2>7. e \o v = v
    BY <2>3, ConcatEmptySeq
  <2>8. Leads(g, NewResolver, b, Inside(a, e))
    BY <1>1
  <2> HIDE DEF a, e, g, o, c, v, b
  <2>9. Leads(g, Inside(a, e), v, Inside(a, e \o v))
    BY <1>1, <1>2, <2>3, <2>4, NameRead DEF g
  <2>10. Leads(g, Inside(a, e), v, Inside(a, v))
    BY <2>7, <2>9, Zenon
  <2>11. Leads(g, NewResolver, b \o v, Inside(a, v))
    BY <2>3, <2>5, <2>8, <2>10, LeadsOn
  <2>12. Leads(g, NewResolver, SubSeq(s, 1, n), Inside(a, v))
    BY <2>6, <2>11, Zenon
  <2> QED BY <2>3, <2>12, Zenon DEF v
<1>5. ASSUME \A k \in 1..Len(s) : k > i => s[k] # ">" PROVE Resolved(s) = s
  <2> DEFINE v == SubSeq(s, i + 1, Len(s))
  <2>1. Len(s) \in i..Len(s) /\ \A k \in i + 1..Len(s) : s[k] # ">"
    BY <1>3, <1>5
  <2>2. SubSeq(s, 1, Len(s)) = s
    BY <1>3, Around
  <2>3. Leads(g, NewResolver, SubSeq(s, 1, Len(s)), Inside(a, v))
    BY <1>4, <2>1
  <2>4. Leads(g, NewResolver, s, Inside(a, v))
    <3> HIDE DEF g, a, v
    <3> QED BY <2>2, <2>3, Zenon
  <2>5. Resolved(s) = a \o <<"<">> \o v
    <3> HIDE DEF a, v
    <3> QED BY <2>4, ResolvedIs DEF g
  <2>7. a \o <<s[i]>> = SubSeq(s, 1, i)
    BY <1>3, Around
  <2>8. SubSeq(s, 1, i) \o v = SubSeq(s, 1, Len(s))
    BY <1>3, <2>1, Around
  <2> HIDE DEF a, v
  <2> QED BY <2>2, <2>5, <2>7, <2>8, Zenon
<1>6. ASSUME NEW j \in 1..Len(s), j > i, s[j] = ">", \A k \in 1..Len(s) : k > i /\ s[k] = ">" => j <= k
      PROVE  Resolved(s) = a \o VarText(SubSeq(s, i + 1, j - 1)) \o SubSeq(s, j + 1, Len(s))
  <2> DEFINE v == SubSeq(s, i + 1, j - 1)
             p == SubSeq(s, 1, j - 1)
             q == SubSeq(s, 1, j)
             z == SubSeq(s, j + 1, Len(s))
             t == VarText(v)
  <2>1. j - 1 \in i..Len(s) /\ \A k \in i + 1..j - 1 : s[k] # ">"
    BY <1>3, <1>6
  <2>2. v \in Seq(D) /\ Leads(g, NewResolver, p, Inside(a, v))
    BY <1>4, <2>1
  <2>3. p \in Seq(D) /\ q \in Seq(D)
    <3>1. (\A k \in 1..j - 1 : s[k] \in D) /\ (\A k \in 1..j : s[k] \in D)
      BY <1>3, <1>6
    <3> QED BY <1>3, <1>6, <3>1, SubSeqProperties
  <2>4. /\ z \in Seq(D) /\ Len(z) = IF j + 1 <= Len(s) THEN Len(s) - (j + 1) + 1 ELSE 0
        /\ \A k \in 1..Len(s) - (j + 1) + 1 : z[k] = s[(j + 1) + k - 1]
    <3>1. \A k \in j + 1..Len(s) : s[k] \in D
      BY <1>3, <1>6
    <3> QED BY <1>3, <1>6, <3>1, SubSeqProperties
  <2>5. \A k \in 1..Len(z) : z[k] # "<"
    <3>1. ASSUME NEW k \in 1..Len(z) PROVE z[k] # "<"
      <4> HIDE DEF z
      <4>1. k \in 1..Len(s) - (j + 1) + 1 /\ (j + 1) + k - 1 \in 1..Len(s) /\ (j + 1) + k - 1 # i
        BY <1>3, <1>6, <2>4
      <4> QED BY <2>4, <4>1
    <3> QED BY <3>1
  <2>6. p \o <<s[j]>> = q
    BY <1>3, <1>6, Around
  <2>7. q \o z = SubSeq(s, 1, Len(s)) /\ SubSeq(s, 1, Len(s)) = s
    <3>1. Len(s) \in j..Len(s)
      BY <1>3, <1>6
    <3> QED BY <1>3, <1>6, <3>1, Around
  <2>8. t \in Seq(D)
    BY <2>2, VarTextType
  <2> HIDE DEF v, p, q, z, t, a, g, e, o
  <2>9. p \o c = q
    BY <1>6, <2>6
  <2> HIDE DEF c
  <2>10. Leads(g, Inside(a, v), c, Outside(a \o t, v))
    BY <1>1, <2>2, VariableEnds DEF g, c, t
  <2>11. Leads(g, NewResolver, p \o c, Outside(a \o t, v))
    BY <1>2, <2>2, <2>3, <2>10, LeadsOn
  <2>12. Leads(g, NewResolver, q, Outside(a \o t, v))
    BY <2>9, <2>11, Zenon
  <2>13. a \o t \in Seq(D)
    BY <1>1, <2>8
  <2>14. Leads(g, Outside(a \o t, v), z, Outside((a \o t) \o z, v))
    BY <2>2, <2>4, <2>5, <2>13, TextCopied DEF g
  <2>15. Leads(g, NewResolver, q \o z, Outside((a \o t) \o z, v))
    BY <2>3, <2>4, <2>12, <2>14, LeadsOn
  <2>16. Leads(ResolveStep(D), NewResolver, s, Outside((a \o t) \o z, v))
    BY <2>7, <2>15, Zenon DEF g
  <2>17. Resolved(s) = (a \o t) \o z
    BY <2>16, ResolvedIs
  <2> QED BY <2>17 DEF t, v, z
<1> QED BY <1>5, <1>6, Zenon

LEMMA VariableResolved ==
  ASSUME NEW D, Alphabet(D), NEW s \in Seq(D), AtMostOneVariable(s)
  PROVE  Resolved(s) = OneVariable(s)
<1> DEFINE open  == {i \in DOMAIN s : s[i] = "<"}
           close == {j \in DOMAIN s : s[j] = ">" /\ \E i \in open : i < j}
<1>1. DOMAIN s = 1..Len(s) /\ Len(s) \in Nat
  OBVIOUS
<1>2. OneVariable(s) =
        IF close = {} THEN s
        ELSE SubSeq(s, 1, Min(open) - 1) \o VarText(SubSeq(s, Min(open) + 1, Min(close) - 1))
               \o SubSeq(s, Min(close) + 1, Len(s))
  BY Zenon DEF OneVariable
<1>3. \A x, y \in open : x = y
  <2> SUFFICES ASSUME NEW x \in open, NEW y \in open, x # y PROVE FALSE
    OBVIOUS
  <2>1. IsFiniteSet(open)
    <3>1. IsFiniteSet(1..Len(s))
      BY <1>1, FS_Interval
    <3> QED BY <1>1, <3>1, FS_Subset
  <2>2. Cardinality({x, y}) <= Cardinality(open)
    <3>1. {x, y} \subseteq open
      OBVIOUS
    <3> HIDE DEF open
    <3> QED BY <2>1, <3>1, FS_Subset
  <2>3. Cardinality({x, y}) = 2
    <3>1. Cardinality({x}) = 1 /\ IsFiniteSet({x})
      BY FS_Singleton
    <3>2. Cardinality({x} \cup {y}) = Cardinality({x}) + 1
      BY <3>1, FS_AddElement
    <3>3. {x} \cup {y} = {x, y}
      OBVIOUS
    <3> DEFINE n == Cardinality({x})
    <3>4. n + 1 = 2
      <4>1. n = 1
        BY <3>1
      <4> HIDE DEF n
      <4> QED BY <4>1
    <3> QED BY <3>2, <3>3, <3>4, Zenon
  <2>4. Cardinality(open) <= 1
    BY DEF AtMostOneVariable
  <2>5. Cardinality(open) \in Nat
    <3> HIDE DEF open
    <3> QED BY <2>1, FS_CardinalityType
  <2> HIDE DEF open
  <2> QED BY <2>2, <2>3, <2>4, <2>5
<1>4. CASE open = {}
  <2>1. close = {}
    BY <1>4
  <2>2. \A k \in 1..Len(s) : s[k] # "<"
    BY <1>1, <1>4
  <2>3. Resolved(s) = s
    BY <2>2, PlainResolved
  <2> HIDE DEF open, close
  <2> QED BY <1>2, <2>1, <2>3
<1>5. CASE open # {}
  <2>1. PICK i \in open : TRUE
    BY <1>5
  <2>2. i \in 1..Len(s) /\ s[i] = "<"
    BY <1>1, <2>1
  <2>3. \A k \in 1..Len(s) : s[k] = "<" => k = i
    BY <1>1, <1>3, <2>1
  <2>4. Min(open) = i
    <3>1. open \subseteq Nat
      BY <1>1
    <3> HIDE DEF open
    <3>2. Min(open) \in open
      BY <1>5, <3>1, MinIs
    <3> QED BY <1>3, <2>1, <3>2
  <2>5. /\ (\A k \in 1..Len(s) : k > i => s[k] # ">") => Resolved(s) = s
        /\ \A j \in 1..Len(s) :
              /\ j > i /\ s[j] = ">" /\ \A k \in 1..Len(s) : k > i /\ s[k] = ">" => j <= k
              => Resolved(s) = SubSeq(s, 1, i - 1) \o VarText(SubSeq(s, i + 1, j - 1)) \o SubSeq(s, j + 1, Len(s))
    BY <2>2, <2>3, InsertedThere
  <2>6. \A k \in 1..Len(s) : k > i /\ s[k] = ">" <=> k \in close
    BY <1>1, <1>3, <2>1
  <2>7. close \subseteq 1..Len(s)
    BY <1>1
  <2> HIDE DEF open, close
  <2>8. CASE close = {}
    <3>1. \A k \in 1..Len(s) : k > i => s[k] # ">"
      BY <2>6, <2>8
    <3> QED BY <1>2, <2>5, <2>8, <3>1
  <2>9. CASE close # {}
    <3> DEFINE j == Min(close)
    <3>1. close \subseteq Nat
      BY <2>7
    <3>2. j \in close /\ \A y \in close : j <= y
      BY <2>9, <3>1, MinIs
    <3> HIDE DEF j
    <3>3. j \in 1..Len(s) /\ j > i /\ s[j] = ">" /\ \A k \in 1..Len(s) : k > i /\ s[k] = ">" => j <= k
      BY <2>6, <2>7, <3>2
    <3>4. Resolved(s) = SubSeq(s, 1, i - 1) \o VarText(SubSeq(s, i + 1, j - 1)) \o SubSeq(s, j + 1, Len(s))
      BY <2>5, <3>3, Zenon
    <3> QED BY <1>2, <2>4, <2>9, <3>4, Zenon DEF j
  <2> QED BY <2>8, <2>9
<1> QED BY <1>4, <1>5

-----------------------------------------------------------------------------
(* CommandLine.                                                            *)

ALine(tokens, item, single, double, last) ==
  [tokens |-> tokens, item |-> item, single |-> single, double |-> double, last |-> last]
Lines(D) == [tokens : Seq(Seq(D)), item : Seq(D), single : BOOLEAN, double : BOOLEAN,
             last : D \cup {"none"}]
TokenizeStep(D) == [x \in Lines(D) \X D |-> Tokenizes(x[1], x[2])]

LEMMA LineIs ==
  ASSUME NEW D, NEW l \in Lines(D)
  PROVE  \E t \in Seq(Seq(D)), i \in Seq(D), s \in BOOLEAN, d \in BOOLEAN, p \in D \cup {"none"} :
           l = ALine(t, i, s, d, p)
<1>1. l = ALine(l.tokens, l.item, l.single, l.double, l.last)
  BY DEF Lines, ALine
<1>2. l.tokens \in Seq(Seq(D)) /\ l.item \in Seq(D) /\ l.single \in BOOLEAN /\ l.double \in BOOLEAN
      /\ l.last \in D \cup {"none"}
  BY DEF Lines
<1> QED BY <1>1, <1>2, Zenon

LEMMA LineTyped ==
  ASSUME NEW D, NEW t \in Seq(Seq(D)), NEW i \in Seq(D), NEW s \in BOOLEAN, NEW d \in BOOLEAN,
         NEW p \in D \cup {"none"}
  PROVE  ALine(t, i, s, d, p) \in Lines(D)
  BY DEF Lines, ALine

LEMMA FlushedIs ==
  ASSUME NEW t, NEW i, NEW s, NEW d, NEW p
  PROVE  Flushed(ALine(t, i, s, d, p)) =
           IF i = <<>> THEN ALine(t, i, s, d, p) ELSE ALine(Append(t, i), <<>>, s, d, p)
<1> DEFINE l == ALine(t, i, s, d, p)
           e == <<>>
           n == Append(t, i)
<1>1. l.item = i /\ l.tokens = t
  BY DEF ALine
<1> HIDE DEF e, n
<1>2. [l EXCEPT !.tokens = n] = ALine(n, i, s, d, p)
  BY DEF ALine
<1>3. [ALine(n, i, s, d, p) EXCEPT !.item = e] = ALine(n, e, s, d, p)
  BY DEF ALine
<1> HIDE DEF l
<1>4. [l EXCEPT !.tokens = Append(@, l.item), !.item = e] = ALine(n, e, s, d, p)
  BY <1>1, <1>2, <1>3, Zenon DEF n
<1>5. Flushed(l) = IF l.item = e THEN l ELSE [l EXCEPT !.tokens = Append(@, l.item), !.item = e]
  BY Zenon DEF Flushed, e
<1> QED BY <1>1, <1>4, <1>5, Zenon DEF l, e, n

LEMMA QuotedIs ==
  ASSUME NEW t, NEW i, NEW s, NEW d, NEW p, NEW c
  PROVE  Quoted(ALine(t, i, s, d, p), c) =
           IF p = c THEN ALine(Append(t, <<>>), i, s, d, p) ELSE Flushed(ALine(t, i, s, d, p))
<1> DEFINE l == ALine(t, i, s, d, p)
           n == Append(t, <<>>)
<1>1. l.last = p /\ l.tokens = t
  BY DEF ALine
<1> HIDE DEF n
<1>2. [l EXCEPT !.tokens = n] = ALine(n, i, s, d, p)
  BY DEF ALine
<1> HIDE DEF l
<1>3. [l EXCEPT !.tokens = Append(@, <<>>)] = ALine(n, i, s, d, p)
  BY <1>1, <1>2, Zenon DEF n
<1> QED BY <1>1, <1>3, Zenon DEF l, n, Quoted

Truths == BOOLEAN
EndsIn(l, c) == [l EXCEPT !.last = c]

\* What tokenize does with a character.
AfterToken(t, i, s, d, p, c, next) ==
  /\ next = IF c = "'" /\ ~d THEN Quoted(ALine(t, i, ~s, d, p), c)
            ELSE IF c = "\"" /\ ~s THEN Quoted(ALine(t, i, s, ~d, p), c)
            ELSE IF s \/ d \/ c \notin Blanks THEN ALine(t, Append(i, c), s, d, p)
            ELSE Flushed(ALine(t, i, s, d, p))
  /\ Tokenizes(ALine(t, i, s, d, p), c) = EndsIn(next, c)

LEMMA TokenizesTo ==
  ASSUME NEW t, NEW i, NEW s \in Truths, NEW d \in Truths, NEW p, NEW c
  PROVE  \E next : AfterToken(t, i, s, d, p, c, next)
<1> DEFINE l == ALine(t, i, s, d, p)
           x == ~s
           y == ~d
           n == Append(i, c)
<1>1. l.item = i /\ l.single = s /\ l.double = d
  BY DEF ALine
<1> HIDE DEF x, y, n
<1>2. [l EXCEPT !.single = x] = ALine(t, i, x, d, p)
  BY DEF ALine
<1>3. [l EXCEPT !.double = y] = ALine(t, i, s, y, p)
  BY DEF ALine
<1>4. [l EXCEPT !.item = n] = ALine(t, n, s, d, p)
  BY DEF ALine
<1> HIDE DEF l
<1>5. [l EXCEPT !.single = ~@] = ALine(t, i, ~s, d, p)
  BY <1>1, <1>2, Zenon DEF x
<1>6. [l EXCEPT !.double = ~@] = ALine(t, i, s, ~d, p)
  BY <1>1, <1>3, Zenon DEF y
<1>7. [l EXCEPT !.item = Append(@, c)] = ALine(t, Append(i, c), s, d, p)
  BY <1>1, <1>4, Zenon DEF n
<1> DEFINE next == IF c = "'" /\ ~l.double THEN Quoted([l EXCEPT !.single = ~@], c)
        ELSE IF c = "\"" /\ ~l.single THEN Quoted([l EXCEPT !.double = ~@], c)
        ELSE IF l.single \/ l.double \/ c \notin Blanks THEN [l EXCEPT !.item = Append(@, c)]
        ELSE Flushed(l)
<1>8. Tokenizes(l, c) = EndsIn(next, c)
  BY Zenon DEF Tokenizes, EndsIn
<1>9. next = IF c = "'" /\ ~d THEN Quoted(ALine(t, i, ~s, d, p), c)
                     ELSE IF c = "\"" /\ ~s THEN Quoted(ALine(t, i, s, ~d, p), c)
                     ELSE IF s \/ d \/ c \notin Blanks THEN ALine(t, Append(i, c), s, d, p)
                     ELSE Flushed(l)
  BY <1>1, <1>5, <1>6, <1>7, Zenon
<1> HIDE DEF next
<1> QED BY <1>8, <1>9, Zenon DEF l, AfterToken

LEMMA LastSet ==
  ASSUME NEW t, NEW i, NEW s, NEW d, NEW p, NEW c
  PROVE  EndsIn(ALine(t, i, s, d, p), c) = ALine(t, i, s, d, c)
  BY DEF ALine, EndsIn

LEMMA TokenizesType ==
  ASSUME NEW D, NEW l \in Lines(D), NEW c \in D
  PROVE  Tokenizes(l, c) \in Lines(D)
<1> DEFINE S == Seq(D)
           e == <<>>
           B == Truths
<1>1. PICK t \in Seq(S), i \in S, s \in B, d \in B, p \in D \cup {"none"} : l = ALine(t, i, s, d, p)
  BY LineIs DEF Truths
<1>2. e \in S /\ Append(i, c) \in S /\ Append(t, e) \in Seq(S) /\ Append(t, i) \in Seq(S)
  OBVIOUS
<1> DEFINE T(x) == \E u \in Seq(S), j \in S, a \in B, b \in B : x = ALine(u, j, a, b, p)
<1>3. \A a \in B, b \in B : T(Flushed(ALine(t, i, a, b, p)))
  <2> HIDE DEF S
  <2> TAKE a \in B, b \in B
  <2>1. Flushed(ALine(t, i, a, b, p)) =
           IF i = e THEN ALine(t, i, a, b, p) ELSE ALine(Append(t, i), e, a, b, p)
    BY FlushedIs
  <2> HIDE DEF e
  <2> QED BY <1>2, <2>1, Zenon
<1>4. \A a \in B, b \in B : T(Quoted(ALine(t, i, a, b, p), c))
  <2> HIDE DEF S, T
  <2> TAKE a \in B, b \in B
  <2>1. Quoted(ALine(t, i, a, b, p), c) =
           IF p = c THEN ALine(Append(t, e), i, a, b, p) ELSE Flushed(ALine(t, i, a, b, p))
    BY QuotedIs
  <2>2. T(ALine(Append(t, e), i, a, b, p))
    BY <1>2, Zenon DEF T
  <2> QED BY <1>3, <2>1, <2>2, Zenon
<1>5. T(ALine(t, Append(i, c), s, d, p))
  <2> HIDE DEF S
  <2> QED BY <1>2, Zenon
<1>6. (~s) \in B /\ (~d) \in B
  <2>1. \A x \in B : (~x) \in B
    BY Zenon DEF Truths
  <2> QED BY <2>1, Zenon
<1>7. PICK next : AfterToken(t, i, s, d, p, c, next)
  BY TokenizesTo, Zenon
<1>8. T(next)
  <2> HIDE DEF T
  <2>1. T(Quoted(ALine(t, i, ~s, d, p), c))
    BY <1>4, <1>6, Zenon
  <2>2. T(Quoted(ALine(t, i, s, ~d, p), c))
    BY <1>4, <1>6, Zenon
  <2>3. T(Flushed(ALine(t, i, s, d, p)))
    BY <1>3, Zenon
  <2> QED BY <1>5, <1>7, <2>1, <2>2, <2>3, Zenon DEF AfterToken
<1>9. PICK u \in Seq(S), j \in S, a \in B, b \in B : next = ALine(u, j, a, b, p)
  BY <1>8, Zenon
<1>10. EndsIn(next, c) = ALine(u, j, a, b, c)
  <2>1. EndsIn(ALine(u, j, a, b, p), c) = ALine(u, j, a, b, c)
    BY DEF ALine, EndsIn
  <2> QED BY <1>9, <2>1, Zenon
<1>11. ALine(u, j, a, b, c) \in Lines(D)
  BY LineTyped DEF Truths
<1> QED BY <1>1, <1>7, <1>10, <1>11, Zenon DEF AfterToken

\* What a quote does to the words so far.
AfterQuote(t, i, s, d, p, c) ==
  IF p = c THEN ALine(Append(t, <<>>), i, s, d, c)
  ELSE IF i = <<>> THEN ALine(t, i, s, d, c) ELSE ALine(Append(t, i), <<>>, s, d, c)

LEMMA QuoteEnds ==
  ASSUME NEW t, NEW i, NEW s, NEW d, NEW p, NEW c
  PROVE  EndsIn(Quoted(ALine(t, i, s, d, p), c), c) = AfterQuote(t, i, s, d, p, c)
<1> DEFINE e == <<>>
           n == Append(t, e)
           m == Append(t, i)
<1>1. Quoted(ALine(t, i, s, d, p), c) = IF p = c THEN ALine(n, i, s, d, p) ELSE Flushed(ALine(t, i, s, d, p))
  BY QuotedIs
<1>2. Flushed(ALine(t, i, s, d, p)) = IF i = e THEN ALine(t, i, s, d, p) ELSE ALine(m, e, s, d, p)
  BY FlushedIs
<1> HIDE DEF e, n, m
<1>3. /\ EndsIn(ALine(n, i, s, d, p), c) = ALine(n, i, s, d, c)
      /\ EndsIn(ALine(t, i, s, d, p), c) = ALine(t, i, s, d, c)
      /\ EndsIn(ALine(m, e, s, d, p), c) = ALine(m, e, s, d, c)
  BY LastSet
<1>4. EndsIn(Quoted(ALine(t, i, s, d, p), c), c) =
        IF p = c THEN ALine(n, i, s, d, c) ELSE IF i = e THEN ALine(t, i, s, d, c) ELSE ALine(m, e, s, d, c)
  BY <1>1, <1>2, <1>3, Zenon
<1> QED BY <1>4, Zenon DEF AfterQuote, n, m, e

\* What tokenize does with a character, by what the character is.
TokenFacts(t, i, s, d, p, c) ==
  /\ c = "'" /\ ~d => Tokenizes(ALine(t, i, s, d, p), c) = AfterQuote(t, i, ~s, d, p, c)
  /\ c = "\"" /\ ~s => Tokenizes(ALine(t, i, s, d, p), c) = AfterQuote(t, i, s, ~d, p, c)
  /\ (c # "'" \/ d) /\ (c # "\"" \/ s) =>
       Tokenizes(ALine(t, i, s, d, p), c) =
         IF s \/ d \/ c \notin Blanks THEN ALine(t, Append(i, c), s, d, c)
         ELSE EndsIn(Flushed(ALine(t, i, s, d, p)), c)

LEMMA TokenizesBy ==
  ASSUME NEW t, NEW i, NEW s \in Truths, NEW d \in Truths, NEW p, NEW c
  PROVE  TokenFacts(t, i, s, d, p, c)
<1>1. PICK next : AfterToken(t, i, s, d, p, c, next)
  BY TokenizesTo, Zenon
<1>2. EndsIn(Quoted(ALine(t, i, ~s, d, p), c), c) = AfterQuote(t, i, ~s, d, p, c)
  <2> DEFINE x == ~s
  <2> HIDE DEF x
  <2>1. EndsIn(Quoted(ALine(t, i, x, d, p), c), c) = AfterQuote(t, i, x, d, p, c)
    BY QuoteEnds
  <2> QED BY <2>1, Zenon DEF x
<1>3. EndsIn(Quoted(ALine(t, i, s, ~d, p), c), c) = AfterQuote(t, i, s, ~d, p, c)
  <2> DEFINE x == ~d
  <2> HIDE DEF x
  <2>1. EndsIn(Quoted(ALine(t, i, s, x, p), c), c) = AfterQuote(t, i, s, x, p, c)
    BY QuoteEnds
  <2> QED BY <2>1, Zenon DEF x
<1> DEFINE n == Append(i, c)
<1> HIDE DEF n
<1>4. EndsIn(ALine(t, n, s, d, p), c) = ALine(t, n, s, d, c)
  BY LastSet
<1>5. "'" # "\""
  OBVIOUS
<1>6. Tokenizes(ALine(t, i, s, d, p), c) = EndsIn(next, c)
  BY <1>1, Zenon DEF AfterToken
<1>7. c = "'" /\ ~d => next = Quoted(ALine(t, i, ~s, d, p), c)
  BY <1>1, Zenon DEF AfterToken
<1>8. c = "\"" /\ ~s => next = Quoted(ALine(t, i, s, ~d, p), c)
  BY <1>1, <1>5, Zenon DEF AfterToken
<1>9. (c # "'" \/ d) /\ (c # "\"" \/ s) =>
        next = IF s \/ d \/ c \notin Blanks THEN ALine(t, n, s, d, p) ELSE Flushed(ALine(t, i, s, d, p))
  BY <1>1, Zenon DEF AfterToken, n
<1>10. c = "'" /\ ~d => Tokenizes(ALine(t, i, s, d, p), c) = AfterQuote(t, i, ~s, d, p, c)
  BY <1>2, <1>6, <1>7, Zenon
<1>11. c = "\"" /\ ~s => Tokenizes(ALine(t, i, s, d, p), c) = AfterQuote(t, i, s, ~d, p, c)
  BY <1>3, <1>6, <1>8, Zenon
<1>12. (c # "'" \/ d) /\ (c # "\"" \/ s) =>
              Tokenizes(ALine(t, i, s, d, p), c) =
                IF s \/ d \/ c \notin Blanks THEN ALine(t, n, s, d, c)
                ELSE EndsIn(Flushed(ALine(t, i, s, d, p)), c)
  BY <1>4, <1>6, <1>9, Zenon
<1> QED BY <1>10, <1>11, <1>12, Zenon DEF n, TokenFacts

\* Between the words, and in a word in quotes q.
AtRest(t, i, p)      == ALine(t, i, FALSE, FALSE, p)
InQuotes(q, t, i, p) == ALine(t, i, q = "'", q = "\"", p)

LEMMA NothingFlushed ==
  ASSUME NEW t, NEW p, NEW b
  PROVE  \A x, y : EndsIn(Flushed(ALine(t, <<>>, x, y, p)), b) = ALine(t, <<>>, x, y, b)
<1> TAKE x, y
<1>1. Flushed(ALine(t, <<>>, x, y, p)) =
        IF <<>> = <<>> THEN ALine(t, <<>>, x, y, p) ELSE ALine(Append(t, <<>>), <<>>, x, y, p)
  BY FlushedIs
<1>2. EndsIn(ALine(t, <<>>, x, y, p), b) = ALine(t, <<>>, x, y, b)
  BY LastSet
<1> QED BY <1>1, <1>2, Zenon

\* The same, with the values of the members by other names.
CasesFor(q, t, i, p, c, no, s, d) ==
  /\ p # q => Tokenizes(ALine(t, <<>>, no, no, p), q) = ALine(t, <<>>, s, d, q)
  /\ c # q => Tokenizes(ALine(t, i, s, d, p), c) = ALine(t, Append(i, c), s, d, c)
  /\ Tokenizes(ALine(t, i, s, d, p), q) =
       IF p = q THEN ALine(Append(t, <<>>), i, no, no, q)
       ELSE IF i = <<>> THEN ALine(t, i, no, no, q) ELSE ALine(Append(t, i), <<>>, no, no, q)
  /\ Tokenizes(ALine(t, <<>>, no, no, p), " ") = ALine(t, <<>>, no, no, " ")

LEMMA TokenizesCasesFor ==
  ASSUME NEW q \in {"'", "\""}, NEW t, NEW i, NEW p, NEW c,
         NEW no \in Truths, NEW s \in Truths, NEW d \in Truths,
         ~no, s <=> q = "'", d <=> q = "\""
  PROVE  CasesFor(q, t, i, p, c, no, s, d)
<1> DEFINE e == <<>>
<1>1. no = FALSE /\ s \in BOOLEAN /\ d \in BOOLEAN
  BY Zenon DEF Truths
<1>2. "'" # "\"" /\ "'" # " " /\ "\"" # " "
  BY Zenon
<1>3. (~s) = d /\ (~d) = s /\ (s => (~no) = s /\ no = d) /\ (d => (~no) = d /\ no = s)
  BY <1>1, <1>2, Zenon
<1>4. s \/ d
  BY Zenon
<1> HIDE DEF e
<1>5. ASSUME p # q PROVE Tokenizes(ALine(t, e, no, no, p), q) = ALine(t, e, s, d, q)
  <2>1. TokenFacts(t, e, no, no, p, q)
    BY TokenizesBy, Zenon
  <2>2. /\ q = "'" => Tokenizes(ALine(t, e, no, no, p), q) = AfterQuote(t, e, ~no, no, p, q)
        /\ q = "\"" => Tokenizes(ALine(t, e, no, no, p), q) = AfterQuote(t, e, no, ~no, p, q)
    BY <2>1, Zenon DEF TokenFacts
  <2>3. \A a, b : AfterQuote(t, e, a, b, p, q) = ALine(t, e, a, b, q)
    BY <1>5, Zenon DEF AfterQuote, e
  <2>4. q = "'" => Tokenizes(ALine(t, e, no, no, p), q) = ALine(t, e, s, d, q)
    BY <1>3, <2>2, <2>3, Zenon
  <2>5. q = "\"" => Tokenizes(ALine(t, e, no, no, p), q) = ALine(t, e, s, d, q)
    BY <1>3, <2>2, <2>3, Zenon
  <2> QED BY <2>4, <2>5, Zenon
<1>6. ASSUME c # q PROVE Tokenizes(ALine(t, i, s, d, p), c) = ALine(t, Append(i, c), s, d, c)
  <2>1. TokenFacts(t, i, s, d, p, c)
    BY TokenizesBy, Zenon
  <2>2. (c # "'" \/ d) /\ (c # "\"" \/ s)
    BY <1>6, Zenon
  <2> QED BY <1>4, <2>1, <2>2, Zenon DEF TokenFacts
<1>7. Tokenizes(ALine(t, i, s, d, p), q) = AfterQuote(t, i, no, no, p, q)
  <2>1. TokenFacts(t, i, s, d, p, q)
    BY TokenizesBy, Zenon
  <2>2. (s => ~d) /\ (d => ~s) /\ (s => (~s) = no /\ d = no) /\ (d => (~d) = no /\ s = no)
    BY <1>1, <1>2, Zenon
  <2>3. /\ s => Tokenizes(ALine(t, i, s, d, p), q) = AfterQuote(t, i, ~s, d, p, q)
        /\ d => Tokenizes(ALine(t, i, s, d, p), q) = AfterQuote(t, i, s, ~d, p, q)
    BY <2>1, <2>2, Zenon DEF TokenFacts
  <2>4. /\ s => AfterQuote(t, i, ~s, d, p, q) = AfterQuote(t, i, no, no, p, q)
        /\ d => AfterQuote(t, i, s, ~d, p, q) = AfterQuote(t, i, no, no, p, q)
    BY <2>2, Zenon
  <2> QED BY <1>4, <2>3, <2>4, Zenon
<1>8. AfterQuote(t, i, no, no, p, q) = IF p = q THEN ALine(Append(t, e), i, no, no, q)
              ELSE IF i = e THEN ALine(t, i, no, no, q) ELSE ALine(Append(t, i), e, no, no, q)
  BY Zenon DEF AfterQuote, e
<1>9. Tokenizes(ALine(t, e, no, no, p), " ") = ALine(t, e, no, no, " ")
  <2> DEFINE b == " "
  <2>1. b \in Blanks /\ b # "'" /\ b # "\""
    BY <1>2, Zenon DEF Blanks, VerticalTab
  <2> HIDE DEF b
  <2>2. TokenFacts(t, e, no, no, p, b)
    BY TokenizesBy, Zenon
  <2>3. Tokenizes(ALine(t, e, no, no, p), b) = EndsIn(Flushed(ALine(t, e, no, no, p)), b)
    BY <2>1, <2>2, Zenon DEF TokenFacts
  <2>4. \A x, y : EndsIn(Flushed(ALine(t, e, x, y, p)), b) = ALine(t, e, x, y, b)
    BY NothingFlushed, Zenon DEF e
  <2> QED BY <2>3, <2>4, Zenon DEF b
<1> QED BY <1>5, <1>6, <1>7, <1>8, <1>9, Zenon DEF CasesFor, e

Quotes == {"'", "\""}
TokenCases(q, t, i, p, c) ==
  /\ p # q => Tokenizes(AtRest(t, <<>>, p), q) = InQuotes(q, t, <<>>, q)
  /\ c # q => Tokenizes(InQuotes(q, t, i, p), c) = InQuotes(q, t, Append(i, c), c)
  /\ Tokenizes(InQuotes(q, t, i, p), q) =
       IF p = q THEN AtRest(Append(t, <<>>), i, q)
       ELSE IF i = <<>> THEN AtRest(t, i, q) ELSE AtRest(Append(t, i), <<>>, q)
  /\ Tokenizes(AtRest(t, <<>>, p), " ") = AtRest(t, <<>>, " ")

LEMMA TokenizesCases ==
  ASSUME NEW q \in Quotes, NEW t, NEW i, NEW p, NEW c
  PROVE  TokenCases(q, t, i, p, c)
<1>1. \A no \in Truths, s \in Truths, d \in Truths :
        ~no /\ (s <=> q = "'") /\ (d <=> q = "\"") => CasesFor(q, t, i, p, c, no, s, d)
  BY TokenizesCasesFor, Zenon DEF Quotes
<1>2. FALSE \in Truths /\ (q = "'") \in Truths /\ (q = "\"") \in Truths
  BY Zenon DEF Truths
<1>3. CasesFor(q, t, i, p, c, FALSE, q = "'", q = "\"")
  BY <1>1, <1>2, Zenon
<1> QED BY <1>3, Zenon DEF AtRest, InQuotes, CasesFor, TokenCases

\* D has what words are separated and quoted by.
Quotable(D) == " " \in D /\ Quotes \subseteq D

LEMMA TokenizeStepIs ==
  ASSUME NEW D, Quotable(D)
  PROVE  /\ TokenizeStep(D) \in [Lines(D) \X D -> Lines(D)]
         /\ \A l \in Lines(D), c \in D : TokenizeStep(D)[<<l, c>>] = Tokenizes(l, c)
         /\ NewLine \in Lines(D)
<1>1. \A l \in Lines(D), c \in D : Tokenizes(l, c) \in Lines(D)
  BY TokenizesType
<1>2. NewLine \in Lines(D)
  BY DEF NewLine, Lines
<1> QED BY <1>1, <1>2 DEF TokenizeStep

LEMMA RestTyped ==
  ASSUME NEW D, NEW q, NEW t \in Seq(Seq(D)), NEW i \in Seq(D), NEW p \in D \cup {"none"}
  PROVE  AtRest(t, i, p) \in Lines(D) /\ InQuotes(q, t, i, p) \in Lines(D)
<1> DEFINE s == q = "'"
           d == q = "\""
           no == FALSE
<1>1. s \in BOOLEAN /\ d \in BOOLEAN /\ no \in BOOLEAN
  BY Zenon
<1> HIDE DEF s, d, no
<1>2. ALine(t, i, no, no, p) \in Lines(D) /\ ALine(t, i, s, d, p) \in Lines(D)
  BY <1>1, LineTyped, Zenon
<1> QED BY <1>2, Zenon DEF AtRest, InQuotes, s, d, no

LEMMA TokenizesFold ==
  ASSUME NEW D, Quotable(D), NEW s \in Seq(D), NEW y, Leads(TokenizeStep(D), NewLine, s, y)
  PROVE  FoldLeft(Tokenizes, NewLine, s) = y
<1> DEFINE g == TokenizeStep(D)
           T == SUBSET (DOMAIN s)
           Is(f) == f = [t \in T |-> IF t = {} THEN NewLine ELSE Tokenizes(f[t \ {Max(t)}], s[Max(t)])]
<1>1. FoldLeft(Tokenizes, NewLine, s) = (CHOOSE f : Is(f))[DOMAIN s]
  BY Zenon DEF FoldLeft, MapThenFoldSet
<1>2. /\ g \in [Lines(D) \X D -> Lines(D)]
      /\ \A r \in Lines(D), c \in D : g[<<r, c>>] = Tokenizes(r, c)
      /\ NewLine \in Lines(D)
  BY TokenizeStepIs
<1> HIDE DEF g
<1>3. PICK h : IsTable(h, Lines(D), D, s, NewLine, g)
  BY <1>2, FoldTable
<1>4. Is(h)
  <2>1. \A t \in T : h[t] = IF t = {} THEN NewLine ELSE Tokenizes(h[t \ {Max(t)}], s[Max(t)])
    BY <1>2, <1>3, Zenon DEF IsTable
  <2>2. h \in [T -> Lines(D)]
    BY <1>3 DEF IsTable
  <2> HIDE DEF T
  <2> QED BY <2>1, <2>2
<1> DEFINE f == CHOOSE f : Is(f)
<1>5. Is(f)
  BY <1>4, Zenon
<1> HIDE DEF f
<1>6. Len(s) \in Nat /\ DOMAIN s = 1..Len(s) /\ \A k \in 1..Len(s) : s[k] \in D
  OBVIOUS
<1>7. f[{}] = NewLine
  <2>1. {} \in T
    OBVIOUS
  <2> QED BY <1>5, <2>1
<1>8. ASSUME NEW k \in 0..Len(s) - 1, f[1..k] \in Lines(D)
      PROVE  f[1..k + 1] = g[<<f[1..k], s[k + 1]>>]
  <2>1. k \in Nat /\ k + 1 \in 1..Len(s)
    BY <1>6
  <2>2. k + 1 \in 1..k + 1 /\ 1..k + 1 \subseteq 1..Len(s) /\ (1..k + 1) \ {k + 1} = 1..k
    BY <1>6, <2>1
  <2>3. 1..k + 1 \in T /\ 1..k + 1 # {} /\ s[k + 1] \in D
    BY <1>6, <2>1, <2>2
  <2>4. Max(1..k + 1) = k + 1
    BY <2>1, <2>2, MaxIs
  <2> HIDE DEF T
  <2>5. f[1..k + 1] = Tokenizes(f[1..k], s[k + 1])
    BY <1>5, <2>2, <2>3, <2>4
  <2> QED BY <1>2, <1>8, <2>3, <2>5
<1>9. f[DOMAIN s] = y
  <2>1. Leads(g, NewLine, s, y)
    BY DEF g
  <2>2. Climbs(f, Lines(D), s, NewLine, g)
    BY <1>7, <1>8 DEF Climbs
  <2>3. Leads(g, NewLine, s, f[DOMAIN s])
    BY <1>2, <2>2, TableLeads
  <2> QED BY <2>1, <2>3, LeadsOnce
<1> QED BY <1>1, <1>9 DEF f

\* A word in quotes q and the space after it.
LEMMA WordTyped ==
  ASSUME NEW D, Quotable(D), NEW q \in Quotes, NEW w \in Seq(D), \A k \in 1..Len(w) : w[k] # q,
         NEW t \in Seq(Seq(D)), NEW p \in D \cup {"none"}, p # q
  PROVE  Leads(TokenizeStep(D), AtRest(t, <<>>, p), <<q>> \o w \o <<q, " ">>, AtRest(Append(t, w), <<>>, " "))
<1> DEFINE b == " "
<1>0. b \in D /\ q \in D
  BY Zenon DEF Quotable
<1> HIDE DEF b
<1> DEFINE g == TokenizeStep(D)
           e == <<>>
           a == <<q>>
           z == <<b>>
           last(k) == IF k = 0 THEN q ELSE w[k]
           st == [k \in 0..Len(w) |-> InQuotes(q, t, SubSeq(w, 1, k), last(k))]
<1>1. Len(w) \in Nat /\ \A k \in 1..Len(w) : w[k] \in D
  OBVIOUS
<1>2. q \in D /\ b \in D /\ e \in Seq(D) /\ a \in Seq(D) /\ z \in Seq(D)
  BY <1>0
<1>3. \A l \in Lines(D), c \in D : g[<<l, c>>] = Tokenizes(l, c)
  BY TokenizeStepIs
<1>4. \A k \in 0..Len(w) : st[k] = InQuotes(q, t, SubSeq(w, 1, k), last(k)) /\ last(k) \in D
                           /\ SubSeq(w, 1, k) \in Seq(D)
  BY <1>1, <1>2
<1>5. a \o w \o <<q, b>> = ((a \o w) \o a) \o z
  <2>1. <<q, b>> = a \o z
    BY <1>0, Singles
  <2>2. a \o w \in Seq(D)
    BY <1>2
  <2> DEFINE x == a \o w
  <2> HIDE DEF a, z, x
  <2>3. x \o (a \o z) = (x \o a) \o z
    BY <1>2, <2>2, ConcatAssociative, SMTT(30)
  <2> QED BY <2>1, <2>3, Zenon DEF x
<1>6. /\ last(0) = q /\ Append(t, w) \in Seq(Seq(D))
      /\ w = e => last(Len(w)) = q
      /\ w # e => last(Len(w)) # q
  <2>1. w = e => Len(w) = 0
    OBVIOUS
  <2>2. w # e => Len(w) \in 1..Len(w) /\ Len(w) # 0
    BY <1>1
  <2> QED BY <1>1, <2>1, <2>2
<1> HIDE DEF g, st, a, z, last
<1>7. ASSUME NEW k \in 0..Len(w) - 1 PROVE st[k + 1] = g[<<st[k], w[k + 1]>>]
  <2> DEFINE v == SubSeq(w, 1, k)
             c == w[k + 1]
  <2>1. k \in 0..Len(w) /\ k + 1 \in 0..Len(w) /\ c \in D /\ c # q
    BY <1>1
  <2>2. SubSeq(w, 1, k + 1) = Append(v, c)
    <3>1. e \o SubSeq(w, 1, k + 1) = Append(e \o SubSeq(w, 1, k), w[k + 1])
      BY <1>2, OneMore
    <3>2. SubSeq(w, 1, k) \in Seq(D) /\ SubSeq(w, 1, k + 1) \in Seq(D)
      BY <1>4, <2>1
    <3>3. e \o SubSeq(w, 1, k) = SubSeq(w, 1, k) /\ e \o SubSeq(w, 1, k + 1) = SubSeq(w, 1, k + 1)
      BY <3>2, ConcatEmptySeq
    <3> QED BY <3>1, <3>3
  <2>3. last(k + 1) = c
    BY <2>1 DEF last
  <2>4. last(k) \in D /\ v \in Seq(D)
    BY <1>4, <2>1
  <2> HIDE DEF v, c
  <2>5. st[k] = InQuotes(q, t, v, last(k)) /\ st[k + 1] = InQuotes(q, t, Append(v, c), c)
    BY <1>4, <2>1, <2>2, <2>3, Zenon DEF v
  <2>6. InQuotes(q, t, v, last(k)) \in Lines(D)
    <3>1. last(k) \in D \cup {"none"}
      BY <2>4
    <3> HIDE DEF last
    <3> QED BY <2>4, <3>1, RestTyped
  <2>7. Tokenizes(InQuotes(q, t, v, last(k)), c) = InQuotes(q, t, Append(v, c), c)
    <3>1. TokenCases(q, t, v, last(k), c)
      BY TokenizesCases, Zenon
    <3> QED BY <2>1, <3>1, Zenon DEF TokenCases
  <2>8. g[<<st[k], c>>] = st[k + 1]
    BY <1>3, <2>1, <2>5, <2>6, <2>7, Zenon
  <2> QED BY <2>8 DEF c
<1>8. Leads(g, st[0], w, st[Len(w)])
  BY <1>7, LeadsEach
<1>9. st[0] = InQuotes(q, t, e, q) /\ st[Len(w)] = InQuotes(q, t, w, last(Len(w)))
  <2>1. 0 \in 0..Len(w) /\ Len(w) \in 0..Len(w)
    BY <1>1
  <2>2. SubSeq(w, 1, 0) = e /\ SubSeq(w, 1, Len(w)) = w
    BY <1>1
  <2> QED BY <1>4, <1>6, <2>1, <2>2, Zenon
<1>10. Leads(g, AtRest(t, e, p), a, InQuotes(q, t, e, q))
  <2>1. Tokenizes(AtRest(t, e, p), q) = InQuotes(q, t, e, q)
    <3>1. TokenCases(q, t, e, p, b)
      BY TokenizesCases, Zenon
    <3> QED BY <3>1, Zenon DEF TokenCases
  <2>2. AtRest(t, e, p) \in Lines(D)
    BY <1>2, RestTyped
  <2>3. g[<<AtRest(t, e, p), q>>] = InQuotes(q, t, e, q)
    BY <1>2, <1>3, <2>1, <2>2, Zenon
  <2> QED BY <2>3, LeadsOne, Zenon DEF a
<1>11. Leads(g, InQuotes(q, t, w, last(Len(w))), a, AtRest(Append(t, w), e, q))
  <2> DEFINE l == last(Len(w))
  <2>1. l \in D \cup {"none"}
    BY <1>1, <1>4
  <2>2. InQuotes(q, t, w, l) \in Lines(D)
    BY <2>1, RestTyped
  <2>3. Tokenizes(InQuotes(q, t, w, l), q) =
              IF l = q THEN AtRest(Append(t, e), w, q)
              ELSE IF w = e THEN AtRest(t, w, q) ELSE AtRest(Append(t, w), e, q)
    <3>1. TokenCases(q, t, w, l, b)
      BY TokenizesCases, Zenon
    <3> QED BY <3>1, Zenon DEF TokenCases
  <2>4. Tokenizes(InQuotes(q, t, w, l), q) = AtRest(Append(t, w), e, q)
    BY <1>6, <2>3, Zenon
  <2>5. g[<<InQuotes(q, t, w, l), q>>] = AtRest(Append(t, w), e, q)
    BY <1>2, <1>3, <2>2, <2>4, Zenon
  <2> QED BY <2>5, LeadsOne, Zenon DEF a
<1>12. Leads(g, AtRest(Append(t, w), e, q), z, AtRest(Append(t, w), e, b))
  <2> DEFINE u == Append(t, w)
  <2> HIDE DEF u
  <2>1. Tokenizes(AtRest(u, e, q), b) = AtRest(u, e, b)
    <3>1. TokenCases(q, u, e, q, b)
      BY TokenizesCases, Zenon
    <3> QED BY <3>1, Zenon DEF TokenCases, b
  <2>2. AtRest(u, e, q) \in Lines(D)
    BY <1>2, <1>6, RestTyped DEF u
  <2>3. g[<<AtRest(u, e, q), b>>] = AtRest(u, e, b)
    BY <1>2, <1>3, <2>1, <2>2, Zenon
  <2> QED BY <2>3, LeadsOne, Zenon DEF u, z, b
<1> HIDE DEF e
<1>13. a \o w \in Seq(D) /\ (a \o w) \o a \in Seq(D)
  BY <1>2
<1>14. Leads(g, InQuotes(q, t, e, q), w, InQuotes(q, t, w, last(Len(w))))
  BY <1>8, <1>9, Zenon
<1>15. Leads(g, AtRest(t, e, p), a \o w, InQuotes(q, t, w, last(Len(w))))
  BY <1>2, <1>10, <1>14, LeadsOn
<1>16. Leads(g, AtRest(t, e, p), (a \o w) \o a, AtRest(Append(t, w), e, q))
  BY <1>2, <1>11, <1>13, <1>15, LeadsOn
<1>17. Leads(g, AtRest(t, e, p), ((a \o w) \o a) \o z, AtRest(Append(t, w), e, b))
  BY <1>2, <1>12, <1>13, <1>16, LeadsOn
<1> QED BY <1>5, <1>17, Zenon DEF g, e, a, b

\* Words in quotes that they do not have, and without variables, are what was meant.
LEMMA WordsTokenized ==
  ASSUME NEW D, Alphabet(D), Quotable(D), NEW q \in Quotes,
         NEW words \in Seq(Seq(D \ {q, "<"}))
  PROVE  Tokenized(Quoting(q, words)) = words
<1> DEFINE b == " "
           none == "none"
<1>0. b \in D /\ q \in D /\ b # "<" /\ q # "<" /\ b # q /\ none # q
  BY Zenon DEF Quotable, Quotes
<1> HIDE DEF b, none
<1> DEFINE E == D \ {"<"}
           S == Seq(D)
           s == [i \in DOMAIN words |-> <<q>> \o words[i] \o <<q, b>>]
           line == Quoting(q, words)
           g == TokenizeStep(D)
           e == <<>>
           last(k) == IF k = 0 THEN none ELSE b
           st == [k \in 0..Len(words) |-> AtRest(SubSeq(words, 1, k), e, last(k))]
<1>1. /\ DOMAIN words = 1..Len(words) /\ Len(words) \in Nat
      /\ \A i \in 1..Len(words) : words[i] \in Seq(E) /\ words[i] \in S /\ \A k \in 1..Len(words[i]) : words[i][k] # q
  <2>1. DOMAIN words = 1..Len(words) /\ Len(words) \in Nat /\ \A i \in 1..Len(words) : words[i] \in Seq(D \ {q, "<"})
    OBVIOUS
  <2>2. \A w \in Seq(D \ {q, "<"}) : w \in Seq(E) /\ w \in S /\ \A k \in 1..Len(w) : w[k] # q
    OBVIOUS
  <2> QED BY <2>1, <2>2
<1>2. words \in Seq(S)
  BY <1>1
<1>3. <<q>> \in Seq(E) /\ <<q, b>> \in Seq(E)
  BY <1>0
<1>4. \A i \in 1..Len(words) : s[i] \in Seq(E)
  BY <1>1, <1>3
<1>5. s \in Seq(Seq(E)) /\ Len(s) = Len(words)
  BY <1>1, <1>4
<1>6. line = FlattenSeq(s)
  BY Zenon DEF Quoting, b
<1>7. line \in Seq(E)
  <2> HIDE DEF s, line
  <2> QED BY <1>5, <1>6, FlatType
<1>8. line \in S /\ \A k \in 1..Len(line) : line[k] # "<"
  <2> HIDE DEF line
  <2> QED BY <1>7
<1>9. Resolved(line) = line
  <2> HIDE DEF line
  <2> QED BY <1>8, PlainResolved
<1>10. s \in Seq(S)
  <2>1. \A x \in Seq(E) : x \in S
    OBVIOUS
  <2> HIDE DEF s
  <2> QED BY <1>5, <2>1
<1>11. \A k \in 0..Len(words) : st[k] = AtRest(SubSeq(words, 1, k), e, last(k))
  OBVIOUS
<1>12. \A k \in 0..Len(words) : last(k) \in D \cup {none} /\ last(k) # q /\ SubSeq(words, 1, k) \in Seq(S)
  BY <1>0, <1>1, <1>2
<1>13. \A k \in 1..Len(words) : s[k] = <<q>> \o words[k] \o <<q, b>> /\ last(k) = b
  BY <1>1
<1> HIDE DEF g, st, s, line, e, last, E
<1>14. ASSUME NEW k \in 1..Len(s) PROVE Leads(g, st[k - 1], s[k], st[k])
  <2> DEFINE t == SubSeq(words, 1, k - 1)
             w == words[k]
             p == last(k - 1)
  <2>1. k \in 0..Len(words) /\ k - 1 \in 0..Len(words) /\ k \in 1..Len(words) /\ k \in Nat
    BY <1>1, <1>5
  <2>2. SubSeq(words, 1, k) = Append(t, w)
    <3>1. w \in S /\ t \in Seq(S)
      BY <1>1, <1>12, <2>1
    <3>2. 1 \in 1..Len(words) /\ k \in 1..Len(words)
      BY <2>1
    <3>3. t \o <<w>> = SubSeq(words, 1, k)
      BY <1>2, <3>2, Around
    <3> HIDE DEF w, t
    <3>4. t \o <<w>> = Append(t, w)
      BY <3>1
    <3> QED BY <3>3, <3>4
  <2>3. w \in S /\ (\A j \in 1..Len(w) : w[j] # q) /\ t \in Seq(S) /\ p \in D \cup {none} /\ p # q
    BY <1>1, <1>12, <2>1
  <2>4. st[k - 1] = AtRest(t, e, p) /\ st[k] = AtRest(Append(t, w), e, b) /\ s[k] = <<q>> \o w \o <<q, b>>
    <3>1. st[k] = AtRest(SubSeq(words, 1, k), e, last(k)) /\ last(k) = b
      BY <1>11, <1>13, <2>1
    <3>2. st[k - 1] = AtRest(t, e, p)
      BY <1>11, <2>1
    <3>3. s[k] = <<q>> \o w \o <<q, b>>
      BY <1>13, <2>1
    <3> HIDE DEF t, w, p
    <3> QED BY <2>2, <3>1, <3>2, <3>3, Zenon
  <2> HIDE DEF t, w, p
  <2>5. Leads(g, AtRest(t, e, p), <<q>> \o w \o <<q, b>>, AtRest(Append(t, w), e, b))
    BY <2>3, WordTyped, Zenon DEF g, e, b, none
  <2> QED BY <2>4, <2>5, Zenon
<1>15. Leads(g, st[0], line, st[Len(s)])
  BY <1>6, <1>10, <1>14, LeadsFlat
<1>16. st[0] = NewLine
  <2>1. 0 \in 0..Len(words) /\ SubSeq(words, 1, 0) = <<>> /\ last(0) = none
    BY <1>1 DEF last
  <2>2. st[0] = AtRest(<<>>, <<>>, "none")
    BY <1>11, <2>1, Zenon DEF e, none
  <2> QED BY <2>2, Zenon DEF NewLine, AtRest, ALine
<1>17. st[Len(s)] = AtRest(words, e, last(Len(words)))
  <2>1. Len(words) \in 0..Len(words) /\ SubSeq(words, 1, Len(words)) = words
    BY <1>1, <1>2, SubSeqFull
  <2> QED BY <1>5, <1>11, <2>1, Zenon
<1>18. FoldLeft(Tokenizes, NewLine, line) = AtRest(words, e, last(Len(words)))
  <2> DEFINE y == AtRest(words, e, last(Len(words)))
  <2>1. Leads(TokenizeStep(D), NewLine, line, y)
    BY <1>15, <1>16, <1>17, Zenon DEF g
  <2> HIDE DEF y
  <2>2. FoldLeft(Tokenizes, NewLine, line) = y
    BY <1>8, <2>1, TokenizesFold
  <2> QED BY <2>2 DEF y
<1>19. Flushed(AtRest(words, e, last(Len(words)))) = AtRest(words, e, last(Len(words)))
  <2>1. AtRest(words, e, last(Len(words))).item = <<>>
    BY Zenon DEF AtRest, ALine, e
  <2> QED BY <2>1, Zenon DEF Flushed
<1>20. AtRest(words, e, last(Len(words))).tokens = words
  BY Zenon DEF AtRest, ALine
<1>21. Tokenized(line) = Flushed(FoldLeft(Tokenizes, NewLine, Resolved(line))).tokens
  BY Zenon DEF Tokenized
<1>22. Tokenized(line) = words
  BY <1>9, <1>18, <1>19, <1>20, <1>21, Zenon
<1> QED BY <1>22 DEF line

-----------------------------------------------------------------------------
(* SMCLFormatter.                                                          *)

Formatter(out, arg, skip) == [out |-> out, arg |-> arg, skip |-> skip]
Formatters(D) == [out : Seq(D), arg : Nat \ {0}, skip : Nat]
FormatStep(D, s, args) == [x \in Formatters(D) \X (1..Len(s)) |-> Formats(s, args, x[1], x[2])]
Numbered(s) == [i \in 1..Len(s) |-> i]

\* g leads from x to y through the places after a up to b.
Walks(g, x, a, b, y) ==
  \E h : h[a] = x /\ h[b] = y /\ \A k \in a..b - 1 : h[k + 1] = g[<<h[k], k + 1>>]

LEMMA WalksNowhere ==
  ASSUME NEW g, NEW x, NEW a \in Nat
  PROVE  Walks(g, x, a, a, x)
<1> DEFINE h == [k \in {a} |-> x]
<1>1. h[a] = x /\ a..a - 1 = {}
  OBVIOUS
<1> QED BY <1>1 DEF Walks

LEMMA WalksOne ==
  ASSUME NEW g, NEW x, NEW a \in Nat, NEW y, g[<<x, a + 1>>] = y
  PROVE  Walks(g, x, a, a + 1, y)
<1> DEFINE h == [k \in {a, a + 1} |-> IF k = a THEN x ELSE y]
<1>1. h[a] = x /\ h[a + 1] = y /\ a..(a + 1) - 1 = {a}
  OBVIOUS
<1> HIDE DEF h
<1> QED BY <1>1 DEF Walks

LEMMA WalksOn ==
  ASSUME NEW g, NEW x, NEW y, NEW z, NEW a \in Nat, NEW b \in Nat, NEW c \in Nat, a <= b, b <= c,
         Walks(g, x, a, b, y), Walks(g, y, b, c, z)
  PROVE  Walks(g, x, a, c, z)
<1>1. PICK l : l[a] = x /\ l[b] = y /\ \A k \in a..b - 1 : l[k + 1] = g[<<l[k], k + 1>>]
  BY DEF Walks
<1>2. PICK r : r[b] = y /\ r[c] = z /\ \A k \in b..c - 1 : r[k + 1] = g[<<r[k], k + 1>>]
  BY DEF Walks
<1> DEFINE h == [k \in a..c |-> IF k <= b THEN l[k] ELSE r[k]]
<1>3. (\A k \in a..b : h[k] = l[k]) /\ (\A k \in b..c : h[k] = r[k])
  BY <1>1, <1>2
<1> HIDE DEF h
<1>4. h[a] = x /\ h[c] = z
  BY <1>1, <1>2, <1>3
<1>5. ASSUME NEW k \in a..c - 1 PROVE h[k + 1] = g[<<h[k], k + 1>>]
  <2>1. CASE k < b
    <3>1. k \in a..b - 1 /\ k \in a..b /\ k + 1 \in a..b
      BY <2>1
    <3> QED BY <1>1, <1>3, <3>1
  <2>2. CASE ~(k < b)
    <3>1. k \in b..c - 1 /\ k \in b..c /\ k + 1 \in b..c
      BY <2>2
    <3> QED BY <1>2, <1>3, <3>1
  <2> QED BY <2>1, <2>2
<1> QED BY <1>4, <1>5 DEF Walks

\* Through place after place.
LEMMA WalksEach ==
  ASSUME NEW g, NEW st, NEW at, NEW n \in Nat, at[0] = 0, \A k \in 0..n : at[k] \in Nat,
         \A k \in 1..n : at[k - 1] <= at[k] /\ Walks(g, st[k - 1], at[k - 1], at[k], st[k])
  PROVE  Walks(g, st[0], 0, at[n], st[n])
<1> DEFINE K == {k \in Nat : k <= n => Walks(g, st[0], 0, at[k], st[k])}
<1>1. 0 \in K
  BY WalksNowhere
<1>2. ASSUME NEW k \in Nat, k \in K PROVE k + 1 \in K
  <2> SUFFICES ASSUME k + 1 <= n PROVE Walks(g, st[0], 0, at[k + 1], st[k + 1])
    OBVIOUS
  <2>1. k + 1 \in 1..n /\ (k + 1) - 1 = k /\ k \in 0..n /\ k + 1 \in 0..n /\ k <= n
    OBVIOUS
  <2>2. at[k] <= at[k + 1] /\ Walks(g, st[k], at[k], at[k + 1], st[k + 1]) /\ at[k] \in Nat /\ at[k + 1] \in Nat
    BY <2>1
  <2>3. Walks(g, st[0], 0, at[k], st[k])
    BY <1>2, <2>1
  <2> QED BY <2>2, <2>3, WalksOn
<1>3. n \in K
  <2> HIDE DEF K
  <2> QED BY <1>1, <1>2, NatSets
<1> QED BY <1>3

\* What processChar does, by what it finds.
FormatFacts(s, args, o, a, k, i) ==
  /\ k > 0 => Formats(s, args, Formatter(o, a, k), i) = Formatter(o, a, k - 1)
  /\ ~(k > 0) /\ IsArgHere(s, i) /\ a <= Len(args) =>
       Formats(s, args, Formatter(o, a, k), i) = Formatter(o \o args[a], a + 1, 2)
  /\ ~(k > 0) /\ ~(IsArgHere(s, i) /\ a <= Len(args)) =>
       Formats(s, args, Formatter(o, a, k), i) = Formatter(Append(o, s[i]), a, k)

LEMMA FormatsTo ==
  ASSUME NEW s, NEW args, NEW o, NEW a, NEW k, NEW i
  PROVE  FormatFacts(s, args, o, a, k, i)
<1> DEFINE f == Formatter(o, a, k)
           x == k - 1
           y == o \o args[a]
           z == a + 1
           w == Append(o, s[i])
           two == Len(Mark) - 1
<1>1. f.out = o /\ f.arg = a /\ f.skip = k
  BY DEF Formatter
<1>2. two = 2
  BY DEF Mark
<1> HIDE DEF x, y, z, w, two
<1>3. [f EXCEPT !.skip = x] = Formatter(o, a, x)
  BY DEF Formatter
<1>4. [f EXCEPT !.out = w] = Formatter(w, a, k)
  BY DEF Formatter
<1>5. [f EXCEPT !.out = y] = Formatter(y, a, k)
  BY DEF Formatter
<1>6. [Formatter(y, a, k) EXCEPT !.arg = z] = Formatter(y, z, k)
  BY DEF Formatter
<1>7. [Formatter(y, z, k) EXCEPT !.skip = two] = Formatter(y, z, two)
  BY DEF Formatter
<1> HIDE DEF f
<1>8. [f EXCEPT !.skip = @ - 1] = Formatter(o, a, x)
  BY <1>1, <1>3, Zenon DEF x
<1>9. [f EXCEPT !.out = Append(@, s[i])] = Formatter(w, a, k)
  BY <1>1, <1>4, Zenon DEF w
<1>10. [f EXCEPT !.out = @ \o args[f.arg], !.arg = @ + 1, !.skip = two] = Formatter(y, z, two)
  <2>1. [f EXCEPT !.out = @ \o args[f.arg]] = Formatter(y, a, k)
    BY <1>1, <1>5, Zenon DEF y
  <2>2. Formatter(y, a, k).arg = a
    BY DEF Formatter
  <2> QED BY <1>6, <1>7, <2>1, <2>2, Zenon DEF z
<1>11. Formats(s, args, f, i) =
         IF f.skip > 0 THEN [f EXCEPT !.skip = @ - 1]
         ELSE IF IsArgHere(s, i) /\ f.arg <= Len(args)
         THEN [f EXCEPT !.out = @ \o args[f.arg], !.arg = @ + 1, !.skip = two]
         ELSE [f EXCEPT !.out = Append(@, s[i])]
  BY Zenon DEF Formats, two
<1>12. k > 0 => Formats(s, args, f, i) = Formatter(o, a, x)
  BY <1>1, <1>8, <1>11, Zenon
<1>13. ~(k > 0) /\ IsArgHere(s, i) /\ a <= Len(args) => Formats(s, args, f, i) = Formatter(y, z, two)
  BY <1>1, <1>10, <1>11, Zenon
<1>14. ~(k > 0) /\ ~(IsArgHere(s, i) /\ a <= Len(args)) => Formats(s, args, f, i) = Formatter(w, a, k)
  BY <1>1, <1>9, <1>11, Zenon
<1> QED BY <1>2, <1>12, <1>13, <1>14, Zenon DEF FormatFacts, f, x, y, z, w

LEMMA FormatterIs ==
  ASSUME NEW D, NEW f \in Formatters(D)
  PROVE  \E o \in Seq(D), a \in Nat \ {0}, k \in Nat : f = Formatter(o, a, k)
<1>1. f = Formatter(f.out, f.arg, f.skip)
  BY DEF Formatters, Formatter
<1>2. f.out \in Seq(D) /\ f.arg \in Nat \ {0} /\ f.skip \in Nat
  BY DEF Formatters
<1> QED BY <1>1, <1>2, Zenon

LEMMA FormatterTyped ==
  ASSUME NEW D, NEW o \in Seq(D), NEW a \in Nat \ {0}, NEW k \in Nat
  PROVE  Formatter(o, a, k) \in Formatters(D)
  BY DEF Formatters, Formatter

LEMMA FormatsType ==
  ASSUME NEW D, NEW s \in Seq(D), NEW args \in Seq(Seq(D)), NEW f \in Formatters(D), NEW i \in 1..Len(s)
  PROVE  Formats(s, args, f, i) \in Formatters(D)
<1>1. PICK o \in Seq(D), a \in Nat \ {0}, k \in Nat : f = Formatter(o, a, k)
  BY FormatterIs
<1>2. FormatFacts(s, args, o, a, k, i)
  BY FormatsTo
<1>3. CASE k > 0
  <2>1. k - 1 \in Nat
    BY <1>3
  <2>2. Formats(s, args, f, i) = Formatter(o, a, k - 1)
    BY <1>1, <1>2, <1>3, Zenon DEF FormatFacts
  <2>3. Formatter(o, a, k - 1) \in Formatters(D)
    BY <2>1, FormatterTyped
  <2> QED BY <2>2, <2>3, Zenon
<1>4. CASE ~(k > 0) /\ IsArgHere(s, i) /\ a <= Len(args)
  <2>1. args[a] \in Seq(D) /\ a + 1 \in Nat \ {0} /\ 2 \in Nat
    BY <1>4
  <2> DEFINE y == o \o args[a]
  <2>2. y \in Seq(D)
    BY <2>1
  <2> HIDE DEF y
  <2>3. Formats(s, args, f, i) = Formatter(y, a + 1, 2)
    BY <1>1, <1>2, <1>4, Zenon DEF FormatFacts, y
  <2>4. Formatter(y, a + 1, 2) \in Formatters(D)
    BY <2>1, <2>2, FormatterTyped
  <2> QED BY <2>3, <2>4, Zenon
<1>5. CASE ~(k > 0) /\ ~(IsArgHere(s, i) /\ a <= Len(args))
  <2> DEFINE w == Append(o, s[i])
  <2>1. w \in Seq(D)
    OBVIOUS
  <2> HIDE DEF w
  <2>2. Formats(s, args, f, i) = Formatter(w, a, k)
    BY <1>1, <1>2, <1>5, Zenon DEF FormatFacts, w
  <2>3. Formatter(w, a, k) \in Formatters(D)
    BY <2>1, FormatterTyped
  <2> QED BY <2>2, <2>3, Zenon
<1> QED BY <1>3, <1>4, <1>5, Zenon

LEMMA FormatStepIs ==
  ASSUME NEW D, NEW s \in Seq(D), NEW args \in Seq(Seq(D))
  PROVE  /\ FormatStep(D, s, args) \in [Formatters(D) \X (1..Len(s)) -> Formatters(D)]
         /\ \A f \in Formatters(D), i \in 1..Len(s) : FormatStep(D, s, args)[<<f, i>>] = Formats(s, args, f, i)
         /\ Formatter(<<>>, 1, 0) \in Formatters(D)
<1>1. \A f \in Formatters(D), i \in 1..Len(s) : Formats(s, args, f, i) \in Formatters(D)
  BY FormatsType
<1>2. Formatter(<<>>, 1, 0) \in Formatters(D)
  BY DEF Formatters, Formatter
<1> QED BY <1>1, <1>2 DEF FormatStep

\* What the steps lead to is what processChar makes of the text.
LEMMA FormatsFold ==
  ASSUME NEW D, NEW s \in Seq(D), NEW args \in Seq(Seq(D)), NEW o, NEW a, NEW k,
         Walks(FormatStep(D, s, args), Formatter(<<>>, 1, 0), 0, Len(s), Formatter(o, a, k))
  PROVE  Formatted(s, args) = o
<1> DEFINE g == FormatStep(D, s, args)
           p == Numbered(s)
           base == Formatter(<<>>, 1, 0)
           y == Formatter(o, a, k)
           T == SUBSET (DOMAIN p)
           Is(f) == f = [t \in T |-> IF t = {} THEN base ELSE Formats(s, args, f[t \ {Max(t)}], p[Max(t)])]
<1>1. Formatted(s, args) = ((CHOOSE f : Is(f))[DOMAIN p]).out
  BY Zenon DEF Formatted, FoldLeft, MapThenFoldSet, Numbered, Formatter
<1>2. /\ g \in [Formatters(D) \X (1..Len(s)) -> Formatters(D)]
      /\ \A f \in Formatters(D), i \in 1..Len(s) : g[<<f, i>>] = Formats(s, args, f, i)
      /\ base \in Formatters(D)
  BY FormatStepIs
<1>3. /\ p \in Seq(1..Len(s)) /\ Len(p) = Len(s) /\ Len(s) \in Nat /\ DOMAIN p = 1..Len(s)
      /\ \A i \in 1..Len(s) : p[i] = i
  BY DEF Numbered
<1> HIDE DEF g, p, base
<1>4. PICK h : IsTable(h, Formatters(D), 1..Len(s), p, base, g)
  BY <1>2, <1>3, FoldTable
<1>5. Is(h)
  <2>1. \A t \in T : h[t] = IF t = {} THEN base ELSE Formats(s, args, h[t \ {Max(t)}], p[Max(t)])
    BY <1>2, <1>4, Zenon DEF IsTable
  <2>2. h \in [T -> Formatters(D)]
    BY <1>4 DEF IsTable
  <2> HIDE DEF T
  <2> QED BY <2>1, <2>2
<1> DEFINE f == CHOOSE f : Is(f)
<1>6. Is(f)
  BY <1>5, Zenon
<1> HIDE DEF f
<1>7. f[{}] = base
  <2>1. {} \in T
    OBVIOUS
  <2> QED BY <1>6, <2>1
<1>8. ASSUME NEW j \in 0..Len(p) - 1, f[1..j] \in Formatters(D)
      PROVE  f[1..j + 1] = g[<<f[1..j], p[j + 1]>>]
  <2>1. j \in Nat /\ j + 1 \in 1..Len(s)
    BY <1>3
  <2>2. j + 1 \in 1..j + 1 /\ 1..j + 1 \subseteq 1..Len(s) /\ (1..j + 1) \ {j + 1} = 1..j
    BY <1>3, <2>1, SMTT(30)
  <2>3. 1..j + 1 \in T /\ 1..j + 1 # {} /\ p[j + 1] \in 1..Len(s)
    BY <1>3, <2>1, <2>2
  <2>4. Max(1..j + 1) = j + 1
    BY <2>1, <2>2, MaxIs
  <2> HIDE DEF T
  <2>5. f[1..j + 1] = Formats(s, args, f[1..j], p[j + 1])
    BY <1>6, <2>2, <2>3, <2>4
  <2> QED BY <1>2, <1>8, <2>3, <2>5
<1>9. f[DOMAIN p] = y
  <2>1. Leads(g, base, p, y)
    <3>1. PICK q : q[0] = base /\ q[Len(s)] = y /\ \A j \in 0..Len(s) - 1 : q[j + 1] = g[<<q[j], j + 1>>]
      BY DEF Walks, g, base
    <3>2. \A j \in 0..Len(p) - 1 : q[j + 1] = g[<<q[j], p[j + 1]>>]
      BY <1>3, <3>1
    <3> QED BY <1>3, <3>1, <3>2 DEF Leads
  <2>2. Climbs(f, Formatters(D), p, base, g)
    BY <1>7, <1>8 DEF Climbs
  <2>3. Leads(g, base, p, f[DOMAIN p])
    BY <1>2, <1>3, <2>2, TableLeads
  <2> HIDE DEF y
  <2> QED BY <1>3, <2>1, <2>3, LeadsOnce
<1>10. y.out = o
  BY DEF Formatter
<1> HIDE DEF y
<1> QED BY <1>1, <1>9, <1>10 DEF f

LEMMA MarkIs == Mark[1] # Mark[2] /\ Len(Mark) = 3
<1> DEFINE a == "$"
           b == "{"
           c == "}"
<1>1. a # b
  BY Zenon
<1> HIDE DEF a, b, c
<1> DEFINE m == <<a, b, c>>
<1>2. m[1] = a /\ m[2] = b /\ Len(m) = 3
  OBVIOUS
<1>3. Mark = m
  BY Zenon DEF Mark, a, b, c
<1> HIDE DEF m
<1>4. Mark[1] = a /\ Mark[2] = b /\ Len(Mark) = 3
  BY <1>2, <1>3
<1> QED BY <1>1, <1>4, Zenon

\* What follows a mark's first character in no mark.
LEMMA NoMark ==
  ASSUME NEW D, NEW s \in Seq(D), NEW i \in 1..Len(s), i + 2 <= Len(s) => s[i + 1] # Mark[2]
  PROVE  ~IsArgHere(s, i)
<1> SUFFICES ASSUME i + 2 <= Len(s), SubSeq(s, i, i + 2) = Mark PROVE FALSE
  BY DEF IsArgHere
<1> DEFINE w == SubSeq(s, i, i + 2)
<1>1. i \in Nat /\ i + 2 \in Nat /\ \A k \in i..i + 2 : s[k] \in D
  OBVIOUS
<1>2. \A k \in 1..(i + 2) - i + 1 : w[k] = s[i + k - 1]
  BY <1>1, SubSeqProperties
<1>3. w[2] = s[i + 1]
  <2>1. 2 \in 1..(i + 2) - i + 1 /\ i + 2 - 1 = i + 1
    BY <1>1
  <2> HIDE DEF w
  <2> QED BY <1>2, <2>1
<1>4. w = Mark
  OBVIOUS
<1> HIDE DEF w
<1> QED BY <1>3, <1>4, MarkIs

\* w is in s after b.
Stands(s, b, w) == \A j \in 1..Len(w) : s[b + j] = w[j]

LEMMA MarkHere ==
  ASSUME NEW D, NEW s \in Seq(D), NEW b \in Nat, b + 3 <= Len(s), Mark \in Seq(D), Stands(s, b, Mark)
  PROVE  IsArgHere(s, b + 1)
<1> DEFINE i == b + 1
           w == SubSeq(s, i, i + 2)
<1>1. i \in Nat /\ i + 2 \in Nat /\ i + 2 <= Len(s) /\ i <= i + 2 /\ (i + 2) - i + 1 = 3 /\ Len(s) \in Nat
  OBVIOUS
<1>2. \A k \in i..i + 2 : s[k] \in D
  <2> HIDE DEF i
  <2>1. \A k \in i..i + 2 : k \in 1..Len(s)
    <3>1. i > 0
      BY DEF i
    <3> QED BY <1>1, <3>1
  <2> QED BY <2>1
<1>3. w \in Seq(D) /\ Len(w) = 3 /\ \A k \in 1..3 : w[k] = s[i + k - 1]
  <2> HIDE DEF i
  <2> QED BY <1>1, <1>2, SubSeqProperties
<1> HIDE DEF w
<1>4. ASSUME NEW k \in 1..3 PROVE w[k] = Mark[k]
  <2>1. i + k - 1 = b + k /\ k \in 1..Len(Mark)
    BY MarkIs
  <2>2. s[b + k] = Mark[k]
    BY <2>1 DEF Stands
  <2> HIDE DEF i
  <2> QED BY <1>3, <2>1, <2>2
<1>5. w = Mark
  <2>1. Len(Mark) = 3
    BY MarkIs
  <2> HIDE DEF i
  <2> QED BY <1>3, <1>4, <2>1, SeqEqual
<1> HIDE DEF i
<1> QED BY <1>1, <1>5, Zenon DEF IsArgHere, w, i

\* Text is copied where there is no mark, or no argument for it.
LEMMA TextKept ==
  ASSUME NEW D, NEW s \in Seq(D), NEW args \in Seq(Seq(D)), NEW o \in Seq(D), NEW a \in Nat \ {0},
         NEW b \in Nat, NEW w \in Seq(D), b + Len(w) <= Len(s),
         Stands(s, b, w), a <= Len(args) => \A i \in b + 1..b + Len(w) : ~IsArgHere(s, i)
  PROVE  Walks(FormatStep(D, s, args), Formatter(o, a, 0), b, b + Len(w), Formatter(o \o w, a, 0))
<1> DEFINE g == FormatStep(D, s, args)
           c == b + Len(w)
           st == [k \in b..c |-> Formatter(o \o SubSeq(w, 1, k - b), a, 0)]
<1>1. Len(w) \in Nat /\ c \in Nat /\ Len(s) \in Nat
  OBVIOUS
<1>2. \A f \in Formatters(D), i \in 1..Len(s) : g[<<f, i>>] = Formats(s, args, f, i)
  BY FormatStepIs, ZenonT(40)
<1>3. \A k \in b..c : st[k] = Formatter(o \o SubSeq(w, 1, k - b), a, 0)
  OBVIOUS
<1>4. c - b = Len(w) /\ b - b = 0 /\ b \in b..c /\ c \in b..c
  BY <1>1
<1> HIDE DEF g, st
<1>5. ASSUME NEW k \in b..c - 1 PROVE st[k + 1] = g[<<st[k], k + 1>>]
  <2> DEFINE j == k - b
             v == o \o SubSeq(w, 1, j)
             x == s[k + 1]
  <2>1. k \in b..c /\ k + 1 \in b..c /\ j \in 0..Len(w) - 1 /\ j \in 0..Len(w) /\ (k + 1) - b = j + 1
        /\ j + 1 \in 1..Len(w) /\ b + (j + 1) = k + 1 /\ k + 1 \in 1..Len(s) /\ k + 1 \in b + 1..c
    BY <1>1
  <2>2. w[j + 1] = x /\ ~(IsArgHere(s, k + 1) /\ a <= Len(args))
    <3> HIDE DEF j, c
    <3>1. s[b + (j + 1)] = w[j + 1]
      BY <2>1 DEF Stands
    <3>2. a <= Len(args) => ~IsArgHere(s, k + 1)
      BY <2>1 DEF c
    <3> QED BY <2>1, <3>1, <3>2
  <2>3. v \in Seq(D) /\ o \o SubSeq(w, 1, j + 1) = Append(v, x)
    <3> HIDE DEF j
    <3>1. OneMoreSound(D, o, w, j)
      BY <2>1, OneMoreAt, Zenon
    <3> QED BY <2>2, <3>1, Zenon DEF OneMoreSound
  <2>4. st[k] = Formatter(v, a, 0) /\ st[k + 1] = Formatter(Append(v, x), a, 0)
    <3>1. st[k + 1] = Formatter(o \o SubSeq(w, 1, j + 1), a, 0)
      BY <1>3, <2>1, Zenon
    <3>2. st[k] = Formatter(v, a, 0)
      BY <1>3, <2>1, Zenon
    <3> HIDE DEF v, x, j
    <3> QED BY <2>3, <3>1, <3>2, Zenon
  <2> HIDE DEF v, j
  <2>5. Formatter(v, a, 0) \in Formatters(D)
    <3>1. 0 \in Nat
      OBVIOUS
    <3> QED BY <2>3, <3>1, FormatterTyped
  <2>6. ~(0 > 0)
    OBVIOUS
  <2>7. FormatFacts(s, args, v, a, 0, k + 1)
    BY FormatsTo
  <2>8. Formats(s, args, Formatter(v, a, 0), k + 1) = Formatter(Append(v, x), a, 0)
    BY <2>2, <2>6, <2>7, Zenon DEF FormatFacts
  <2>9. g[<<Formatter(v, a, 0), k + 1>>] = Formatter(Append(v, x), a, 0)
    BY <1>2, <2>1, <2>5, <2>8, Zenon
  <2> QED BY <2>4, <2>9, Zenon
<1>6. st[b] = Formatter(o, a, 0) /\ st[c] = Formatter(o \o w, a, 0)
  <2>1. o \o SubSeq(w, 1, 0) = o /\ o \o SubSeq(w, 1, Len(w)) = o \o w
    BY OneMoreEnds, Zenon
  <2> HIDE DEF c
  <2> QED BY <1>3, <1>4, <2>1, Zenon
<1> HIDE DEF c
<1>7. Walks(g, Formatter(o, a, 0), b, c, Formatter(o \o w, a, 0))
  BY <1>5, <1>6 DEF Walks
<1> QED BY <1>7 DEF g, c

\* An argument takes the place of a mark.
LEMMA MarkFilled ==
  ASSUME NEW D, NEW s \in Seq(D), NEW args \in Seq(Seq(D)), NEW o \in Seq(D), NEW a \in 1..Len(args),
         NEW b \in Nat, b + 3 <= Len(s), Mark \in Seq(D), Stands(s, b, Mark)
  PROVE  Walks(FormatStep(D, s, args), Formatter(o, a, 0), b, b + 3, Formatter(o \o args[a], a + 1, 0))
<1> DEFINE g == FormatStep(D, s, args)
           y == o \o args[a]
           n == a + 1
<1>1. y \in Seq(D) /\ a \in Nat \ {0} /\ n \in Nat \ {0} /\ a <= Len(args)
  OBVIOUS
<1>2. \A f \in Formatters(D), i \in 1..Len(s) : g[<<f, i>>] = Formats(s, args, f, i)
  BY FormatStepIs, ZenonT(40)
<1>3. b + 1 \in 1..Len(s) /\ b + 2 \in 1..Len(s) /\ b + 3 \in 1..Len(s)
  OBVIOUS
<1>4. IsArgHere(s, b + 1)
  BY MarkHere
<1> HIDE DEF g, y, n
<1>5. /\ Formatter(o, a, 0) \in Formatters(D) /\ Formatter(y, n, 2) \in Formatters(D)
      /\ Formatter(y, n, 1) \in Formatters(D)
  <2>1. 0 \in Nat /\ 1 \in Nat /\ 2 \in Nat
    OBVIOUS
  <2> QED BY <1>1, <2>1, FormatterTyped
<1>6. Formats(s, args, Formatter(o, a, 0), b + 1) = Formatter(y, n, 2)
  <2>1. ~(0 > 0)
    OBVIOUS
  <2>2. FormatFacts(s, args, o, a, 0, b + 1)
    BY FormatsTo
  <2> QED BY <1>1, <1>4, <2>1, <2>2, Zenon DEF FormatFacts, y, n
<1>7. Formats(s, args, Formatter(y, n, 2), b + 2) = Formatter(y, n, 1)
  <2>1. 2 > 0 /\ 2 - 1 = 1
    OBVIOUS
  <2>2. FormatFacts(s, args, y, n, 2, b + 2)
    BY FormatsTo
  <2> QED BY <2>1, <2>2, Zenon DEF FormatFacts
<1>8. Formats(s, args, Formatter(y, n, 1), b + 3) = Formatter(y, n, 0)
  <2>1. 1 > 0 /\ 1 - 1 = 0
    OBVIOUS
  <2>2. FormatFacts(s, args, y, n, 1, b + 3)
    BY FormatsTo
  <2> QED BY <2>1, <2>2, Zenon DEF FormatFacts
<1>9. /\ g[<<Formatter(o, a, 0), b + 1>>] = Formatter(y, n, 2)
      /\ g[<<Formatter(y, n, 2), b + 2>>] = Formatter(y, n, 1)
      /\ g[<<Formatter(y, n, 1), b + 3>>] = Formatter(y, n, 0)
  BY <1>2, <1>3, <1>5, <1>6, <1>7, <1>8, Zenon
<1>10. b + 1 \in Nat /\ b + 2 \in Nat /\ (b + 1) + 1 = b + 2 /\ (b + 2) + 1 = b + 3
  OBVIOUS
<1>11. Walks(g, Formatter(o, a, 0), b, b + 1, Formatter(y, n, 2))
  BY <1>9, WalksOne
<1>12. Walks(g, Formatter(y, n, 2), b + 1, b + 2, Formatter(y, n, 1))
  BY <1>9, <1>10, WalksOne
<1>13. Walks(g, Formatter(y, n, 1), b + 2, b + 3, Formatter(y, n, 0))
  BY <1>9, <1>10, WalksOne
<1>14. Walks(g, Formatter(o, a, 0), b, b + 2, Formatter(y, n, 1))
  BY <1>10, <1>11, <1>12, WalksOn
<1>15. Walks(g, Formatter(o, a, 0), b, b + 3, Formatter(y, n, 0))
  BY <1>10, <1>13, <1>14, WalksOn
<1> QED BY <1>15 DEF g, y, n

\* The sequences of a text: each piece with what follows it.
Fills(pieces, x) ==
  [i \in DOMAIN pieces |->
    pieces[i] \o IF i = Len(pieces) THEN <<>> ELSE IF i <= Len(x) THEN x[i] ELSE Mark]

FillsAs(D, f, pieces, x) ==
  /\ f \in Seq(Seq(D)) /\ Len(f) = Len(pieces)
  /\ \A i \in 1..Len(pieces) :
       /\ i = Len(pieces) => f[i] = pieces[i]
       /\ i < Len(pieces) /\ i <= Len(x) => f[i] = pieces[i] \o x[i]
       /\ i < Len(pieces) /\ ~(i <= Len(x)) => f[i] = pieces[i] \o Mark

LEMMA FillsIs ==
  ASSUME NEW D, Mark \in Seq(D), NEW pieces \in Seq(Seq(D)), NEW x \in Seq(Seq(D))
  PROVE  FillsAs(D, Fills(pieces, x), pieces, x)
<1> DEFINE e == <<>>
           then(i) == IF i = Len(pieces) THEN e ELSE IF i <= Len(x) THEN x[i] ELSE Mark
           f == [i \in DOMAIN pieces |-> pieces[i] \o then(i)]
<1>1. DOMAIN pieces = 1..Len(pieces) /\ Len(pieces) \in Nat /\ \A i \in 1..Len(pieces) : pieces[i] \in Seq(D)
  OBVIOUS
<1>2. Fills(pieces, x) = f
  BY Zenon DEF Fills
<1>3. e \in Seq(D) /\ \A y \in Seq(D) : y \o e = y
  BY ConcatEmptySeq
<1> HIDE DEF e
<1>4. ASSUME NEW i \in 1..Len(pieces) PROVE then(i) \in Seq(D)
  <2>1. i <= Len(x) => x[i] \in Seq(D)
    OBVIOUS
  <2> QED BY <1>3, <2>1, Zenon
<1>5. f \in Seq(Seq(D)) /\ Len(f) = Len(pieces) /\ \A i \in 1..Len(pieces) : f[i] = pieces[i] \o then(i)
  <2> HIDE DEF then
  <2> QED BY <1>1, <1>4
<1>6. \A i \in 1..Len(pieces) :
        /\ i = Len(pieces) => then(i) = e
        /\ i < Len(pieces) /\ i <= Len(x) => then(i) = x[i]
        /\ i < Len(pieces) /\ ~(i <= Len(x)) => then(i) = Mark
  <2> DEFINE n == Len(pieces)
  <2>0. n \in Nat
    BY <1>1
  <2> HIDE DEF n
  <2>1. \A i \in 1..n : i < n => i # n
    <3> HIDE DEF then, f
    <3> QED BY <2>0
  <2> QED BY <2>1, Zenon DEF n
<1> HIDE DEF then, f
<1>7. \A i \in 1..Len(pieces) : i = Len(pieces) => f[i] = pieces[i]
  BY <1>1, <1>3, <1>5, <1>6
<1>8. \A i \in 1..Len(pieces) :
        /\ i < Len(pieces) /\ i <= Len(x) => f[i] = pieces[i] \o x[i]
        /\ i < Len(pieces) /\ ~(i <= Len(x)) => f[i] = pieces[i] \o Mark
  BY <1>5, <1>6, Zenon
<1> QED BY <1>2, <1>5, <1>7, <1>8, Zenon DEF FillsAs

Associates(D) == \A x, y, z \in Seq(D) : (x \o y) \o z = x \o (y \o z)

LEMMA Associative ==
  ASSUME NEW D
  PROVE  Associates(D)
<1> SUFFICES ASSUME NEW x \in Seq(D), NEW y \in Seq(D), NEW z \in Seq(D)
             PROVE  (x \o y) \o z = x \o (y \o z)
  BY Zenon DEF Associates
<1> QED BY ConcatAssociative

LEMMA ThreeAfter ==
  ASSUME NEW D, NEW p \in Seq(D), NEW q \in Seq(D), Len(q) = 3
  PROVE  /\ Len(p \o q) = Len(p) + 3
         /\ \A j \in 1..Len(p) : (p \o q)[j] = p[j] /\ j \in 1..Len(p) + 3
         /\ \A j \in 1..3 : (p \o q)[Len(p) + j] = q[j] /\ Len(p) + j \in 1..Len(p) + 3
<1>0. /\ Len(p \o q) = Len(p) + Len(q)
      /\ \A i \in 1..Len(p) + Len(q) : (p \o q)[i] = IF i <= Len(p) THEN p[i] ELSE q[i - Len(p)]
  BY ConcatProperties, Zenon
<1>1. Len(p) \in Nat /\ Len(p \o q) = Len(p) + 3
  <2>1. Len(p) \in Nat
    OBVIOUS
  <2> QED BY <1>0, <2>1, Zenon
<1>2. ASSUME NEW j \in 1..Len(p) PROVE (p \o q)[j] = p[j]
  <2>1. j \in 1..Len(p) + Len(q) /\ j <= Len(p)
    OBVIOUS
  <2> QED BY <1>0, <2>1, Zenon
<1>3. ASSUME NEW j \in 1..3 PROVE (p \o q)[Len(p) + j] = q[j]
  <2>1. Len(p) + j \in 1..Len(p) + Len(q) /\ ~(Len(p) + j <= Len(p)) /\ (Len(p) + j) - Len(p) = j
    OBVIOUS
  <2> QED BY <1>0, <2>1, Zenon
<1> DEFINE n == Len(p)
<1>4. n \in Nat
  BY <1>1
<1> HIDE DEF n
<1>5. (\A j \in 1..n : j \in 1..n + 3) /\ \A j \in 1..3 : n + j \in 1..n + 3
  BY <1>4
<1> QED BY <1>1, <1>2, <1>3, <1>5, Zenon DEF n

LEMMA MarkAfter ==
  ASSUME NEW D, Mark \in Seq(D), NEW p \in Seq(D)
  PROVE  /\ Len(p \o Mark) = Len(p) + 3
         /\ \A j \in 1..Len(p) : (p \o Mark)[j] = p[j] /\ j \in 1..Len(p) + 3
         /\ \A j \in 1..3 : (p \o Mark)[Len(p) + j] = Mark[j] /\ Len(p) + j \in 1..Len(p) + 3
<1>1. Len(Mark) = 3
  BY MarkIs, Zenon
<1> QED BY <1>1, ThreeAfter, Zenon

\* Arguments go where the marks are, whatever the pieces and the arguments: only a piece
\* may not have the second character of a mark.
LEMMA PiecesFormatted ==
  ASSUME NEW D, Mark \in Seq(D), NEW pieces \in Seq(Seq(D \ {Mark[2]})), NEW args \in Seq(Seq(D))
  PROVE  Formatted(FlattenSeq(Fills(pieces, <<>>)), args) = FlattenSeq(Fills(pieces, args))
<1> DEFINE none == <<>>
           u == Fills(pieces, none)
           v == Fills(pieces, args)
           s == FlattenSeq(u)
           r == FlattenSeq(v)
           n == Len(pieces)
           m == Len(args)
           g == FormatStep(D, s, args)
<1>1. pieces \in Seq(Seq(D)) /\ n \in Nat /\ m \in Nat /\ none \in Seq(Seq(D)) /\ Len(none) = 0
      /\ \A k \in 1..n : pieces[k] \in Seq(D) /\ Len(pieces[k]) \in Nat
                         /\ \A j \in 1..Len(pieces[k]) : pieces[k][j] # Mark[2]
  <2>1. \A w \in Seq(D \ {Mark[2]}) : w \in Seq(D) /\ Len(w) \in Nat /\ \A j \in 1..Len(w) : w[j] # Mark[2]
    OBVIOUS
  <2>2. n \in Nat /\ \A k \in 1..n : pieces[k] \in Seq(D \ {Mark[2]})
    OBVIOUS
  <2>3. pieces \in Seq(Seq(D))
    BY <2>1, <2>2
  <2> QED BY <2>1, <2>2, <2>3
<1> HIDE DEF none, g
<1>0. FillsAs(D, u, pieces, none) /\ FillsAs(D, v, pieces, args)
  BY <1>1, FillsIs
<1> HIDE DEF n, m
<1>2. u \in Seq(Seq(D)) /\ v \in Seq(Seq(D)) /\ Len(u) = n /\ Len(v) = n
  BY <1>0, Zenon DEF FillsAs, n
<1>3. s \in Seq(D) /\ r \in Seq(D)
  BY <1>2, FlatType
<1>7. Associates(D)
  BY Associative, Zenon
<1>6. \A x, y, z \in Seq(D) : (x \o y) \o z = x \o (y \o z)
  BY <1>7, Zenon DEF Associates
<1> HIDE DEF u, v
<1>4. CASE n = 0
  <2>1. u = <<>> /\ v = <<>>
    BY <1>2, <1>4
  <2>2. s = <<>> /\ r = <<>>
    BY <2>1, FlatEmpty
  <2>3. Len(s) = 0
    BY <2>2
  <2>4. Walks(g, Formatter(<<>>, 1, 0), 0, 0, Formatter(<<>>, 1, 0))
    BY WalksNowhere
  <2> HIDE DEF s, r
  <2>5. Walks(FormatStep(D, s, args), Formatter(<<>>, 1, 0), 0, Len(s), Formatter(<<>>, 1, 0))
    BY <2>3, <2>4, Zenon DEF g
  <2>6. Formatted(s, args) = <<>>
    BY <1>3, <2>5, FormatsFold
  <2> QED BY <2>2, <2>6, Zenon DEF s, r, u, v, none
<1>5. CASE n # 0
  <2>0. u # <<>> /\ v # <<>> /\ n > 0
    BY <1>1, <1>2, <1>5
  <2>1. PICK f \in [0..Len(u) -> Seq(D)] : FlatAt(f, u, s)
    BY <1>2, <2>0, FlatPlaces
  <2>2. PICK h \in [0..Len(v) -> Seq(D)] : FlatAt(h, v, r)
    BY <1>2, <2>0, FlatPlaces
  <2> HIDE DEF s, r
  <2> DEFINE at == [k \in 0..n |-> Len(f[k])]
             from(k) == IF k - 1 <= m THEN k ELSE m + 1
             arg == [k \in 0..n |-> IF k = n THEN from(k) ELSE from(k + 1)]
             st == [k \in 0..n |-> Formatter(h[k], arg[k], 0)]
  <2>3. \A k \in 0..n : f[k] \in Seq(D) /\ h[k] \in Seq(D) /\ at[k] = Len(f[k]) /\ at[k] \in Nat
    <3>1. \A w \in Seq(D) : Len(w) \in Nat
      OBVIOUS
    <3> QED BY <1>2, <2>1, <2>2, <3>1
  <2>4. \A k \in 1..n :
          /\ h[k] = h[k - 1] \o v[k] /\ at[k] = at[k - 1] + Len(u[k]) /\ at[k] <= Len(s) /\ Stands(s, at[k - 1], u[k])
    <3> SUFFICES ASSUME NEW k \in 1..n
                 PROVE  /\ h[k] = h[k - 1] \o v[k] /\ at[k] = at[k - 1] + Len(u[k]) /\ at[k] <= Len(s)
                        /\ Stands(s, at[k - 1], u[k])
      OBVIOUS
    <3>1. k \in 0..n /\ k - 1 \in 0..n
      BY <1>1
    <3>2. at[k] = Len(f[k]) /\ at[k - 1] = Len(f[k - 1])
      BY <2>3, <3>1
    <3>3. h[k] = h[k - 1] \o v[k]
      BY <1>2, <2>2 DEF FlatAt
    <3>4. Len(f[k]) = Len(f[k - 1]) + Len(u[k]) /\ Len(f[k]) <= Len(s)
          /\ \A j \in 1..Len(u[k]) : s[Len(f[k - 1]) + j] = u[k][j]
      BY <1>2, <2>1 DEF FlatAt
    <3>5. Stands(s, Len(f[k - 1]), u[k])
      BY <3>4, Zenon DEF Stands
    <3> HIDE DEF at
    <3> QED BY <3>2, <3>3, <3>4, <3>5, Zenon
  <2>5. at[0] = 0 /\ at[n] = Len(s) /\ h[0] = <<>> /\ h[n] = r
    <3>1. 0 \in 0..n /\ n \in 0..n
      BY <1>1
    <3>2. f[0] = <<>> /\ f[n] = s /\ h[0] = <<>> /\ h[n] = r
      BY <1>2, <2>1, <2>2 DEF FlatAt
    <3> QED BY <3>1, <3>2
  <2>6. \A k \in 0..n : st[k] = Formatter(h[k], arg[k], 0)
    OBVIOUS
  <2>7. \A k \in 0..n : arg[k] \in Nat
    BY <1>1
  <2>8. \A k \in 1..n :
          /\ arg[k - 1] = IF k - 1 <= m THEN k ELSE m + 1
          /\ k = n => arg[k] = arg[k - 1]
          /\ k < n => arg[k] = IF k <= m THEN k + 1 ELSE m + 1
    BY <1>1
  <2> HIDE DEF at, arg, st, from
  <2>9. ASSUME NEW k \in 1..n PROVE at[k - 1] <= at[k] /\ Walks(g, st[k - 1], at[k - 1], at[k], st[k])
    <3> DEFINE b == at[k - 1]
               p == pieces[k]
               o == h[k - 1]
               a == arg[k - 1]
    <3>1. k \in 0..n /\ k - 1 \in 0..n /\ k \in Nat
      BY <1>1
    <3>2. b \in Nat /\ p \in Seq(D) /\ Len(p) \in Nat /\ o \in Seq(D) /\ a \in Nat \ {0} /\ u[k] \in Seq(D)
      <4>1. a = IF k - 1 <= m THEN k ELSE m + 1
        BY <2>8, Zenon
      <4> HIDE DEF a
      <4>2. k \in Nat \ {0} /\ m + 1 \in Nat \ {0}
        BY <1>1
      <4>3. a \in Nat \ {0}
        BY <4>1, <4>2, Zenon
      <4>4. b \in Nat /\ o \in Seq(D)
        BY <2>3, <3>1
      <4>5. p \in Seq(D) /\ Len(p) \in Nat
        BY <1>1
      <4>6. u[k] \in Seq(D)
        BY <1>2
      <4> QED BY <4>3, <4>4, <4>5, <4>6
    <3>3. Len(u[k]) \in Nat
      BY <3>2
    <3>4. /\ k = n => u[k] = p /\ v[k] = p
          /\ k < n => u[k] = p \o Mark
          /\ k < n /\ k <= m => v[k] = p \o args[k]
          /\ k < n /\ ~(k <= m) => v[k] = p \o Mark
      <4>1. ~(k <= Len(none))
        BY <1>1, <3>1
      <4>2. /\ k = n => u[k] = pieces[k]
            /\ k < n /\ k <= Len(none) => u[k] = pieces[k] \o none[k]
            /\ k < n /\ ~(k <= Len(none)) => u[k] = pieces[k] \o Mark
        BY <1>0, Zenon DEF FillsAs, n
      <4>3. /\ k = n => v[k] = pieces[k]
            /\ k < n /\ k <= m => v[k] = pieces[k] \o args[k]
            /\ k < n /\ ~(k <= m) => v[k] = pieces[k] \o Mark
        BY <1>0, Zenon DEF FillsAs, n, m
      <4> QED BY <4>1, <4>2, <4>3, Zenon
    <3>5. k = n \/ k < n
      BY <1>1
    <3>6. b + Len(u[k]) <= Len(s) /\ b <= at[k] /\ at[k] = b + Len(u[k])
      <4>1. at[k] = b + Len(u[k]) /\ at[k] <= Len(s)
        BY <2>4
      <4> HIDE DEF b
      <4> QED BY <3>2, <3>3, <4>1
    <3>7. Len(u[k]) = IF k < n THEN Len(p) + 3 ELSE Len(p)
      <4>1. Len(p \o Mark) = Len(p) + 3
        BY <3>2, MarkAfter, Zenon
      <4> QED BY <3>4, <3>5, <4>1, Zenon
    <3>8. Stands(s, b, p) /\ (k < n => Stands(s, b + Len(p), Mark))
      <4>1. Stands(s, b, u[k])
        BY <2>4
      <4> HIDE DEF b, p
      <4>2. CASE k = n
        BY <3>4, <4>1, <4>2
      <4>3. CASE k < n
        <5>1. Len(Mark) = 3
          BY MarkIs, Zenon
        <5>2. /\ \A j \in 1..Len(p) : (p \o Mark)[j] = p[j] /\ j \in 1..Len(p) + 3
              /\ \A j \in 1..3 : (p \o Mark)[Len(p) + j] = Mark[j] /\ Len(p) + j \in 1..Len(p) + 3
          BY <3>2, MarkAfter, Zenon
        <5>3. \A j \in 1..Len(p) + 3 : s[b + j] = u[k][j]
          BY <3>7, <4>1, <4>3 DEF Stands
        <5>4. u[k] = p \o Mark
          BY <3>4, <4>3
        <5>5. Stands(s, b, p)
          BY <5>2, <5>3, <5>4, Zenon DEF Stands
        <5>6. ASSUME NEW j \in 1..3 PROVE s[(b + Len(p)) + j] = Mark[j]
          <6>1. s[b + (Len(p) + j)] = Mark[j]
            BY <5>2, <5>3, <5>4, Zenon
          <6>2. b + (Len(p) + j) = (b + Len(p)) + j
            BY <3>2
          <6> QED BY <6>1, <6>2, Zenon
        <5> QED BY <5>1, <5>5, <5>6, Zenon DEF Stands
      <4> QED BY <3>5, <4>2, <4>3
    <3>9. \A i \in b + 1..b + Len(p) : ~IsArgHere(s, i)
      <4> HIDE DEF b, p
      <4> SUFFICES ASSUME NEW i \in b + 1..b + Len(p) PROVE ~IsArgHere(s, i)
        OBVIOUS
      <4> DEFINE j == i - b
      <4>1. j \in 1..Len(p) /\ b + j = i /\ Len(s) \in Nat /\ i \in Nat
        BY <1>3, <3>2
      <4>2. i \in 1..Len(s)
        BY <1>3, <3>2, <3>3, <3>5, <3>6, <3>7, <4>1
      <4>3. ASSUME i + 2 <= Len(s) PROVE s[i + 1] # Mark[2]
        <5>1. CASE j < Len(p)
          <6>1. j + 1 \in 1..Len(p) /\ b + (j + 1) = i + 1
            BY <3>2, <4>1, <5>1
          <6> HIDE DEF j
          <6>2. s[b + (j + 1)] = p[j + 1]
            BY <3>8, <6>1 DEF Stands
          <6>3. p[j + 1] # Mark[2]
            BY <1>1, <6>1 DEF p
          <6> QED BY <6>1, <6>2, <6>3
        <5>2. CASE j = Len(p) /\ k < n
          <6>1. 1 \in 1..Len(Mark) /\ (b + Len(p)) + 1 = i + 1
            BY <3>2, <4>1, <5>2, MarkIs
          <6>2. s[(b + Len(p)) + 1] = Mark[1]
            BY <3>8, <5>2, <6>1, Zenon DEF Stands
          <6> QED BY <6>1, <6>2, MarkIs
        <5>3. CASE j = Len(p) /\ k = n
          <6>1. at[k] = Len(s)
            BY <2>5, <5>3
          <6>2. Len(s) = i
            BY <3>2, <3>6, <3>7, <4>1, <5>3, <6>1
          <6> QED BY <4>1, <4>3, <6>2
        <5>4. j < Len(p) \/ j = Len(p)
          <6>1. j \in 1..Len(p) /\ Len(p) \in Nat
            BY <3>2, <4>1
          <6> HIDE DEF j
          <6> QED BY <6>1
        <5> QED BY <3>5, <5>1, <5>2, <5>3, <5>4, Zenon
      <4> HIDE DEF j
      <4> QED BY <1>3, <4>2, <4>3, NoMark
    <3>10. st[k - 1] = Formatter(o, a, 0) /\ st[k] = Formatter(o \o v[k], arg[k], 0)
      <4>1. h[k] = o \o v[k]
        BY <2>4
      <4>2. st[k - 1] = Formatter(o, a, 0) /\ st[k] = Formatter(h[k], arg[k], 0)
        BY <2>6, <3>1
      <4> HIDE DEF o, a
      <4> QED BY <4>1, <4>2, Zenon
    <3>11. /\ a = IF k - 1 <= m THEN k ELSE m + 1
           /\ k = n => arg[k] = a
           /\ k < n => arg[k] = IF k <= m THEN k + 1 ELSE m + 1
      BY <2>8
    <3> HIDE DEF b, p, o, a
    <3>12. b + Len(p) <= Len(s) /\ b + Len(p) \in Nat /\ (k < n => (b + Len(p)) + 3 <= Len(s) /\ at[k] = (b + Len(p)) + 3)
           /\ (k = n => at[k] = b + Len(p)) /\ Len(s) \in Nat
      BY <1>3, <3>2, <3>3, <3>5, <3>6, <3>7
    <3>13. Walks(g, Formatter(o, a, 0), b, b + Len(p), Formatter(o \o p, a, 0))
      BY <1>3, <3>2, <3>8, <3>9, <3>12, TextKept DEF g, m
    <3>14. CASE k = n
      <4>1. st[k] = Formatter(o \o p, a, 0) /\ at[k] = b + Len(p)
        BY <3>4, <3>10, <3>11, <3>12, <3>14, Zenon
      <4> QED BY <3>6, <3>10, <3>13, <4>1, Zenon DEF b
    <3> DEFINE c == b + Len(p)
               w == o \o p
    <3>15. c \in Nat /\ w \in Seq(D) /\ b <= c
      BY <3>2, <3>12
    <3>16. CASE k < n /\ k <= m
      <4>1. a = k /\ a \in 1..Len(args)
        BY <1>1, <3>1, <3>2, <3>11, <3>16 DEF m
      <4>2. c + 3 <= Len(s) /\ Stands(s, c, Mark)
        BY <3>8, <3>12, <3>16
      <4> HIDE DEF c, w
      <4>3. Walks(g, Formatter(w, a, 0), c, c + 3, Formatter(w \o args[a], a + 1, 0))
        BY <1>3, <3>15, <4>1, <4>2, MarkFilled DEF g, m
      <4>4. Walks(g, Formatter(o, a, 0), b, c, Formatter(w, a, 0))
        BY <3>13, Zenon DEF c, w
      <4>5. Walks(g, Formatter(o, a, 0), b, c + 3, Formatter(w \o args[a], a + 1, 0))
        <5>1. c + 3 \in Nat /\ c <= c + 3
          BY <3>15
        <5> QED BY <3>2, <3>15, <4>3, <4>4, <5>1, WalksOn
      <4>6. w \o args[a] = o \o v[k]
        <5>1. v[k] = p \o args[a] /\ args[a] \in Seq(D)
          BY <3>4, <3>16, <4>1
        <5>2. (o \o p) \o args[a] = o \o (p \o args[a])
          <6>1. o \in Seq(D) /\ p \in Seq(D)
            BY <3>2
          <6> HIDE DEF o, p
          <6> QED BY <1>6, <5>1, <6>1, Zenon
        <5> QED BY <5>1, <5>2, Zenon DEF w
      <4>7. arg[k] = a + 1
        BY <3>11, <3>16, <4>1
      <4>8. st[k] = Formatter(w \o args[a], a + 1, 0) /\ at[k] = c + 3
        BY <3>10, <3>12, <3>16, <4>6, <4>7, Zenon DEF c
      <4> QED BY <3>6, <3>10, <4>5, <4>8, Zenon DEF b
    <3>17. CASE k < n /\ ~(k <= m)
      <4>1. ~(a <= m) /\ arg[k] = a
        BY <1>1, <3>1, <3>2, <3>11, <3>17
      <4>2. c + Len(Mark) <= Len(s) /\ Stands(s, c, Mark) /\ at[k] = c + Len(Mark) /\ c + Len(Mark) \in Nat
            /\ c <= c + Len(Mark)
        <5>1. Len(Mark) = 3
          BY MarkIs, Zenon
        <5>2. c \in Nat /\ c + 3 <= Len(s) /\ at[k] = c + 3
          BY <3>12, <3>17
        <5>3. Stands(s, c, Mark)
          BY <3>8, <3>17, Zenon DEF c
        <5> HIDE DEF c
        <5>4. c + 3 \in Nat /\ c <= c + 3
          BY <5>2
        <5> QED BY <5>1, <5>2, <5>3, <5>4, Zenon
      <4> HIDE DEF c, w
      <4>3. Walks(g, Formatter(w, a, 0), c, c + Len(Mark), Formatter(w \o Mark, a, 0))
        BY <1>3, <3>2, <3>15, <4>1, <4>2, TextKept DEF g, m
      <4>4. Walks(g, Formatter(o, a, 0), b, c, Formatter(w, a, 0))
        BY <3>13, Zenon DEF c, w
      <4>5. Walks(g, Formatter(o, a, 0), b, c + Len(Mark), Formatter(w \o Mark, a, 0))
        BY <3>2, <3>15, <4>2, <4>3, <4>4, WalksOn
      <4>6. w \o Mark = o \o v[k]
        <5>1. v[k] = p \o Mark
          BY <3>4, <3>17
        <5>2. (o \o p) \o Mark = o \o (p \o Mark)
          <6>1. o \in Seq(D) /\ p \in Seq(D)
            BY <3>2
          <6> HIDE DEF o, p
          <6> QED BY <1>6, <6>1, Zenon
        <5> QED BY <5>1, <5>2, Zenon DEF w
      <4>7. st[k] = Formatter(w \o Mark, a, 0)
        BY <3>10, <4>1, <4>6, Zenon
      <4> QED BY <3>6, <3>10, <4>2, <4>5, <4>7, Zenon DEF b
    <3> QED BY <3>5, <3>14, <3>16, <3>17
  <2>10. Walks(g, st[0], 0, at[n], st[n])
    BY <1>1, <2>3, <2>5, <2>9, WalksEach
  <2>11. st[0] = Formatter(<<>>, 1, 0) /\ st[n] = Formatter(r, arg[n], 0)
    <3>1. 0 \in 0..n /\ n \in 0..n /\ 1 \in 1..n /\ 1 - 1 = 0 /\ 0 <= m
      BY <1>1, <2>0
    <3>2. arg[0] = 1
      BY <2>8, <3>1
    <3> QED BY <2>5, <2>6, <3>1, <3>2, Zenon
  <2>12. Walks(FormatStep(D, s, args), Formatter(<<>>, 1, 0), 0, Len(s), Formatter(r, arg[n], 0))
    BY <2>5, <2>10, <2>11, Zenon DEF g
  <2>13. Formatted(s, args) = r
    BY <1>3, <2>12, FormatsFold
  <2> QED BY <2>13, Zenon DEF s, r, u, v, none
<1> QED BY <1>4, <1>5

-----------------------------------------------------------------------------
(* SMCLLexer.                                                              *)

Lexer(mode, word, tokens) == [mode |-> mode, word |-> word, tokens |-> tokens]
AtEase(o)   == Lexer("skip", <<>>, o)
QuoteMark   == "\""
EscapeMark  == "\\"
NumberOf(w) == FoldLeft(LAMBDA n, c : n * 10 + Digit[c], 0, w)
WordToken(w) == IF w \in DOMAIN KeywordOf THEN Lexeme(KeywordOf[w], w) ELSE Lexeme("Identifier", w)

\* D has what is written around texts and what an escape stands for.
Writable(D) ==
  {"\"", "\\", "n", "t", "v", "f", "?"} \cup Blanks \cup SimpleChars \cup DOMAIN Digit \subseteq D

Modes == {"skip", "word", "number", "string", "escaped"}
Lexemes(D) ==
  {Lexeme(c, <<c>>) : c \in SimpleChars} \cup {WordToken(w) : w \in Seq(D)}
  \cup {Lexeme("Number", NumberOf(w)) : w \in Seq(D)} \cup {Lexeme("String", w) : w \in Seq(D)}
Lexers(D)  == [mode : Modes, word : Seq(D), tokens : Seq(Lexemes(D))]
LexStep(D) == [x \in Lexers(D) \X D |-> Lexes(x[1], x[2])]

LEMMA LexerIs ==
  ASSUME NEW D, NEW x \in Lexers(D)
  PROVE  \E m \in Modes, w \in Seq(D), o \in Seq(Lexemes(D)) : x = Lexer(m, w, o)
<1>1. x = Lexer(x.mode, x.word, x.tokens)
  BY DEF Lexers, Lexer
<1>2. x.mode \in Modes /\ x.word \in Seq(D) /\ x.tokens \in Seq(Lexemes(D))
  BY DEF Lexers
<1> QED BY <1>1, <1>2, Zenon

LEMMA LexerTyped ==
  ASSUME NEW D, NEW m \in Modes, NEW w \in Seq(D), NEW o \in Seq(Lexemes(D))
  PROVE  Lexer(m, w, o) \in Lexers(D)
  BY DEF Lexers, Lexer

LEMMA LexerParts ==
  ASSUME NEW m, NEW w, NEW o
  PROVE  Lexer(m, w, o).mode = m /\ Lexer(m, w, o).word = w /\ Lexer(m, w, o).tokens = o
  BY DEF Lexer

\* What the changes of several members give.
Added(x, t) == [x EXCEPT !.mode = "skip", !.word = <<>>, !.tokens = Append(@, t)]

LEMMA TokenAdded ==
  ASSUME NEW m, NEW w, NEW o, NEW t
  PROVE  Added(Lexer(m, w, o), t) = AtEase(Append(o, t))
<1> DEFINE x == Lexer(m, w, o)
           e == <<>>
           p == Append(o, t)
           k == "skip"
<1>1. x.tokens = o
  BY LexerParts
<1> HIDE DEF e, p, k
<1>2. [x EXCEPT !.mode = k] = Lexer(k, w, o)
  BY DEF Lexer
<1>3. [Lexer(k, w, o) EXCEPT !.word = e] = Lexer(k, e, o)
  BY DEF Lexer
<1>4. [Lexer(k, e, o) EXCEPT !.tokens = p] = Lexer(k, e, p)
  BY DEF Lexer
<1> HIDE DEF x
<1> QED BY <1>1, <1>2, <1>3, <1>4, Zenon DEF x, e, p, k, AtEase, Added

\* What ends a token.
Builds(m, w, o) ==
  /\ m = "word" => Built(Lexer(m, w, o)) = AtEase(Append(o, WordToken(w)))
  /\ m = "number" => Built(Lexer(m, w, o)) = AtEase(Append(o, Lexeme("Number", NumberOf(w))))
  /\ m \notin {"word", "number"} => Built(Lexer(m, w, o)) = Lexer(m, w, o)

LEMMA BuiltIs ==
  ASSUME NEW m, NEW w, NEW o
  PROVE  Builds(m, w, o)
<1> DEFINE x == Lexer(m, w, o)
<1>1. x.mode = m /\ x.word = w
  BY LexerParts
<1>2. ASSUME m = "word" PROVE Built(x) = AtEase(Append(o, WordToken(w)))
  <2>1. Added(x, WordToken(w)) = AtEase(Append(o, WordToken(w)))
    BY TokenAdded, ZenonT(40)
  <2> HIDE DEF x
  <2> QED BY <1>1, <1>2, <2>1, Zenon DEF Built, WordToken, Added
<1>3. ASSUME m = "number" PROVE Built(x) = AtEase(Append(o, Lexeme("Number", NumberOf(w))))
  <2>1. Added(x, Lexeme("Number", NumberOf(w))) = AtEase(Append(o, Lexeme("Number", NumberOf(w))))
    BY TokenAdded, ZenonT(40)
  <2> HIDE DEF x
  <2> QED BY <1>1, <1>3, <2>1, Zenon DEF Built, NumberOf, Added
<1>4. ASSUME m \notin {"word", "number"} PROVE Built(x) = x
  <2> HIDE DEF x
  <2> QED BY <1>1, <1>4, Zenon DEF Built
<1> QED BY <1>2, <1>3, <1>4, Zenon DEF Builds

BegunWith(x, k, v) == [x EXCEPT !.mode = k, !.word = v]

LEMMA TokenBegun ==
  ASSUME NEW m, NEW w, NEW o, NEW k, NEW v
  PROVE  BegunWith(Lexer(m, w, o), k, v) = Lexer(k, v, o)
<1> DEFINE x == Lexer(m, w, o)
<1>1. [x EXCEPT !.mode = k] = Lexer(k, w, o)
  BY DEF Lexer
<1>2. [Lexer(k, w, o) EXCEPT !.word = v] = Lexer(k, v, o)
  BY DEF Lexer
<1> HIDE DEF x
<1> QED BY <1>1, <1>2, Zenon DEF x, BegunWith

WithToken(x, t) == [x EXCEPT !.tokens = Append(@, t)]
WithChar(x, c)  == [x EXCEPT !.word = Append(@, c)]

LEMMA TokenWhole ==
  ASSUME NEW m, NEW w, NEW o, NEW t
  PROVE  WithToken(Lexer(m, w, o), t) = Lexer(m, w, Append(o, t))
<1> DEFINE x == Lexer(m, w, o)
           p == Append(o, t)
<1>1. x.tokens = o
  BY LexerParts
<1> HIDE DEF p
<1>2. [x EXCEPT !.tokens = p] = Lexer(m, w, p)
  BY DEF Lexer
<1> HIDE DEF x
<1> QED BY <1>1, <1>2, Zenon DEF x, p, WithToken

LEMMA WordGrown ==
  ASSUME NEW m, NEW w, NEW o, NEW c
  PROVE  WithChar(Lexer(m, w, o), c) = Lexer(m, Append(w, c), o)
<1> DEFINE x == Lexer(m, w, o)
           p == Append(w, c)
<1>1. x.word = w
  BY LexerParts
<1> HIDE DEF p
<1>2. [x EXCEPT !.word = p] = Lexer(m, p, o)
  BY DEF Lexer
<1> HIDE DEF x
<1> QED BY <1>1, <1>2, Zenon DEF x, p, WithChar

\* How a token begins.
StartsWith(m, w, o, c) ==
  LET y == StartsToken(Lexer(m, w, o), c) IN
  /\ c \in Blanks => y = Lexer(m, w, o)
  /\ c \in SimpleChars => y = Lexer(m, w, Append(o, Lexeme(c, <<c>>)))
  /\ c = QuoteMark => y = Lexer("string", <<>>, o)
  /\ c \in DOMAIN Digit => y = Lexer("number", <<c>>, o)
  /\ c \notin Blanks \cup SimpleChars \cup DOMAIN Digit \cup {QuoteMark} => y = Lexer("word", <<c>>, o)

LEMMA DigitsAre ==
  /\ DOMAIN Digit = {"0", "1", "2", "3", "4", "5", "6", "7", "8", "9"}
  /\ \A n \in 0..9 : DigitOf[n] \in DOMAIN Digit /\ Digit[DigitOf[n]] = n
  /\ \A c \in DOMAIN Digit : Digit[c] \in Nat
<1>1. /\ DigitOf[0] = "0" /\ DigitOf[1] = "1" /\ DigitOf[2] = "2" /\ DigitOf[3] = "3"
      /\ DigitOf[4] = "4" /\ DigitOf[5] = "5" /\ DigitOf[6] = "6" /\ DigitOf[7] = "7"
      /\ DigitOf[8] = "8" /\ DigitOf[9] = "9"
  BY DEF DigitOf
<1>2. \A n \in 0..9 : n \in {0, 1, 2, 3, 4, 5, 6, 7, 8, 9}
  OBVIOUS
<1>3. 0..9 = {0, 1, 2, 3, 4, 5, 6, 7, 8, 9}
  OBVIOUS
<1>4. \A n, m \in 0..9 : DigitOf[n] = DigitOf[m] => n = m
  BY <1>1, <1>2
<1>5. DOMAIN Digit = {DigitOf[n] : n \in 0..9}
  BY Zenon DEF Digit
<1>6. DOMAIN Digit = {"0", "1", "2", "3", "4", "5", "6", "7", "8", "9"}
  BY <1>1, <1>3, <1>5
<1>7. ASSUME NEW n \in 0..9 PROVE DigitOf[n] \in DOMAIN Digit /\ Digit[DigitOf[n]] = n
  <2> DEFINE c == DigitOf[n]
             m == CHOOSE k \in 0..9 : DigitOf[k] = c
  <2>1. c \in DOMAIN Digit
    BY <1>5
  <2>2. Digit[c] = m
    BY <1>5, <2>1, Zenon DEF Digit
  <2>3. m \in 0..9 /\ DigitOf[m] = c
    BY Zenon
  <2>4. m = n
    BY <1>4, <2>3, Zenon
  <2> QED BY <2>1, <2>2, <2>4, Zenon
<1>8. ASSUME NEW c \in DOMAIN Digit PROVE Digit[c] \in Nat
  <2>1. PICK n \in 0..9 : c = DigitOf[n]
    BY <1>5, Zenon
  <2>2. Digit[c] = n
    BY <1>7, <2>1, Zenon
  <2> QED BY <2>2
<1> QED BY <1>6, <1>7, <1>8, Zenon

LEMMA Apart ==
  /\ \A c \in SimpleChars : c \notin Blanks /\ c # QuoteMark /\ c \notin DOMAIN Digit
  /\ \A c \in DOMAIN Digit : c \notin Blanks /\ c # QuoteMark /\ c \notin SimpleChars
  /\ QuoteMark \notin Blanks \cup SimpleChars \cup DOMAIN Digit /\ QuoteMark # EscapeMark
  /\ EscapeMark \notin Blanks \cup SimpleChars \cup DOMAIN Digit
<1>1. DOMAIN Digit = {"0", "1", "2", "3", "4", "5", "6", "7", "8", "9"}
  BY DigitsAre, Zenon
<1>2. \A c \in SimpleChars : c \notin Blanks /\ c # QuoteMark /\ c \notin DOMAIN Digit
  BY <1>1, Zenon DEF SimpleChars, Blanks, VerticalTab, QuoteMark
<1>3. \A c \in DOMAIN Digit : c \notin Blanks /\ c # QuoteMark /\ c \notin SimpleChars
  BY <1>1, Zenon DEF SimpleChars, Blanks, VerticalTab, QuoteMark
<1>4. QuoteMark \notin Blanks \cup SimpleChars \cup DOMAIN Digit /\ QuoteMark # EscapeMark
  BY <1>1, Zenon DEF SimpleChars, Blanks, VerticalTab, QuoteMark, EscapeMark
<1>5. EscapeMark \notin Blanks \cup SimpleChars \cup DOMAIN Digit
  BY <1>1, Zenon DEF SimpleChars, Blanks, VerticalTab, EscapeMark
<1> QED BY <1>2, <1>3, <1>4, <1>5, Zenon

LEMMA StartsIs ==
  ASSUME NEW m, NEW w, NEW o, NEW c
  PROVE  StartsWith(m, w, o, c)
<1> DEFINE x == Lexer(m, w, o)
           kind == IF c = QuoteMark THEN "string" ELSE IF c \in DOMAIN Digit THEN "number" ELSE "word"
           first == IF c = QuoteMark THEN <<>> ELSE <<c>>
<1>1. c \in Blanks => StartsToken(x, c) = x
  BY Zenon DEF StartsToken
<1>2. c \in SimpleChars => StartsToken(x, c) = Lexer(m, w, Append(o, Lexeme(c, <<c>>)))
  <2> DEFINE t == Lexeme(c, <<c>>)
  <2> HIDE DEF t
  <2>1. WithToken(x, t) = Lexer(m, w, Append(o, t))
    BY TokenWhole
  <2> HIDE DEF x
  <2> QED BY <2>1, Apart, Zenon DEF StartsToken, WithToken, t
<1>3. c \notin Blanks \cup SimpleChars => StartsToken(x, c) = BegunWith(x, kind, first)
  <2> HIDE DEF x
  <2> QED BY Zenon DEF StartsToken, BegunWith, QuoteMark
<1>4. BegunWith(x, kind, first) = Lexer(kind, first, o)
  <2> HIDE DEF kind, first
  <2> QED BY TokenBegun
<1>5. c = QuoteMark => kind = "string" /\ first = <<>>
  BY Zenon
<1>6. c \in DOMAIN Digit => kind = "number" /\ first = <<c>>
  BY Apart, Zenon
<1>7. c \notin DOMAIN Digit /\ c # QuoteMark => kind = "word" /\ first = <<c>>
  BY Zenon
<1> HIDE DEF x, kind, first
<1>8. c = QuoteMark => StartsToken(x, c) = Lexer("string", <<>>, o)
  BY <1>3, <1>4, <1>5, Apart, Zenon
<1>9. c \in DOMAIN Digit => StartsToken(x, c) = Lexer("number", <<c>>, o)
  BY <1>3, <1>4, <1>6, Apart, Zenon
<1>10. c \notin Blanks \cup SimpleChars \cup DOMAIN Digit \cup {QuoteMark} => StartsToken(x, c) = Lexer("word", <<c>>, o)
  BY <1>3, <1>4, <1>7, Zenon
<1> QED BY <1>1, <1>2, <1>8, <1>9, <1>10, Zenon DEF StartsWith, x

\* What the lexer does with a character.
LexFacts(m, w, o, c) ==
  LET y == Lexes(Lexer(m, w, o), c) IN
  /\ m = "escaped" => y = Lexer("string", Append(w, EscapeChar(c)), o)
  /\ m = "string" /\ c = EscapeMark => y = Lexer("escaped", w, o)
  /\ m = "string" /\ c = QuoteMark => y = AtEase(Append(o, Lexeme("String", w)))
  /\ m = "string" /\ c # EscapeMark /\ c # QuoteMark => y = Lexer("string", Append(w, c), o)
  /\ m = "word" /\ c \notin Blanks \cup SimpleChars => y = Lexer("word", Append(w, c), o)
  /\ m = "number" /\ c \in DOMAIN Digit => y = Lexer("number", Append(w, c), o)
  /\ \/ m = "skip"
     \/ m = "word" /\ c \in Blanks \cup SimpleChars
     \/ m = "number" /\ c \notin DOMAIN Digit
     => y = StartsToken(Built(Lexer(m, w, o)), c)

LEMMA LexesTo ==
  ASSUME NEW m, NEW w, NEW o, NEW c
  PROVE  LexFacts(m, w, o, c)
<1> DEFINE x == Lexer(m, w, o)
<1>1. x.mode = m
  BY LexerParts
<1>2. ASSUME m = "escaped" PROVE Lexes(x, c) = Lexer("string", Append(w, EscapeChar(c)), o)
  <2> DEFINE n == EscapeChar(c)
             k == "string"
             p == Append(w, n)
  <2>0. x.word = w
    BY LexerParts
  <2> HIDE DEF n, k, p
  <2>1. BegunWith(x, k, p) = Lexer(k, p, o)
    BY TokenBegun
  <2> HIDE DEF x
  <2>2. Lexes(x, c) = [x EXCEPT !.mode = "string", !.word = Append(@, EscapeChar(c))]
    BY <1>1, <1>2, Zenon DEF Lexes
  <2> QED BY <2>0, <2>1, <2>2, Zenon DEF BegunWith, n, k, p
<1>3. ASSUME m = "string", c = EscapeMark PROVE Lexes(x, c) = Lexer("escaped", w, o)
  <2> DEFINE k == "escaped"
  <2> HIDE DEF k
  <2>1. [x EXCEPT !.mode = k] = Lexer(k, w, o)
    BY DEF Lexer
  <2>2. c = "\\" /\ x.mode = "string"
    BY <1>1, <1>3, Zenon DEF EscapeMark
  <2> HIDE DEF x
  <2>3. Lexes(x, c) = [x EXCEPT !.mode = "escaped"]
    BY <2>2, Zenon DEF Lexes
  <2> QED BY <2>1, <2>3, Zenon DEF k
<1>4. ASSUME m = "string", c = QuoteMark PROVE Lexes(x, c) = AtEase(Append(o, Lexeme("String", w)))
  <2>0. x.word = w
    BY LexerParts
  <2>1. Added(x, Lexeme("String", w)) = AtEase(Append(o, Lexeme("String", w)))
    BY TokenAdded, ZenonT(40)
  <2>2. c = "\"" /\ c # "\\"
    BY <1>4, Zenon DEF QuoteMark
  <2>3. x.mode = "string"
    BY <1>1, <1>4, Zenon
  <2> HIDE DEF x
  <2>4. Lexes(x, c) = [x EXCEPT !.mode = "skip", !.word = <<>>, !.tokens = Append(@, Lexeme("String", x.word))]
    BY <2>2, <2>3, Zenon DEF Lexes
  <2> QED BY <2>0, <2>1, <2>4, Zenon DEF Added
<1>5. ASSUME m = "string", c # EscapeMark, c # QuoteMark PROVE Lexes(x, c) = Lexer("string", Append(w, c), o)
  <2>1. WithChar(x, c) = Lexer(m, Append(w, c), o)
    BY WordGrown
  <2> HIDE DEF x
  <2> QED BY <1>1, <1>5, <2>1, Zenon DEF WithChar, Lexes, EscapeMark, QuoteMark
<1>6. ASSUME m = "word", c \notin Blanks \cup SimpleChars PROVE Lexes(x, c) = Lexer("word", Append(w, c), o)
  <2>1. WithChar(x, c) = Lexer(m, Append(w, c), o)
    BY WordGrown
  <2> HIDE DEF x
  <2> QED BY <1>1, <1>6, <2>1, Zenon DEF WithChar, Lexes
<1>7. ASSUME m = "number", c \in DOMAIN Digit PROVE Lexes(x, c) = Lexer("number", Append(w, c), o)
  <2>1. WithChar(x, c) = Lexer(m, Append(w, c), o)
    BY WordGrown
  <2> HIDE DEF x
  <2> QED BY <1>1, <1>7, <2>1, Zenon DEF WithChar, Lexes
<1>8. ASSUME \/ m = "skip"
             \/ m = "word" /\ c \in Blanks \cup SimpleChars
             \/ m = "number" /\ c \notin DOMAIN Digit
      PROVE  Lexes(x, c) = StartsToken(Built(x), c)
  <2> HIDE DEF x
  <2> QED BY <1>1, <1>8, Zenon DEF Lexes
<1> QED BY <1>2, <1>3, <1>4, <1>5, <1>6, <1>7, <1>8, Zenon DEF LexFacts

LEMMA LexemesIn ==
  ASSUME NEW D, NEW w \in Seq(D)
  PROVE  /\ \A c \in SimpleChars : Lexeme(c, <<c>>) \in Lexemes(D)
         /\ WordToken(w) \in Lexemes(D)
         /\ Lexeme("Number", NumberOf(w)) \in Lexemes(D)
         /\ Lexeme("String", w) \in Lexemes(D)
  BY Zenon DEF Lexemes

LEMMA Added2 ==
  ASSUME NEW D, NEW c \in D, NEW w \in Seq(D), NEW L, NEW o \in Seq(L), NEW t \in L
  PROVE  <<>> \in Seq(D) /\ <<c>> \in Seq(D) /\ Append(w, c) \in Seq(D) /\ Append(o, t) \in Seq(L)
  OBVIOUS

LEMMA EaseTyped ==
  ASSUME NEW D, NEW o \in Seq(Lexemes(D))
  PROVE  AtEase(o) \in Lexers(D)
<1>1. <<>> \in Seq(D) /\ "skip" \in Modes
  BY DEF Modes
<1> QED BY <1>1, LexerTyped DEF AtEase

LEMMA BuiltTyped ==
  ASSUME NEW D, NEW m \in Modes, NEW w \in Seq(D), NEW o \in Seq(Lexemes(D))
  PROVE  Built(Lexer(m, w, o)) \in Lexers(D)
<1> DEFINE a == WordToken(w)
           b == Lexeme("Number", NumberOf(w))
           L == Lexemes(D)
<1>0. a \in L /\ b \in L
  BY LexemesIn
<1>1. Builds(m, w, o)
  BY BuiltIs, Zenon
<1>2. /\ m = "word" => Built(Lexer(m, w, o)) = AtEase(Append(o, a))
      /\ m = "number" => Built(Lexer(m, w, o)) = AtEase(Append(o, b))
      /\ m \notin {"word", "number"} => Built(Lexer(m, w, o)) = Lexer(m, w, o)
  BY <1>1, Zenon DEF Builds
<1> HIDE DEF a, b, L
<1>3. <<>> \in Seq(D) /\ "skip" \in Modes /\ Append(o, a) \in Seq(L) /\ Append(o, b) \in Seq(L)
  BY <1>0 DEF Modes, L
<1>4. AtEase(Append(o, a)) \in Lexers(D) /\ AtEase(Append(o, b)) \in Lexers(D) /\ Lexer(m, w, o) \in Lexers(D)
  BY <1>3, EaseTyped, LexerTyped, Zenon DEF L
<1> QED BY <1>2, <1>4, Zenon

LEMMA StartsTyped ==
  ASSUME NEW D, NEW m \in Modes, NEW w \in Seq(D), NEW o \in Seq(Lexemes(D)), NEW c \in D
  PROVE  StartsToken(Lexer(m, w, o), c) \in Lexers(D)
<1> DEFINE t == Lexeme(c, <<c>>)
           L == Lexemes(D)
           e == <<>>
           s == <<c>>
<1>1. c \in SimpleChars => t \in L
  BY LexemesIn
<1> HIDE DEF t, L
<1>2. e \in Seq(D) /\ s \in Seq(D) /\ (c \in SimpleChars => Append(o, t) \in Seq(L))
  BY <1>1 DEF L
<1>3. "string" \in Modes /\ "number" \in Modes /\ "word" \in Modes
  BY DEF Modes
<1> HIDE DEF e, s
<1>4. /\ Lexer(m, w, o) \in Lexers(D) /\ (c \in SimpleChars => Lexer(m, w, Append(o, t)) \in Lexers(D))
      /\ Lexer("string", e, o) \in Lexers(D) /\ Lexer("number", s, o) \in Lexers(D)
      /\ Lexer("word", s, o) \in Lexers(D)
  BY <1>2, <1>3, LexerTyped, Zenon DEF L
<1>5. StartsWith(m, w, o, c)
  BY StartsIs, Zenon
<1>6. LET y == StartsToken(Lexer(m, w, o), c) IN
      /\ c \in Blanks => y = Lexer(m, w, o)
      /\ c \in SimpleChars => y = Lexer(m, w, Append(o, t))
      /\ c = QuoteMark => y = Lexer("string", e, o)
      /\ c \in DOMAIN Digit => y = Lexer("number", s, o)
      /\ c \notin Blanks \cup SimpleChars \cup DOMAIN Digit \cup {QuoteMark} => y = Lexer("word", s, o)
  BY <1>5, Zenon DEF StartsWith, t, e, s
<1> QED BY <1>4, <1>6, Zenon

LEMMA EscapeTyped ==
  ASSUME NEW D, Writable(D), NEW c \in D
  PROVE  EscapeChar(c) \in D
<1>1. "\n" \in D /\ "\t" \in D /\ "?" \in D /\ VerticalTab \in D /\ "\f" \in D
  BY Zenon DEF Writable, Blanks
<1>2. CASE c = "n"
  BY <1>1, <1>2, Zenon DEF EscapeChar
<1>3. CASE c = "t"
  BY <1>1, <1>3, Zenon DEF EscapeChar
<1>4. CASE c = "v"
  BY <1>1, <1>4, Zenon DEF EscapeChar
<1>5. CASE c = "f"
  BY <1>1, <1>5, Zenon DEF EscapeChar
<1>6. CASE c \in {"\\", "\""}
  <2>1. c # "n" /\ c # "t" /\ c # "v" /\ c # "f"
    BY <1>6, Zenon
  <2>2. EscapeChar(c) = c
    BY <1>6, <2>1, Zenon DEF EscapeChar
  <2> QED BY <2>2, Zenon
<1>7. CASE c \notin {"n", "t", "v", "f", "\\", "\""}
  <2>1. EscapeChar(c) = "?"
    BY <1>7, Zenon DEF EscapeChar
  <2> QED BY <1>1, <2>1, Zenon
<1> QED BY <1>2, <1>3, <1>4, <1>5, <1>6, <1>7, Zenon

LEMMA LexesType ==
  ASSUME NEW D, Writable(D), NEW x \in Lexers(D), NEW c \in D
  PROVE  Lexes(x, c) \in Lexers(D)
<1> DEFINE L == Lexemes(D)
           y == Lexes(x, c)
<1>1. PICK m \in Modes, w \in Seq(D), o \in Seq(L) : x = Lexer(m, w, o)
  BY LexerIs
<1> DEFINE d == EscapeChar(c)
           t == Lexeme("String", w)
<1>2. d \in D /\ t \in L
  BY EscapeTyped, LexemesIn
<1>3. LexFacts(m, w, o, c)
  BY LexesTo, Zenon
<1>4. /\ m = "escaped" => y = Lexer("string", Append(w, d), o)
      /\ m = "string" /\ c = EscapeMark => y = Lexer("escaped", w, o)
      /\ m = "string" /\ c = QuoteMark => y = AtEase(Append(o, t))
      /\ m = "string" /\ c # EscapeMark /\ c # QuoteMark => y = Lexer("string", Append(w, c), o)
      /\ m = "word" /\ c \notin Blanks \cup SimpleChars => y = Lexer("word", Append(w, c), o)
      /\ m = "number" /\ c \in DOMAIN Digit => y = Lexer("number", Append(w, c), o)
      /\ \/ m = "skip"
         \/ m = "word" /\ c \in Blanks \cup SimpleChars
         \/ m = "number" /\ c \notin DOMAIN Digit
         => y = StartsToken(Built(Lexer(m, w, o)), c)
  BY <1>1, <1>3, Zenon DEF LexFacts
<1> HIDE DEF d, t, y, L
<1>5. Append(w, d) \in Seq(D) /\ Append(w, c) \in Seq(D) /\ Append(o, t) \in Seq(L)
  BY <1>2
<1>6. /\ Lexer("string", Append(w, d), o) \in Lexers(D) /\ Lexer("escaped", w, o) \in Lexers(D)
      /\ AtEase(Append(o, t)) \in Lexers(D) /\ Lexer("string", Append(w, c), o) \in Lexers(D)
      /\ Lexer("word", Append(w, c), o) \in Lexers(D) /\ Lexer("number", Append(w, c), o) \in Lexers(D)
  <2>1. "string" \in Modes /\ "number" \in Modes /\ "word" \in Modes /\ "escaped" \in Modes
    BY DEF Modes
  <2>2. AtEase(Append(o, t)) \in Lexers(D)
    BY <1>5, EaseTyped, Zenon DEF L
  <2> QED BY <1>5, <2>1, <2>2, LexerTyped, Zenon DEF L
<1>7. StartsToken(Built(Lexer(m, w, o)), c) \in Lexers(D)
  <2>0. Built(Lexer(m, w, o)) \in Lexers(D)
    BY BuiltTyped, Zenon DEF L
  <2>1. PICK m2 \in Modes, w2 \in Seq(D), o2 \in Seq(L) : Built(Lexer(m, w, o)) = Lexer(m2, w2, o2)
    BY <2>0, LexerIs DEF L
  <2>2. StartsToken(Lexer(m2, w2, o2), c) \in Lexers(D)
    BY StartsTyped, Zenon DEF L
  <2> QED BY <2>1, <2>2, Zenon
<1>8. m \in {"skip", "word", "number", "string", "escaped"}
  BY DEF Modes
<1>9. y \in Lexers(D)
  <2>1. CASE m = "skip"
    BY <1>4, <1>7, <2>1, Zenon
  <2>2. CASE m = "word"
    BY <1>4, <1>6, <1>7, <2>2, Zenon
  <2>3. CASE m = "number"
    BY <1>4, <1>6, <1>7, <2>3, Zenon
  <2>4. CASE m = "string"
    BY <1>4, <1>6, <1>7, <2>4, Zenon
  <2>5. CASE m = "escaped"
    BY <1>4, <1>6, <1>7, <2>5, Zenon
  <2> QED BY <1>8, <2>1, <2>2, <2>3, <2>4, <2>5, Zenon
<1> QED BY <1>9 DEF y

LEMMA LexStepIs ==
  ASSUME NEW D, Writable(D)
  PROVE  /\ LexStep(D) \in [Lexers(D) \X D -> Lexers(D)]
         /\ \A x \in Lexers(D), c \in D : LexStep(D)[<<x, c>>] = Lexes(x, c)
         /\ AtEase(<<>>) \in Lexers(D)
<1>1. \A x \in Lexers(D), c \in D : Lexes(x, c) \in Lexers(D)
  BY LexesType
<1>2. AtEase(<<>>) \in Lexers(D)
  <2>1. <<>> \in Seq(Lexemes(D))
    OBVIOUS
  <2> QED BY <2>1, EaseTyped
<1> QED BY <1>1, <1>2 DEF LexStep

LEMMA LexesFold ==
  ASSUME NEW D, Writable(D), NEW s \in Seq(D), NEW y, Leads(LexStep(D), AtEase(<<>>), s, y)
  PROVE  FoldLeft(Lexes, AtEase(<<>>), s) = y
<1> DEFINE g == LexStep(D)
           T == SUBSET (DOMAIN s)
           Is(f) == f = [t \in T |-> IF t = {} THEN AtEase(<<>>) ELSE Lexes(f[t \ {Max(t)}], s[Max(t)])]
<1>1. FoldLeft(Lexes, AtEase(<<>>), s) = (CHOOSE f : Is(f))[DOMAIN s]
  BY Zenon DEF FoldLeft, MapThenFoldSet
<1>2. /\ g \in [Lexers(D) \X D -> Lexers(D)]
      /\ \A r \in Lexers(D), c \in D : g[<<r, c>>] = Lexes(r, c)
      /\ AtEase(<<>>) \in Lexers(D)
  BY LexStepIs
<1> HIDE DEF g
<1>3. PICK h : IsTable(h, Lexers(D), D, s, AtEase(<<>>), g)
  BY <1>2, FoldTable
<1>4. Is(h)
  <2>1. \A t \in T : h[t] = IF t = {} THEN AtEase(<<>>) ELSE Lexes(h[t \ {Max(t)}], s[Max(t)])
    BY <1>2, <1>3, Zenon DEF IsTable
  <2>2. h \in [T -> Lexers(D)]
    BY <1>3 DEF IsTable
  <2> HIDE DEF T
  <2> QED BY <2>1, <2>2
<1> DEFINE f == CHOOSE f : Is(f)
<1>5. Is(f)
  BY <1>4, Zenon
<1> HIDE DEF f
<1>6. Len(s) \in Nat /\ DOMAIN s = 1..Len(s) /\ \A k \in 1..Len(s) : s[k] \in D
  OBVIOUS
<1>7. f[{}] = AtEase(<<>>)
  <2>1. {} \in T
    OBVIOUS
  <2> QED BY <1>5, <2>1
<1>8. ASSUME NEW k \in 0..Len(s) - 1, f[1..k] \in Lexers(D)
      PROVE  f[1..k + 1] = g[<<f[1..k], s[k + 1]>>]
  <2>1. k \in Nat /\ k + 1 \in 1..Len(s)
    BY <1>6
  <2>2. k + 1 \in 1..k + 1 /\ 1..k + 1 \subseteq 1..Len(s) /\ (1..k + 1) \ {k + 1} = 1..k
    BY <1>6, <2>1
  <2>3. 1..k + 1 \in T /\ 1..k + 1 # {} /\ s[k + 1] \in D
    BY <1>6, <2>1, <2>2
  <2>4. Max(1..k + 1) = k + 1
    BY <2>1, <2>2, MaxIs
  <2> HIDE DEF T
  <2>5. f[1..k + 1] = Lexes(f[1..k], s[k + 1])
    BY <1>5, <2>2, <2>3, <2>4
  <2> QED BY <1>2, <1>8, <2>3, <2>5
<1>9. f[DOMAIN s] = y
  <2>1. Leads(g, AtEase(<<>>), s, y)
    BY DEF g
  <2>2. Climbs(f, Lexers(D), s, AtEase(<<>>), g)
    BY <1>7, <1>8 DEF Climbs
  <2>3. Leads(g, AtEase(<<>>), s, f[DOMAIN s])
    BY <1>2, <2>2, TableLeads
  <2> QED BY <2>1, <2>3, LeadsOnce
<1> QED BY <1>1, <1>9 DEF f

LEMMA LexOne ==
  ASSUME NEW D, Writable(D), NEW x \in Lexers(D), NEW c \in D, NEW y, Lexes(x, c) = y
  PROVE  Leads(LexStep(D), x, <<c>>, y)
<1>1. LexStep(D)[<<x, c>>] = y
  BY LexStepIs
<1> QED BY <1>1, LeadsOne, Zenon

\* A lexer that takes c as the beginning of the token after o.
Ready(x, o, c) == Lexes(x, c) = StartsToken(AtEase(o), c)

LEMMA SimpleRead ==
  ASSUME NEW D, Writable(D), NEW x \in Lexers(D), NEW o \in Seq(Lexemes(D)), NEW c \in SimpleChars, Ready(x, o, c)
  PROVE  Leads(LexStep(D), x, <<c>>, AtEase(Append(o, Lexeme(c, <<c>>))))
<1>1. c \in D
  BY Zenon DEF Writable
<1>2. StartsWith("skip", <<>>, o, c)
  BY StartsIs, Zenon
<1>3. Lexes(x, c) = AtEase(Append(o, Lexeme(c, <<c>>)))
  BY <1>2, Zenon DEF StartsWith, Ready, AtEase
<1> QED BY <1>1, <1>3, LexOne

LEMMA FirstIs ==
  ASSUME NEW D, NEW w \in Seq(D), w # <<>>
  PROVE  SubSeq(w, 1, 1) = <<w[1]>>
<1> DEFINE a == SubSeq(w, 1, 1)
           b == <<w[1]>>
<1>1. Len(w) \in Nat /\ Len(w) > 0 /\ w[1] \in D
  OBVIOUS
<1>2. a \in Seq(D) /\ Len(a) = 1 /\ a[1] = w[1]
  BY <1>1
<1>3. b \in Seq(D) /\ Len(b) = 1 /\ b[1] = w[1]
  BY <1>1
<1> HIDE DEF a, b
<1>4. \A k \in 1..Len(a) : a[k] = b[k]
  <2>1. \A k \in 1..1 : k = 1
    OBVIOUS
  <2> QED BY <1>2, <1>3, <2>1
<1>5. a = b
  BY <1>2, <1>3, <1>4, SeqEqual
<1> QED BY <1>5 DEF a, b

\* A token of which every character adds to the word.
LEMMA TokenSpelled ==
  ASSUME NEW D, Writable(D), NEW x \in Lexers(D), NEW o \in Seq(Lexemes(D)), NEW m \in Modes,
         NEW w \in Seq(D), w # <<>>, Lexes(x, w[1]) = Lexer(m, <<w[1]>>, o),
         \A v \in Seq(D), k \in 1..Len(w) : Lexes(Lexer(m, v, o), w[k]) = Lexer(m, Append(v, w[k]), o)
  PROVE  Leads(LexStep(D), x, w, Lexer(m, w, o))
<1> DEFINE g == LexStep(D)
           y(k) == Lexer(m, SubSeq(w, 1, k), o)
           st == [k \in 0..Len(w) |-> IF k = 0 THEN x ELSE y(k)]
<1>1. Len(w) \in Nat /\ Len(w) > 0 /\ \A k \in 1..Len(w) : w[k] \in D
  OBVIOUS
<1>2. \A l \in Lexers(D), c \in D : g[<<l, c>>] = Lexes(l, c)
  BY LexStepIs
<1>3. st[0] = x /\ \A k \in 1..Len(w) : st[k] = y(k)
  <2> HIDE DEF y
  <2> QED BY <1>1
<1> HIDE DEF g, st
<1>4. ASSUME NEW k \in 0..Len(w) - 1 PROVE st[k + 1] = g[<<st[k], w[k + 1]>>]
  <2> DEFINE c == w[k + 1]
             v == SubSeq(w, 1, k)
  <2>0. k + 1 \in 1..Len(w) /\ c \in D
    BY <1>1
  <2>1. CASE k = 0
    <3>1. SubSeq(w, 1, k + 1) = <<c>>
      <4>1. SubSeq(w, 1, 1) = <<w[1]>>
        BY FirstIs
      <4>2. k + 1 = 1
        BY <2>1
      <4> QED BY <4>1, <4>2, Zenon
    <3>2. st[k + 1] = Lexer(m, <<c>>, o) /\ st[k] = x
      BY <1>3, <2>0, <2>1, <3>1
    <3>3. c = w[1]
      BY <2>1
    <3> HIDE DEF c
    <3>4. g[<<x, c>>] = Lexer(m, <<c>>, o)
      BY <1>2, <2>0, <3>3
    <3>5. g[<<st[k], c>>] = st[k + 1]
      BY <3>2, <3>4, Zenon
    <3> QED BY <3>5 DEF c
  <2>2. CASE k # 0
    <3>1. k \in 1..Len(w) /\ k \in 0..Len(w)
      BY <1>1, <2>2
    <3>2. v \in Seq(D) /\ SubSeq(w, 1, k + 1) = Append(v, c)
      <4> DEFINE e == <<>>
      <4>1. e \in Seq(D) /\ v \in Seq(D) /\ SubSeq(w, 1, k + 1) \in Seq(D)
        BY <1>1, <3>1
      <4>2. e \o SubSeq(w, 1, k + 1) = Append(e \o SubSeq(w, 1, k), w[k + 1])
        BY <4>1, OneMore
      <4>3. e \o v = v /\ e \o SubSeq(w, 1, k + 1) = SubSeq(w, 1, k + 1)
        BY <4>1, ConcatEmptySeq
      <4> QED BY <4>1, <4>2, <4>3
    <3>3. st[k] = Lexer(m, v, o) /\ st[k + 1] = Lexer(m, Append(v, c), o)
      BY <1>3, <2>0, <3>1, <3>2, Zenon
    <3>4. Lexes(Lexer(m, v, o), c) = Lexer(m, Append(v, c), o)
      BY <2>0, <3>2, Zenon
    <3> HIDE DEF c, v
    <3>5. Lexer(m, v, o) \in Lexers(D)
      BY <3>2, LexerTyped
    <3>6. g[<<st[k], c>>] = st[k + 1]
      BY <1>2, <2>0, <3>3, <3>4, <3>5, Zenon
    <3> QED BY <3>6 DEF c
  <2> QED BY <2>1, <2>2
<1>5. Leads(g, st[0], w, st[Len(w)])
  BY <1>4, LeadsEach
<1>6. st[Len(w)] = Lexer(m, w, o)
  <2>1. Len(w) \in 1..Len(w) /\ SubSeq(w, 1, Len(w)) = w
    BY <1>1
  <2> QED BY <1>3, <2>1, Zenon
<1> QED BY <1>3, <1>5, <1>6, Zenon DEF g

\* The words of a file: names and keywords.
WordsOver(D) ==
  {w \in Seq(D \ (Blanks \cup SimpleChars)) : w # <<>> /\ w[1] \notin DOMAIN Digit \cup {QuoteMark}}

LEMMA WordRead ==
  ASSUME NEW D, Writable(D), NEW x \in Lexers(D), NEW o \in Seq(Lexemes(D)), NEW w \in WordsOver(D), Ready(x, o, w[1])
  PROVE  Leads(LexStep(D), x, w, Lexer("word", w, o))
<1>1. w \in Seq(D) /\ w # <<>> /\ \A k \in 1..Len(w) : w[k] \in D /\ w[k] \notin Blanks \cup SimpleChars
  <2>1. w \in Seq(D \ (Blanks \cup SimpleChars)) /\ w # <<>>
    BY Zenon DEF WordsOver
  <2> QED BY <2>1
<1>2. w[1] \notin DOMAIN Digit \cup {QuoteMark}
  BY Zenon DEF WordsOver
<1>3. w[1] \notin Blanks \cup SimpleChars
  <2>1. 1 \in 1..Len(w)
    BY <1>1
  <2> QED BY <1>1, <2>1, Zenon
<1> DEFINE m == "word"
           c == w[1]
<1>4. StartsWith("skip", <<>>, o, c)
  BY StartsIs, Zenon
<1>5. Lexes(x, c) = Lexer(m, <<c>>, o)
  BY <1>2, <1>3, <1>4, Zenon DEF StartsWith, Ready, AtEase
<1>6. m \in Modes
  BY DEF Modes
<1>7. ASSUME NEW v \in Seq(D), NEW k \in 1..Len(w) PROVE Lexes(Lexer(m, v, o), w[k]) = Lexer(m, Append(v, w[k]), o)
  <2>1. LexFacts(m, v, o, w[k])
    BY LexesTo, Zenon
  <2> QED BY <1>1, <2>1, Zenon DEF LexFacts
<1> HIDE DEF m
<1>8. Leads(LexStep(D), x, w, Lexer(m, w, o))
  BY <1>1, <1>5, <1>6, <1>7, TokenSpelled
<1> QED BY <1>8 DEF m

LEMMA NumberRead ==
  ASSUME NEW D, Writable(D), NEW x \in Lexers(D), NEW o \in Seq(Lexemes(D)), NEW w \in Seq(DOMAIN Digit), w # <<>>,
         Ready(x, o, w[1])
  PROVE  Leads(LexStep(D), x, w, Lexer("number", w, o))
<1> DEFINE m == "number"
           c == w[1]
           G == DOMAIN Digit
<1>0. G \subseteq D
  BY Zenon DEF Writable
<1> HIDE DEF G
<1>1. w \in Seq(D) /\ w # <<>> /\ c \in G /\ \A k \in 1..Len(w) : w[k] \in G
  BY <1>0 DEF G
<1>4. StartsWith("skip", <<>>, o, c)
  BY StartsIs, Zenon
<1>5. Lexes(x, c) = Lexer(m, <<c>>, o)
  BY <1>1, <1>4, Zenon DEF StartsWith, Ready, AtEase, G
<1>6. m \in Modes
  BY DEF Modes
<1>7. ASSUME NEW v \in Seq(D), NEW k \in 1..Len(w) PROVE Lexes(Lexer(m, v, o), w[k]) = Lexer(m, Append(v, w[k]), o)
  <2>1. LexFacts(m, v, o, w[k])
    BY LexesTo, Zenon
  <2> QED BY <1>1, <2>1, Zenon DEF LexFacts, G
<1> HIDE DEF m
<1>8. Leads(LexStep(D), x, w, Lexer(m, w, o))
  BY <1>1, <1>5, <1>6, <1>7, TokenSpelled
<1> QED BY <1>8 DEF m

\* The value of a number's digits.
NumberGrows(n, c) == n * 10 + Digit[c]
NumberStep == [x \in Nat \X DOMAIN Digit |-> NumberGrows(x[1], x[2])]

LEMMA NumberStepIs ==
  /\ NumberStep \in [Nat \X DOMAIN Digit -> Nat]
  /\ \A n \in Nat, c \in DOMAIN Digit : NumberStep[<<n, c>>] = NumberGrows(n, c)
  /\ 0 \in Nat
<1>1. \A c \in DOMAIN Digit : Digit[c] \in Nat
  BY DigitsAre, Zenon
<1>2. \A n \in Nat, c \in DOMAIN Digit : NumberGrows(n, c) \in Nat
  BY <1>1 DEF NumberGrows
<1> QED BY <1>2 DEF NumberStep

LEMMA NumberFold ==
  ASSUME NEW s \in Seq(DOMAIN Digit), NEW y, Leads(NumberStep, 0, s, y)
  PROVE  NumberOf(s) = y
<1> DEFINE g == NumberStep
           T == SUBSET (DOMAIN s)
           Is(f) == f = [t \in T |-> IF t = {} THEN 0 ELSE NumberGrows(f[t \ {Max(t)}], s[Max(t)])]
<1>1. NumberOf(s) = (CHOOSE f : Is(f))[DOMAIN s]
  BY Zenon DEF NumberOf, NumberGrows, FoldLeft, MapThenFoldSet
<1>2. /\ g \in [Nat \X DOMAIN Digit -> Nat]
      /\ \A r \in Nat, c \in DOMAIN Digit : g[<<r, c>>] = NumberGrows(r, c)
      /\ 0 \in Nat
  BY NumberStepIs
<1> HIDE DEF g
<1>3. PICK h : IsTable(h, Nat, DOMAIN Digit, s, 0, g)
  BY <1>2, FoldTable
<1>4. Is(h)
  <2>1. \A t \in T : h[t] = IF t = {} THEN 0 ELSE NumberGrows(h[t \ {Max(t)}], s[Max(t)])
    BY <1>2, <1>3, Zenon DEF IsTable
  <2>2. h \in [T -> Nat]
    BY <1>3 DEF IsTable
  <2> HIDE DEF T
  <2> QED BY <2>1, <2>2
<1> DEFINE f == CHOOSE f : Is(f)
<1>5. Is(f)
  BY <1>4, Zenon
<1> HIDE DEF f
<1>6. Len(s) \in Nat /\ DOMAIN s = 1..Len(s) /\ \A k \in 1..Len(s) : s[k] \in DOMAIN Digit
  OBVIOUS
<1>7. f[{}] = 0
  <2>1. {} \in T
    OBVIOUS
  <2> QED BY <1>5, <2>1
<1>8. ASSUME NEW k \in 0..Len(s) - 1, f[1..k] \in Nat
      PROVE  f[1..k + 1] = g[<<f[1..k], s[k + 1]>>]
  <2>1. k \in Nat /\ k + 1 \in 1..Len(s)
    BY <1>6
  <2>2. k + 1 \in 1..k + 1 /\ 1..k + 1 \subseteq 1..Len(s) /\ (1..k + 1) \ {k + 1} = 1..k
    BY <1>6, <2>1
  <2>3. 1..k + 1 \in T /\ 1..k + 1 # {} /\ s[k + 1] \in DOMAIN Digit
    BY <1>6, <2>1, <2>2
  <2>4. Max(1..k + 1) = k + 1
    BY <2>1, <2>2, MaxIs
  <2> HIDE DEF T
  <2>5. f[1..k + 1] = NumberGrows(f[1..k], s[k + 1])
    BY <1>5, <2>2, <2>3, <2>4
  <2> QED BY <1>2, <1>8, <2>3, <2>5
<1>9. f[DOMAIN s] = y
  <2>1. Leads(g, 0, s, y)
    BY DEF g
  <2>2. Climbs(f, Nat, s, 0, g)
    BY <1>7, <1>8 DEF Climbs
  <2>3. Leads(g, 0, s, f[DOMAIN s])
    BY <1>2, <2>2, TableLeads
  <2> QED BY <2>1, <2>3, LeadsOnce
<1> QED BY <1>1, <1>9 DEF f


LEMMA NumberValue ==
  ASSUME NEW a \in DOMAIN Digit, NEW b \in DOMAIN Digit
  PROVE  NumberOf(<<a>>) = Digit[a] /\ NumberOf(<<a, b>>) = Digit[a] * 10 + Digit[b]
<1> DEFINE g == NumberStep
           x == Digit[a]
           y == Digit[b]
           z == x * 10 + y
<1>1. x \in Nat /\ y \in Nat
  BY DigitsAre
<1>2. g[<<0, a>>] = x /\ g[<<x, b>>] = z
  <2>1. g[<<0, a>>] = NumberGrows(0, a) /\ g[<<x, b>>] = NumberGrows(x, b)
    BY <1>1, NumberStepIs
  <2>2. NumberGrows(0, a) = 0 * 10 + x /\ NumberGrows(x, b) = z
    BY Zenon DEF NumberGrows
  <2> HIDE DEF x
  <2>3. 0 * 10 + x = x
    BY <1>1
  <2> QED BY <2>1, <2>2, <2>3, Zenon
<1> HIDE DEF g, x, y, z
<1>3. Leads(g, 0, <<a>>, x) /\ Leads(g, x, <<b>>, z)
  BY <1>2, LeadsOne, Zenon
<1>4. <<a>> \in Seq(DOMAIN Digit) /\ <<b>> \in Seq(DOMAIN Digit) /\ <<a, b>> \in Seq(DOMAIN Digit) /\ <<a, b>> = <<a>> \o <<b>>
  <2>1. <<b>> \in Seq(DOMAIN Digit)
    OBVIOUS
  <2> QED BY <2>1, Singles
<1>5. Leads(g, 0, <<a, b>>, z)
  BY <1>3, <1>4, LeadsOn
<1>6. NumberOf(<<a>>) = x
  BY <1>3, <1>4, NumberFold DEF g
<1>7. NumberOf(<<a, b>>) = z
  BY <1>4, <1>5, NumberFold DEF g
<1> QED BY <1>6, <1>7 DEF x, y, z

\* The numbers that are written, of one digit or of two.
Digits(n) == IF n < 10 THEN <<DigitOf[n]>> ELSE <<DigitOf[n \div 10], DigitOf[n % 10]>>
ShortNumbers == 0..99

LEMMA NumberWritten ==
  ASSUME NEW n \in ShortNumbers
  PROVE  Digits(n) \in Seq(DOMAIN Digit) /\ Digits(n) # <<>> /\ NumberOf(Digits(n)) = n
<1> DEFINE G == DOMAIN Digit
<1>1. CASE n < 10
  <2>1. n \in 0..9
    BY <1>1 DEF ShortNumbers
  <2>2. PICK a \in G : DigitOf[n] = a /\ Digit[a] = n
    BY <2>1, DigitsAre, Zenon
  <2>3. Digits(n) = <<a>>
    BY <1>1, <2>2, Zenon DEF Digits
  <2>4. NumberOf(<<a>>) = Digit[a]
    BY NumberValue
  <2>5. <<a>> \in Seq(G) /\ <<a>> # <<>>
    OBVIOUS
  <2> QED BY <2>2, <2>3, <2>4, <2>5, Zenon
<1>2. CASE ~(n < 10)
  <2>1. n \in 10..99
    BY <1>2 DEF ShortNumbers
  <2>2. n \div 10 \in 0..9 /\ n % 10 \in 0..9 /\ n = (n \div 10) * 10 + (n % 10)
    BY <2>1
  <2>3. PICK a \in G : DigitOf[n \div 10] = a /\ Digit[a] = n \div 10
    BY <2>2, DigitsAre, Zenon
  <2>4. PICK b \in G : DigitOf[n % 10] = b /\ Digit[b] = n % 10
    BY <2>2, DigitsAre, Zenon
  <2>5. Digits(n) = <<a, b>>
    BY <1>2, <2>3, <2>4, Zenon DEF Digits
  <2>6. NumberOf(<<a, b>>) = Digit[a] * 10 + Digit[b]
    BY NumberValue
  <2>7. <<a, b>> \in Seq(G) /\ <<a, b>> # <<>>
    OBVIOUS
  <2>8. NumberOf(<<a, b>>) = n
    BY <2>2, <2>3, <2>4, <2>6, Zenon
  <2> QED BY <2>5, <2>7, <2>8, Zenon
<1> QED BY <1>1, <1>2

\* How a character of a text is written.
EscapedChar(c) ==
  IF c \in DOMAIN EscapeFor THEN <<"\\", EscapeFor[c]>> ELSE <<c>>

LEMMA EscapeCharIs ==
  ASSUME NEW d
  PROVE  /\ d = "n" => EscapeChar(d) = "\n"
         /\ d = "t" => EscapeChar(d) = "\t"
         /\ d = "v" => EscapeChar(d) = VerticalTab
         /\ d = "f" => EscapeChar(d) = "\f"
  BY Zenon DEF EscapeChar

\* The letter after the escape mark stands for the character it was written for.
LEMMA EscapesBack ==
  ASSUME NEW D, Writable(D), NEW c \in DOMAIN EscapeFor
  PROVE  EscapeFor[c] \in D /\ EscapeChar(EscapeFor[c]) = c
<1> DEFINE e == EscapeFor
<1>1. DOMAIN e = {"\n", "\t", VerticalTab, "\f", "\"", "\\"}
  BY Zenon DEF EscapeFor
<1>2. /\ c = "\n" => e[c] = "n"
      /\ c = "\t" => e[c] = "t"
      /\ c = "\f" => e[c] = "f"
      /\ c = VerticalTab => e[c] = "v"
      /\ c \in {"\"", "\\"} => e[c] = c
  BY <1>1, Zenon DEF EscapeFor, VerticalTab
<1>3. "n" \in D /\ "t" \in D /\ "v" \in D /\ "f" \in D /\ "\"" \in D /\ "\\" \in D
  BY Zenon DEF Writable
<1> HIDE DEF e
<1>4. CASE c = "\n"
  <2>1. e[c] = "n"
    BY <1>2, <1>4, Zenon
  <2>2. EscapeChar(e[c]) = c
    BY <1>4, <2>1, EscapeCharIs, Zenon
  <2> QED BY <1>3, <2>1, <2>2, Zenon DEF e
<1>5. CASE c = "\t"
  <2>1. e[c] = "t"
    BY <1>2, <1>5, Zenon
  <2>2. EscapeChar(e[c]) = c
    BY <1>5, <2>1, EscapeCharIs, Zenon
  <2> QED BY <1>3, <2>1, <2>2, Zenon DEF e
<1>6. CASE c = VerticalTab
  <2>1. e[c] = "v"
    BY <1>2, <1>6, Zenon
  <2>2. EscapeChar(e[c]) = c
    BY <1>6, <2>1, EscapeCharIs, Zenon
  <2> QED BY <1>3, <2>1, <2>2, Zenon DEF e
<1>7. CASE c = "\f"
  <2>1. e[c] = "f"
    BY <1>2, <1>7, Zenon
  <2>2. EscapeChar(e[c]) = c
    BY <1>7, <2>1, EscapeCharIs, Zenon
  <2> QED BY <1>3, <2>1, <2>2, Zenon DEF e
<1>8. CASE c \in {"\"", "\\"}
  <2>1. c # "n" /\ c # "t" /\ c # "v" /\ c # "f"
    BY <1>8, Zenon
  <2>2. e[c] = c
    BY <1>2, <1>8, Zenon
  <2>3. EscapeChar(c) = c
    BY <1>8, <2>1, Zenon DEF EscapeChar
  <2> QED BY <1>3, <1>8, <2>2, <2>3, Zenon DEF e
<1> QED BY <1>1, <1>4, <1>5, <1>6, <1>7, <1>8, Zenon DEF e

LEMMA EscapeRead ==
  ASSUME NEW D, Writable(D), NEW v \in Seq(D), NEW o \in Seq(Lexemes(D)), NEW d \in D, NEW c \in D, EscapeChar(d) = c
  PROVE  /\ <<EscapeMark, d>> \in Seq(D)
         /\ Leads(LexStep(D), Lexer("string", v, o), <<EscapeMark, d>>, Lexer("string", Append(v, c), o))
<1> DEFINE m == EscapeMark
           s == "string"
           k == "escaped"
           g == LexStep(D)
           y == Append(v, c)
<1>1. m \in D
  BY Zenon DEF Writable, EscapeMark
<1>2. s \in Modes /\ k \in Modes
  BY DEF Modes
<1>3. Lexes(Lexer(s, v, o), m) = Lexer(k, v, o)
  <2>1. LexFacts(s, v, o, m)
    BY LexesTo, Zenon
  <2> QED BY <2>1, Zenon DEF LexFacts
<1>4. Lexes(Lexer(k, v, o), d) = Lexer(s, y, o)
  <2>1. LexFacts(k, v, o, d)
    BY LexesTo, Zenon
  <2> QED BY <2>1, Zenon DEF LexFacts
<1> HIDE DEF m, s, k, g, y
<1>5. Lexer(s, v, o) \in Lexers(D) /\ Lexer(k, v, o) \in Lexers(D)
  BY <1>2, LexerTyped
<1>6. Leads(g, Lexer(s, v, o), <<m>>, Lexer(k, v, o))
  BY <1>1, <1>3, <1>5, LexOne, Zenon DEF g
<1>7. Leads(g, Lexer(k, v, o), <<d>>, Lexer(s, y, o))
  BY <1>4, <1>5, LexOne, Zenon DEF g
<1>8. <<m>> \in Seq(D) /\ <<d>> \in Seq(D) /\ <<m, d>> \in Seq(D) /\ <<m, d>> = <<m>> \o <<d>>
  <2>1. <<d>> \in Seq(D)
    OBVIOUS
  <2> QED BY <1>1, <2>1, Singles
<1>9. Leads(g, Lexer(s, v, o), <<m>> \o <<d>>, Lexer(s, y, o))
  BY <1>6, <1>7, <1>8, LeadsOn
<1> QED BY <1>8, <1>9, Zenon DEF m, s, g, y

LEMMA CharRead ==
  ASSUME NEW D, Writable(D), NEW v \in Seq(D), NEW o \in Seq(Lexemes(D)), NEW c \in D
  PROVE  /\ EscapedChar(c) \in Seq(D)
         /\ Leads(LexStep(D), Lexer("string", v, o), EscapedChar(c), Lexer("string", Append(v, c), o))
<1>1. CASE c \in DOMAIN EscapeFor
  <2> DEFINE d == EscapeFor[c]
  <2>1. d \in D /\ EscapeChar(d) = c
    BY <1>1, EscapesBack, Zenon
  <2>2. EscapedChar(c) = <<EscapeMark, d>>
    BY <1>1, Zenon DEF EscapedChar, EscapeMark
  <2> HIDE DEF d
  <2>3. /\ <<EscapeMark, d>> \in Seq(D)
        /\ Leads(LexStep(D), Lexer("string", v, o), <<EscapeMark, d>>, Lexer("string", Append(v, c), o))
    BY <2>1, EscapeRead, Zenon
  <2> QED BY <2>2, <2>3, Zenon
<1>2. CASE c \notin DOMAIN EscapeFor
  <2> DEFINE s == "string"
  <2>1. EscapedChar(c) = <<c>> /\ c \notin {QuoteMark, EscapeMark}
    BY <1>2, Zenon DEF EscapedChar, EscapeFor, QuoteMark, EscapeMark
  <2>2. LexFacts(s, v, o, c)
    BY LexesTo, Zenon
  <2>3. Lexes(Lexer(s, v, o), c) = Lexer(s, Append(v, c), o)
    BY <2>1, <2>2, Zenon DEF LexFacts
  <2>4. s \in Modes
    BY DEF Modes
  <2> HIDE DEF s
  <2>5. Lexer(s, v, o) \in Lexers(D)
    BY <2>4, LexerTyped
  <2>6. Leads(LexStep(D), Lexer(s, v, o), <<c>>, Lexer(s, Append(v, c), o))
    BY <2>3, <2>5, LexOne
  <2>7. <<c>> \in Seq(D)
    BY Singles
  <2> QED BY <2>1, <2>6, <2>7, Zenon DEF s
<1> QED BY <1>1, <1>2, Zenon

LEMMA EscapedType ==
  ASSUME NEW D, Writable(D), NEW w \in Seq(D)
  PROVE  Escaped(w) \in Seq(D)
<1> DEFINE e == [i \in DOMAIN w |-> EscapedChar(w[i])]
<1>1. Escaped(w) = FlattenSeq(e)
  BY Zenon DEF Escaped, EscapedChar
<1>2. e \in Seq(Seq(D))
  <2>1. \A c \in D : EscapedChar(c) \in Seq(D)
    <3> SUFFICES ASSUME NEW c \in D PROVE EscapedChar(c) \in Seq(D)
      OBVIOUS
    <3>1. <<>> \in Seq(D) /\ <<>> \in Seq(Lexemes(D))
      OBVIOUS
    <3> QED BY <3>1, CharRead
  <2>2. DOMAIN w = 1..Len(w) /\ Len(w) \in Nat /\ \A i \in 1..Len(w) : w[i] \in D
    OBVIOUS
  <2> QED BY <2>1, <2>2
<1> HIDE DEF e
<1> QED BY <1>1, <1>2, FlatType

LEMMA StringLexed ==
  ASSUME NEW D, Writable(D), NEW x \in Lexers(D), NEW o \in Seq(Lexemes(D)), NEW w \in Seq(D), Ready(x, o, QuoteMark)
  PROVE  /\ <<QuoteMark>> \o Escaped(w) \o <<QuoteMark>> \in Seq(D)
         /\ Leads(LexStep(D), x, <<QuoteMark>> \o Escaped(w) \o <<QuoteMark>>, AtEase(Append(o, Lexeme("String", w))))
<1> DEFINE q == QuoteMark
           s == "string"
           e == [i \in DOMAIN w |-> EscapedChar(w[i])]
           g == LexStep(D)
           y == AtEase(Append(o, Lexeme("String", w)))
           a == <<q>>
           b == Escaped(w)
           n == <<>>
           st == [k \in 0..Len(w) |-> Lexer(s, SubSeq(w, 1, k), o)]
<1>1. q \in D
  BY Zenon DEF Writable, QuoteMark
<1>2. s \in Modes
  BY DEF Modes
<1>3. b = FlattenSeq(e)
  BY Zenon DEF Escaped, EscapedChar
<1>4. Lexes(x, q) = Lexer(s, n, o)
  <2>1. StartsWith("skip", <<>>, o, q)
    BY StartsIs, Zenon
  <2> QED BY <2>1, Zenon DEF StartsWith, Ready, AtEase
<1>5. Lexes(Lexer(s, w, o), q) = y
  <2>1. LexFacts(s, w, o, q)
    BY LexesTo, Zenon
  <2> QED BY <2>1, Zenon DEF LexFacts
<1>6. n \in Seq(D) /\ Len(w) \in Nat /\ DOMAIN w = 1..Len(w) /\ \A k \in 1..Len(w) : w[k] \in D
  OBVIOUS
<1>7. \A k \in 0..Len(w) : SubSeq(w, 1, k) \in Seq(D)
  BY <1>6
<1>8. \A k \in 0..Len(w) : st[k] = Lexer(s, SubSeq(w, 1, k), o)
  OBVIOUS
<1>9. SubSeq(w, 1, 0) = n /\ SubSeq(w, 1, Len(w)) = w
  BY <1>6
<1> HIDE DEF q, s, g, y, b, st
<1>10. e \in Seq(Seq(D)) /\ Len(e) = Len(w) /\ \A k \in 1..Len(w) : e[k] = EscapedChar(w[k])
  <2>1. \A k \in 1..Len(w) : EscapedChar(w[k]) \in Seq(D)
    BY <1>6, CharRead
  <2> QED BY <1>6, <2>1
<1>11. a \in Seq(D)
  BY <1>1
<1> HIDE DEF e, a, n
<1>12. ASSUME NEW k \in 1..Len(e) PROVE Leads(g, st[k - 1], e[k], st[k])
  <2>1. k \in 1..Len(w) /\ k - 1 \in 0..Len(w) /\ k \in 0..Len(w) /\ k - 1 \in 0..Len(w) - 1 /\ (k - 1) + 1 = k
    BY <1>6, <1>10
  <2> DEFINE v == SubSeq(w, 1, k - 1)
             c == w[k]
  <2>2. SubSeq(w, 1, k) = Append(v, c)
    <3>1. w \in Seq(D)
      BY <1>6
    <3> QED BY <2>1, <3>1, Beginning, Zenon
  <2>3. v \in Seq(D) /\ c \in D
    BY <1>6, <1>7, <2>1
  <2>4. st[k - 1] = Lexer(s, v, o) /\ st[k] = Lexer(s, Append(v, c), o) /\ e[k] = EscapedChar(c)
    BY <1>8, <1>10, <2>1, <2>2, Zenon
  <2> HIDE DEF v, c
  <2>5. Leads(g, Lexer(s, v, o), EscapedChar(c), Lexer(s, Append(v, c), o))
    BY <2>3, CharRead, Zenon DEF g, s
  <2> QED BY <2>4, <2>5, Zenon
<1>13. Leads(g, st[0], b, st[Len(e)])
  BY <1>3, <1>10, <1>12, LeadsFlat
<1>14. st[0] = Lexer(s, n, o) /\ st[Len(e)] = Lexer(s, w, o)
  <2>1. 0 \in 0..Len(w) /\ Len(w) \in 0..Len(w)
    BY <1>6
  <2> QED BY <1>8, <1>9, <1>10, <2>1, Zenon
<1>15. Leads(g, x, a, Lexer(s, n, o))
  BY <1>1, <1>4, LexOne, Zenon DEF g, a
<1>16. Leads(g, Lexer(s, w, o), a, y)
  <2>1. Lexer(s, w, o) \in Lexers(D)
    BY <1>2, LexerTyped
  <2> QED BY <1>1, <1>5, <2>1, LexOne, Zenon DEF g, a
<1>17. b \in Seq(D)
  BY <1>3, <1>10, FlatType
<1>18. a \o b \in Seq(D) /\ (a \o b) \o a \in Seq(D)
  BY <1>11, <1>17
<1>19. Leads(g, Lexer(s, n, o), b, Lexer(s, w, o))
  BY <1>13, <1>14, Zenon
<1>20. Leads(g, x, a \o b, Lexer(s, w, o))
  BY <1>11, <1>15, <1>17, <1>19, LeadsOn
<1>21. Leads(g, x, (a \o b) \o a, y)
  BY <1>11, <1>16, <1>18, <1>20, LeadsOn
<1> QED BY <1>18, <1>21, Zenon DEF q, g, y, a, b

\* The tokens of a file.
SimpleTokens  == {Lexeme(c, <<c>>) : c \in SimpleChars}
WordTokens(D) == {WordToken(w) : w \in WordsOver(D)}
NumberTokens  == {Lexeme("Number", n) : n \in ShortNumbers}
StringTokens(D) == {Lexeme("String", w) : w \in Seq(D)}
TokensOver(D) == SimpleTokens \cup WordTokens(D) \cup NumberTokens \cup StringTokens(D)

LEMMA LexemeIs ==
  ASSUME NEW i, NEW c
  PROVE  Lexeme(i, c).id = i /\ Lexeme(i, c).content = c
  BY DEF Lexeme

LEMMA SimpleIs ==
  ASSUME NEW c \in SimpleChars
  PROVE  LET t == Lexeme(c, <<c>>) IN
         t.id = c /\ t.id \notin KeywordIds \cup {"String", "Number", "Identifier"} /\ Written(t) = <<c>>
<1> DEFINE t == Lexeme(c, <<c>>)
<1>1. t.id = c /\ t.content = <<c>>
  BY LexemeIs, Zenon
<1> HIDE DEF t
<1>2. t.id \notin KeywordIds \cup {"String", "Number", "Identifier"}
  BY <1>1, Zenon DEF SimpleChars, KeywordIds
<1>3. Written(t) = <<c>>
  BY <1>1, <1>2, Zenon DEF Written
<1> QED BY <1>1, <1>2, <1>3, Zenon DEF t

LEMMA WordIs ==
  ASSUME NEW w
  PROVE  LET t == WordToken(w) IN
         t.id \in KeywordIds \cup {"Identifier"} /\ t.id \notin SimpleChars /\ t.content = w /\ Written(t) = w
<1> DEFINE t == WordToken(w)
<1>1. t.id \in KeywordIds \cup {"Identifier"} /\ t.content = w
  <2>1. CASE w \in DOMAIN KeywordOf
    <3>1. KeywordOf[w] \in KeywordIds
      BY <2>1, Zenon DEF KeywordOf
    <3>2. t = Lexeme(KeywordOf[w], w)
      BY <2>1, Zenon DEF WordToken
    <3> HIDE DEF t
    <3> QED BY <3>1, <3>2, LexemeIs, Zenon
  <2>2. CASE w \notin DOMAIN KeywordOf
    BY <2>2, LexemeIs, Zenon DEF WordToken
  <2> QED BY <2>1, <2>2
<1> HIDE DEF t
<1>2. t.id \notin SimpleChars /\ t.id # "String" /\ t.id # "Number"
  BY <1>1, Zenon DEF SimpleChars, KeywordIds
<1>3. Written(t) = w
  BY <1>1, <1>2, Zenon DEF Written
<1> QED BY <1>1, <1>2, <1>3, Zenon DEF t

LEMMA NumberIs ==
  ASSUME NEW n
  PROVE  LET t == Lexeme("Number", n) IN
         t.id = "Number" /\ t.id \notin SimpleChars /\ t.id \notin KeywordIds \cup {"String", "Identifier"}
         /\ Written(t) = Digits(n)
<1> DEFINE t == Lexeme("Number", n)
<1>1. t.id = "Number" /\ t.content = n
  BY LexemeIs, Zenon
<1> HIDE DEF t
<1>2. t.id \notin SimpleChars /\ t.id \notin KeywordIds \cup {"String", "Identifier"}
  BY <1>1, Zenon DEF SimpleChars, KeywordIds
<1>3. Written(t) = Digits(n)
  BY <1>1, <1>2, Zenon DEF Written, Digits
<1> QED BY <1>1, <1>2, <1>3, Zenon DEF t

LEMMA StringIs ==
  ASSUME NEW w
  PROVE  LET t == Lexeme("String", w) IN
         t.id = "String" /\ t.id \notin SimpleChars /\ t.id \notin KeywordIds \cup {"Number", "Identifier"}
         /\ Written(t) = <<QuoteMark>> \o Escaped(w) \o <<QuoteMark>>
<1> DEFINE t == Lexeme("String", w)
<1>1. t.id = "String" /\ t.content = w
  BY LexemeIs, Zenon
<1> HIDE DEF t
<1>2. t.id \notin SimpleChars /\ t.id \notin KeywordIds \cup {"Number", "Identifier"}
  BY <1>1, Zenon DEF SimpleChars, KeywordIds
<1>3. Written(t) = <<QuoteMark>> \o Escaped(w) \o <<QuoteMark>>
  BY <1>1, <1>2, Zenon DEF Written, QuoteMark
<1> QED BY <1>1, <1>2, <1>3, Zenon DEF t

\* Where the lexer is when it has read t: a word or a number may still go on.
After(t, o) ==
  IF t.id \in KeywordIds \cup {"Identifier"} THEN Lexer("word", t.content, o)
  ELSE IF t.id = "Number" THEN Lexer("number", Written(t), o) ELSE AtEase(Append(o, t))

LEMMA EaseReady ==
  ASSUME NEW o, NEW c
  PROVE  Ready(AtEase(o), o, c) /\ Built(AtEase(o)) = AtEase(o)
<1> DEFINE m == "skip"
<1>1. Builds(m, <<>>, o) /\ LexFacts(m, <<>>, o, c)
  BY BuiltIs, LexesTo, Zenon
<1>2. Built(AtEase(o)) = AtEase(o)
  BY <1>1, Zenon DEF Builds, AtEase
<1> QED BY <1>1, <1>2, Zenon DEF LexFacts, AtEase, Ready

\* What is known of the lexer that has read t.
HasRead(D, t, o) ==
  /\ After(t, o) \in Lexers(D)
  /\ Built(After(t, o)) = AtEase(Append(o, t))
  /\ \A c \in Blanks : Ready(After(t, o), Append(o, t), c)
  /\ \A u \in TokensOver(D) : ~RunsOn(t, u) => Ready(After(t, o), Append(o, t), Written(u)[1])

TokenReads(D, x, t, o) ==
  Written(t) \in Seq(D) /\ Leads(LexStep(D), x, Written(t), After(t, o)) /\ HasRead(D, t, o)

LEMMA FirstCharacter ==
  ASSUME NEW D, Writable(D), NEW u \in TokensOver(D)
  PROVE  /\ u.id \in SimpleChars => Written(u)[1] \in SimpleChars
         /\ u.id # "Number" => Written(u)[1] \notin DOMAIN Digit
<1>1. CASE u \in SimpleTokens
  <2>1. PICK c \in SimpleChars : u = Lexeme(c, <<c>>)
    BY <1>1, Zenon DEF SimpleTokens
  <2>2. Written(u) = <<c>>
    BY <2>1, SimpleIs, Zenon
  <2>3. Written(u)[1] = c
    BY <2>2
  <2> QED BY <2>3, Apart, Zenon
<1>2. CASE u \in WordTokens(D)
  <2>1. PICK w \in WordsOver(D) : u = WordToken(w)
    BY <1>2, Zenon DEF WordTokens
  <2>2. u.id \notin SimpleChars /\ Written(u) = w
    BY <2>1, WordIs, Zenon
  <2>3. w[1] \notin DOMAIN Digit
    BY Zenon DEF WordsOver
  <2> QED BY <2>2, <2>3, Zenon
<1>3. CASE u \in NumberTokens
  <2>1. PICK n \in ShortNumbers : u = Lexeme("Number", n)
    BY <1>3, Zenon DEF NumberTokens
  <2> QED BY <2>1, NumberIs, Zenon
<1>4. CASE u \in StringTokens(D)
  <2>1. PICK w \in Seq(D) : u = Lexeme("String", w)
    BY <1>4, Zenon DEF StringTokens
  <2>2. u.id \notin SimpleChars /\ Written(u) = <<QuoteMark>> \o Escaped(w) \o <<QuoteMark>>
    BY <2>1, StringIs, Zenon
  <2>3. Written(u)[1] = QuoteMark
    <3> DEFINE b == Escaped(w)
    <3>2. b \in Seq(D) /\ QuoteMark \in D
      BY EscapedType, Zenon DEF Writable, QuoteMark
    <3> DEFINE q == QuoteMark
    <3> HIDE DEF b, q
    <3>3. q \in D
      BY <3>2 DEF q
    <3>4. ((<<q>> \o b) \o <<q>>)[1] = q
      BY <3>2, <3>3
    <3> QED BY <2>2, <3>4, Zenon DEF q, b
  <2> QED BY <2>2, <2>3, Apart, Zenon
<1> QED BY <1>1, <1>2, <1>3, <1>4, Zenon DEF TokensOver

\* A lexer that is ready after a word or a number, and after nothing that goes on.
LEMMA ReadyAfter ==
  ASSUME NEW o, NEW w, NEW t, NEW c
  PROVE  /\ t = WordToken(w) /\ c \in Blanks \cup SimpleChars => Ready(Lexer("word", w, o), Append(o, t), c)
         /\ t = Lexeme("Number", NumberOf(w)) /\ c \notin DOMAIN Digit => Ready(Lexer("number", w, o), Append(o, t), c)
<1>1. ASSUME t = WordToken(w), c \in Blanks \cup SimpleChars PROVE Ready(Lexer("word", w, o), Append(o, t), c)
  <2> DEFINE m == "word"
  <2>1. Builds(m, w, o) /\ LexFacts(m, w, o, c)
    BY BuiltIs, LexesTo, Zenon
  <2>2. Built(Lexer(m, w, o)) = AtEase(Append(o, t))
    BY <1>1, <2>1, Zenon DEF Builds
  <2>3. Lexes(Lexer(m, w, o), c) = StartsToken(Built(Lexer(m, w, o)), c)
    BY <1>1, <2>1, Zenon DEF LexFacts
  <2> QED BY <2>2, <2>3, Zenon DEF Ready
<1>2. ASSUME t = Lexeme("Number", NumberOf(w)), c \notin DOMAIN Digit
      PROVE  Ready(Lexer("number", w, o), Append(o, t), c)
  <2> DEFINE m == "number"
  <2>1. Builds(m, w, o) /\ LexFacts(m, w, o, c)
    BY BuiltIs, LexesTo, Zenon
  <2>2. Built(Lexer(m, w, o)) = AtEase(Append(o, t))
    BY <1>2, <2>1, Zenon DEF Builds
  <2>3. Lexes(Lexer(m, w, o), c) = StartsToken(Built(Lexer(m, w, o)), c)
    BY <1>2, <2>1, Zenon DEF LexFacts
  <2> QED BY <2>2, <2>3, Zenon DEF Ready
<1> QED BY <1>1, <1>2

LEMMA TokenEnds ==
  ASSUME NEW D, NEW t \in Lexemes(D), NEW o \in Seq(Lexemes(D)), After(t, o) = AtEase(Append(o, t))
  PROVE  HasRead(D, t, o)
<1> DEFINE L == Lexemes(D)
           p == Append(o, t)
<1>1. p \in Seq(L)
  OBVIOUS
<1> HIDE DEF p, L
<1>2. AtEase(p) \in Lexers(D)
  BY <1>1, EaseTyped DEF L
<1>3. \A c : Ready(AtEase(p), p, c) /\ Built(AtEase(p)) = AtEase(p)
  BY EaseReady
<1>4. After(t, o) = AtEase(p)
  BY DEF p
<1> QED BY <1>2, <1>3, <1>4, Zenon DEF HasRead, p

LEMMA TokenTyped ==
  ASSUME NEW D, Writable(D), NEW t \in TokensOver(D)
  PROVE  t \in Lexemes(D)
<1>1. CASE t \in SimpleTokens
  BY <1>1, Zenon DEF SimpleTokens, Lexemes
<1>2. CASE t \in WordTokens(D)
  <2>1. PICK w \in WordsOver(D) : t = WordToken(w)
    BY <1>2, Zenon DEF WordTokens
  <2>2. w \in Seq(D \ (Blanks \cup SimpleChars))
    BY Zenon DEF WordsOver
  <2>3. w \in Seq(D)
    BY <2>2
  <2> QED BY <2>1, <2>3, LexemesIn
<1>3. CASE t \in NumberTokens
  <2>1. PICK n \in ShortNumbers : t = Lexeme("Number", n)
    BY <1>3, Zenon DEF NumberTokens
  <2> DEFINE w == Digits(n)
             G == DOMAIN Digit
  <2>2. w \in Seq(G) /\ NumberOf(w) = n
    BY NumberWritten
  <2>3. G \subseteq D
    BY Zenon DEF Writable
  <2> HIDE DEF w, G
  <2>4. w \in Seq(D)
    BY <2>2, <2>3
  <2>5. Lexeme("Number", NumberOf(w)) \in Lexemes(D)
    BY <2>4, LexemesIn
  <2> QED BY <2>1, <2>2, <2>5, Zenon
<1>4. CASE t \in StringTokens(D)
  BY <1>4, Zenon DEF StringTokens, Lexemes
<1> QED BY <1>1, <1>2, <1>3, <1>4, Zenon DEF TokensOver

LEMMA TokenRead ==
  ASSUME NEW D, Writable(D), NEW t \in TokensOver(D), NEW x \in Lexers(D), NEW o \in Seq(Lexemes(D)),
         Ready(x, o, Written(t)[1])
  PROVE  TokenReads(D, x, t, o)
<1>0. t \in Lexemes(D)
  BY TokenTyped
<1>1. CASE t \in SimpleTokens
  <2>1. PICK c \in SimpleChars : t = Lexeme(c, <<c>>)
    BY <1>1, Zenon DEF SimpleTokens
  <2>2. Written(t) = <<c>> /\ t.id \notin KeywordIds \cup {"String", "Number", "Identifier"}
    BY <2>1, SimpleIs, Zenon
  <2>3. Written(t)[1] = c
    BY <2>2
  <2>4. After(t, o) = AtEase(Append(o, t))
    BY <2>2, Zenon DEF After
  <2>5. Leads(LexStep(D), x, <<c>>, AtEase(Append(o, Lexeme(c, <<c>>))))
    BY <2>3, SimpleRead
  <2>6. <<c>> \in Seq(D)
    <3>1. c \in D
      BY Zenon DEF Writable
    <3> QED BY <3>1
  <2>7. HasRead(D, t, o)
    BY <1>0, <2>4, TokenEnds
  <2> QED BY <2>1, <2>2, <2>4, <2>5, <2>6, <2>7, Zenon DEF TokenReads
<1>2. CASE t \in WordTokens(D)
  <2>1. PICK w \in WordsOver(D) : t = WordToken(w)
    BY <1>2, Zenon DEF WordTokens
  <2> DEFINE y == Lexer("word", w, o)
  <2>2. Written(t) = w /\ t.id \in KeywordIds \cup {"Identifier"} /\ t.content = w
    BY <2>1, WordIs, Zenon
  <2>3. w \in Seq(D)
    <3>1. w \in Seq(D \ (Blanks \cup SimpleChars))
      BY Zenon DEF WordsOver
    <3> QED BY <3>1
  <2>4. After(t, o) = y
    BY <2>2, Zenon DEF After
  <2>5. Leads(LexStep(D), x, w, y)
    <3>1. Ready(x, o, w[1])
      BY <2>2, Zenon
    <3> QED BY <3>1, WordRead
  <2>6. y \in Lexers(D)
    <3>1. "word" \in Modes
      BY DEF Modes
    <3> QED BY <2>3, <3>1, LexerTyped
  <2>7. Built(y) = AtEase(Append(o, t))
    <3>1. Builds("word", w, o)
      BY BuiltIs, Zenon
    <3> QED BY <2>1, <3>1, Zenon DEF Builds
  <2>8. \A c \in Blanks \cup SimpleChars : Ready(y, Append(o, t), c)
    BY <2>1, ReadyAfter, Zenon
  <2>9. \A u \in TokensOver(D) : ~RunsOn(t, u) => Written(u)[1] \in SimpleChars
    BY <2>2, FirstCharacter, Zenon DEF RunsOn
  <2> HIDE DEF y
  <2>10. HasRead(D, t, o)
    BY <2>4, <2>6, <2>7, <2>8, <2>9, Zenon DEF HasRead
  <2> QED BY <2>2, <2>3, <2>4, <2>5, <2>10, Zenon DEF TokenReads
<1>3. CASE t \in NumberTokens
  <2>1. PICK n \in ShortNumbers : t = Lexeme("Number", n)
    BY <1>3, Zenon DEF NumberTokens
  <2> DEFINE w == Digits(n)
             G == DOMAIN Digit
             y == Lexer("number", w, o)
  <2>2. Written(t) = w /\ t.id = "Number" /\ t.id \notin KeywordIds \cup {"Identifier"}
    BY <2>1, NumberIs, Zenon
  <2>3. w \in Seq(G) /\ w # <<>> /\ NumberOf(w) = n
    BY NumberWritten
  <2>30. G \subseteq D
    BY Zenon DEF Writable
  <2>4. After(t, o) = y
    BY <2>2, Zenon DEF After
  <2> HIDE DEF w
  <2>5. Leads(LexStep(D), x, w, y)
    <3>1. Ready(x, o, w[1])
      BY <2>2, Zenon
    <3> QED BY <2>3, <3>1, NumberRead
  <2>31. w \in Seq(D)
    <3> HIDE DEF G
    <3> QED BY <2>3, <2>30
  <2>6. y \in Lexers(D)
    <3>1. "number" \in Modes
      BY DEF Modes
    <3> QED BY <2>31, <3>1, LexerTyped
  <2>32. t = Lexeme("Number", NumberOf(w))
    BY <2>1, <2>3, Zenon
  <2>7. Built(y) = AtEase(Append(o, t))
    <3>1. Builds("number", w, o)
      BY BuiltIs, Zenon
    <3> QED BY <2>32, <3>1, Zenon DEF Builds
  <2>8. \A c : c \notin G => Ready(y, Append(o, t), c)
    BY <2>32, ReadyAfter, Zenon
  <2>9. \A u \in TokensOver(D) : ~RunsOn(t, u) => Written(u)[1] \notin G
    BY <2>2, FirstCharacter, Zenon DEF RunsOn
  <2>33. \A c \in Blanks : c \notin G
    BY Apart, Zenon
  <2> HIDE DEF y, G
  <2>10. HasRead(D, t, o)
    BY <2>4, <2>6, <2>7, <2>8, <2>9, <2>33, Zenon DEF HasRead
  <2> QED BY <2>2, <2>31, <2>4, <2>5, <2>10, Zenon DEF TokenReads
<1>4. CASE t \in StringTokens(D)
  <2>1. PICK w \in Seq(D) : t = Lexeme("String", w)
    BY <1>4, Zenon DEF StringTokens
  <2> DEFINE s == <<QuoteMark>> \o Escaped(w) \o <<QuoteMark>>
  <2>2. Written(t) = s /\ t.id \notin KeywordIds \cup {"Number", "Identifier"} /\ t.id = "String"
    BY <2>1, StringIs, Zenon
  <2>3. s[1] = QuoteMark
    <3> DEFINE b == Escaped(w)
               q == QuoteMark
    <3>1. b \in Seq(D) /\ q \in D
      BY EscapedType, Zenon DEF Writable, QuoteMark
    <3> HIDE DEF b, q
    <3>2. ((<<q>> \o b) \o <<q>>)[1] = q
      BY <3>1
    <3> QED BY <3>2, Zenon DEF q, b
  <2>4. Ready(x, o, QuoteMark)
    BY <2>2, <2>3, Zenon
  <2>5. s \in Seq(D) /\ Leads(LexStep(D), x, s, AtEase(Append(o, Lexeme("String", w))))
    BY <2>4, StringLexed, Zenon
  <2>6. After(t, o) = AtEase(Append(o, t))
    BY <2>2, Zenon DEF After
  <2>7. HasRead(D, t, o)
    BY <1>0, <2>6, TokenEnds
  <2> QED BY <2>1, <2>2, <2>5, <2>6, <2>7, Zenon DEF TokenReads
<1> QED BY <1>1, <1>2, <1>3, <1>4, Zenon DEF TokensOver

\* The tokens of a file with the blanks b between them.
Spaced(tokens, k) == k < Len(tokens) /\ RunsOn(tokens[k], tokens[k + 1])
SpaceAfter(b, tokens, k) == IF Spaced(tokens, k) THEN <<b>> ELSE <<>>

\* Where the lexer is after k tokens.
LexedUpto(tokens, k) ==
  IF k = 0 \/ Spaced(tokens, k) THEN AtEase(SubSeq(tokens, 1, k))
  ELSE After(tokens[k], SubSeq(tokens, 1, k - 1))

\* One token more, with the space after it.
LEMMA OneTokenRead ==
  ASSUME NEW D, Writable(D), NEW b \in Blanks, NEW tokens \in Seq(TokensOver(D)), NEW k \in 1..Len(tokens),
         LexedUpto(tokens, k - 1) \in Lexers(D),
         Ready(LexedUpto(tokens, k - 1), SubSeq(tokens, 1, k - 1), Written(tokens[k])[1])
  PROVE  /\ Written(tokens[k]) \o SpaceAfter(b, tokens, k) \in Seq(D)
         /\ Leads(LexStep(D), LexedUpto(tokens, k - 1), Written(tokens[k]) \o SpaceAfter(b, tokens, k), LexedUpto(tokens, k))
         /\ LexedUpto(tokens, k) \in Lexers(D)
         /\ k < Len(tokens) => Ready(LexedUpto(tokens, k), SubSeq(tokens, 1, k), Written(tokens[k + 1])[1])
         /\ Built(LexedUpto(tokens, k)) = AtEase(SubSeq(tokens, 1, k))
<1> DEFINE L == Lexemes(D)
           T == TokensOver(D)
           t == tokens[k]
           o == SubSeq(tokens, 1, k - 1)
           p == SubSeq(tokens, 1, k)
           x == LexedUpto(tokens, k - 1)
           z == LexedUpto(tokens, k)
           y == After(t, o)
           w == Written(t)
           g == LexStep(D)
           sp == Spaced(tokens, k)
<1>0. \A u \in T : u \in L
  BY TokenTyped
<1> HIDE DEF T, L
<1>1. tokens \in Seq(L) /\ t \in T /\ t \in L /\ (k < Len(tokens) => tokens[k + 1] \in T) /\ k # 0
  BY <1>0 DEF T
<1>2. o \in Seq(L) /\ p \in Seq(L)
  <2>1. \A j \in 0..Len(tokens) : SubSeq(tokens, 1, j) \in Seq(L)
    BY <1>1
  <2>2. k - 1 \in 0..Len(tokens) /\ k \in 0..Len(tokens)
    OBVIOUS
  <2> QED BY <2>1, <2>2, Zenon
<1>3. p = Append(o, t)
  BY <1>1, Beginning
<1> HIDE DEF t, o, p, x
<1>4. TokenReads(D, x, t, o)
  BY <1>1, <1>2, TokenRead, Zenon DEF T, L, x, o, t
<1>5. /\ w \in Seq(D) /\ Leads(g, x, w, y) /\ y \in Lexers(D) /\ Built(y) = AtEase(p)
      /\ \A c \in Blanks : Ready(y, p, c)
      /\ \A u \in T : ~RunsOn(t, u) => Ready(y, p, Written(u)[1])
  BY <1>3, <1>4, Zenon DEF TokenReads, HasRead, T
<1>6. z = IF sp THEN AtEase(p) ELSE y
  BY <1>1, Zenon DEF LexedUpto, p, t, o
<1>7. sp <=> k < Len(tokens) /\ RunsOn(t, tokens[k + 1])
  BY Zenon DEF Spaced, t
<1>8. SpaceAfter(b, tokens, k) = IF sp THEN <<b>> ELSE <<>>
  BY Zenon DEF SpaceAfter
<1>9. AtEase(p) \in Lexers(D)
  BY <1>2, EaseTyped DEF L
<1> HIDE DEF y, w, g, z, sp
<1>10. CASE sp
  <2>1. b \in Blanks /\ b \in D
    BY Zenon DEF Writable
  <2>2. Lexes(y, b) = AtEase(p)
    <3>1. StartsWith("skip", <<>>, p, b)
      BY StartsIs, Zenon
    <3>2. StartsToken(AtEase(p), b) = AtEase(p)
      BY <2>1, <3>1, Zenon DEF StartsWith, AtEase
    <3> QED BY <1>5, <2>1, <3>2, Zenon DEF Ready
  <2>3. Leads(g, y, <<b>>, AtEase(p))
    BY <1>5, <2>1, <2>2, LexOne DEF g
  <2>4. <<b>> \in Seq(D)
    BY <2>1
  <2>5. Leads(g, x, w \o <<b>>, AtEase(p))
    BY <1>5, <2>3, <2>4, LeadsOn
  <2>6. w \o <<b>> \in Seq(D)
    BY <1>5, <2>4
  <2>7. \A c : Ready(AtEase(p), p, c) /\ Built(AtEase(p)) = AtEase(p)
    BY EaseReady
  <2> QED BY <1>6, <1>8, <1>9, <1>10, <2>5, <2>6, <2>7, Zenon DEF w, x, g, z, p, t
<1>11. CASE ~sp
  <2>1. w \o <<>> = w
    BY <1>5, ConcatEmptySeq
  <2>2. k < Len(tokens) => Ready(y, p, Written(tokens[k + 1])[1])
    BY <1>1, <1>5, <1>7, <1>11, Zenon
  <2> QED BY <1>5, <1>6, <1>8, <1>11, <2>1, <2>2, Zenon DEF w, x, g, z, p, t
<1> QED BY <1>10, <1>11, Zenon

\* A file is read as the tokens that it was written from.
LEMMA FileLexed ==
  ASSUME NEW D, Writable(D), NEW b \in Blanks, NEW tokens \in Seq(TokensOver(D))
  PROVE  Lexed(File(b, tokens)) = tokens
<1> DEFINE n == Len(tokens)
           f == File(b, tokens)
           s == [i \in DOMAIN tokens |-> Written(tokens[i]) \o SpaceAfter(b, tokens, i)]
           g == LexStep(D)
           st == [k \in 0..n |-> LexedUpto(tokens, k)]
           e == <<>>
           Good(k) == /\ LexedUpto(tokens, k) \in Lexers(D)
                      /\ k < n => Ready(LexedUpto(tokens, k), SubSeq(tokens, 1, k), Written(tokens[k + 1])[1])
                      /\ Built(LexedUpto(tokens, k)) = AtEase(SubSeq(tokens, 1, k))
           K == {k \in Nat : k <= n => Good(k)}
<1>1. n \in Nat /\ DOMAIN tokens = 1..n
  OBVIOUS
<1>2. f = FlattenSeq(s)
  BY Zenon DEF File, SpaceAfter, Spaced
<1>3. LexedUpto(tokens, 0) = AtEase(e)
  <2>1. SubSeq(tokens, 1, 0) = e
    OBVIOUS
  <2> QED BY <2>1, Zenon DEF LexedUpto
<1>4. AtEase(e) \in Lexers(D)
  BY LexStepIs
<1>5. Good(0)
  <2>1. SubSeq(tokens, 1, 0) = e
    OBVIOUS
  <2>2. \A c : Ready(AtEase(e), e, c) /\ Built(AtEase(e)) = AtEase(e)
    BY EaseReady
  <2> HIDE DEF n, e
  <2> QED BY <1>3, <1>4, <2>1, <2>2, Zenon
<1>6. ASSUME NEW k \in 1..n, Good(k - 1)
      PROVE  Good(k) /\ Written(tokens[k]) \o SpaceAfter(b, tokens, k) \in Seq(D)
             /\ Leads(g, LexedUpto(tokens, k - 1), Written(tokens[k]) \o SpaceAfter(b, tokens, k), LexedUpto(tokens, k))
  <2>1. k - 1 < n /\ (k - 1) + 1 = k /\ k \in 1..Len(tokens)
    BY <1>1
  <2>2. /\ LexedUpto(tokens, k - 1) \in Lexers(D)
        /\ Ready(LexedUpto(tokens, k - 1), SubSeq(tokens, 1, k - 1), Written(tokens[k])[1])
    BY <1>6, <2>1, Zenon
  <2> QED BY <2>1, <2>2, OneTokenRead, Zenon
<1> HIDE DEF Good
<1>7. ASSUME NEW k \in Nat, k \in K PROVE k + 1 \in K
  <2> SUFFICES ASSUME k + 1 <= n PROVE Good(k + 1)
    BY <1>1
  <2>1. k + 1 \in 1..n /\ (k + 1) - 1 = k /\ Good(k)
    BY <1>1, <1>7
  <2>2. Good((k + 1) - 1)
    BY <2>1, Zenon
  <2> QED BY <1>6, <2>1, <2>2, Zenon
<1>8. Nat \subseteq K
  <2>1. 0 \in K
    BY <1>5
  <2> HIDE DEF K
  <2> QED BY <1>7, <2>1, NatSets
<1>9. \A k \in 0..n : Good(k)
  <2> SUFFICES ASSUME NEW k \in 0..n PROVE Good(k)
    OBVIOUS
  <2>1. k \in Nat /\ k <= n
    BY <1>1
  <2> QED BY <1>8, <2>1
<1>10. \A k \in 1..n : Written(tokens[k]) \o SpaceAfter(b, tokens, k) \in Seq(D)
         /\ Leads(g, LexedUpto(tokens, k - 1), Written(tokens[k]) \o SpaceAfter(b, tokens, k), LexedUpto(tokens, k))
  <2> TAKE k \in 1..n
  <2>1. k - 1 \in 0..n
    BY <1>1
  <2>2. Good(k - 1)
    BY <1>9, <2>1, Zenon
  <2> QED BY <1>6, <2>2, Zenon
<1>11. s \in Seq(Seq(D)) /\ Len(s) = n /\ \A k \in 1..n : s[k] = Written(tokens[k]) \o SpaceAfter(b, tokens, k)
  BY <1>1, <1>10
<1>12. \A k \in 0..n : st[k] = LexedUpto(tokens, k)
  OBVIOUS
<1> HIDE DEF s, st, f, g
<1>13. ASSUME NEW k \in 1..Len(s) PROVE Leads(g, st[k - 1], s[k], st[k])
  <2>1. k \in 1..n /\ k - 1 \in 0..n /\ k \in 0..n
    BY <1>1, <1>11
  <2> QED BY <1>10, <1>11, <1>12, <2>1, Zenon
<1>14. Leads(g, st[0], f, st[Len(s)])
  BY <1>2, <1>11, <1>13, LeadsFlat
<1>15. f \in Seq(D)
  BY <1>2, <1>11, FlatType
<1>16. 0 \in 0..n /\ n \in 0..n /\ SubSeq(tokens, 1, n) = tokens
  BY <1>1
<1>17. Leads(LexStep(D), AtEase(<<>>), f, LexedUpto(tokens, n))
  BY <1>3, <1>11, <1>12, <1>14, <1>16, Zenon DEF g, e
<1> DEFINE y == LexedUpto(tokens, n)
<1> HIDE DEF y, n
<1>18. FoldLeft(Lexes, AtEase(<<>>), f) = y
  BY <1>15, <1>17, LexesFold DEF y
<1>19. Built(y) = AtEase(tokens)
  BY <1>9, <1>16, Zenon DEF Good, y
<1>20. Lexed(f) = IF Built(y).mode = "skip" THEN Built(y).tokens ELSE Append(Built(y).tokens, Lexeme("error", <<>>))
  BY <1>18, Zenon DEF Lexed, AtEase, Lexer
<1>21. AtEase(tokens).mode = "skip" /\ AtEase(tokens).tokens = tokens
  BY LexerParts DEF AtEase
<1>22. Lexed(f) = tokens
  BY <1>19, <1>20, <1>21, Zenon
<1> QED BY <1>22 DEF f

-----------------------------------------------------------------------------
(* The properties of Text.                                                 *)

\* What may be typed on a line.
LinesOver(D) ==
  {AString(s) : s \in Seq(D)}
  \cup UNION {{SomeWords(q, words) : words \in Seq(Seq(D \ {q, "<"}))} : q \in Quotes}

LEMMA StringRead ==
  ASSUME NEW s
  PROVE  AString(s).kind = "string" /\ AString(s).kind # "words" /\ AString(s).kind # "text" /\ AString(s).s = s
  BY DEF AString

LEMMA WordsRead ==
  ASSUME NEW q, NEW words
  PROVE  LET x == SomeWords(q, words) IN
         x.kind # "string" /\ x.kind = "words" /\ x.kind # "text" /\ x.quote = q /\ x.words = words
  BY DEF SomeWords

LEMMA TextRead ==
  ASSUME NEW p, NEW a
  PROVE  AText(p, a).pieces = p /\ AText(p, a).args = a
  BY DEF AText

\* What is typed reaches the command, for any characters: the words in quotes that they
\* do not have, and a variable by its value (EnvVarStrResolver, CommandLine).
THEOREM LineReaches ==
  ASSUME NEW D, Alphabet(D), Quotable(D), input \in LinesOver(D)
  PROVE  LineAsTyped
<1>1. CASE \E s \in Seq(D) : input = AString(s)
  <2>1. PICK s \in Seq(D) : input = AString(s)
    BY <1>1, Zenon
  <2>2. input.kind # "words" /\ input.s = s
    BY <2>1, StringRead, Zenon
  <2>3. VariableInserted
    BY <2>2, VariableResolved, Zenon DEF VariableInserted
  <2> QED BY <2>2, <2>3, Zenon DEF LineAsTyped, WordsAsTyped
<1>2. CASE \E q \in Quotes : \E words \in Seq(Seq(D \ {q, "<"})) : input = SomeWords(q, words)
  <2>1. PICK q \in Quotes : \E words \in Seq(Seq(D \ {q, "<"})) : input = SomeWords(q, words)
    BY <1>2, Zenon
  <2>2. PICK words \in Seq(Seq(D \ {q, "<"})) : input = SomeWords(q, words)
    BY <2>1, Zenon
  <2>3. input.kind # "string" /\ input.quote = q /\ input.words = words
    BY <2>2, WordsRead, Zenon
  <2>4. Tokenized(Quoting(q, words)) = words
    BY WordsTokenized
  <2> QED BY <2>3, <2>4, Zenon DEF LineAsTyped, WordsAsTyped, VariableInserted
<1> QED BY <1>1, <1>2, Zenon DEF LinesOver

LEMMA FilledIs ==
  ASSUME NEW p, NEW x
  PROVE  Filled(p, x) = FlattenSeq(Fills(p, x))
  BY Zenon DEF Filled, Fills

\* The texts with arguments: the pieces of a text have no second character of a mark.
TextsOver(D) == UNION {{AText(p, a) : p \in Seq(Seq(D \ {Mark[2]}))} : a \in Seq(Seq(D))}

\* Arguments go where the marks of a text are, whatever the characters, how many pieces
\* and how many arguments there are (SMCLFormatter).
THEOREM ArgumentsPlaced ==
  ASSUME NEW D, Mark \in Seq(D), input \in TextsOver(D)
  PROVE  ArgumentsInPlace
<1>1. PICK a \in Seq(Seq(D)) : \E p \in Seq(Seq(D \ {Mark[2]})) : input = AText(p, a)
  BY Zenon DEF TextsOver
<1>2. PICK p \in Seq(Seq(D \ {Mark[2]})) : input = AText(p, a)
  BY <1>1, Zenon
<1>3. input.pieces = p /\ input.args = a
  BY <1>2, TextRead, Zenon
<1>4. Formatted(FlattenSeq(Fills(p, <<>>)), a) = FlattenSeq(Fills(p, a))
  BY PiecesFormatted
<1> QED BY <1>3, <1>4, FilledIs, Zenon DEF ArgumentsInPlace

\* What may be written in a file: tokens, and texts with places for arguments.
FilesOver(D) ==
  TextsOver(D) \cup UNION {{AFile(b, tokens) : tokens \in Seq(TokensOver(D))} : b \in Blanks}

LEMMA FileRead ==
  ASSUME NEW b, NEW tokens
  PROVE  LET x == AFile(b, tokens) IN
         x.kind = "file" /\ x.kind # "text" /\ x.blank = b /\ x.tokens = tokens
  BY DEF AFile

LEMMA TextKind ==
  ASSUME NEW p, NEW a
  PROVE  AText(p, a).kind # "file"
  BY DEF AText

\* What is written in a language file reaches the user: any words, keywords and signs, any
\* numbers below a hundred and any texts, with any blank between them, in any order and
\* number (SMCLLexer), and any arguments in them (SMCLFormatter).
THEOREM FileReaches ==
  ASSUME NEW D, Writable(D), Mark \in Seq(D), input \in FilesOver(D)
  PROVE  FileAsWritten
<1>1. CASE input \in TextsOver(D)
  <2>1. PICK a \in Seq(Seq(D)) : \E p \in Seq(Seq(D \ {Mark[2]})) : input = AText(p, a)
    BY <1>1, Zenon DEF TextsOver
  <2>2. input.kind # "file"
    BY <2>1, TextKind, Zenon
  <2>3. ArgumentsInPlace
    BY <1>1, ArgumentsPlaced, Zenon
  <2> QED BY <2>2, <2>3, Zenon DEF FileAsWritten, TokensAsWritten
<1>2. CASE \E b \in Blanks : \E tokens \in Seq(TokensOver(D)) : input = AFile(b, tokens)
  <2>1. PICK b \in Blanks : \E tokens \in Seq(TokensOver(D)) : input = AFile(b, tokens)
    BY <1>2, Zenon
  <2>2. PICK tokens \in Seq(TokensOver(D)) : input = AFile(b, tokens)
    BY <2>1, Zenon
  <2>3. input.kind # "text" /\ input.blank = b /\ input.tokens = tokens
    BY <2>2, FileRead, Zenon
  <2>4. Lexed(File(b, tokens)) = tokens
    BY FileLexed, Zenon
  <2> QED BY <2>3, <2>4, Zenon DEF FileAsWritten, TokensAsWritten, ArgumentsInPlace
<1> QED BY <1>1, <1>2, Zenon DEF FilesOver

=============================================================================

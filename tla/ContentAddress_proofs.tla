------------------------- MODULE ContentAddress_proofs -------------------------
(***************************************************************************)
(* What an address by content stands for, for texts of every length with   *)
(* names and values of every kind: the order of names is total, so that a  *)
(* set of members has one sorted sequence; a text and its canonical form   *)
(* therefore have the same members, and equal forms mean equal data.       *)
(***************************************************************************)
EXTENDS ContentAddress, FiniteSetTheorems, SequenceTheorems, TLAPS

\* A set of numbers that is not empty has a least element.
LEMMA LeastNumber ==
    ASSUME NEW T, T \subseteq Nat, T # {}
    PROVE  \E x \in T : \A y \in T : x <= y
  <1> DEFINE R == OpToRel(<, Nat)
  <1>1. IsWellFoundedOn(R, Nat)
    BY NatLessThanWellFounded
  <1>2. \A x, y \in T : <<y, x>> \in R <=> y < x
    BY DEF OpToRel
  <1> HIDE DEF R
  <1>3. PICK x \in T : \A y \in T : ~(<<y, x>> \in R)
    BY <1>1, WFMin
  <1>4. \A u, w \in T : ~(w < u) => u <= w
    OBVIOUS
  <1>5. \A y \in T : x <= y
    BY <1>2, <1>3, <1>4
  <1> QED BY <1>5

\* And the greatest of those up to a bound is its Max.
LEMMA GreatestNumber ==
    ASSUME NEW n \in Nat, NEW T, T \subseteq 1 .. n, T # {}
    PROVE  Max(T) \in T /\ \A y \in T : Max(T) >= y
  <1> DEFINE U == {n - y : y \in T}
  <1>0. \A y \in T : y \in Nat /\ n - y \in Nat /\ n - y \in U
    OBVIOUS
  <1>1. U \subseteq Nat /\ U # {}
    BY <1>0
  <1>2. PICK u \in U : \A w \in U : u <= w
    BY <1>1, LeastNumber
  <1>3. PICK x \in T : u = n - x
    OBVIOUS
  <1>4. \A y \in T : x >= y
    <2> TAKE y \in T
    <2>1. n - y \in U
      OBVIOUS
    <2> QED BY <1>2, <1>3, <2>1
  <1> QED BY <1>4 DEF Max

LEMMA FunctionIsSequence ==
    ASSUME NEW S, NEW n \in Nat, NEW s \in [1 .. n -> S]
    PROVE  s \in Seq(S)
  OBVIOUS

(***************************************************************************)
(* The order of names.                                                     *)
(***************************************************************************)

\* The first units of two names are the same.
SameUpTo(s, t, k) == \A j \in 1 .. k : s[j] = t[j]

\* LexBefore, unit by unit.
Before(s, t) ==
    \/ Len(s) < Len(t) /\ SameUpTo(s, t, Len(s))
    \/ \E i \in 1 .. Len(s) : i <= Len(t) /\ s[i] < t[i] /\ SameUpTo(s, t, i - 1)

LEMMA SameStart ==
    ASSUME NEW s \in Seq(Nat), NEW t \in Seq(Nat), NEW k \in Nat, k <= Len(s), k <= Len(t)
    PROVE  SubSeq(s, 1, k) = SubSeq(t, 1, k) <=> SameUpTo(s, t, k)
  <1>1. /\ \A i \in 1 .. k : s[i] \in Nat
        /\ \A i \in 1 .. k : t[i] \in Nat
    BY LenProperties
  <1>2. /\ SubSeq(s, 1, k) \in Seq(Nat) /\ Len(SubSeq(s, 1, k)) = k
        /\ \A i \in 1 .. k : SubSeq(s, 1, k)[i] = s[i]
    BY <1>1, SubSeqProperties
  <1>3. /\ SubSeq(t, 1, k) \in Seq(Nat) /\ Len(SubSeq(t, 1, k)) = k
        /\ \A i \in 1 .. k : SubSeq(t, 1, k)[i] = t[i]
    BY <1>1, SubSeqProperties
  <1>4. ASSUME SameUpTo(s, t, k) PROVE SubSeq(s, 1, k) = SubSeq(t, 1, k)
    <2>1. \A i \in 1 .. k : SubSeq(s, 1, k)[i] = SubSeq(t, 1, k)[i]
      BY <1>2, <1>3, <1>4 DEF SameUpTo
    <2> QED BY <1>2, <1>3, <2>1, SeqEqual
  <1>5. ASSUME SubSeq(s, 1, k) = SubSeq(t, 1, k) PROVE SameUpTo(s, t, k)
    BY <1>2, <1>3, <1>5 DEF SameUpTo
  <1>6. SameUpTo(s, t, k) => SubSeq(s, 1, k) = SubSeq(t, 1, k)
    BY <1>4, Zenon
  <1>7. SubSeq(s, 1, k) = SubSeq(t, 1, k) => SameUpTo(s, t, k)
    BY <1>5, Zenon
  <1> QED BY <1>6, <1>7, Zenon

LEMMA LexIsBefore ==
    ASSUME NEW s \in Seq(Nat), NEW t \in Seq(Nat)
    PROVE  LexBefore(s, t) <=> Before(s, t)
  <1>0. Len(s) \in Nat /\ Len(t) \in Nat
    BY LenProperties
  <1>1. DOMAIN s = 1 .. Len(s) /\ DOMAIN t = 1 .. Len(t)
    BY LenProperties
  <1>2. IsStrictPrefix(s, t) <=> Len(s) < Len(t) /\ SameUpTo(s, t, Len(s))
    <2>1. CASE Len(s) <= Len(t)
      <3>1. SubSeq(s, 1, Len(s)) = SubSeq(t, 1, Len(s)) <=> SameUpTo(s, t, Len(s))
        BY <1>0, <2>1, SameStart
      <3>2. Len(s) = Len(t) /\ SameUpTo(s, t, Len(s)) => s = t
        BY SeqEqual DEF SameUpTo
      <3>3. s = t => Len(s) = Len(t)
        OBVIOUS
      <3>4. Len(s) < Len(t) <=> Len(s) # Len(t)
        BY <1>0, <2>1
      <3> QED BY <2>1, <3>1, <3>2, <3>3, <3>4, Zenon DEF IsStrictPrefix, IsPrefix
    <2>2. CASE Len(s) > Len(t)
      <3>1. ~(Len(s) <= Len(t)) /\ ~(Len(s) < Len(t))
        BY <1>0, <2>2
      <3> QED BY <3>1, Zenon DEF IsStrictPrefix, IsPrefix
    <2> QED BY <1>0, <2>1, <2>2
  <1>3. ASSUME NEW i \in 1 .. Len(s), i <= Len(t)
        PROVE  SubSeq(s, 1, i - 1) = SubSeq(t, 1, i - 1) <=> SameUpTo(s, t, i - 1)
    <2>1. i - 1 \in Nat /\ i - 1 <= Len(s) /\ i - 1 <= Len(t)
      BY <1>0, <1>3
    <2> QED BY <2>1, SameStart
  <1>4. (\E i \in DOMAIN s \cap DOMAIN t :
             s[i] < t[i] /\ SubSeq(s, 1, i - 1) = SubSeq(t, 1, i - 1))
        <=> \E i \in 1 .. Len(s) : i <= Len(t) /\ s[i] < t[i] /\ SameUpTo(s, t, i - 1)
    <2>1. \A i : i \in DOMAIN s \cap DOMAIN t <=> i \in 1 .. Len(s) /\ i <= Len(t)
      BY <1>0, <1>1
    <2> QED BY <1>3, <2>1
  <1> QED BY <1>2, <1>4, Zenon DEF LexBefore, Before

\* No name comes before itself.
LEMMA NotBeforeItself ==
    ASSUME NEW s \in Seq(Nat) PROVE ~Before(s, s)
  BY LenProperties DEF Before

\* Of two names one comes before the other.
LEMMA BeforeIsTotal ==
    ASSUME NEW s \in Seq(Nat), NEW t \in Seq(Nat), s # t
    PROVE  Before(s, t) \/ Before(t, s)
  <1>1. /\ Len(s) \in Nat /\ \A i \in 1 .. Len(s) : s[i] \in Nat
        /\ Len(t) \in Nat /\ \A i \in 1 .. Len(t) : t[i] \in Nat
    BY LenProperties
  <1> DEFINE D == {i \in 1 .. Len(s) : i <= Len(t) /\ s[i] # t[i]}
  <1>2. CASE D = {}
    <2>1. \A i \in 1 .. Len(s) : i <= Len(t) => s[i] = t[i]
      BY <1>2
    <2>2. Len(s) # Len(t)
      BY <1>1, <2>1, SeqEqual
    <2> QED BY <1>1, <2>1, <2>2 DEF Before, SameUpTo
  <1>3. CASE D # {}
    <2>1. D \subseteq Nat
      BY <1>1
    <2>2. PICK i \in D : \A j \in D : i <= j
      BY <1>3, <2>1, LeastNumber
    <2>3. i \in 1 .. Len(s) /\ i \in 1 .. Len(t) /\ s[i] # t[i]
      BY <1>1, <2>2
    <2>4. \A j \in 1 .. i - 1 : s[j] = t[j]
      <3> TAKE j \in 1 .. i - 1
      <3>1. j \in 1 .. Len(s) /\ j <= Len(t) /\ j \notin D
        BY <1>1, <2>2, <2>3
      <3> QED BY <3>1
    <2>5. s[i] < t[i] \/ t[i] < s[i]
      BY <1>1, <2>3
    <2> HIDE DEF D
    <2> QED BY <1>1, <2>3, <2>4, <2>5 DEF Before, SameUpTo
  <1> QED BY <1>2, <1>3

\* What starts like what starts like a third.
LEMMA SameStartOfThree ==
    ASSUME NEW s, NEW t, NEW u, NEW a \in Int, NEW b \in Int, NEW c \in Int, c <= a, c <= b,
           SameUpTo(s, t, a), SameUpTo(t, u, b)
    PROVE  SameUpTo(s, u, c)
  <1> SUFFICES ASSUME NEW j \in 1 .. c PROVE s[j] = u[j]
    BY DEF SameUpTo
  <1>1. j \in 1 .. a /\ j \in 1 .. b
    OBVIOUS
  <1> QED BY <1>1 DEF SameUpTo

LEMMA BeforeIsTransitive ==
    ASSUME NEW s \in Seq(Nat), NEW t \in Seq(Nat), NEW u \in Seq(Nat), Before(s, t), Before(t, u)
    PROVE  Before(s, u)
  <1>1. /\ Len(s) \in Nat /\ \A i \in 1 .. Len(s) : s[i] \in Nat
        /\ Len(t) \in Nat /\ \A i \in 1 .. Len(t) : t[i] \in Nat
        /\ Len(u) \in Nat /\ \A i \in 1 .. Len(u) : u[i] \in Nat
    BY LenProperties
  <1>2. CASE Len(s) < Len(t) /\ SameUpTo(s, t, Len(s))
    <2>1. CASE Len(t) < Len(u) /\ SameUpTo(t, u, Len(t))
      BY <1>1, <1>2, <2>1 DEF Before, SameUpTo
    <2>2. ASSUME NEW k \in 1 .. Len(t), k <= Len(u), t[k] < u[k], SameUpTo(t, u, k - 1)
          PROVE  Before(s, u)
      <3>1. CASE k <= Len(s)
        <4>1. s[k] < u[k] /\ SameUpTo(s, u, k - 1) /\ k \in 1 .. Len(s)
          BY <1>1, <1>2, <2>2, <3>1 DEF SameUpTo
        <4> QED BY <2>2, <4>1 DEF Before
      <3>2. CASE Len(s) < k
        BY <1>1, <1>2, <2>2, <3>2 DEF Before, SameUpTo
      <3> QED BY <1>1, <3>1, <3>2
    <2> QED BY <2>1, <2>2 DEF Before
  <1>3. ASSUME NEW i \in 1 .. Len(s), i <= Len(t), s[i] < t[i], SameUpTo(s, t, i - 1)
        PROVE  Before(s, u)
    <2>1. CASE Len(t) < Len(u) /\ SameUpTo(t, u, Len(t))
      <3>1. s[i] < u[i] /\ SameUpTo(s, u, i - 1) /\ i <= Len(u)
        BY <1>1, <1>3, <2>1 DEF SameUpTo
      <3> QED BY <3>1 DEF Before
    <2>2. ASSUME NEW k \in 1 .. Len(t), k <= Len(u), t[k] < u[k], SameUpTo(t, u, k - 1)
          PROVE  Before(s, u)
      <3>1. CASE i < k
        <4>1. i \in 1 .. k - 1 /\ i <= Len(u) /\ i - 1 \in Int /\ k - 1 \in Int /\ i - 1 <= k - 1
          BY <1>1, <1>3, <2>2, <3>1
        <4>2. t[i] = u[i]
          BY <2>2, <4>1 DEF SameUpTo
        <4>3. SameUpTo(s, u, i - 1)
          BY <1>3, <2>2, <4>1, SameStartOfThree
        <4> QED BY <1>3, <4>1, <4>2, <4>3 DEF Before
      <3>2. CASE i = k
        <4>1. s[i] < u[i] /\ SameUpTo(s, u, i - 1) /\ i <= Len(u)
          BY <1>1, <1>3, <2>2, <3>2 DEF SameUpTo
        <4> QED BY <4>1 DEF Before
      <3>3. CASE i > k
        <4>1. /\ k \in 1 .. i - 1 /\ k \in 1 .. Len(s)
              /\ i - 1 \in Int /\ k - 1 \in Int /\ k - 1 <= i - 1
          BY <1>1, <1>3, <2>2, <3>3
        <4>2. s[k] = t[k]
          BY <1>3, <4>1 DEF SameUpTo
        <4>3. SameUpTo(s, u, k - 1)
          BY <1>3, <2>2, <4>1, SameStartOfThree
        <4> QED BY <2>2, <4>1, <4>2, <4>3 DEF Before
      <3> QED BY <1>1, <3>1, <3>2, <3>3
    <2> QED BY <2>1, <2>2 DEF Before
  <1> QED BY <1>2, <1>3 DEF Before

(***************************************************************************)
(* Sorting.                                                                *)
(***************************************************************************)

\* Members with names of their own.
Sortable(S) ==
    /\ IsFiniteSet(S)
    /\ \A m \in S : m.name \in Seq(Nat)
    /\ \A m, n \in S : m # n => m.name # n.name

\* On them the order is strict and total.
LEMMA PrecedesIsOrder ==
    ASSUME NEW S, Sortable(S)
    PROVE  /\ \A m \in S : ~Precedes(m, m)
           /\ \A m, n \in S : m # n => Precedes(m, n) \/ Precedes(n, m)
           /\ \A m, n, o \in S : Precedes(m, n) /\ Precedes(n, o) => Precedes(m, o)
  <1>1. \A m \in S : ~Precedes(m, m)
    BY LexIsBefore, NotBeforeItself DEF Sortable, Precedes
  <1>2. \A m, n \in S : m # n => Precedes(m, n) \/ Precedes(n, m)
    <2> TAKE m, n \in S
    <2>1. m.name \in Seq(Nat) /\ n.name \in Seq(Nat) /\ (m # n => m.name # n.name)
      BY DEF Sortable
    <2> QED BY <2>1, LexIsBefore, BeforeIsTotal DEF Precedes
  <1>3. \A m, n, o \in S : Precedes(m, n) /\ Precedes(n, o) => Precedes(m, o)
    <2> TAKE m, n, o \in S
    <2>1. m.name \in Seq(Nat) /\ n.name \in Seq(Nat) /\ o.name \in Seq(Nat)
      BY DEF Sortable
    <2> QED BY <2>1, LexIsBefore, BeforeIsTransitive DEF Precedes
  <1> QED BY <1>1, <1>2, <1>3

\* A finite set that R orders has a sequence in that order: every element at the
\* place that the number of elements before it gives.
LEMMA OrderedSequence ==
    ASSUME NEW S, IsFiniteSet(S), NEW R,
           \A x \in S : <<x, x>> \notin R,
           \A x, y \in S : x # y => <<x, y>> \in R \/ <<y, x>> \in R,
           \A x, y, z \in S : <<x, y>> \in R /\ <<y, z>> \in R => <<x, z>> \in R
    PROVE  \E s \in SetToSeqs(S) : \A i, j \in 1 .. Cardinality(S) : i < j => <<s[i], s[j]>> \in R
  <1> DEFINE n == Cardinality(S)
             below(x) == {y \in S : <<y, x>> \in R}
             rank == [x \in S |-> Cardinality(below(x)) + 1]
             s == [i \in 1 .. n |-> CHOOSE x \in S : rank[x] = i]
  <1>1. n \in Nat
    BY FS_CardinalityType
  <1>2. \A x \in S : IsFiniteSet(below(x)) /\ Cardinality(below(x)) \in Nat
    <2> TAKE x \in S
    <2>1. below(x) \in SUBSET S
      OBVIOUS
    <2> HIDE DEF below
    <2>2. IsFiniteSet(below(x))
      BY <2>1, FS_Subset
    <2> QED BY <2>2, FS_CardinalityType
  <1>3. \A x \in S : Cardinality(below(x)) < n
    <2> TAKE x \in S
    <2>1. below(x) \in SUBSET S /\ below(x) # S
      OBVIOUS
    <2> HIDE DEF below
    <2>2. Cardinality(below(x)) <= n /\ Cardinality(below(x)) # n
      BY <2>1, FS_Subset
    <2> QED BY <1>1, <1>2, <2>2
  <1>4. rank \in [S -> 1 .. n]
    <2> HIDE DEF below, n
    <2> QED BY <1>1, <1>2, <1>3
  <1>5. \A x, y \in S : <<x, y>> \in R => rank[x] < rank[y]
    <2> TAKE x, y \in S
    <2> HAVE <<x, y>> \in R
    <2>1. below(x) \in SUBSET below(y) /\ below(x) # below(y)
      OBVIOUS
    <2> HIDE DEF below
    <2>2. Cardinality(below(x)) <= Cardinality(below(y)) /\ Cardinality(below(x)) # Cardinality(below(y))
      BY <1>2, <2>1, FS_Subset
    <2> QED BY <1>2, <2>2
  <1>6. \A x, y \in S : rank[x] = rank[y] => x = y
    <2> SUFFICES ASSUME NEW x \in S, NEW y \in S, rank[x] = rank[y], x # y PROVE FALSE
      OBVIOUS
    <2> HIDE DEF rank, n
    <2>1. rank[x] \in Int /\ rank[y] \in Int
      BY <1>1, <1>4
    <2>2. <<x, y>> \in R \/ <<y, x>> \in R
      OBVIOUS
    <2>3. rank[x] < rank[y] \/ rank[y] < rank[x]
      BY <1>5, <2>2
    <2> QED BY <2>1, <2>3
  <1>7. \A i \in 1 .. n : \E x \in S : rank[x] = i
    <2> HIDE DEF rank
    <2>1. rank \in Injection(S, 1 .. n)
      BY <1>4, <1>6 DEF Injection, IsInjective
    <2>2. IsFiniteSet(1 .. n) /\ Cardinality(1 .. n) = n
      BY <1>1, FS_Interval
    <2>3. rank \in Surjection(S, 1 .. n)
      BY <2>1, <2>2, FS_Injection
    <2> QED BY <2>3 DEF Surjection
  <1> HIDE DEF rank
  <1>8. \A i \in 1 .. n : s[i] \in S /\ rank[s[i]] = i
    BY <1>7
  <1>9. s \in [1 .. n -> S]
    BY <1>7
  <1> HIDE DEF s
  <1>10. s \in SetToSeqs(S)
    BY <1>8, <1>9 DEF SetToSeqs
  <1>11. ASSUME NEW i \in 1 .. n, NEW j \in 1 .. n, i < j PROVE <<s[i], s[j]>> \in R
    <2>1. s[i] \in S /\ s[j] \in S /\ rank[s[i]] = i /\ rank[s[j]] = j
      BY <1>8
    <2>2. s[i] # s[j]
      BY <1>1, <1>11, <2>1
    <2>3. <<s[j], s[i]>> \notin R
      BY <1>1, <1>5, <1>11, <2>1
    <2> QED BY <2>1, <2>2, <2>3
  <1> QED BY <1>10, <1>11

\* The sorted sequence of members with names of their own.
LEMMA SortedExists ==
    ASSUME NEW S, Sortable(S)
    PROVE  /\ Sorted(S) \in SetToSeqs(S)
           /\ \A i, j \in DOMAIN Sorted(S) : i < j => Precedes(Sorted(S)[i], Sorted(S)[j])
  <1> DEFINE R == {p \in S \X S : Precedes(p[1], p[2])}
  <1>1. \A m, n \in S : <<m, n>> \in R <=> Precedes(m, n)
    OBVIOUS
  <1> HIDE DEF R
  <1>2. IsFiniteSet(S)
    BY DEF Sortable
  <1>3. PICK s \in SetToSeqs(S) : \A i, j \in 1 .. Cardinality(S) : i < j => <<s[i], s[j]>> \in R
    BY <1>1, <1>2, PrecedesIsOrder, OrderedSequence
  <1>4. s \in [1 .. Cardinality(S) -> S]
    BY DEF SetToSeqs
  <1>5. \A i, j \in DOMAIN s : i < j => Precedes(s[i], s[j])
    BY <1>1, <1>3, <1>4
  <1> QED BY <1>5 DEF Sorted

\* It is a sequence, and holds every member.
LEMMA SortedHolds ==
    ASSUME NEW S, Sortable(S)
    PROVE  /\ Sorted(S) \in Seq(S)
           /\ \A i, j \in DOMAIN Sorted(S) : i # j => Sorted(S)[i] # Sorted(S)[j]
           /\ {Sorted(S)[i] : i \in DOMAIN Sorted(S)} = S
  <1> DEFINE s == Sorted(S)
             n == Cardinality(S)
  <1>1. IsFiniteSet(S) /\ n \in Nat
    BY FS_CardinalityType DEF Sortable
  <1>2. s \in [1 .. n -> S] /\ \A i, j \in 1 .. n : i # j => s[i] # s[j]
    BY SortedExists DEF SetToSeqs
  <1> HIDE DEF s, n
  <1>3. s \in Injection(1 .. n, S)
    BY <1>2 DEF Injection, IsInjective
  <1>4. Cardinality(1 .. n) = Cardinality(S) /\ IsFiniteSet(1 .. n)
    BY <1>1, FS_Interval DEF n
  <1>5. s \in Surjection(1 .. n, S)
    BY <1>1, <1>3, <1>4, FS_Injection
  <1>6. \A x \in S : \E i \in 1 .. n : s[i] = x
    BY <1>5 DEF Surjection
  <1>7. {s[i] : i \in DOMAIN s} = S
    BY <1>2, <1>6
  <1>8. s \in Seq(S)
    BY <1>1, <1>2
  <1> QED BY <1>2, <1>7, <1>8 DEF s

(***************************************************************************)
(* A text and its canonical form.                                          *)
(***************************************************************************)

\* An object with members of V.
IsText(v, V) == v.type = "object" /\ v.members \in Seq([name : MemberNames, value : V])

\* The members of its canonical form.
CanonicalMembers(v) ==
    {[name |-> name, value |-> CanonicalScalar(ValueOf(v, name))] : name \in Names(v)}

\* The value of a name is that of a member with the name.
LEMMA ValueIsThere ==
    ASSUME NEW V, NEW v, IsText(v, V), NEW name \in Names(v)
    PROVE  \E i \in DOMAIN v.members : v.members[i].name = name /\ ValueOf(v, name) = v.members[i].value
  <1> DEFINE members == v.members
             n == Len(members)
             T == {i \in 1 .. n : members[i].name = name}
  <1>1. n \in Nat /\ DOMAIN members = 1 .. n
    BY LenProperties DEF IsText
  <1>2. T # {} /\ T \subseteq 1 .. n
    BY <1>1 DEF Names
  <1>3. Max(T) \in T
    <2> HIDE DEF T, n
    <2> QED BY <1>1, <1>2, GreatestNumber
  <1>4. SelectLastInSeq(members, LAMBDA m : m.name = name) = Max(T)
    BY <1>2 DEF SelectLastInSeq
  <1>5. ValueOf(v, name) = members[Max(T)].value
    BY <1>4 DEF ValueOf
  <1> QED BY <1>1, <1>3, <1>5

LEMMA MembersOfText ==
    ASSUME NEW V, NEW v, IsText(v, V)
    PROVE  /\ \A i \in DOMAIN v.members :
                v.members[i].name \in MemberNames \cap Names(v) /\ v.members[i].value \in V
           /\ Names(v) \subseteq MemberNames
           /\ \A name \in Names(v) : ValueOf(v, name) \in V
  <1>1. DOMAIN v.members = 1 .. Len(v.members)
    BY LenProperties DEF IsText
  <1>2. \A i \in DOMAIN v.members : v.members[i] \in [name : MemberNames, value : V]
    BY <1>1, ElementOfSeq DEF IsText
  <1>3. \A i \in DOMAIN v.members :
            v.members[i].name \in MemberNames \cap Names(v) /\ v.members[i].value \in V
    BY <1>2 DEF Names
  <1>4. Names(v) \subseteq MemberNames
    BY <1>3 DEF Names
  <1>5. \A name \in Names(v) : ValueOf(v, name) \in V
    BY <1>3, ValueIsThere
  <1> QED BY <1>3, <1>4, <1>5

\* Where each name is written once, its value is the value of its member.
LEMMA ValueOfMember ==
    ASSUME NEW V, NEW v, IsText(v, V), HasUniqueNames(v), NEW i \in DOMAIN v.members
    PROVE  ValueOf(v, v.members[i].name) = v.members[i].value
  <1>1. v.members[i].name \in Names(v)
    BY DEF Names
  <1>2. PICK j \in DOMAIN v.members :
            v.members[j].name = v.members[i].name /\ ValueOf(v, v.members[i].name) = v.members[j].value
    BY <1>1, ValueIsThere
  <1>3. j = i
    BY <1>2 DEF HasUniqueNames, IsObject, IsText
  <1> QED BY <1>2, <1>3

LEMMA CanonicalMembersSortable ==
    ASSUME NEW V, NEW v, IsText(v, V)
    PROVE  Sortable(CanonicalMembers(v))
  <1> DEFINE C == CanonicalMembers(v)
             n == Len(v.members)
             entry(name) == [name |-> name, value |-> CanonicalScalar(ValueOf(v, name))]
             f == [i \in 1 .. n |-> entry(v.members[i].name)]
  <1>1. n \in Nat /\ DOMAIN v.members = 1 .. n
    BY LenProperties DEF IsText
  <1>2. \A c : c \in C <=> \E i \in 1 .. n : c = entry(v.members[i].name)
    BY <1>1 DEF CanonicalMembers, Names
  <1>3. \A c \in C : c.name \in Seq(Nat)
    <2>1. \A name \in Names(v) : name \in Seq(Nat)
      BY MembersOfText, WrittenAssumption
    <2> QED BY <2>1 DEF CanonicalMembers
  <1>4. \A c, d \in C : c # d => c.name # d.name
    BY DEF CanonicalMembers
  <1>5. IsFiniteSet(C)
    <2> HIDE DEF C, entry
    <2>1. f \in [1 .. n -> C] /\ \A c \in C : \E i \in 1 .. n : f[i] = c
      BY <1>2
    <2>2. f \in Surjection(1 .. n, C)
      BY <2>1 DEF Surjection
    <2>3. IsFiniteSet(1 .. n)
      BY <1>1, FS_Interval
    <2> QED BY <2>2, <2>3, FS_Surjection
  <1> QED BY <1>3, <1>4, <1>5 DEF Sortable

LEMMA CanonicalOfText ==
    ASSUME NEW V, NEW v, IsText(v, V)
    PROVE  Canonical(v) = [type |-> "object", members |-> Sorted(CanonicalMembers(v))]
  BY DEF Canonical, CanonicalMembers, IsText, IsObject

\* The canonical form is a text with the names of the one it is of, each once.
LEMMA CanonicalIsText ==
    ASSUME NEW V, NEW v, IsText(v, V)
    PROVE  /\ IsText(Canonical(v), {CanonicalScalar(s) : s \in V})
           /\ HasUniqueNames(Canonical(v))
           /\ Names(Canonical(v)) = Names(v)
           /\ {Canonical(v).members[i] : i \in DOMAIN Canonical(v).members} = CanonicalMembers(v)
  <1> DEFINE C == CanonicalMembers(v)
             c == Canonical(v)
             W == {CanonicalScalar(s) : s \in V}
  <1>1. c.type = "object" /\ c.members = Sorted(C)
    BY CanonicalOfText
  <1>2. Sortable(C)
    BY CanonicalMembersSortable
  <1>3. /\ c.members \in Seq(C) /\ {c.members[i] : i \in DOMAIN c.members} = C
        /\ \A i, j \in DOMAIN c.members : i # j => c.members[i] # c.members[j]
    BY <1>1, <1>2, SortedHolds
  <1> HIDE DEF c
  <1>4. C \subseteq [name : MemberNames, value : W]
    BY MembersOfText DEF CanonicalMembers
  <1>5. \A i \in DOMAIN c.members : c.members[i] \in C
    BY <1>3
  <1>6. c.members \in Seq([name : MemberNames, value : W])
    <2> HIDE DEF C, W
    <2>1. /\ Len(c.members) \in Nat /\ DOMAIN c.members = 1 .. Len(c.members)
          /\ c.members \in [1 .. Len(c.members) -> C]
      BY <1>3, LenProperties
    <2>2. c.members \in [1 .. Len(c.members) -> [name : MemberNames, value : W]]
      BY <1>4, <2>1
    <2> QED BY <2>1, <2>2, FunctionIsSequence
  <1>7. HasUniqueNames(c)
    <2>1. \A d, e \in C : d # e => d.name # e.name
      BY <1>2 DEF Sortable
    <2> HIDE DEF C
    <2>2. \A i, j \in DOMAIN c.members : i # j => c.members[i].name # c.members[j].name
      BY <1>3, <1>5, <2>1
    <2> QED BY <2>2 DEF HasUniqueNames
  <1>8. Names(c) = Names(v)
    <2>1. Names(c) = {d.name : d \in C}
      <3> HIDE DEF C
      <3>1. \A d : d \in C <=> \E i \in DOMAIN c.members : d = c.members[i]
        BY <1>3
      <3> QED BY <3>1 DEF Names
    <2>2. \A name : name \in Names(v) <=> \E d \in C : name = d.name
      <3> DEFINE entry(name) == [name |-> name, value |-> CanonicalScalar(ValueOf(v, name))]
      <3>1. \A d : d \in C <=> \E name \in Names(v) : d = entry(name)
        BY DEF CanonicalMembers
      <3>2. \A name : entry(name).name = name
        OBVIOUS
      <3> HIDE DEF C, entry
      <3> QED BY <3>1, <3>2
    <2> HIDE DEF C
    <2> QED BY <2>1, <2>2
  <1> QED BY <1>1, <1>3, <1>6, <1>7, <1>8 DEF c, IsText

\* A name has the canonical form of its value in it.
LEMMA CanonicalValue ==
    ASSUME NEW V, NEW v, IsText(v, V), NEW name \in Names(v)
    PROVE  ValueOf(Canonical(v), name) = CanonicalScalar(ValueOf(v, name))
  <1> DEFINE c == Canonical(v)
  <1>1. /\ IsText(c, {CanonicalScalar(s) : s \in V}) /\ name \in Names(c)
        /\ {c.members[i] : i \in DOMAIN c.members} = CanonicalMembers(v)
    BY CanonicalIsText
  <1> HIDE DEF c
  <1>2. PICK i \in DOMAIN c.members : c.members[i].name = name /\ ValueOf(c, name) = c.members[i].value
    BY <1>1, ValueIsThere
  <1>3. c.members[i] \in CanonicalMembers(v)
    BY <1>1
  <1>4. c.members[i].value = CanonicalScalar(ValueOf(v, name))
    BY <1>2, <1>3 DEF CanonicalMembers
  <1> QED BY <1>2, <1>4 DEF c

\* Two texts have one form exactly when they have the same names and, in
\* canonical form, the same values.
LEMMA SameForm ==
    ASSUME NEW V, NEW v, IsText(v, V), NEW w, IsText(w, V)
    PROVE  Canonical(v) = Canonical(w) <=>
              /\ Names(v) = Names(w)
              /\ \A name \in Names(v) :
                    CanonicalScalar(ValueOf(v, name)) = CanonicalScalar(ValueOf(w, name))
  <1>1. ASSUME Canonical(v) = Canonical(w)
        PROVE  /\ Names(v) = Names(w)
               /\ \A name \in Names(v) :
                     CanonicalScalar(ValueOf(v, name)) = CanonicalScalar(ValueOf(w, name))
    <2>1. Names(v) = Names(w)
      BY <1>1, CanonicalIsText
    <2>2. ASSUME NEW name \in Names(v)
          PROVE  CanonicalScalar(ValueOf(v, name)) = CanonicalScalar(ValueOf(w, name))
      BY <1>1, <2>1, CanonicalValue
    <2> QED BY <2>1, <2>2
  <1>2. ASSUME Names(v) = Names(w),
               \A name \in Names(v) :
                  CanonicalScalar(ValueOf(v, name)) = CanonicalScalar(ValueOf(w, name))
        PROVE  Canonical(v) = Canonical(w)
    <2>1. CanonicalMembers(v) = CanonicalMembers(w)
      BY <1>2 DEF CanonicalMembers
    <2> QED BY <2>1, CanonicalOfText
  <1> QED BY <1>1, <1>2

(***************************************************************************)
(* Values.                                                                 *)
(***************************************************************************)

\* The nearest double of a number is its own nearest double.
LEMMA DoubleFacts ==
    ASSUME NEW n \in Nat
    PROVE  /\ Double(n) \in Nat /\ Double(Double(n)) = Double(n)
           /\ n <= MaxExact => Double(n) = n
           /\ n <= MaxFinite => Double(n) <= MaxFinite
  BY JcsAssumption DEF Double

\* What is written in canonical form has its one spelling and stays as it is.
LEMMA ScalarFacts ==
    ASSUME NEW s \in Written
    PROVE  /\ CanonicalScalar(s).spelling = "plain"
           /\ CanonicalScalar(s).type = "number" => CanonicalScalar(s).content <= MaxFinite
           /\ CanonicalScalar(CanonicalScalar(s)) = CanonicalScalar(s)
           /\ s.type # "number" \/ s.content <= MaxExact =>
                CanonicalScalar(s) = [type |-> s.type, spelling |-> "plain", content |-> s.content]
           /\ s.type # "number" => CanonicalScalar(s).type = s.type
           /\ s.type = "number" => CanonicalScalar(s).type \in {"number", "null"}
  <1>1. s.type # "absent" /\ (s.type = "number" => s.content \in Nat)
    BY WrittenAssumption
  <1>2. MaxFinite \in Nat /\ MaxExact \in Nat /\ MaxExact <= MaxFinite
    BY JcsAssumption
  <1>3. CASE s.type # "number"
    BY <1>1, <1>3 DEF CanonicalScalar
  <1>4. CASE s.type = "number" /\ s.content > MaxFinite
    BY <1>1, <1>2, <1>4 DEF CanonicalScalar
  <1>5. CASE s.type = "number" /\ s.content <= MaxFinite
    <2> DEFINE d == Double(s.content)
    <2>1. d \in Nat /\ Double(d) = d /\ d <= MaxFinite /\ (s.content <= MaxExact => d = s.content)
      BY <1>1, <1>5, DoubleFacts
    <2>2. CanonicalScalar(s) = [type |-> "number", spelling |-> "plain", content |-> d]
      BY <1>1, <1>2, <1>5 DEF CanonicalScalar
    <2> HIDE DEF d
    <2>3. CanonicalScalar([type |-> "number", spelling |-> "plain", content |-> d])
              = [type |-> "number", spelling |-> "plain", content |-> d]
      BY <1>2, <2>1 DEF CanonicalScalar
    <2> QED BY <1>5, <2>1, <2>2, <2>3
  <1> QED BY <1>1, <1>2, <1>3, <1>4, <1>5

(***************************************************************************)
(* The invariant.                                                          *)
(***************************************************************************)

\* Both texts are objects of what is written, the published one with each name once.
IInv ==
    /\ IsText(text, Written) /\ Len(text.members) <= MaxMembers
    /\ IsText(published, Written) /\ HasUniqueNames(published)
    /\ changes \in 0 .. MaxChanges

LEMMA PublishedIsText ==
    ASSUME NEW v \in Published
    PROVE  IsText(v, Written) /\ HasUniqueNames(v) /\ Len(v.members) <= MaxMembers
  <1>1. v = Object(v.members) /\ v.members \in Seq(Members)
    BY PublishedAssumption
  <1>2. v.type = "object"
    BY <1>1 DEF Object
  <1> QED BY <1>1, <1>2, PublishedAssumption DEF IsText, Members

LEMMA InitInvariant == Init => IInv
  BY PublishedIsText, BoundAssumption DEF Init, IInv

\* Writing a text again, as long as it stays an object of what is written.
LEMMA RewriteInvariant ==
    ASSUME IInv, NEW members, Rewrite(members), members \in Seq(Members), Len(members) <= MaxMembers
    PROVE  IInv'
  <1>1. changes < MaxChanges /\ changes' = changes + 1 /\ text' = Object(members) /\ published' = published
    BY DEF Rewrite
  <1>2. text'.type = "object" /\ text'.members = members
    BY <1>1 DEF Object
  <1>3. changes' \in 0 .. MaxChanges
    BY <1>1, BoundAssumption DEF IInv
  <1> QED BY <1>1, <1>2, <1>3 DEF IInv, IsText, Members

\* Every step preserves the invariant.
LEMMA StepInvariant == IInv /\ [Next]_vars => IInv'
  <1> SUFFICES ASSUME IInv, [Next]_vars PROVE IInv'
    OBVIOUS
  <1> DEFINE members == text.members
             n == Len(members)
  <1>1. /\ members \in Seq(Members) /\ n \in Nat /\ n <= MaxMembers
        /\ members \in [1 .. n -> Members]
    BY LenProperties DEF IInv, IsText, Members
  <1>2. DOMAIN members = 1 .. n
    BY LenProperties DEF IInv, IsText
  <1>3. ASSUME NEW i \in 1 .. n - 1, SwapMembers(i) PROVE IInv'
    <2> DEFINE swapped == [members EXCEPT ![i] = members[i + 1], ![i + 1] = members[i]]
    <2>1. i \in 1 .. n /\ i + 1 \in 1 .. n
      BY <1>1
    <2> HIDE DEF n, members
    <2>2. members[i] \in Members /\ members[i + 1] \in Members
      BY <1>1, <2>1
    <2>3. swapped \in [1 .. n -> Members]
      BY <1>1, <2>1, <2>2
    <2>4. swapped \in Seq(Members) /\ Len(swapped) = n
      BY <1>1, <2>3, FunctionIsSequence
    <2> HIDE DEF swapped
    <2>5. Rewrite(swapped)
      BY <1>3 DEF SwapMembers, swapped, members
    <2> QED BY <1>1, <2>4, <2>5, RewriteInvariant
  <1>4. ASSUME NEW i \in DOMAIN members, NEW value \in Written, WriteValue(i, value) PROVE IInv'
    <2> DEFINE written == [members EXCEPT ![i].value = value]
    <2>1. i \in 1 .. n
      BY <1>2
    <2> HIDE DEF n, members
    <2>2. members[i] \in Members /\ [members[i] EXCEPT !.value = value] \in Members
      BY <1>1, <2>1 DEF Members
    <2>3. written \in [1 .. n -> Members]
      BY <1>1, <2>1, <2>2
    <2>4. written \in Seq(Members) /\ Len(written) = n
      BY <1>1, <2>3, FunctionIsSequence
    <2> HIDE DEF written
    <2>5. Rewrite(written)
      BY <1>4 DEF WriteValue, written, members
    <2> QED BY <1>1, <2>4, <2>5, RewriteInvariant
  <1>5. ASSUME NEW member \in Members, AddMember(member) PROVE IInv'
    <2>1. n < MaxMembers /\ Rewrite(Append(members, member))
      BY <1>5 DEF AddMember
    <2> HIDE DEF members
    <2>2. Append(members, member) \in Seq(Members) /\ Len(Append(members, member)) = n + 1
      BY <1>1, AppendProperties
    <2>3. n + 1 <= MaxMembers
      BY <1>1, <2>1, BoundAssumption
    <2> HIDE DEF n
    <2> QED BY <2>1, <2>2, <2>3, RewriteInvariant
  <1>6. ASSUME NEW i \in DOMAIN members, DropMember(i) PROVE IInv'
    <2> DEFINE head == SubSeq(members, 1, i - 1)
               tail == SubSeq(members, i + 1, n)
    <2>1. i \in 1 .. n
      BY <1>2
    <2>2. Rewrite(RemoveAt(members, i))
      BY <1>6 DEF DropMember
    <2> HIDE DEF members
    <2>3. \A j \in 1 .. n : members[j] \in Members
      BY <1>1
    <2>4. head \in Seq(Members) /\ Len(head) = i - 1
      <3> HIDE DEF n
      <3>1. i - 1 \in Int /\ \A j \in 1 .. i - 1 : members[j] \in Members
        BY <1>1, <2>1, <2>3
      <3> QED BY <2>1, <3>1, SubSeqProperties
    <2>5. tail \in Seq(Members) /\ Len(tail) = n - i
      <3> HIDE DEF n
      <3>1. i + 1 \in Int /\ n \in Int /\ \A j \in i + 1 .. n : members[j] \in Members
        BY <1>1, <2>1, <2>3
      <3> QED BY <1>1, <2>1, <3>1, SubSeqProperties
    <2>6. RemoveAt(members, i) = head \o tail
      BY DEF RemoveAt
    <2> HIDE DEF head, tail, n
    <2>7. head \o tail \in Seq(Members) /\ Len(head \o tail) = Len(head) + Len(tail)
      BY <2>4, <2>5, ConcatProperties
    <2>8. Len(head \o tail) <= MaxMembers
      BY <1>1, <2>1, <2>4, <2>5, <2>7, BoundAssumption
    <2> QED BY <2>2, <2>6, <2>7, <2>8, RewriteInvariant
  <1>7. CASE UNCHANGED vars
    BY <1>7 DEF vars, IInv, IsText, HasUniqueNames, IsObject
  <1>8. CASE Next
    BY <1>3, <1>4, <1>5, <1>6, <1>8 DEF Next
  <1> QED BY <1>7, <1>8

\* However a text is written again or changed, it stays an object of what is written.
THEOREM TextInvariance == Spec => []IInv
  BY InitInvariant, StepInvariant, PTL DEF Spec

(***************************************************************************)
(* The properties.                                                         *)
(***************************************************************************)

\* Type correctness; the canonical form of every text spells its values in one
\* way and has only finite numbers.
THEOREM AddressTypeCorrectness == Spec => []TypeOK
  <1>1. IInv => TypeOK
    <2> SUFFICES ASSUME IInv PROVE TypeOK
      OBVIOUS
    <2>1. /\ text.type = "object" /\ text.members \in Seq(Members) /\ Len(text.members) <= MaxMembers
          /\ published.members \in Seq(Members) /\ changes \in 0 .. MaxChanges
      BY DEF IInv, IsText, Members
    <2>2. ASSUME NEW s \in Scalars(Canonical(text))
          PROVE  s.spelling = "plain" /\ (s.type = "number" => s.content <= MaxFinite)
      <3>1. IsText(Canonical(text), {CanonicalScalar(w) : w \in Written})
        BY CanonicalIsText DEF IInv
      <3>2. PICK i \in DOMAIN Canonical(text).members : s = Canonical(text).members[i].value
        BY <3>1 DEF Scalars, IsObject, IsText
      <3>3. s \in {CanonicalScalar(w) : w \in Written}
        BY <3>1, <3>2, MembersOfText
      <3> QED BY <3>3, ScalarFacts
    <2> QED BY <2>1, <2>2 DEF TypeOK
  <1> QED BY <1>1, TextInvariance, PTL

\* The canonical form of every text is its own, with each name once: what
\* verification compares the received bytes with is what signing produced.
THEOREM CanonicalFormIsFixpoint == Spec => []CanonicalIsFixpoint
  <1>1. IInv => CanonicalIsFixpoint
    <2> SUFFICES ASSUME IInv PROVE CanonicalIsFixpoint
      OBVIOUS
    <2> DEFINE c == Canonical(text)
    <2>1. IsText(text, Written)
      BY DEF IInv
    <2>2. /\ IsText(c, {CanonicalScalar(s) : s \in Written}) /\ HasUniqueNames(c)
          /\ Names(c) = Names(text)
      BY <2>1, CanonicalIsText
    <2>3. \A name \in Names(text) : CanonicalScalar(ValueOf(c, name)) = CanonicalScalar(ValueOf(text, name))
      <3> TAKE name \in Names(text)
      <3>1. ValueOf(c, name) = CanonicalScalar(ValueOf(text, name)) /\ ValueOf(text, name) \in Written
        BY <2>1, CanonicalValue, MembersOfText
      <3> QED BY <3>1, ScalarFacts
    <2> HIDE DEF c
    <2>4. CanonicalMembers(c) = CanonicalMembers(text)
      BY <2>2, <2>3 DEF CanonicalMembers
    <2>5. Canonical(c) = Canonical(text)
      BY <2>1, <2>2, <2>4, CanonicalOfText
    <2> QED BY <2>2, <2>5 DEF CanonicalIsFixpoint, c
  <1> QED BY <1>1, TextInvariance, PTL

\* What exact texts say is what their canonical forms say.
LEMMA SameFormIffSameData ==
    ASSUME NEW v, IsText(v, Written), Exact(v), NEW w, IsText(w, Written), Exact(w)
    PROVE  Canonical(v) = Canonical(w) <=> Data(v) = Data(w)
  <1> DEFINE said(s) == [type |-> s.type, content |-> s.content]
  <1>1. ASSUME NEW u, IsText(u, Written), Exact(u), NEW name \in Names(u)
        PROVE  CanonicalScalar(ValueOf(u, name)) =
                  [type |-> ValueOf(u, name).type, spelling |-> "plain", content |-> ValueOf(u, name).content]
    <2>1. PICK i \in DOMAIN u.members : ValueOf(u, name) = u.members[i].value
      BY <1>1, ValueIsThere
    <2>2. ValueOf(u, name) \in Scalars(u) /\ ValueOf(u, name) \in Written
      BY <1>1, <2>1, MembersOfText DEF Scalars, IsObject, IsText
    <2> QED BY <1>1, <2>2, ScalarFacts DEF Exact
  <1>2. ASSUME NEW name \in Names(v), name \in Names(w)
        PROVE  CanonicalScalar(ValueOf(v, name)) = CanonicalScalar(ValueOf(w, name))
                  <=> said(ValueOf(v, name)) = said(ValueOf(w, name))
    BY <1>1, <1>2
  <1>3. Data(v) = Data(w) <=>
            Names(v) = Names(w) /\ \A name \in Names(v) : said(ValueOf(v, name)) = said(ValueOf(w, name))
    BY DEF Data
  <1> HIDE DEF said
  <1> QED BY <1>2, <1>3, SameForm

\* Neither tool refuses an exact text, and its address is its canonical form.
LEMMA AddressOfExact ==
    ASSUME NEW v, IsText(v, Written), Exact(v)
    PROVE  /\ TsJcs(v) = [canonical |-> Canonical(v)]
           /\ WellFormedText(v) => GoJcs(v) = [canonical |-> Canonical(v)]
  <1>1. \A s \in Scalars(v) : s \in Written
    BY MembersOfText DEF Scalars, IsObject, IsText
  <1>2. ~HasHuge(v)
    BY <1>1, WrittenAssumption, JcsAssumption DEF HasHuge, Exact
  <1> QED BY <1>2 DEF TsJcs, GoJcs, Exact, IsText

\* One address, one content: for texts with exact numbers no rewriting changes
\* the address and no change of the data keeps it, in either tool, where Go has
\* addresses for them.
THEOREM AddressIsOfData == Spec => []SameAddressIffSameData
  <1>1. IInv => SameAddressIffSameData
    <2> SUFFICES ASSUME IInv, Exact(text), Exact(published)
                 PROVE  /\ (TsJcs(text) = TsJcs(published)) <=> (Data(text) = Data(published))
                        /\ WellFormedText(text) /\ WellFormedText(published) =>
                              ((GoJcs(text) = GoJcs(published)) <=> (Data(text) = Data(published)))
      BY DEF SameAddressIffSameData
    <2>1. IsText(text, Written) /\ IsText(published, Written)
      BY DEF IInv
    <2>2. Canonical(text) = Canonical(published) <=> Data(text) = Data(published)
      BY <2>1, SameFormIffSameData
    <2>3. /\ TsJcs(text) = [canonical |-> Canonical(text)]
          /\ TsJcs(published) = [canonical |-> Canonical(published)]
          /\ WellFormedText(text) => GoJcs(text) = [canonical |-> Canonical(text)]
          /\ WellFormedText(published) => GoJcs(published) = [canonical |-> Canonical(published)]
      BY <2>1, AddressOfExact
    <2> QED BY <2>2, <2>3
  <1> QED BY <1>1, TextInvariance, PTL

\* On texts with unique names, finite numbers and no lone surrogate in a name or a
\* string the two tools address alike.
THEOREM AddressingAgreement == Spec => []AddressingTwinsAgree
  <1>1. IInv => AddressingTwinsAgree
    <2> SUFFICES ASSUME IInv, HasUniqueNames(text), ~HasHuge(text), WellFormedText(text)
                 PROVE  /\ GoJcs(text) = TsJcs(text)
                        /\ GoReceiptIdCommand(text) = TsReceiptIdCommand(text)
                        /\ \/ GoCostCanon(text) = TsCostCanon(text)
                           \/ \E name \in Magnitudes :
                                 HasName(text, name) /\ ValueOf(text, name).type \notin {"string", "number"}
      BY DEF AddressingTwinsAgree
    <2>1. text.type = "object"
      BY DEF IInv, IsText
    <2>2. GoJcs(text) = [canonical |-> Canonical(text)] /\ TsJcs(text) = [canonical |-> Canonical(text)]
      BY <2>1 DEF GoJcs, TsJcs
    <2>3. GoReceiptIdCommand(text) = TsReceiptIdCommand(text)
      BY <2>1, <2>2 DEF GoReceiptIdCommand, TsReceiptIdCommand
    <2>4. ASSUME ~ \E name \in Magnitudes :
                      HasName(text, name) /\ ValueOf(text, name).type \notin {"string", "number"}
          PROVE  GoCostCanon(text) = TsCostCanon(text)
      BY <2>1, <2>2, <2>4 DEF GoCostCanon, TsCostCanon
    <2> QED BY <2>2, <2>3, <2>4
  <1> QED BY <1>1, TextInvariance, PTL

\* A cost block that a tool accepts has no magnitude that is a number.
LEMMA AcceptedCost ==
    ASSUME NEW v, IsText(v, Written),
           NEW out \in {GoCostCanon(v), TsCostCanon(v)}, ~Failed(out)
    PROVE  /\ out = [canonical |-> Canonical(v)]
           /\ \A name \in Magnitudes : HasName(v, name) => ValueOf(v, name).type # "number"
  <1>1. v.type = "object" /\ \A code : Failed(Fail(code))
    BY DEF IsText, Failed, Fail
  <1>2. CASE out = GoCostCanon(v)
    BY <1>1, <1>2 DEF GoCostCanon, GoJcs
  <1>3. CASE out = TsCostCanon(v)
    BY <1>1, <1>3 DEF TsCostCanon
  <1> QED BY <1>2, <1>3

\* Cost blocks with one canonical form have the very same magnitudes, whichever
\* tool accepts them: no number was rounded on the way.
THEOREM CostIsExact == Spec => []CostKeptExactly
  <1>1. IInv => CostKeptExactly
    <2> SUFFICES ASSUME IInv PROVE CostKeptExactly
      OBVIOUS
    <2>1. IsText(text, Written) /\ IsText(published, Written)
      BY DEF IInv
    <2>2. ASSUME NEW out \in {GoCostCanon(text), TsCostCanon(text)}, ~Failed(out),
                 out \in {GoCostCanon(published), TsCostCanon(published)}, NEW name \in Magnitudes
          PROVE  /\ HasName(text, name) <=> HasName(published, name)
                 /\ HasName(text, name) => Data(text)[name] = Data(published)[name]
      <3>1. /\ Canonical(text) = Canonical(published)
            /\ HasName(text, name) => ValueOf(text, name).type # "number"
            /\ HasName(published, name) => ValueOf(published, name).type # "number"
        <4>1. out = [canonical |-> Canonical(text)] /\ out = [canonical |-> Canonical(published)]
          BY <2>1, <2>2, AcceptedCost
        <4>2. Canonical(text) = Canonical(published)
          BY <4>1
        <4> QED BY <2>1, <2>2, <4>2, AcceptedCost
      <3>2. /\ Names(text) = Names(published)
            /\ name \in Names(text) => CanonicalScalar(ValueOf(text, name))
                                           = CanonicalScalar(ValueOf(published, name))
        BY <2>1, <3>1, SameForm
      <3>3. HasName(text, name) <=> HasName(published, name)
        BY <2>1, <3>2 DEF HasName, IsObject, IsText
      <3>4. ASSUME HasName(text, name) PROVE Data(text)[name] = Data(published)[name]
        <4>1. name \in Names(text) /\ name \in Names(published)
          BY <3>3, <3>4 DEF HasName
        <4> DEFINE s == ValueOf(text, name)
                   t == ValueOf(published, name)
        <4>2. s \in Written /\ t \in Written /\ s.type # "number" /\ t.type # "number"
          BY <2>1, <3>1, <3>3, <3>4, <4>1, MembersOfText
        <4>3. CanonicalScalar(s) = CanonicalScalar(t)
          BY <3>2, <4>1
        <4> HIDE DEF s, t
        <4>4. s.type = t.type /\ s.content = t.content
          BY <4>2, <4>3, ScalarFacts
        <4> QED BY <4>1, <4>4 DEF Data, s, t
      <3> QED BY <3>3, <3>4
    <2>3. ASSUME NEW Canon \in {"go", "ts"}
          PROVE  LET canon(v) == IF Canon = "go" THEN GoCostCanon(v) ELSE TsCostCanon(v)
                 IN  canon(text) = canon(published) /\ ~Failed(canon(text)) =>
                         \A name \in Magnitudes :
                             /\ HasName(text, name) <=> HasName(published, name)
                             /\ HasName(text, name) => Data(text)[name] = Data(published)[name]
      <3>1. CASE Canon = "go"
        BY <2>2, <3>1
      <3>2. CASE Canon = "ts"
        BY <2>2, <3>2
      <3> QED BY <3>1, <3>2
    <2> QED BY <2>3 DEF CostKeptExactly
  <1> QED BY <1>1, TextInvariance, PTL
==============================================================================

--------------------------- MODULE SseDecode_proofs ---------------------------
(***************************************************************************)
(* What the decoders of a stream compute, for streams of every length.     *)
(* Every pass over a stream is a fold; the first part says what a fold is, *)
(* by induction over sets of numbers and of sequences, and the rest        *)
(* follows every pass with one equation for one more symbol, line or       *)
(* message.                                                                *)
(***************************************************************************)
EXTENDS SseDecode, SequenceTheorems, WellFoundedInduction, TLAPS

(***************************************************************************)
(* Induction and folds.                                                    *)
(***************************************************************************)

\* A set that holds 0 and with every number the next holds every number.
LEMMA NumberInduction ==
    ASSUME NEW T, 0 \in T, \A n \in Nat : n \in T => n + 1 \in T
    PROVE  Nat \subseteq T
  <1> DEFINE Missing == {n \in Nat : n \notin T}
             R == OpToRel(<, Nat)
  <1> SUFFICES ASSUME Missing # {} PROVE FALSE
    OBVIOUS
  <1>1. IsWellFoundedOn(R, Nat)
    BY NatLessThanWellFounded
  <1>2. \A x, y \in Missing : <<y, x>> \in R <=> y < x
    BY DEF OpToRel
  <1>3. Missing \subseteq Nat
    OBVIOUS
  <1> HIDE DEF R, Missing
  <1>4. PICK x \in Missing : \A y \in Missing : ~(<<y, x>> \in R)
    BY <1>1, <1>3, WFMin
  <1>5. x \in Nat /\ x \notin T /\ x # 0
    BY DEF Missing
  <1>6. x - 1 \in Nat /\ (x - 1) + 1 = x /\ x - 1 < x
    BY <1>5
  <1>7. x - 1 \in Missing
    BY <1>5, <1>6 DEF Missing
  <1> QED BY <1>2, <1>4, <1>6, <1>7

\* A set of numbers that is not empty has a least element.
LEMMA LeastNumber ==
    ASSUME NEW I, I \subseteq Nat, I # {}
    PROVE  \E x \in I : \A y \in I : x <= y
  <1> DEFINE T == {n \in Nat : \A y \in I : n <= y}
  <1> SUFFICES ASSUME \A x \in I : x \notin T PROVE FALSE
    OBVIOUS
  <1>1. 0 \in T
    OBVIOUS
  <1>2. ASSUME NEW n \in Nat, n \in T PROVE n + 1 \in T
    <2>1. \A y \in I : n <= y /\ n # y
      BY <1>2
    <2> QED BY <2>1
  <1> HIDE DEF T
  <1>3. Nat \subseteq T
    BY <1>1, <1>2, NumberInduction
  <1> QED BY <1>3

\* A set that holds the empty sequence and with every sequence its extensions
\* by one element holds every sequence.
LEMMA SequenceInduction ==
    ASSUME NEW A, NEW T, <<>> \in T,
           \A s \in Seq(A) : s \in T => \A a \in A : Append(s, a) \in T
    PROVE  Seq(A) \subseteq T
  <1> DEFINE N == {n \in Nat : \A s \in Seq(A) : Len(s) = n => s \in T}
  <1>1. 0 \in N
    BY EmptySeq
  <1>2. ASSUME NEW n \in Nat, n \in N PROVE n + 1 \in N
    <2> SUFFICES ASSUME NEW s \in Seq(A), Len(s) = n + 1 PROVE s \in T
      OBVIOUS
    <2>1. s # <<>>
      OBVIOUS
    <2>2. PICK r \in Seq(A), a \in A : s = Append(r, a)
      BY <2>1, SequenceEmptyOrAppend
    <2>3. Len(r) = n
      BY <2>2
    <2> QED BY <1>2, <2>2, <2>3
  <1> HIDE DEF N
  <1>3. Nat \subseteq N
    BY <1>1, <1>2, NumberInduction
  <1> QED BY <1>3 DEF N

\* `runs' are the states of a fold over seq, one before every element and one
\* at the end, as long as they stay in S.
Runs(runs, S, step, start, seq) ==
    /\ runs[0] = start
    /\ \A i \in 1 .. Len(seq) : runs[i - 1] \in S => runs[i] = step[<<runs[i - 1], seq[i]>>]

\* A fold has a final state for every sequence: the one of all its runs, and
\* one step further with one more element.
LEMMA Folding ==
    ASSUME NEW S, NEW A, NEW start \in S, NEW step \in [S \X A -> S]
    PROVE  \E final \in [Seq(A) -> S] :
             /\ final[<<>>] = start
             /\ \A s \in Seq(A), a \in A : final[Append(s, a)] = step[<<final[s], a>>]
             /\ \A s \in Seq(A) : \A runs :
                  Runs(runs, S, step, start, s) => runs[Len(s)] = final[s]
             /\ \A s \in Seq(A) : \E runs \in [0 .. Len(s) -> S] : Runs(runs, S, step, start, s)
  <1> DEFINE T == {s \in Seq(A) : \E runs \in [0 .. Len(s) -> S] : Runs(runs, S, step, start, s)}
             final == [s \in Seq(A) |->
                         CHOOSE x : \E runs \in [0 .. Len(s) -> S] :
                            Runs(runs, S, step, start, s) /\ x = runs[Len(s)]]
  <1>1. <<>> \in T
    <2> DEFINE runs == [i \in 0 .. 0 |-> start]
    <2>1. runs \in [0 .. Len(<<>>) -> S] /\ Runs(runs, S, step, start, <<>>)
      BY EmptySeq DEF Runs
    <2> QED BY <2>1, EmptySeq
  <1>2. ASSUME NEW s \in Seq(A), s \in T, NEW a \in A PROVE Append(s, a) \in T
    <2>1. PICK runs \in [0 .. Len(s) -> S] : Runs(runs, S, step, start, s)
      BY <1>2
    <2> DEFINE n == Len(s)
               more == [i \in 0 .. n + 1 |-> IF i <= n THEN runs[i] ELSE step[<<runs[n], a>>]]
    <2>2. n \in Nat /\ Len(Append(s, a)) = n + 1 /\ Append(s, a) \in Seq(A)
      BY AppendProperties, LenProperties
    <2>3. \A i \in 1 .. n : Append(s, a)[i] = s[i]
      BY AppendProperties
    <2>4. Append(s, a)[n + 1] = a
      BY AppendProperties
    <2>5. more \in [0 .. n + 1 -> S]
      BY <2>2
    <2>6. ASSUME NEW i \in 1 .. n + 1, more[i - 1] \in S
          PROVE  more[i] = step[<<more[i - 1], Append(s, a)[i]>>]
      <3>1. CASE i \in 1 .. n
        <4>0. i \in 0 .. n + 1 /\ i - 1 \in 0 .. n + 1 /\ i <= n /\ i - 1 <= n /\ i - 1 \in 0 .. n
          BY <2>2, <3>1
        <4>1. more[i] = runs[i] /\ more[i - 1] = runs[i - 1] /\ runs[i - 1] \in S
          <5> HIDE DEF n
          <5> QED BY <4>0
        <4> QED BY <2>1, <2>3, <3>1, <4>1 DEF Runs
      <3>2. CASE i = n + 1
        <4>0. i \in 0 .. n + 1 /\ i - 1 \in 0 .. n + 1 /\ ~(i <= n) /\ i - 1 <= n /\ i - 1 = n
          BY <2>2, <3>2
        <4>1. more[i] = step[<<runs[n], a>>] /\ more[i - 1] = runs[n]
          <5> HIDE DEF n
          <5> QED BY <4>0
        <4> QED BY <2>4, <3>2, <4>1
      <3>3. i \in 1 .. n \/ i = n + 1
        BY <2>2
      <3> QED BY <3>1, <3>2, <3>3
    <2>7. more[0] = start
      BY <2>1, <2>2 DEF Runs
    <2> HIDE DEF more
    <2>8. Runs(more, S, step, start, Append(s, a))
      BY <2>2, <2>6, <2>7 DEF Runs
    <2> QED BY <2>2, <2>5, <2>8
  <1>3. Seq(A) \subseteq T
    <2> HIDE DEF T
    <2> QED BY <1>1, <1>2, SequenceInduction
  <1>4. ASSUME NEW s \in Seq(A), NEW f \in [0 .. Len(s) -> S], NEW g,
               Runs(f, S, step, start, s), Runs(g, S, step, start, s)
        PROVE  \A i \in 0 .. Len(s) : f[i] = g[i]
    <2> DEFINE N == {n \in Nat : n <= Len(s) => f[n] = g[n]}
    <2>1. 0 \in N
      BY <1>4 DEF Runs
    <2>2. ASSUME NEW n \in Nat, n \in N PROVE n + 1 \in N
      <3> SUFFICES ASSUME n + 1 <= Len(s) PROVE f[n + 1] = g[n + 1]
        OBVIOUS
      <3>1. Len(s) \in Nat /\ n + 1 \in 1 .. Len(s) /\ (n + 1) - 1 = n /\ n \in 0 .. Len(s)
        BY LenProperties
      <3>2. f[n] = g[n] /\ f[n] \in S
        BY <2>2, <3>1
      <3> QED BY <1>4, <3>1, <3>2 DEF Runs
    <2> HIDE DEF N
    <2>3. Nat \subseteq N
      BY <2>1, <2>2, NumberInduction
    <2> QED BY <2>3, LenProperties DEF N
  <1>5. ASSUME NEW s \in Seq(A), NEW g, Runs(g, S, step, start, s)
        PROVE  g[Len(s)] = final[s]
    <2>1. PICK f \in [0 .. Len(s) -> S] : Runs(f, S, step, start, s)
      BY <1>3
    <2>2. PICK h \in [0 .. Len(s) -> S] : Runs(h, S, step, start, s) /\ final[s] = h[Len(s)]
      BY <2>1
    <2>3. Len(s) \in 0 .. Len(s)
      BY LenProperties
    <2> HIDE DEF final
    <2> QED BY <1>4, <1>5, <2>2, <2>3
  <1>6. \A s \in Seq(A) : \E runs \in [0 .. Len(s) -> S] : Runs(runs, S, step, start, s)
    BY <1>3
  <1>7. ASSUME NEW s \in Seq(A) PROVE final[s] \in S
    <2>1. PICK f \in [0 .. Len(s) -> S] : Runs(f, S, step, start, s)
      BY <1>6
    <2>2. Len(s) \in 0 .. Len(s)
      BY LenProperties
    <2> HIDE DEF final
    <2> QED BY <1>5, <2>1, <2>2
  <1>8. final \in [Seq(A) -> S]
    BY <1>7
  <1>9. final[<<>>] = start
    <2>1. <<>> \in Seq(A) /\ Len(<<>>) = 0
      BY EmptySeq
    <2>2. PICK f \in [0 .. 0 -> S] : Runs(f, S, step, start, <<>>)
      BY <1>6, <2>1
    <2> HIDE DEF final
    <2> QED BY <1>5, <2>1, <2>2 DEF Runs
  <1>10. ASSUME NEW s \in Seq(A), NEW a \in A
         PROVE  final[Append(s, a)] = step[<<final[s], a>>]
    <2>1. Append(s, a) \in Seq(A) /\ Len(Append(s, a)) = Len(s) + 1 /\ Len(s) \in Nat
      BY AppendProperties, LenProperties
    <2>2. PICK f \in [0 .. Len(s) + 1 -> S] : Runs(f, S, step, start, Append(s, a))
      BY <1>6, <2>1
    <2>3. Runs(f, S, step, start, s)
      <3>1. \A i \in 1 .. Len(s) : i \in 1 .. Len(s) + 1 /\ Append(s, a)[i] = s[i]
        BY <2>1, AppendProperties
      <3> QED BY <2>1, <2>2, <3>1 DEF Runs
    <2> HIDE DEF final
    <2>4. f[Len(s)] = final[s] /\ f[Len(s) + 1] = final[Append(s, a)]
      BY <1>5, <2>1, <2>2, <2>3
    <2>5. Len(s) + 1 \in 1 .. Len(s) + 1 /\ (Len(s) + 1) - 1 = Len(s) /\ Len(s) \in 0 .. Len(s) + 1
      BY <2>1
    <2>6. f[Len(s)] \in S
      BY <2>5
    <2>7. f[Len(s) + 1] = step[<<f[Len(s)], Append(s, a)[Len(s) + 1]>>]
      BY <2>1, <2>2, <2>5, <2>6 DEF Runs
    <2> QED BY <2>4, <2>7, AppendProperties
  <1> HIDE DEF final
  <1>11. \A s \in Seq(A) : \A runs : Runs(runs, S, step, start, s) => runs[Len(s)] = final[s]
    BY <1>5
  <1> QED BY <1>6, <1>8, <1>9, <1>10, <1>11

\* Runs that are known to stay in S.
TypedRuns(runs, S, A, step, start, seq) ==
    /\ runs \in [0 .. Len(seq) -> S] /\ Runs(runs, S, step, start, seq)
    /\ \A i \in 0 .. Len(seq) : i = 0 \/ (i \in 1 .. Len(seq) /\ runs[i - 1] \in S /\ seq[i] \in A)

\* `fold' computes the last state of some runs.
LastOfRuns(fold, S, A, step, start) ==
    /\ start \in S /\ step \in [S \X A -> S]
    /\ \A seq \in Seq(A) : \A runs :
         TypedRuns(runs, S, A, step, start, seq) =>
            \E after : Runs(after, S, step, start, seq) /\ fold[seq] = after[Len(seq)]

\* `fold' is given by what it makes of no element and of one more.
IsFold(fold, S, A, step, start) ==
    /\ fold[<<>>] = start
    /\ \A s \in Seq(A) : fold[s] \in S
    /\ \A s \in Seq(A), a \in A : fold[Append(s, a)] = step[<<fold[s], a>>]

\* What computes the last of such runs is given by the same two equations.
LEMMA FoldEquations ==
    ASSUME NEW S, NEW A, NEW start, NEW step, NEW fold, LastOfRuns(fold, S, A, step, start)
    PROVE  IsFold(fold, S, A, step, start)
  <1>0. start \in S /\ step \in [S \X A -> S]
    BY DEF LastOfRuns
  <1>1. PICK final \in [Seq(A) -> S] :
           /\ final[<<>>] = start
           /\ \A s \in Seq(A), a \in A : final[Append(s, a)] = step[<<final[s], a>>]
           /\ \A s \in Seq(A) : \A runs :
                Runs(runs, S, step, start, s) => runs[Len(s)] = final[s]
           /\ \A s \in Seq(A) : \E runs \in [0 .. Len(s) -> S] : Runs(runs, S, step, start, s)
    BY <1>0, Folding
  <1>2. ASSUME NEW s \in Seq(A) PROVE fold[s] = final[s]
    <2>1. PICK runs \in [0 .. Len(s) -> S] : Runs(runs, S, step, start, s)
      BY <1>1
    <2>2. \A i \in 0 .. Len(s) : i = 0 \/ (i \in 1 .. Len(s) /\ runs[i - 1] \in S /\ s[i] \in A)
      BY LenProperties
    <2>3. PICK after : Runs(after, S, step, start, s) /\ fold[s] = after[Len(s)]
      BY <2>1, <2>2 DEF LastOfRuns, TypedRuns
    <2> QED BY <1>1, <2>3
  <1>3. <<>> \in Seq(A) /\ \A s \in Seq(A), a \in A : Append(s, a) \in Seq(A)
    BY EmptySeq, AppendProperties
  <1> QED BY <1>1, <1>2, <1>3 DEF IsFold

(***************************************************************************)
(* Splitting into lines.                                                   *)
(***************************************************************************)

\* A line holds no terminator.
Terminators == {"cr", "lf"}
Lines(A) == Seq(A \ Terminators)
SplitStates(A) == [lines : Seq(Lines(A)), current : Lines(A), afterCr : BOOLEAN]

LEMMA SplitFold ==
    ASSUME NEW A
    PROVE  /\ Split(<<>>) = SplitStart
           /\ \A raw \in Seq(A) : Split(raw) \in SplitStates(A)
           /\ \A raw \in Seq(A), e \in A : Split(Append(raw, e)) = SplitStep(Split(raw), e)
  <1> DEFINE S == SplitStates(A)
             E == A
             step == [p \in S \X E |-> SplitStep(p[1], p[2])]
             fold == [raw \in Seq(E) |-> Split(raw)]
  <1>1. SplitStart \in S
    BY EmptySeq DEF SplitStart, SplitStates, Lines
  <1>2. ASSUME NEW x \in S, NEW e \in E PROVE SplitStep(x, e) \in S
    BY EmptySeq, AppendProperties DEF SplitStep, SplitStates, Lines, Terminators
  <1>3. step \in [S \X E -> S] /\ \A x \in S, e \in E : step[<<x, e>>] = SplitStep(x, e)
    BY <1>2
  <1>4. ASSUME NEW raw \in Seq(E), NEW runs, TypedRuns(runs, S, E, step, SplitStart, raw)
        PROVE  \E after : Runs(after, S, step, SplitStart, raw) /\ fold[raw] = after[Len(raw)]
    <2> DEFINE Is(after) == after = [i \in 0 .. Len(raw) |->
                              IF i = 0 THEN SplitStart ELSE SplitStep(after[i - 1], raw[i])]
               after == CHOOSE f : Is(f)
    <2> HIDE DEF S, E, step
    <2>1. \A i \in 0 .. Len(raw) : runs[i] =
             IF i = 0 THEN SplitStart ELSE SplitStep(runs[i - 1], raw[i])
      BY <1>3, <1>4 DEF Runs, TypedRuns
    <2>2. Is(after)
      BY <1>4, <2>1 DEF TypedRuns
    <2>3. fold[raw] = after[Len(raw)]
      BY DEF Split, Fold
    <2> HIDE DEF after, fold
    <2>4. 0 \in 0 .. Len(raw) /\ \A i \in 1 .. Len(raw) : i \in 0 .. Len(raw) /\ i # 0 /\ raw[i] \in E
      BY <1>4, LenProperties DEF TypedRuns
    <2>5. Runs(after, S, step, SplitStart, raw)
      BY <1>3, <2>2, <2>4 DEF Runs
    <2> QED BY <2>3, <2>5
  <1> HIDE DEF S, E, step
  <1>5. IsFold(fold, S, E, step, SplitStart)
    <2> HIDE DEF fold
    <2> QED BY <1>1, <1>3, <1>4, FoldEquations DEF LastOfRuns
  <1>6. <<>> \in Seq(E) /\ \A raw \in Seq(E), e \in E : Append(raw, e) \in Seq(E)
    BY EmptySeq, AppendProperties
  <1>7. /\ Split(<<>>) = SplitStart
        /\ \A raw \in Seq(E) : Split(raw) \in S
        /\ \A raw \in Seq(E), e \in E : Split(Append(raw, e)) = SplitStep(Split(raw), e)
    BY <1>3, <1>5, <1>6 DEF IsFold
  <1> QED BY <1>7 DEF S, E

(***************************************************************************)
(* Parsing lines into messages.                                            *)
(***************************************************************************)

JoinRest(first, parts) == Fold(JoinTwo, first, parts)

LEMMA JoinRestFold ==
    ASSUME NEW A, "lf" \in A, NEW first \in Seq(A)
    PROVE  /\ JoinRest(first, <<>>) = first
           /\ \A parts \in Seq(Seq(A)) : JoinRest(first, parts) \in Seq(A)
           /\ \A parts \in Seq(Seq(A)), e \in Seq(A) : JoinRest(first, Append(parts, e)) = JoinTwo(JoinRest(first, parts), e)
  <1> DEFINE S == Seq(A)
             E == Seq(A)
             step == [p \in S \X E |-> JoinTwo(p[1], p[2])]
             fold == [parts \in Seq(E) |-> JoinRest(first, parts)]
  <1>1. first \in S
    OBVIOUS
  <1>2. ASSUME NEW x \in S, NEW e \in E PROVE JoinTwo(x, e) \in S
    BY ConcatProperties DEF JoinTwo
  <1>3. step \in [S \X E -> S] /\ \A x \in S, e \in E : step[<<x, e>>] = JoinTwo(x, e)
    BY <1>2
  <1>4. ASSUME NEW parts \in Seq(E), NEW runs, TypedRuns(runs, S, E, step, first, parts)
        PROVE  \E after : Runs(after, S, step, first, parts) /\ fold[parts] = after[Len(parts)]
    <2> DEFINE Is(after) == after = [i \in 0 .. Len(parts) |->
                              IF i = 0 THEN first ELSE JoinTwo(after[i - 1], parts[i])]
               after == CHOOSE f : Is(f)
    <2> HIDE DEF S, E, step
    <2>1. \A i \in 0 .. Len(parts) : runs[i] =
             IF i = 0 THEN first ELSE JoinTwo(runs[i - 1], parts[i])
      BY <1>3, <1>4 DEF Runs, TypedRuns
    <2>2. Is(after)
      BY <1>4, <2>1 DEF TypedRuns
    <2>3. fold[parts] = after[Len(parts)]
      BY DEF JoinRest, Fold
    <2> HIDE DEF after, fold
    <2>4. 0 \in 0 .. Len(parts) /\ \A i \in 1 .. Len(parts) : i \in 0 .. Len(parts) /\ i # 0 /\ parts[i] \in E
      BY <1>4, LenProperties DEF TypedRuns
    <2>5. Runs(after, S, step, first, parts)
      BY <1>3, <2>2, <2>4 DEF Runs
    <2> QED BY <2>3, <2>5
  <1> HIDE DEF S, E, step
  <1>5. IsFold(fold, S, E, step, first)
    <2> HIDE DEF fold
    <2> QED BY <1>1, <1>3, <1>4, FoldEquations DEF LastOfRuns
  <1>6. <<>> \in Seq(E) /\ \A parts \in Seq(E), e \in E : Append(parts, e) \in Seq(E)
    BY EmptySeq, AppendProperties
  <1>7. /\ JoinRest(first, <<>>) = first
        /\ \A parts \in Seq(E) : JoinRest(first, parts) \in S
        /\ \A parts \in Seq(E), e \in E : JoinRest(first, Append(parts, e)) = JoinTwo(JoinRest(first, parts), e)
    BY <1>3, <1>5, <1>6 DEF IsFold
  <1> QED BY <1>7 DEF S, E

\* Joining one more part.
LEMMA JoinFold ==
    ASSUME NEW A, "lf" \in A
    PROVE  /\ JoinLines(<<>>) = <<>>
           /\ \A parts \in Seq(Seq(A)) : JoinLines(parts) \in Seq(A)
           /\ \A parts \in Seq(Seq(A)), part \in Seq(A) : JoinLines(Append(parts, part)) =
                IF parts = <<>> THEN part ELSE JoinTwo(JoinLines(parts), part)
  <1>0. \A first \in Seq(A), parts \in Seq(Seq(A)) :
           /\ JoinRest(first, <<>>) = first /\ JoinRest(first, parts) \in Seq(A)
           /\ \A part \in Seq(A) :
                JoinRest(first, Append(parts, part)) = JoinTwo(JoinRest(first, parts), part)
    BY JoinRestFold
  <1>1. JoinLines(<<>>) = <<>>
    BY DEF JoinLines
  <1>2. ASSUME NEW parts \in Seq(Seq(A)), parts # <<>>
        PROVE  /\ Head(parts) \in Seq(A) /\ Tail(parts) \in Seq(Seq(A))
               /\ JoinLines(parts) = JoinRest(Head(parts), Tail(parts))
    BY <1>2, HeadTailProperties DEF JoinLines, JoinRest
  <1>3. ASSUME NEW parts \in Seq(Seq(A)) PROVE JoinLines(parts) \in Seq(A)
    <2>1. CASE parts = <<>>
      BY <1>1, <2>1, EmptySeq
    <2>2. CASE parts # <<>>
      <3> DEFINE h == Head(parts)
                 t == Tail(parts)
      <3>1. h \in Seq(A) /\ t \in Seq(Seq(A)) /\ JoinLines(parts) = JoinRest(h, t)
        BY <1>2, <2>2
      <3> HIDE DEF h, t
      <3> QED BY <1>0, <3>1
    <2> QED BY <2>1, <2>2
  <1>4. ASSUME NEW parts \in Seq(Seq(A)), NEW part \in Seq(A)
        PROVE  JoinLines(Append(parts, part)) =
                  IF parts = <<>> THEN part ELSE JoinTwo(JoinLines(parts), part)
    <2>1. /\ Append(parts, part) \in Seq(Seq(A)) /\ Append(parts, part) # <<>>
          /\ Head(Append(parts, part)) = IF parts = <<>> THEN part ELSE Head(parts)
          /\ Tail(Append(parts, part)) = IF parts = <<>> THEN <<>> ELSE Append(Tail(parts), part)
      BY AppendProperties, HeadTailAppend
    <2>2. JoinLines(Append(parts, part))
             = JoinRest(Head(Append(parts, part)), Tail(Append(parts, part)))
      BY <1>2, <2>1
    <2>3. CASE parts = <<>>
      BY <1>0, <2>1, <2>2, <2>3
    <2>4. CASE parts # <<>>
      <3> DEFINE h == Head(parts)
                 t == Tail(parts)
      <3>1. h \in Seq(A) /\ t \in Seq(Seq(A)) /\ JoinLines(parts) = JoinRest(h, t)
        BY <1>2, <2>4
      <3>2. JoinLines(Append(parts, part)) = JoinRest(h, Append(t, part))
        BY <2>1, <2>2, <2>4
      <3> HIDE DEF h, t
      <3> QED BY <1>0, <2>4, <3>1, <3>2
    <2> QED BY <2>3, <2>4
  <1> QED BY <1>1, <1>3, <1>4

\* The first colon of a line, if it has one.
LEMMA ColonInLine ==
    ASSUME NEW A, NEW line \in Seq(A)
    PROVE  /\ ColonAt(line) \in 0 .. Len(line)
           /\ ColonAt(line) # 0 => line[ColonAt(line)] = "colon"
           /\ \A i \in 1 .. Len(line) :
                line[i] = "colon" => ColonAt(line) # 0 /\ ColonAt(line) <= i
  <1> DEFINE I == {i \in 1 .. Len(line) : line[i] = "colon"}
             n == ColonAt(line)
  <1>1. n = IF I # {} THEN (CHOOSE x \in I : \A y \in I : x <= y) ELSE 0
    BY DEF ColonAt, SelectInSeq, Min
  <1>2. I \subseteq Nat /\ Len(line) \in Nat
    BY LenProperties
  <1>3. I # {} => \E x \in I : \A y \in I : x <= y
    BY <1>2, LeastNumber
  <1>4. (n \in I /\ \A y \in I : n <= y) \/ (n = 0 /\ I = {})
    <2> HIDE DEF I, n
    <2> QED BY <1>1, <1>3
  <1> HIDE DEF n
  <1>5. n \in 0 .. Len(line) /\ (n # 0 => line[n] = "colon")
    BY <1>2, <1>4
  <1>6. \A i \in 1 .. Len(line) : line[i] = "colon" => n # 0 /\ n <= i
    BY <1>2, <1>4
  <1> QED BY <1>5, <1>6 DEF n

\* The value of a field is a part of its line.
LEMMA ValueOfLine ==
    ASSUME NEW A, NEW line \in Seq(A)
    PROVE  Value(line) \in Seq(A)
  <1> DEFINE n == ColonAt(line)
             rest == SubSeq(line, n + 1, Len(line))
  <1>1. n \in 0 .. Len(line)
    BY ColonInLine
  <1>2. rest \in Seq(A)
    <2>1. n + 1 \in Int /\ Len(line) \in Int /\ \A i \in n + 1 .. Len(line) : line[i] \in A
      BY <1>1, LenProperties
    <2> HIDE DEF n
    <2> QED BY <2>1, SubSeqProperties
  <1> HIDE DEF rest
  <1>3. rest # <<>> => Tail(rest) \in Seq(A)
    BY <1>2, HeadTailProperties
  <1> QED BY <1>2, <1>3, EmptySeq DEF Value, rest

ParseState(lines) == Fold(ParseLine, ParseStart, lines)
ParseStates(A)    == [data : Seq(Seq(A)), messages : Seq(Seq(A))]

LEMMA ParseFold ==
    ASSUME NEW A, "lf" \in A
    PROVE  /\ ParseState(<<>>) = ParseStart
           /\ \A lines \in Seq(Seq(A)) : ParseState(lines) \in ParseStates(A)
           /\ \A lines \in Seq(Seq(A)), e \in Seq(A) : ParseState(Append(lines, e)) = ParseLine(ParseState(lines), e)
  <1> DEFINE S == ParseStates(A)
             E == Seq(A)
             step == [p \in S \X E |-> ParseLine(p[1], p[2])]
             fold == [lines \in Seq(E) |-> ParseState(lines)]
  <1>1. ParseStart \in S
    BY EmptySeq DEF ParseStart, ParseStates
  <1>2. ASSUME NEW x \in S, NEW e \in E PROVE ParseLine(x, e) \in S
    <2>1. /\ JoinLines(x.data) \in Seq(A) /\ Value(e) \in Seq(A)
          /\ x.data \in Seq(Seq(A)) /\ x.messages \in Seq(Seq(A))
      BY JoinFold, ValueOfLine DEF ParseStates
    <2>2. /\ Append(x.messages, JoinLines(x.data)) \in Seq(Seq(A))
          /\ Append(x.data, Value(e)) \in Seq(Seq(A)) /\ <<>> \in Seq(Seq(A))
      BY <2>1, AppendProperties, EmptySeq
    <2> QED BY <2>1, <2>2 DEF ParseLine, ParseStates
  <1>3. step \in [S \X E -> S] /\ \A x \in S, e \in E : step[<<x, e>>] = ParseLine(x, e)
    BY <1>2
  <1>4. ASSUME NEW lines \in Seq(E), NEW runs, TypedRuns(runs, S, E, step, ParseStart, lines)
        PROVE  \E after : Runs(after, S, step, ParseStart, lines) /\ fold[lines] = after[Len(lines)]
    <2> DEFINE Is(after) == after = [i \in 0 .. Len(lines) |->
                              IF i = 0 THEN ParseStart ELSE ParseLine(after[i - 1], lines[i])]
               after == CHOOSE f : Is(f)
    <2> HIDE DEF S, E, step
    <2>1. \A i \in 0 .. Len(lines) : runs[i] =
             IF i = 0 THEN ParseStart ELSE ParseLine(runs[i - 1], lines[i])
      BY <1>3, <1>4 DEF Runs, TypedRuns
    <2>2. Is(after)
      BY <1>4, <2>1 DEF TypedRuns
    <2>3. fold[lines] = after[Len(lines)]
      BY DEF ParseState, Fold
    <2> HIDE DEF after, fold
    <2>4. 0 \in 0 .. Len(lines) /\ \A i \in 1 .. Len(lines) : i \in 0 .. Len(lines) /\ i # 0 /\ lines[i] \in E
      BY <1>4, LenProperties DEF TypedRuns
    <2>5. Runs(after, S, step, ParseStart, lines)
      BY <1>3, <2>2, <2>4 DEF Runs
    <2> QED BY <2>3, <2>5
  <1> HIDE DEF S, E, step
  <1>5. IsFold(fold, S, E, step, ParseStart)
    <2> HIDE DEF fold
    <2> QED BY <1>1, <1>3, <1>4, FoldEquations DEF LastOfRuns
  <1>6. <<>> \in Seq(E) /\ \A lines \in Seq(E), e \in E : Append(lines, e) \in Seq(E)
    BY EmptySeq, AppendProperties
  <1>7. /\ ParseState(<<>>) = ParseStart
        /\ \A lines \in Seq(E) : ParseState(lines) \in S
        /\ \A lines \in Seq(E), e \in E : ParseState(Append(lines, e)) = ParseLine(ParseState(lines), e)
    BY <1>3, <1>5, <1>6 DEF IsFold
  <1> QED BY <1>7 DEF S, E

(***************************************************************************)
(* Both decoders.                                                          *)
(***************************************************************************)

\* A line that is not blank completes no message.
LEMMA MessagesOnlyAtBlankLines ==
    ASSUME NEW A, NEW s \in ParseStates(A), NEW line, line # <<>>
    PROVE  ParseLine(s, line).messages = s.messages
  BY DEF ParseLine, ParseStates

\* The lines of a stream are lines of its alphabet.
LEMMA LinesOfSplit ==
    ASSUME NEW A, NEW raw \in Seq(A)
    PROVE  /\ Split(raw).lines \in Seq(Seq(A)) /\ Split(raw).current \in Seq(A)
           /\ Split(raw).lines \in Seq(Lines(A)) /\ Split(raw).current \in Lines(A)
           /\ Split(raw).afterCr \in BOOLEAN
  <1>1. Lines(A) \subseteq Seq(A)
    BY SeqMonotonic DEF Lines
  <1>2. Split(raw) \in SplitStates(A)
    BY SplitFold
  <1> QED BY <1>1, <1>2, SeqMonotonic DEF SplitStates

\* A stripped stream is one of the same alphabet.
LEMMA StripTyped ==
    ASSUME NEW A, NEW raw \in Seq(A)
    PROVE  StripBom(raw) \in Seq(A)
  BY HeadTailProperties DEF StripBom

\* Go's messages are those of the terminated lines.
LEMMA GoMessagesAre ==
    ASSUME NEW raw
    PROVE  GoMessages(raw) = ParseState(Split(StripBom(raw)).lines).messages
  BY DEF GoMessages, GoSplitLines, Parse, ParseState

\* So are TypeScript's, once decoded: the line after the last terminator is
\* never blank, and so completes no message.
LEMMA TsMessagesAre ==
    ASSUME NEW A, "lf" \in A, NEW raw, TsText(StripBom(raw)) \in Seq(A)
    PROVE  TsMessages(raw) = ParseState(Split(TsText(StripBom(raw))).lines).messages
  <1> DEFINE s == Split(TsText(StripBom(raw)))
  <1>1. s.lines \in Seq(Seq(A)) /\ s.current \in Seq(A)
    BY LinesOfSplit
  <1>2. TsMessages(raw) =
          ParseState(IF s.current = <<>> THEN s.lines ELSE Append(s.lines, s.current)).messages
    BY DEF TsMessages, TsSplitLines, Parse, ParseState
  <1> HIDE DEF s
  <1>3. s.current # <<>> =>
          ParseState(Append(s.lines, s.current)).messages = ParseState(s.lines).messages
    <2>1. ParseState(s.lines) \in ParseStates(A)
      BY <1>1, ParseFold
    <2>2. ParseState(Append(s.lines, s.current)) = ParseLine(ParseState(s.lines), s.current)
      BY <1>1, ParseFold
    <2> QED BY <2>1, <2>2, MessagesOnlyAtBlankLines
  <1> QED BY <1>2, <1>3 DEF s

\* Decoding to text keeps a stream without invalid bytes.
LEMMA TextIsRaw ==
    ASSUME NEW A, "badByte" \notin A, NEW raw \in Seq(A)
    PROVE  TsText(raw) = raw
  BY LenProperties DEF TsText

\* Both decoders find the same messages in any stream of valid bytes, however
\* it is terminated and wherever it is cut, and the messages hold its symbols.
THEOREM MessagesAgreement ==
    ASSUME NEW A, "lf" \in A, "badByte" \notin A, NEW raw \in Seq(A)
    PROVE  /\ GoMessages(raw) = TsMessages(raw)
           /\ GoMessages(raw) \in Seq(Seq(A))
  <1>1. StripBom(raw) \in Seq(A) /\ TsText(StripBom(raw)) = StripBom(raw)
    BY StripTyped, TextIsRaw
  <1>2. GoMessages(raw) = TsMessages(raw)
    BY <1>1, GoMessagesAre, TsMessagesAre
  <1>3. ParseState(Split(StripBom(raw)).lines) \in ParseStates(A)
    BY <1>1, LinesOfSplit, ParseFold
  <1> QED BY <1>2, <1>3, GoMessagesAre DEF ParseStates

(***************************************************************************)
(* Decoding to text.                                                       *)
(***************************************************************************)

\* Decoding to text puts a symbol in the place of every symbol.
LEMMA TextTyped ==
    ASSUME NEW A, "replacement" \in A, NEW raw \in Seq(A)
    PROVE  /\ TsText(raw) \in Seq(A) /\ Len(TsText(raw)) = Len(raw)
           /\ \A i \in 1 .. Len(raw) :
                TsText(raw)[i] = IF raw[i] = "badByte" THEN "replacement" ELSE raw[i]
  <1>1. Len(raw) \in Nat /\ DOMAIN raw = 1 .. Len(raw) /\ \A i \in 1 .. Len(raw) : raw[i] \in A
    BY LenProperties
  <1>2. TsText(raw) \in [1 .. Len(raw) -> A]
    BY <1>1 DEF TsText
  <1>3. TsText(raw) \in Seq(A)
    BY <1>1, <1>2, SeqDef
  <1>4. DOMAIN TsText(raw) = 1 .. Len(raw)
    BY <1>2
  <1>5. Len(TsText(raw)) = Len(raw)
    BY <1>1, <1>3, <1>4, LenProperties
  <1> QED BY <1>1, <1>3, <1>5 DEF TsText

\* Decoding to text goes symbol by symbol.
LEMMA TextOfMore ==
    ASSUME NEW A, "replacement" \in A, NEW raw \in Seq(A), NEW more \in Seq(A)
    PROVE  TsText(raw \o more) = TsText(raw) \o TsText(more)
  <1>1. /\ TsText(raw) \in Seq(A) /\ TsText(more) \in Seq(A)
        /\ raw \o more \in Seq(A) /\ TsText(raw \o more) \in Seq(A)
        /\ TsText(raw) \o TsText(more) \in Seq(A)
    BY TextTyped, ConcatProperties
  <1>2. /\ Len(raw) \in Nat /\ Len(more) \in Nat /\ Len(raw \o more) = Len(raw) + Len(more)
        /\ Len(TsText(raw \o more)) = Len(raw) + Len(more)
        /\ Len(TsText(raw)) = Len(raw) /\ Len(TsText(more)) = Len(more)
        /\ Len(TsText(raw) \o TsText(more)) = Len(raw) + Len(more)
    <2>1. Len(raw) \in Nat /\ Len(more) \in Nat /\ Len(raw \o more) = Len(raw) + Len(more)
      BY ConcatProperties, LenProperties
    <2>2. Len(TsText(raw)) = Len(raw) /\ Len(TsText(more)) = Len(more)
      BY TextTyped
    <2>3. Len(TsText(raw \o more)) = Len(raw \o more)
      BY <1>1, TextTyped
    <2>4. Len(TsText(raw) \o TsText(more)) = Len(TsText(raw)) + Len(TsText(more))
      BY <1>1, ConcatProperties
    <2> QED BY <2>1, <2>2, <2>3, <2>4
  <1>3. ASSUME NEW i \in 1 .. Len(raw) + Len(more)
        PROVE  TsText(raw \o more)[i] = (TsText(raw) \o TsText(more))[i]
    <2>1. TsText(raw \o more)[i] =
             IF (raw \o more)[i] = "badByte" THEN "replacement" ELSE (raw \o more)[i]
      BY <1>1, <1>2, TextTyped
    <2>2. CASE i <= Len(raw)
      <3>1. i \in 1 .. Len(raw)
        BY <1>2, <2>2
      <3>2. (raw \o more)[i] = raw[i] /\ (TsText(raw) \o TsText(more))[i] = TsText(raw)[i]
        BY <1>1, <1>2, <2>2, ConcatProperties
      <3> QED BY <2>1, <3>1, <3>2, TextTyped
    <2>3. CASE ~(i <= Len(raw))
      <3>1. i - Len(raw) \in 1 .. Len(more)
        BY <1>2, <2>3
      <3>2. /\ (raw \o more)[i] = more[i - Len(raw)]
            /\ (TsText(raw) \o TsText(more))[i] = TsText(more)[i - Len(raw)]
        BY <1>1, <1>2, <2>3, ConcatProperties
      <3> QED BY <2>1, <3>1, <3>2, TextTyped
    <2> QED BY <2>2, <2>3
  <1> QED BY <1>1, <1>2, <1>3, SeqEqual

\* The empty text, one symbol, and the symbols that stay themselves.
LEMMA TextOfOne ==
    ASSUME NEW A, "replacement" \in A
    PROVE  /\ TsText(<<>>) = <<>>
           /\ \A a \in A : TsText(<<a>>) = <<IF a = "badByte" THEN "replacement" ELSE a>>
           /\ \A raw \in Seq(A) : TsText(raw) = <<>> <=> raw = <<>>
           /\ \A raw \in Seq(A) : TsText(raw) = <<"data">> <=> raw = <<"data">>
           /\ \A raw \in Seq(A), a \in A :
                TsText(Append(raw, a)) = Append(TsText(raw), IF a = "badByte" THEN "replacement" ELSE a)
  <1>1. ASSUME NEW raw \in Seq(A) PROVE TsText(raw) = <<>> <=> raw = <<>>
    <2>1. TsText(raw) \in Seq(A) /\ Len(TsText(raw)) = Len(raw)
      BY TextTyped
    <2> QED BY <2>1, EmptySeq
  <1>2. TsText(<<>>) = <<>>
    BY <1>1, EmptySeq
  <1>3. ASSUME NEW a \in A PROVE TsText(<<a>>) = <<IF a = "badByte" THEN "replacement" ELSE a>>
    <2>1. <<a>> \in Seq(A) /\ Len(<<a>>) = 1 /\ <<a>>[1] = a
      OBVIOUS
    <2>2. /\ TsText(<<a>>) \in Seq(A) /\ Len(TsText(<<a>>)) = 1
          /\ TsText(<<a>>)[1] = IF a = "badByte" THEN "replacement" ELSE a
      <3> DEFINE one == <<a>>
      <3>1. one \in Seq(A) /\ Len(one) = 1 /\ one[1] = a /\ 1 \in 1 .. 1
        BY <2>1
      <3> HIDE DEF one
      <3>2. /\ TsText(one) \in Seq(A) /\ Len(TsText(one)) = 1
            /\ TsText(one)[1] = IF a = "badByte" THEN "replacement" ELSE a
        BY <3>1, TextTyped
      <3> QED BY <3>2 DEF one
    <2> QED BY <2>2
  <1>4. ASSUME NEW raw \in Seq(A) PROVE TsText(raw) = <<"data">> <=> raw = <<"data">>
    <2>1. /\ TsText(raw) \in Seq(A) /\ Len(TsText(raw)) = Len(raw) /\ Len(raw) \in Nat
          /\ \A i \in 1 .. Len(raw) :
               TsText(raw)[i] = IF raw[i] = "badByte" THEN "replacement" ELSE raw[i]
      BY TextTyped, LenProperties
    <2>2. ASSUME NEW s \in Seq(A) PROVE s = <<"data">> <=> Len(s) = 1 /\ s[1] = "data"
      OBVIOUS
    <2>3. Len(raw) = 1 => (TsText(raw)[1] = "data" <=> raw[1] = "data")
      BY <2>1
    <2> QED BY <2>1, <2>2, <2>3
  <1>5. ASSUME NEW raw \in Seq(A), NEW a \in A
        PROVE  TsText(Append(raw, a)) = Append(TsText(raw), IF a = "badByte" THEN "replacement" ELSE a)
    <2>1. Append(raw, a) = raw \o <<a>> /\ <<a>> \in Seq(A)
      OBVIOUS
    <2>2. TsText(Append(raw, a)) = TsText(raw) \o <<IF a = "badByte" THEN "replacement" ELSE a>>
      <3>1. TsText(raw \o <<a>>) = TsText(raw) \o TsText(<<a>>)
        BY <2>1, TextOfMore
      <3> QED BY <1>3, <2>1, <3>1
    <2>3. TsText(raw) \in Seq(A)
      BY TextTyped
    <2> QED BY <2>2, <2>3
  <1> QED BY <1>1, <1>2, <1>3, <1>4, <1>5

\* A function on the first numbers is a sequence.
LEMMA FunctionIsSequence ==
    ASSUME NEW L, NEW n \in Nat, NEW f \in [1 .. n -> L]
    PROVE  f \in Seq(L) /\ Len(f) = n
  <1>1. f \in Seq(L)
    BY SeqDef
  <1>2. DOMAIN f = 1 .. n
    OBVIOUS
  <1> QED BY <1>1, <1>2, LenProperties

TextAll(lines) == [i \in DOMAIN lines |-> TsText(lines[i])]

\* Every line is decoded on its own.
LEMMA TextOfLines ==
    ASSUME NEW A, "replacement" \in A
    PROVE  /\ TextAll(<<>>) = <<>>
           /\ \A lines \in Seq(Seq(A)) :
                TextAll(lines) \in Seq(Seq(A)) /\ (TextAll(lines) = <<>> <=> lines = <<>>)
           /\ \A lines \in Seq(Seq(A)), line \in Seq(A) :
                TextAll(Append(lines, line)) = Append(TextAll(lines), TsText(line))
  <1>1. ASSUME NEW lines \in Seq(Seq(A))
        PROVE  /\ TextAll(lines) \in Seq(Seq(A)) /\ Len(TextAll(lines)) = Len(lines)
               /\ \A i \in 1 .. Len(lines) : TextAll(lines)[i] = TsText(lines[i])
    <2>1. /\ Len(lines) \in Nat /\ DOMAIN lines = 1 .. Len(lines)
          /\ \A i \in 1 .. Len(lines) : lines[i] \in Seq(A)
      BY LenProperties
    <2>2. TextAll(lines) \in [1 .. Len(lines) -> Seq(A)]
      BY <2>1, TextTyped DEF TextAll
    <2>3. TextAll(lines) \in Seq(Seq(A))
      BY <2>1, <2>2, FunctionIsSequence
    <2>4. DOMAIN TextAll(lines) = 1 .. Len(lines)
      BY <2>2
    <2>5. Len(TextAll(lines)) = Len(lines)
      BY <2>1, <2>3, <2>4, LenProperties
    <2> QED BY <2>1, <2>3, <2>5 DEF TextAll
  <1>2. ASSUME NEW lines \in Seq(Seq(A)) PROVE TextAll(lines) = <<>> <=> lines = <<>>
    BY <1>1, EmptySeq
  <1>3. ASSUME NEW lines \in Seq(Seq(A)), NEW line \in Seq(A)
        PROVE  TextAll(Append(lines, line)) = Append(TextAll(lines), TsText(line))
    <2> DEFINE more == Append(lines, line)
               text == Append(TextAll(lines), TsText(line))
    <2>1. /\ more \in Seq(Seq(A)) /\ Len(more) = Len(lines) + 1 /\ Len(lines) \in Nat
          /\ \A i \in 1 .. Len(lines) : more[i] = lines[i]
          /\ more[Len(lines) + 1] = line
      BY AppendProperties, LenProperties
    <2>2. TextAll(lines) \in Seq(Seq(A)) /\ TsText(line) \in Seq(A) /\ Len(TextAll(lines)) = Len(lines)
      BY <1>1, TextTyped
    <2>3. /\ text \in Seq(Seq(A)) /\ Len(text) = Len(lines) + 1
          /\ \A i \in 1 .. Len(lines) : text[i] = TextAll(lines)[i]
          /\ text[Len(lines) + 1] = TsText(line)
      BY <2>2, AppendProperties
    <2> HIDE DEF more, text
    <2>4. /\ TextAll(more) \in Seq(Seq(A)) /\ Len(TextAll(more)) = Len(lines) + 1
          /\ \A i \in 1 .. Len(lines) + 1 : TextAll(more)[i] = TsText(more[i])
      BY <1>1, <2>1
    <2>5. ASSUME NEW i \in 1 .. Len(lines) + 1 PROVE TextAll(more)[i] = text[i]
      <3>1. CASE i \in 1 .. Len(lines)
        BY <1>1, <2>1, <2>3, <2>4, <3>1
      <3>2. CASE i = Len(lines) + 1
        BY <2>1, <2>3, <2>4, <3>2
      <3> QED BY <2>1, <3>1, <3>2
    <2>6. TextAll(more) = text
      BY <2>3, <2>4, <2>5, SeqEqual
    <2> QED BY <2>6 DEF more, text
  <1> QED BY <1>1, <1>2, <1>3, EmptySeq

\* Splitting what was decoded is decoding what was split.
LEMMA SplitOfText ==
    ASSUME NEW A, "replacement" \in A, NEW raw \in Seq(A)
    PROVE  Split(TsText(raw)) = [lines   |-> TextAll(Split(raw).lines),
                                 current |-> TsText(Split(raw).current),
                                 afterCr |-> Split(raw).afterCr]
  <1> DEFINE Text(s) == [lines |-> TextAll(s.lines), current |-> TsText(s.current), afterCr |-> s.afterCr]
             T == {r \in Seq(A) : Split(TsText(r)) = Text(Split(r))}
  <1>1. <<>> \in T
    BY EmptySeq, TextOfOne, TextOfLines, SplitFold DEF SplitStart
  <1>2. ASSUME NEW r \in Seq(A), r \in T, NEW a \in A PROVE Append(r, a) \in T
    <2> DEFINE b == IF a = "badByte" THEN "replacement" ELSE a
               s == Split(r)
    <2>1. /\ TsText(Append(r, a)) = Append(TsText(r), b) /\ TsText(r) \in Seq(A) /\ b \in A
          /\ Append(r, a) \in Seq(A)
      BY TextOfOne, TextTyped, AppendProperties
    <2>2. Split(TsText(Append(r, a))) = SplitStep(Text(s), b) /\ Split(Append(r, a)) = SplitStep(s, a)
      BY <1>2, <2>1, SplitFold
    <2>3. s.lines \in Seq(Seq(A)) /\ s.current \in Seq(A)
      BY LinesOfSplit
    <2>4. /\ TextAll(Append(s.lines, s.current)) = Append(TextAll(s.lines), TsText(s.current))
          /\ TsText(Append(s.current, a)) = Append(TsText(s.current), b)
          /\ TsText(<<>>) = <<>>
      BY <2>3, TextOfOne, TextOfLines
    <2>5. (b = "cr" <=> a = "cr") /\ (b = "lf" <=> a = "lf")
      OBVIOUS
    <2> HIDE DEF s, b
    <2>6. SplitStep(Text(s), b) = Text(SplitStep(s, a))
      BY <2>4, <2>5 DEF SplitStep
    <2> QED BY <2>1, <2>2, <2>6 DEF s
  <1> HIDE DEF T
  <1>3. raw \in T
    BY <1>1, <1>2, SequenceInduction
  <1> QED BY <1>3 DEF T

\* Joining what was decoded is decoding what was joined.
LEMMA JoinOfText ==
    ASSUME NEW A, "replacement" \in A, "lf" \in A, NEW parts \in Seq(Seq(A))
    PROVE  JoinLines(TextAll(parts)) = TsText(JoinLines(parts))
  <1> DEFINE T == {p \in Seq(Seq(A)) : JoinLines(TextAll(p)) = TsText(JoinLines(p))}
  <1>1. <<>> \in T
    BY EmptySeq, TextOfOne, TextOfLines, JoinFold
  <1>2. ASSUME NEW p \in Seq(Seq(A)), p \in T, NEW part \in Seq(A) PROVE Append(p, part) \in T
    <2>1. /\ TextAll(Append(p, part)) = Append(TextAll(p), TsText(part))
          /\ TextAll(p) \in Seq(Seq(A)) /\ (TextAll(p) = <<>> <=> p = <<>>)
          /\ TsText(part) \in Seq(A) /\ Append(p, part) \in Seq(Seq(A))
      BY TextOfLines, TextTyped, AppendProperties
    <2>2. /\ JoinLines(Append(TextAll(p), TsText(part))) =
               IF p = <<>> THEN TsText(part) ELSE JoinTwo(TsText(JoinLines(p)), TsText(part))
          /\ JoinLines(Append(p, part)) = IF p = <<>> THEN part ELSE JoinTwo(JoinLines(p), part)
          /\ JoinLines(p) \in Seq(A)
      BY <1>2, <2>1, JoinFold
    <2>3. TsText(JoinTwo(JoinLines(p), part)) = JoinTwo(TsText(JoinLines(p)), TsText(part))
      <3> DEFINE j == JoinLines(p)
      <3>1. j \in Seq(A) /\ <<"lf">> \in Seq(A) /\ TsText(<<"lf">>) = <<"lf">>
        BY <2>2, TextOfOne
      <3> HIDE DEF j
      <3>2. j \o <<"lf">> \in Seq(A)
        BY <3>1, ConcatProperties
      <3>3. TsText((j \o <<"lf">>) \o part) = TsText(j \o <<"lf">>) \o TsText(part)
        BY <3>2, TextOfMore
      <3>4. TsText(j \o <<"lf">>) = TsText(j) \o <<"lf">>
        BY <3>1, TextOfMore
      <3> QED BY <3>3, <3>4 DEF JoinTwo, j
    <2> QED BY <2>1, <2>2, <2>3
  <1> HIDE DEF T
  <1>3. parts \in T
    BY <1>1, <1>2, SequenceInduction
  <1> QED BY <1>3 DEF T

\* A part of what was decoded is what the part decodes to.
LEMMA TextOfPart ==
    ASSUME NEW A, "replacement" \in A, NEW line \in Seq(A),
           NEW m \in 1 .. Len(line) + 1, NEW n \in 0 .. Len(line)
    PROVE  SubSeq(TsText(line), m, n) = TsText(SubSeq(line, m, n))
  <1> DEFINE part == SubSeq(line, m, n)
             text == SubSeq(TsText(line), m, n)
  <1>1. /\ Len(line) \in Nat /\ m \in Int /\ n \in Int
        /\ \A i \in m .. n : i \in 1 .. Len(line) /\ line[i] \in A
    BY LenProperties
  <1>2. /\ TsText(line) \in Seq(A)
        /\ \A i \in 1 .. Len(line) :
             TsText(line)[i] = IF line[i] = "badByte" THEN "replacement" ELSE line[i]
        /\ \A i \in m .. n : TsText(line)[i] \in A
    BY <1>1, TextTyped
  <1>3. /\ part \in Seq(A) /\ Len(part) = (IF m <= n THEN n - m + 1 ELSE 0)
        /\ \A i \in 1 .. n - m + 1 : part[i] = line[m + i - 1]
    BY <1>1, SubSeqProperties
  <1>4. /\ text \in Seq(A) /\ Len(text) = (IF m <= n THEN n - m + 1 ELSE 0)
        /\ \A i \in 1 .. n - m + 1 : text[i] = TsText(line)[m + i - 1]
    BY <1>1, <1>2, SubSeqProperties
  <1> HIDE DEF part, text
  <1>5. /\ TsText(part) \in Seq(A) /\ Len(TsText(part)) = Len(part)
        /\ \A i \in 1 .. Len(part) :
             TsText(part)[i] = IF part[i] = "badByte" THEN "replacement" ELSE part[i]
    BY <1>3, TextTyped
  <1>6. ASSUME NEW i \in 1 .. Len(text) PROVE text[i] = TsText(part)[i]
    <2>1. i \in 1 .. n - m + 1 /\ i \in 1 .. Len(part) /\ m + i - 1 \in 1 .. Len(line)
      BY <1>1, <1>3, <1>4
    <2> QED BY <1>2, <1>3, <1>4, <1>5, <2>1
  <1>7. text = TsText(part)
    BY <1>3, <1>4, <1>5, <1>6, SeqEqual
  <1> QED BY <1>7 DEF part, text

\* Decoding keeps the fields, and the value of one is decoded with its line.
LEMMA FieldOfText ==
    ASSUME NEW A, "replacement" \in A, NEW line \in Seq(A)
    PROVE  /\ Field(TsText(line)) = <<"data">> <=> Field(line) = <<"data">>
           /\ Value(TsText(line)) = TsText(Value(line))
  <1> DEFINE n == ColonAt(line)
             text == TsText(line)
             rest == SubSeq(line, n + 1, Len(line))
  <1>1. /\ text \in Seq(A) /\ Len(text) = Len(line) /\ Len(line) \in Nat
        /\ \A i \in 1 .. Len(line) : text[i] = IF line[i] = "badByte" THEN "replacement" ELSE line[i]
    BY TextTyped, LenProperties
  <1>2. ColonAt(text) = n
    <2>1. {i \in 1 .. Len(text) : text[i] = "colon"} = {i \in 1 .. Len(line) : line[i] = "colon"}
      BY <1>1
    <2> HIDE DEF text
    <2> QED BY <2>1 DEF ColonAt, SelectInSeq
  <1>3. n \in 0 .. Len(line)
    BY ColonInLine
  <1> HIDE DEF n, text
  <1>4. Field(text) = <<"data">> <=> Field(line) = <<"data">>
    <2>1. CASE n = 0
      BY <1>2, <2>1, TextOfOne DEF Field, n, text
    <2>2. CASE n # 0
      <3> DEFINE part == SubSeq(line, 1, n - 1)
      <3>1. 1 \in 1 .. Len(line) + 1 /\ n - 1 \in 0 .. Len(line)
        BY <1>1, <1>3, <2>2
      <3>2. SubSeq(text, 1, n - 1) = TsText(part)
        BY <3>1, TextOfPart DEF text
      <3>3. part \in Seq(A)
        <4>1. 1 \in Int /\ n - 1 \in Int /\ \A i \in 1 .. n - 1 : line[i] \in A
          BY <1>3, LenProperties
        <4> QED BY <4>1, SubSeqProperties
      <3>4. Field(text) = TsText(part) /\ Field(line) = part
        BY <1>2, <2>2, <3>2 DEF Field, n
      <3> HIDE DEF part
      <3> QED BY <3>3, <3>4, TextOfOne
    <2> QED BY <2>1, <2>2
  <1>5. Value(text) = TsText(Value(line))
    <2>1. CASE n = 0
      BY <1>2, <2>1, TextOfOne DEF Value, n
    <2>2. CASE n # 0
      <3>1. SubSeq(text, n + 1, Len(text)) = TsText(rest)
        <4>1. n + 1 \in 1 .. Len(line) + 1 /\ Len(line) \in 0 .. Len(line)
          BY <1>1, <1>3, <2>2
        <4> QED BY <1>1, <4>1, TextOfPart DEF text
      <3>2. rest \in Seq(A)
        <4>1. n + 1 \in Int /\ Len(line) \in Int /\ \A i \in n + 1 .. Len(line) : line[i] \in A
          BY <1>3, LenProperties
        <4> QED BY <4>1, SubSeqProperties
      <3>3. /\ Value(text) = IF TsText(rest) # <<>> /\ Head(TsText(rest)) = "space"
                             THEN Tail(TsText(rest)) ELSE TsText(rest)
            /\ Value(line) = IF rest # <<>> /\ Head(rest) = "space" THEN Tail(rest) ELSE rest
        BY <1>2, <2>2, <3>1 DEF Value, n
      <3> HIDE DEF rest
      <3>4. CASE rest = <<>>
        BY <3>3, <3>4, TextOfOne
      <3>5. CASE rest # <<>>
        <4> DEFINE h == Head(rest)
                   t == Tail(rest)
                   b == IF h = "badByte" THEN "replacement" ELSE h
        <4>1. h \in A /\ t \in Seq(A) /\ rest = <<h>> \o t /\ <<h>> \in Seq(A)
          BY <3>2, <3>5
        <4> HIDE DEF h, t
        <4>2. TsText(rest) = <<b>> \o TsText(t) /\ TsText(t) \in Seq(A) /\ b \in A
          <5>1. TsText(<<h>> \o t) = TsText(<<h>>) \o TsText(t)
            BY <4>1, TextOfMore
          <5>2. TsText(<<h>>) = <<b>>
            BY <4>1, TextOfOne
          <5>3. TsText(t) \in Seq(A) /\ b \in A
            BY <4>1, TextTyped
          <5> QED BY <4>1, <5>1, <5>2, <5>3
        <4>3. b = "space" <=> h = "space"
          OBVIOUS
        <4> HIDE DEF b
        <4>4. /\ TsText(rest) # <<>> /\ Head(TsText(rest)) = b /\ Tail(TsText(rest)) = TsText(t)
          BY <4>2
        <4> QED BY <3>3, <3>5, <4>3, <4>4 DEF h, t
      <3> QED BY <3>4, <3>5
    <2> QED BY <2>1, <2>2
  <1> QED BY <1>4, <1>5 DEF text

\* Parsing what was decoded is decoding what was parsed.
LEMMA ParseOfText ==
    ASSUME NEW A, "replacement" \in A, "lf" \in A, NEW lines \in Seq(Seq(A))
    PROVE  ParseState(TextAll(lines)) = [data     |-> TextAll(ParseState(lines).data),
                                         messages |-> TextAll(ParseState(lines).messages)]
  <1> DEFINE Text(s) == [data |-> TextAll(s.data), messages |-> TextAll(s.messages)]
             T == {l \in Seq(Seq(A)) : ParseState(TextAll(l)) = Text(ParseState(l))}
  <1>1. <<>> \in T
    BY EmptySeq, TextOfLines, ParseFold DEF ParseStart
  <1>2. ASSUME NEW l \in Seq(Seq(A)), l \in T, NEW line \in Seq(A) PROVE Append(l, line) \in T
    <2> DEFINE s == ParseState(l)
               text == TsText(line)
    <2>1. /\ TextAll(Append(l, line)) = Append(TextAll(l), text) /\ TextAll(l) \in Seq(Seq(A))
          /\ text \in Seq(A) /\ Append(l, line) \in Seq(Seq(A))
      BY TextOfLines, TextTyped, AppendProperties
    <2>2. /\ ParseState(TextAll(Append(l, line))) = ParseLine(Text(s), text)
          /\ ParseState(Append(l, line)) = ParseLine(s, line)
      BY <1>2, <2>1, ParseFold
    <2>3. s \in ParseStates(A) /\ s.data \in Seq(Seq(A)) /\ s.messages \in Seq(Seq(A))
      BY ParseFold DEF ParseStates
    <2>4. /\ text = <<>> <=> line = <<>>
          /\ Field(text) = <<"data">> <=> Field(line) = <<"data">>
          /\ Value(text) = TsText(Value(line)) /\ Value(line) \in Seq(A)
      BY TextOfOne, FieldOfText, ValueOfLine
    <2>5. /\ JoinLines(TextAll(s.data)) = TsText(JoinLines(s.data)) /\ JoinLines(s.data) \in Seq(A)
          /\ TextAll(s.data) = <<>> <=> s.data = <<>>
          /\ TextAll(<<>>) = <<>>
      BY <2>3, JoinOfText, JoinFold, TextOfLines
    <2>6. /\ TextAll(Append(s.messages, JoinLines(s.data)))
                = Append(TextAll(s.messages), TsText(JoinLines(s.data)))
          /\ TextAll(Append(s.data, Value(line))) = Append(TextAll(s.data), TsText(Value(line)))
      BY <2>3, <2>4, <2>5, TextOfLines
    <2> HIDE DEF s, text
    <2>7. ParseLine(Text(s), text) = Text(ParseLine(s, line))
      BY <2>3, <2>4, <2>5, <2>6 DEF ParseLine, ParseStates
    <2> QED BY <2>1, <2>2, <2>7 DEF s
  <1> HIDE DEF T
  <1>3. lines \in T
    BY <1>1, <1>2, SequenceInduction
  <1> QED BY <1>3 DEF T

\* The messages that TypeScript finds in a stream are Go's, decoded: invalid
\* bytes are the only difference between the decoders, on any stream.
THEOREM MessagesAsText ==
    ASSUME NEW A, "replacement" \in A, "lf" \in A, NEW raw \in Seq(A)
    PROVE  TsMessages(raw) = TextAll(GoMessages(raw))
  <1> DEFINE r == StripBom(raw)
  <1>1. r \in Seq(A) /\ TsText(r) \in Seq(A)
    BY StripTyped, TextTyped
  <1>2. Split(TsText(r)).lines = TextAll(Split(r).lines)
    BY <1>1, SplitOfText
  <1>3. Split(r).lines \in Seq(Seq(A))
    BY <1>1, LinesOfSplit
  <1>4. ParseState(TextAll(Split(r).lines)).messages = TextAll(ParseState(Split(r).lines).messages)
    BY <1>3, ParseOfText
  <1> QED BY <1>1, <1>2, <1>4, GoMessagesAre, TsMessagesAre

(***************************************************************************)
(* What is committed to.                                                   *)
(***************************************************************************)

LEMMA TokensFold ==
    ASSUME NEW A
    PROVE  /\ Tokens(<<>>) = <<>>
           /\ \A message \in Seq(A) : Tokens(message) \in Seq(A)
           /\ \A message \in Seq(A), e \in A : Tokens(Append(message, e)) = AddToken(Tokens(message), e)
  <1> DEFINE S == Seq(A)
             E == A
             step == [p \in S \X E |-> AddToken(p[1], p[2])]
             fold == [message \in Seq(E) |-> Tokens(message)]
  <1>1. <<>> \in S
    BY EmptySeq
  <1>2. ASSUME NEW x \in S, NEW e \in E PROVE AddToken(x, e) \in S
    BY AppendProperties DEF AddToken
  <1>3. step \in [S \X E -> S] /\ \A x \in S, e \in E : step[<<x, e>>] = AddToken(x, e)
    BY <1>2
  <1>4. ASSUME NEW message \in Seq(E), NEW runs, TypedRuns(runs, S, E, step, <<>>, message)
        PROVE  \E after : Runs(after, S, step, <<>>, message) /\ fold[message] = after[Len(message)]
    <2> DEFINE Is(after) == after = [i \in 0 .. Len(message) |->
                              IF i = 0 THEN <<>> ELSE AddToken(after[i - 1], message[i])]
               after == CHOOSE f : Is(f)
    <2> HIDE DEF S, E, step
    <2>1. \A i \in 0 .. Len(message) : runs[i] =
             IF i = 0 THEN <<>> ELSE AddToken(runs[i - 1], message[i])
      BY <1>3, <1>4 DEF Runs, TypedRuns
    <2>2. Is(after)
      BY <1>4, <2>1 DEF TypedRuns
    <2>3. fold[message] = after[Len(message)]
      BY DEF Tokens, Fold
    <2> HIDE DEF after, fold
    <2>4. 0 \in 0 .. Len(message) /\ \A i \in 1 .. Len(message) : i \in 0 .. Len(message) /\ i # 0 /\ message[i] \in E
      BY <1>4, LenProperties DEF TypedRuns
    <2>5. Runs(after, S, step, <<>>, message)
      BY <1>3, <2>2, <2>4 DEF Runs
    <2> QED BY <2>3, <2>5
  <1> HIDE DEF S, E, step
  <1>5. IsFold(fold, S, E, step, <<>>)
    <2> HIDE DEF fold
    <2> QED BY <1>1, <1>3, <1>4, FoldEquations DEF LastOfRuns
  <1>6. <<>> \in Seq(E) /\ \A message \in Seq(E), e \in E : Append(message, e) \in Seq(E)
    BY EmptySeq, AppendProperties
  <1>7. /\ Tokens(<<>>) = <<>>
        /\ \A message \in Seq(E) : Tokens(message) \in S
        /\ \A message \in Seq(E), e \in E : Tokens(Append(message, e)) = AddToken(Tokens(message), e)
    BY <1>3, <1>5, <1>6 DEF IsFold
  <1> QED BY <1>7 DEF S, E

\* The results that messages of the alphabet A can hold, each a line of its own.
ResultLines(A) == {<<result>> : result \in A \cap Results}

\* What a reply adds is its result.
LEMMA ReplyHasResult ==
    ASSUME NEW A, NEW message \in Seq(A), IsReply(message)
    PROVE  <<Tokens(message)[2]>> \in ResultLines(A)
  <1>1. Tokens(message) \in Seq(A) /\ Len(Tokens(message)) = 2
    BY TokensFold DEF IsReply
  <1>2. Tokens(message)[2] \in A
    BY <1>1, ElementOfSeq
  <1>3. Tokens(message)[2] \in Results
    BY DEF IsReply
  <1> QED BY <1>2, <1>3 DEF ResultLines

LEMMA ResultsFold ==
    ASSUME NEW A
    PROVE  /\ ResultsOf(<<>>) = <<>>
           /\ \A messages \in Seq(Seq(A)) : ResultsOf(messages) \in Seq(ResultLines(A))
           /\ \A messages \in Seq(Seq(A)), e \in Seq(A) : ResultsOf(Append(messages, e)) = AddResult(ResultsOf(messages), e)
  <1> DEFINE S == Seq(ResultLines(A))
             E == Seq(A)
             step == [p \in S \X E |-> AddResult(p[1], p[2])]
             fold == [messages \in Seq(E) |-> ResultsOf(messages)]
  <1>1. <<>> \in S
    BY EmptySeq
  <1>2. ASSUME NEW x \in S, NEW e \in E PROVE AddResult(x, e) \in S
    BY ReplyHasResult, AppendProperties DEF AddResult
  <1>3. step \in [S \X E -> S] /\ \A x \in S, e \in E : step[<<x, e>>] = AddResult(x, e)
    BY <1>2
  <1>4. ASSUME NEW messages \in Seq(E), NEW runs, TypedRuns(runs, S, E, step, <<>>, messages)
        PROVE  \E after : Runs(after, S, step, <<>>, messages) /\ fold[messages] = after[Len(messages)]
    <2> DEFINE Is(after) == after = [i \in 0 .. Len(messages) |->
                              IF i = 0 THEN <<>> ELSE AddResult(after[i - 1], messages[i])]
               after == CHOOSE f : Is(f)
    <2> HIDE DEF S, E, step
    <2>1. \A i \in 0 .. Len(messages) : runs[i] =
             IF i = 0 THEN <<>> ELSE AddResult(runs[i - 1], messages[i])
      BY <1>3, <1>4 DEF Runs, TypedRuns
    <2>2. Is(after)
      BY <1>4, <2>1 DEF TypedRuns
    <2>3. fold[messages] = after[Len(messages)]
      BY DEF ResultsOf, Fold
    <2> HIDE DEF after, fold
    <2>4. 0 \in 0 .. Len(messages) /\ \A i \in 1 .. Len(messages) : i \in 0 .. Len(messages) /\ i # 0 /\ messages[i] \in E
      BY <1>4, LenProperties DEF TypedRuns
    <2>5. Runs(after, S, step, <<>>, messages)
      BY <1>3, <2>2, <2>4 DEF Runs
    <2> QED BY <2>3, <2>5
  <1> HIDE DEF S, E, step
  <1>5. IsFold(fold, S, E, step, <<>>)
    <2> HIDE DEF fold
    <2> QED BY <1>1, <1>3, <1>4, FoldEquations DEF LastOfRuns
  <1>6. <<>> \in Seq(E) /\ \A messages \in Seq(E), e \in E : Append(messages, e) \in Seq(E)
    BY EmptySeq, AppendProperties
  <1>7. /\ ResultsOf(<<>>) = <<>>
        /\ \A messages \in Seq(E) : ResultsOf(messages) \in S
        /\ \A messages \in Seq(E), e \in E : ResultsOf(Append(messages, e)) = AddResult(ResultsOf(messages), e)
    BY <1>3, <1>5, <1>6 DEF IsFold
  <1> QED BY <1>7 DEF S, E

\* Without a number beyond every double, the results are committed to as they are.
LEMMA JsonRpcCommitted ==
    ASSUME NEW A, "resultHuge" \notin A, NEW messages \in Seq(Seq(A))
    PROVE  /\ GoJsonRpcCommitted(messages) = [committed |-> JoinLines(ResultsOf(messages))]
           /\ TsJsonRpcCommitted(messages) = [committed |-> JoinLines(ResultsOf(messages))]
  <1> DEFINE results == ResultsOf(messages)
  <1>1. results \in Seq(ResultLines(A))
    BY ResultsFold
  <1>2. <<"resultHuge">> \notin ResultLines(A)
    BY DEF ResultLines
  <1> HIDE DEF results
  <1>3. DOMAIN results = 1 .. Len(results) /\ \A i \in DOMAIN results : results[i] # <<"resultHuge">>
    BY <1>1, <1>2, LenProperties
  <1>4. [i \in DOMAIN results |-> IF results[i] = <<"resultHuge">> THEN <<"null">> ELSE results[i]]
          = results
    BY <1>1, <1>3, LenProperties
  <1>5. <<"resultHuge">> \notin ToSet(results)
    BY <1>3 DEF ToSet
  <1> QED BY <1>4, <1>5 DEF GoJsonRpcCommitted, TsJsonRpcCommitted, results

\* sse-outputs-hash: the two tools commit to the same, in either mode, on every
\* stream without invalid bytes and without a number beyond every double.
THEOREM SseAgreement ==
    ASSUME NEW A, "badByte" \notin A, "resultHuge" \notin A, NEW raw \in Seq(A),
           NEW m \in Modes
    PROVE  GoOutputsHash(raw, m) = TsOutputsHash(raw, m)
  <1> DEFINE B == A \cup {"lf"}
  <1>1. "lf" \in B /\ "badByte" \notin B /\ "resultHuge" \notin B /\ raw \in Seq(B)
    BY SeqMonotonic
  <1> HIDE DEF B
  <1>2. GoMessages(raw) = TsMessages(raw) /\ GoMessages(raw) \in Seq(Seq(B))
    BY <1>1, MessagesAgreement
  <1>3. GoJsonRpcCommitted(GoMessages(raw)) = TsJsonRpcCommitted(TsMessages(raw))
    BY <1>1, <1>2, JsonRpcCommitted
  <1> QED BY <1>2, <1>3 DEF GoOutputsHash, TsOutputsHash, Modes
==============================================================================

--------------------------- MODULE SseStream_proofs ---------------------------
(***************************************************************************)
(* A stream of any length, cut into any chunks: the live client and both   *)
(* decoders stay together symbol by symbol.  What was split into lines and *)
(* parsed so far is the client's whole state, which is the invariant.      *)
(***************************************************************************)
EXTENDS SseStream, SseDecode_proofs

(***************************************************************************)
(* Lines on the wire.                                                      *)
(***************************************************************************)

FrameLine(framed, line) == framed \o line \o <<"lf">>
Framed(lines) == Fold(FrameLine, <<>>, lines)

LEMMA FramedFold ==
    ASSUME NEW A, "lf" \in A
    PROVE  /\ Framed(<<>>) = <<>>
           /\ \A lines \in Seq(Seq(A)) : Framed(lines) \in Seq(A)
           /\ \A lines \in Seq(Seq(A)), e \in Seq(A) : Framed(Append(lines, e)) = FrameLine(Framed(lines), e)
  <1> DEFINE S == Seq(A)
             E == Seq(A)
             step == [p \in S \X E |-> FrameLine(p[1], p[2])]
             fold == [lines \in Seq(E) |-> Framed(lines)]
  <1>1. <<>> \in S
    BY EmptySeq
  <1>2. ASSUME NEW x \in S, NEW e \in E PROVE FrameLine(x, e) \in S
    BY ConcatProperties DEF FrameLine
  <1>3. step \in [S \X E -> S] /\ \A x \in S, e \in E : step[<<x, e>>] = FrameLine(x, e)
    BY <1>2
  <1>4. ASSUME NEW lines \in Seq(E), NEW runs, TypedRuns(runs, S, E, step, <<>>, lines)
        PROVE  \E after : Runs(after, S, step, <<>>, lines) /\ fold[lines] = after[Len(lines)]
    <2> DEFINE Is(after) == after = [i \in 0 .. Len(lines) |->
                              IF i = 0 THEN <<>> ELSE FrameLine(after[i - 1], lines[i])]
               after == CHOOSE f : Is(f)
    <2> HIDE DEF S, E, step
    <2>1. \A i \in 0 .. Len(lines) : runs[i] =
             IF i = 0 THEN <<>> ELSE FrameLine(runs[i - 1], lines[i])
      BY <1>3, <1>4 DEF Runs, TypedRuns
    <2>2. Is(after)
      BY <1>4, <2>1 DEF TypedRuns
    <2>3. fold[lines] = after[Len(lines)]
      BY DEF Framed, Fold
    <2> HIDE DEF after, fold
    <2>4. 0 \in 0 .. Len(lines) /\ \A i \in 1 .. Len(lines) : i \in 0 .. Len(lines) /\ i # 0 /\ lines[i] \in E
      BY <1>4, LenProperties DEF TypedRuns
    <2>5. Runs(after, S, step, <<>>, lines)
      BY <1>3, <2>2, <2>4 DEF Runs
    <2> QED BY <2>3, <2>5
  <1> HIDE DEF S, E, step
  <1>5. IsFold(fold, S, E, step, <<>>)
    <2> HIDE DEF fold
    <2> QED BY <1>1, <1>3, <1>4, FoldEquations DEF LastOfRuns
  <1>6. <<>> \in Seq(E) /\ \A lines \in Seq(E), e \in E : Append(lines, e) \in Seq(E)
    BY EmptySeq, AppendProperties
  <1>7. /\ Framed(<<>>) = <<>>
        /\ \A lines \in Seq(E) : Framed(lines) \in S
        /\ \A lines \in Seq(E), e \in E : Framed(Append(lines, e)) = FrameLine(Framed(lines), e)
    BY <1>3, <1>5, <1>6 DEF IsFold
  <1> QED BY <1>7 DEF S, E

\* Joined lines are the same on the wire, but for the last terminator.
LEMMA JoinedIsFramed ==
    ASSUME NEW A, "lf" \in A, NEW lines \in Seq(Seq(A)), lines # <<>>
    PROVE  /\ Framed(lines) = JoinLines(lines) \o <<"lf">>
           /\ JoinLines(lines) \in Seq(A)
  <1> DEFINE T == {l \in Seq(Seq(A)) : l # <<>> => Framed(l) = JoinLines(l) \o <<"lf">>}
  <1>1. <<>> \in T
    BY EmptySeq
  <1>2. ASSUME NEW l \in Seq(Seq(A)), l \in T, NEW line \in Seq(A) PROVE Append(l, line) \in T
    <2>1. /\ Framed(Append(l, line)) = Framed(l) \o line \o <<"lf">> /\ Framed(<<>>) = <<>>
          /\ Framed(l) \in Seq(A)
      BY FramedFold DEF FrameLine
    <2>2. /\ JoinLines(Append(l, line)) =
                IF l = <<>> THEN line ELSE JoinLines(l) \o <<"lf">> \o line
          /\ JoinLines(l) \in Seq(A)
      BY JoinFold DEF JoinTwo
    <2>3. Append(l, line) \in Seq(Seq(A)) /\ <<"lf">> \in Seq(A)
      BY AppendProperties
    <2>4. CASE l = <<>>
      BY <2>1, <2>2, <2>3, <2>4, ConcatEmptySeq
    <2>5. CASE l # <<>>
      BY <1>2, <2>1, <2>2, <2>3, <2>5
    <2> QED BY <2>4, <2>5
  <1> HIDE DEF T
  <1>3. lines \in T
    BY <1>1, <1>2, SequenceInduction
  <1> QED BY <1>3, JoinFold DEF T

\* Nothing on the wire is no line.
LEMMA FramedEmpty ==
    ASSUME NEW A, "lf" \in A, NEW lines \in Seq(Seq(A))
    PROVE  /\ Framed(lines) = <<>> <=> lines = <<>>
           /\ lines # <<>> => SubSeq(Framed(lines), 1, Len(Framed(lines)) - 1) = JoinLines(lines)
  <1>1. Framed(<<>>) = <<>>
    BY FramedFold
  <1>2. ASSUME lines # <<>>
        PROVE  /\ Framed(lines) # <<>>
               /\ SubSeq(Framed(lines), 1, Len(Framed(lines)) - 1) = JoinLines(lines)
    <2> DEFINE joined == JoinLines(lines)
    <2>1. Framed(lines) = joined \o <<"lf">> /\ joined \in Seq(A) /\ <<"lf">> \in Seq(A)
      BY <1>2, JoinedIsFramed
    <2> HIDE DEF joined
    <2>2. /\ Len(joined \o <<"lf">>) = Len(joined) + 1 /\ Len(joined) \in Nat
          /\ joined \o <<"lf">> \in Seq(A)
      BY <2>1, ConcatProperties, LenProperties
    <2>3. SubSeq(joined \o <<"lf">>, 1, Len(joined)) = joined
      BY <2>1, <2>2
    <2> QED BY <2>1, <2>2, <2>3 DEF joined
  <1> QED BY <1>1, <1>2

(***************************************************************************)
(* How the client reads a line.                                            *)
(***************************************************************************)

LEMMA PrefixBySymbols ==
    ASSUME NEW A, NEW B, NEW s \in Seq(B), NEW t \in Seq(A)
    PROVE  IsPrefix(s, t) <=> Len(s) <= Len(t) /\ \A i \in 1 .. Len(s) : s[i] = t[i]
  <1>1. Len(s) \in Nat /\ Len(t) \in Nat /\ SubSeq(s, 1, Len(s)) = s
    BY LenProperties, SubSeqFull
  <1>2. ASSUME Len(s) <= Len(t)
        PROVE  SubSeq(t, 1, Len(s)) = s <=> \A i \in 1 .. Len(s) : s[i] = t[i]
    <2> DEFINE part == SubSeq(t, 1, Len(s))
    <2>1. 1 \in Int /\ Len(s) \in Int /\ \A i \in 1 .. Len(s) : t[i] \in A
      BY <1>1, <1>2, LenProperties
    <2>2. /\ part \in Seq(A) /\ Len(part) = (IF 1 <= Len(s) THEN Len(s) - 1 + 1 ELSE 0)
          /\ \A i \in 1 .. Len(s) - 1 + 1 : part[i] = t[1 + i - 1]
      BY <2>1, SubSeqProperties
    <2>3. Len(part) = Len(s) /\ \A i \in 1 .. Len(s) : part[i] = t[i]
      BY <1>1, <2>2
    <2> HIDE DEF part
    <2>4. (\A i \in 1 .. Len(s) : s[i] = t[i]) => part = s
      <3>1. s \in Seq(A \cup B) /\ part \in Seq(A \cup B)
        BY <2>2, SeqMonotonic
      <3> QED BY <2>3, <3>1, SeqEqual
    <2>5. part = s => \A i \in 1 .. Len(s) : s[i] = t[i]
      BY <2>3
    <2> QED BY <2>4, <2>5 DEF part
  <1> QED BY <1>1, <1>2 DEF IsPrefix

LEMMA OneSymbol ==
    ASSUME NEW A, NEW s \in Seq(A), NEW a
    PROVE  s = <<a>> <=> Len(s) = 1 /\ s[1] = a
  OBVIOUS

\* A line that is not blank is a data line exactly when data is its field.
LEMMA DataLines ==
    ASSUME NEW A, NEW line \in Seq(A), line # <<>>
    PROVE  /\ IsDataLine(line) <=> Field(line) = <<"data">>
           /\ IsDataLine(line) => DataOf(line) = Value(line)
  <1> DEFINE n == ColonAt(line)
             B == {"data", "colon", "space"}
             two == <<"data", "colon">>
             three == <<"data", "colon", "space">>
  <1>1. /\ n \in 0 .. Len(line) /\ Len(line) \in Nat /\ Len(line) >= 1
        /\ n # 0 => line[n] = "colon"
        /\ \A i \in 1 .. Len(line) : line[i] = "colon" => n # 0 /\ n <= i
    BY ColonInLine, LenProperties
  <1>2. two \in Seq(B) /\ three \in Seq(B) /\ Len(two) = 2 /\ Len(three) = 3
    OBVIOUS
  <1> HIDE DEF n, B, two, three
  <1>3. IsPrefix(two, line) <=> Len(line) >= 2 /\ line[1] = "data" /\ line[2] = "colon"
    <2>1. IsPrefix(two, line) <=> Len(two) <= Len(line) /\ \A i \in 1 .. Len(two) : two[i] = line[i]
      BY <1>2, PrefixBySymbols
    <2>2. 1 .. 2 = {1, 2} /\ two[1] = "data" /\ two[2] = "colon"
      BY DEF two
    <2> QED BY <1>1, <1>2, <2>1, <2>2
  <1>4. IsPrefix(three, line) <=>
          Len(line) >= 3 /\ line[1] = "data" /\ line[2] = "colon" /\ line[3] = "space"
    <2>1. IsPrefix(three, line) <=>
            Len(three) <= Len(line) /\ \A i \in 1 .. Len(three) : three[i] = line[i]
      BY <1>2, PrefixBySymbols
    <2>2. 1 .. 3 = {1, 2, 3} /\ three[1] = "data" /\ three[2] = "colon" /\ three[3] = "space"
      BY DEF three
    <2> QED BY <1>1, <1>2, <2>1, <2>2
  <1>5. line = <<"data">> <=> Len(line) = 1 /\ line[1] = "data"
    BY <1>1
  <1>6. CASE n = 0
    <2>1. Field(line) = line /\ Value(line) = <<>>
      BY <1>6 DEF Field, Value, n
    <2>2. ~IsPrefix(two, line) /\ ~IsPrefix(three, line)
      <3>1. Len(line) >= 2 => line[2] # "colon"
        BY <1>1, <1>6
      <3> QED BY <1>1, <1>3, <1>4, <3>1
    <2>3. line = <<"data">> => SubSeq(line, 3, Len(line)) = <<>>
      BY <1>5, SubSeqEmpty
    <2> QED BY <2>1, <2>2, <2>3 DEF IsDataLine, DataOf, two, three
  <1>7. CASE n # 0
    <2> DEFINE name == SubSeq(line, 1, n - 1)
               rest == SubSeq(line, n + 1, Len(line))
    <2>1. Field(line) = name
      BY <1>7 DEF Field, n
    <2>2. /\ name \in Seq(A) /\ Len(name) = n - 1
          /\ \A i \in 1 .. n - 1 : name[i] = line[i]
      <3>1. 1 \in Int /\ n - 1 \in Int /\ \A i \in 1 .. n - 1 : line[i] \in A
        BY <1>1, LenProperties
      <3>2. /\ name \in Seq(A) /\ Len(name) = (IF 1 <= n - 1 THEN n - 1 - 1 + 1 ELSE 0)
            /\ \A i \in 1 .. n - 1 - 1 + 1 : name[i] = line[1 + i - 1]
        BY <3>1, SubSeqProperties
      <3> HIDE DEF name
      <3> QED BY <1>1, <1>7, <3>2
    <2> HIDE DEF name
    <2>3. name = <<"data">> <=> n = 2 /\ line[1] = "data"
      <3>1. name = <<"data">> <=> Len(name) = 1 /\ name[1] = "data"
        BY <2>2, OneSymbol
      <3> QED BY <1>1, <1>7, <2>2, <3>1
    <2>4. line # <<"data">>
      BY <1>1, <1>5, <1>7
    <2>5. IsDataLine(line) <=> n = 2 /\ line[1] = "data"
      BY <1>1, <1>3, <1>7, <2>4 DEF IsDataLine, two
    <2>6. ASSUME n = 2, line[1] = "data" PROVE DataOf(line) = Value(line)
      <3>1. Value(line) = IF rest # <<>> /\ Head(rest) = "space" THEN Tail(rest) ELSE rest
        BY <1>7 DEF Value, n
      <3>2. rest = SubSeq(line, 3, Len(line))
        BY <2>6
      <3>3. CASE Len(line) >= 3
        <4>1. 3 \in 1 .. Len(line) /\ Len(line) \in 3 .. Len(line)
          BY <1>1, <3>3
        <4>2. Head(rest) = line[3] /\ Tail(rest) = SubSeq(line, 3 + 1, Len(line))
          BY <3>2, <4>1, HeadTailOfSubSeq
        <4>3. rest # <<>>
          <5>1. Len(rest) = (IF 3 <= Len(line) THEN Len(line) - 3 + 1 ELSE 0)
            <6>1. 3 \in Int /\ Len(line) \in Int /\ \A i \in 3 .. Len(line) : line[i] \in A
              BY <1>1, LenProperties
            <6>2. Len(SubSeq(line, 3, Len(line))) = (IF 3 <= Len(line) THEN Len(line) - 3 + 1 ELSE 0)
              BY <6>1, SubSeqProperties
            <6> HIDE DEF rest
            <6> QED BY <3>2, <6>2
          <5> HIDE DEF rest
          <5>2. Len(rest) # 0
            BY <1>1, <3>3, <5>1
          <5> QED BY <5>2
        <4>4. line[2] = "colon"
          BY <1>1, <2>6
        <4>5. IsPrefix(three, line) <=> line[3] = "space"
          BY <1>4, <2>6, <3>3, <4>4
        <4> HIDE DEF rest
        <4>6. CASE line[3] = "space"
          <5>1. DataOf(line) = SubSeq(line, 3 + 1, Len(line))
            BY <4>5, <4>6 DEF DataOf, three
          <5> QED BY <3>1, <4>2, <4>3, <4>6, <5>1
        <4>7. CASE line[3] # "space"
          <5>1. DataOf(line) = SubSeq(line, 2 + 1, Len(line))
            BY <4>5, <4>7 DEF DataOf, three
          <5> QED BY <3>1, <3>2, <4>2, <4>7, <5>1
        <4> QED BY <4>6, <4>7
      <3>4. CASE ~(Len(line) >= 3)
        <4>1. rest = <<>>
          BY <1>1, <3>2, <3>4, SubSeqEmpty
        <4>2. ~IsPrefix(three, line)
          BY <1>4, <3>4
        <4> HIDE DEF rest
        <4> QED BY <3>1, <3>2, <4>1, <4>2 DEF DataOf, three
      <3> QED BY <3>3, <3>4
    <2> QED BY <2>1, <2>3, <2>5, <2>6
  <1> QED BY <1>6, <1>7

\* The data of a line is a part of the line.
LEMMA DataOfTyped ==
    ASSUME NEW A, NEW line \in Seq(A), IsDataLine(line)
    PROVE  DataOf(line) \in Seq(A)
  <1>1. CASE line = <<>>
    <2>1. Len(<<>>) = 0 /\ Len(<<"data", "colon">>) = 2
      OBVIOUS
    <2> QED BY <1>1, <2>1 DEF IsDataLine, IsPrefix
  <1>2. CASE line # <<>>
    BY <1>2, DataLines, ValueOfLine
  <1> QED BY <1>1, <1>2

(***************************************************************************)
(* The live client.                                                        *)
(***************************************************************************)

Clients(A) == [line : Lines(A), afterCr : BOOLEAN, buffer : Seq(A), messages : Seq(Seq(A))]

\* The client has received exactly raw: it holds the line that is not yet
\* terminated, the data lines of the event that is not yet dispatched, framed,
\* and the messages that were.
Follows(c, raw) ==
    LET s == Split(raw)
        p == ParseState(s.lines)
    IN  c = [line |-> s.current, afterCr |-> s.afterCr, buffer |-> Framed(p.data),
             messages |-> p.messages]

\* After a "cr" no line is begun.
LEMMA AfterCrIsNewLine ==
    ASSUME NEW A, NEW raw \in Seq(A), Split(raw).afterCr
    PROVE  Split(raw).current = <<>>
  <1> DEFINE T == {r \in Seq(A) : Split(r).afterCr => Split(r).current = <<>>}
  <1>1. <<>> \in T
    BY EmptySeq, SplitFold DEF SplitStart
  <1>2. ASSUME NEW r \in Seq(A), NEW a \in A PROVE Append(r, a) \in T
    BY SplitFold, AppendProperties DEF SplitStep
  <1> HIDE DEF T
  <1>3. raw \in T
    BY <1>1, <1>2, SequenceInduction
  <1> QED BY <1>3 DEF T

\* Both states of what was received so far are of their type.
LEMMA FollowedStates ==
    ASSUME NEW A, "lf" \in A, NEW raw \in Seq(A)
    PROVE  /\ Split(raw) \in SplitStates(A) /\ Split(raw).lines \in Seq(Seq(A))
           /\ Split(raw).current \in Seq(A)
           /\ ParseState(Split(raw).lines) \in ParseStates(A)
           /\ ParseState(Split(raw).lines).data \in Seq(Seq(A))
           /\ ParseState(Split(raw).lines).messages \in Seq(Seq(A))
           /\ Framed(ParseState(Split(raw).lines).data) \in Seq(A)
  <1>1. Split(raw) \in SplitStates(A) /\ Split(raw).lines \in Seq(Seq(A))
        /\ Split(raw).current \in Seq(A)
    BY SplitFold, LinesOfSplit
  <1>2. ParseState(Split(raw).lines) \in ParseStates(A)
    BY <1>1, ParseFold
  <1>3. /\ ParseState(Split(raw).lines).data \in Seq(Seq(A))
        /\ ParseState(Split(raw).lines).messages \in Seq(Seq(A))
    BY <1>2 DEF ParseStates
  <1> QED BY <1>1, <1>2, <1>3, FramedFold

\* A client that has received raw is of its type.
LEMMA FollowerTyped ==
    ASSUME NEW A, "lf" \in A, NEW raw \in Seq(A), NEW c, Follows(c, raw)
    PROVE  c \in Clients(A)
  BY FollowedStates DEF Follows, Clients, SplitStates

\* The client with what the parser has of the event and the messages.
WithParsed(c, p) == [c EXCEPT !.buffer = Framed(p.data), !.messages = p.messages]

\* The end of a line does to the client what parsing the line does.
LEMMA EndOfLineParses ==
    ASSUME NEW A, "lf" \in A, NEW p \in ParseStates(A), NEW c \in Clients(A),
           c.buffer = Framed(p.data), c.messages = p.messages
    PROVE  EndOfLine(c) = WithParsed(c, ParseLine(p, c.line))
  <1> USE DEF WithParsed
  <1>1. p.data \in Seq(Seq(A)) /\ c.line \in Seq(A)
    BY SeqMonotonic DEF ParseStates, Clients, Lines
  <1>2. Framed(<<>>) = <<>> /\ (c.buffer = <<>> <=> p.data = <<>>)
    BY <1>1, FramedEmpty, FramedFold
  <1>3. CASE c.line = <<>> /\ p.data = <<>>
    BY <1>2, <1>3 DEF EndOfLine, ParseLine, Clients
  <1>4. CASE c.line = <<>> /\ p.data # <<>>
    <2>1. SubSeq(c.buffer, 1, Len(c.buffer) - 1) = JoinLines(p.data)
      BY <1>1, <1>4, FramedEmpty
    <2> QED BY <1>2, <1>4, <2>1 DEF EndOfLine, ParseLine, Clients
  <1>5. CASE c.line # <<>> /\ Field(c.line) = <<"data">>
    <2>1. Framed(Append(p.data, Value(c.line))) = c.buffer \o Value(c.line) \o <<"lf">>
      BY <1>1, FramedFold, ValueOfLine DEF FrameLine
    <2>2. IsDataLine(c.line) /\ DataOf(c.line) = Value(c.line)
      BY <1>1, <1>5, DataLines
    <2> QED BY <1>5, <2>1, <2>2 DEF EndOfLine, ParseLine, ParseStates, Clients
  <1>6. CASE c.line # <<>> /\ Field(c.line) # <<"data">>
    <2>1. ~IsDataLine(c.line)
      BY <1>1, <1>6, DataLines
    <2> QED BY <1>6, <2>1 DEF EndOfLine, ParseLine, Clients
  <1> QED BY <1>3, <1>4, <1>5, <1>6

\* Symbol by symbol the client follows what was split and parsed.
LEMMA ClientFollows ==
    ASSUME NEW A, "lf" \in A, NEW raw \in Seq(A), NEW a \in A, NEW c, Follows(c, raw)
    PROVE  Follows(ClientReceives(c, a), Append(raw, a))
  <1> DEFINE s == Split(raw)
             p == ParseState(s.lines)
             t == Split(Append(raw, a))
  <1>1. c = [line |-> s.current, afterCr |-> s.afterCr, buffer |-> Framed(p.data),
             messages |-> p.messages]
    BY DEF Follows
  <1>2. /\ s \in SplitStates(A) /\ s.lines \in Seq(Seq(A)) /\ s.current \in Seq(A)
        /\ p \in ParseStates(A) /\ c \in Clients(A)
    BY FollowedStates, FollowerTyped
  <1>3. t = SplitStep(s, a)
    BY SplitFold
  <1>4. s.afterCr => s.current = <<>>
    BY AfterCrIsNewLine
  <1>5. ParseState(Append(s.lines, s.current)) = ParseLine(p, s.current)
    BY <1>2, ParseFold
  <1>6. Follows(ClientReceives(c, a), Append(raw, a)) <=>
          ClientReceives(c, a) =
            [line |-> t.current, afterCr |-> t.afterCr, buffer |-> Framed(ParseState(t.lines).data),
             messages |-> ParseState(t.lines).messages]
    BY DEF Follows
  <1> HIDE DEF s, p, t
  <1>7. CASE a = "lf" /\ s.afterCr
    <2>1. t = [lines |-> s.lines, current |-> <<>>, afterCr |-> FALSE]
      BY <1>3, <1>7 DEF SplitStep
    <2>2. ClientReceives(c, a) = [c EXCEPT !.afterCr = FALSE]
      BY <1>1, <1>7 DEF ClientReceives
    <2> QED BY <1>1, <1>4, <1>6, <1>7, <2>1, <2>2 DEF p
  <1>8. CASE a \in {"cr", "lf"} /\ ~(a = "lf" /\ s.afterCr)
    <2>1. t = [lines |-> Append(s.lines, s.current), current |-> <<>>, afterCr |-> (a = "cr")]
      BY <1>3, <1>8 DEF SplitStep
    <2>2. ClientReceives(c, a) = [EndOfLine(c) EXCEPT !.line = <<>>, !.afterCr = (a = "cr")]
      BY <1>1, <1>8 DEF ClientReceives
    <2>3. EndOfLine(c) = WithParsed(c, ParseLine(p, s.current))
      <3>1. c.line = s.current /\ c.buffer = Framed(p.data) /\ c.messages = p.messages
        BY <1>1
      <3> QED BY <1>2, <3>1, EndOfLineParses
    <2> QED BY <1>1, <1>5, <1>6, <2>1, <2>2, <2>3 DEF WithParsed
  <1>9. CASE a \notin {"cr", "lf"}
    <2>1. t = [lines |-> s.lines, current |-> Append(s.current, a), afterCr |-> FALSE]
      BY <1>3, <1>9 DEF SplitStep
    <2>2. ClientReceives(c, a) = [c EXCEPT !.line = Append(@, a), !.afterCr = FALSE]
      BY <1>9 DEF ClientReceives
    <2> QED BY <1>1, <1>6, <2>1, <2>2 DEF p
  <1> QED BY <1>7, <1>8, <1>9

\* The end of a line keeps a client of its type, whatever it has received.
LEMMA EndOfLineKeeps ==
    ASSUME NEW A, "lf" \in A, NEW c \in Clients(A)
    PROVE  EndOfLine(c) \in Clients(A)
  <1>1. /\ c.line \in Lines(A) /\ c.line \in Seq(A) /\ c.buffer \in Seq(A)
        /\ c.messages \in Seq(Seq(A)) /\ c.afterCr \in BOOLEAN
    BY SeqMonotonic DEF Clients, Lines
  <1>2. SubSeq(c.buffer, 1, Len(c.buffer) - 1) \in Seq(A)
    <2>1. /\ 1 \in Int /\ Len(c.buffer) - 1 \in Int
          /\ \A i \in 1 .. Len(c.buffer) - 1 : c.buffer[i] \in A
      BY <1>1, LenProperties
    <2> QED BY <2>1, SubSeqProperties
  <1>3. IsDataLine(c.line) => c.buffer \o DataOf(c.line) \o <<"lf">> \in Seq(A)
    <2>1. <<"lf">> \in Seq(A) /\ (IsDataLine(c.line) => DataOf(c.line) \in Seq(A))
      BY <1>1, DataOfTyped
    <2> QED BY <1>1, <2>1, ConcatProperties
  <1>4. Append(c.messages, SubSeq(c.buffer, 1, Len(c.buffer) - 1)) \in Seq(Seq(A))
    BY <1>1, <1>2, AppendProperties
  <1> QED BY <1>1, <1>3, <1>4, EmptySeq DEF EndOfLine, Clients

\* So does a symbol.
LEMMA ClientTyped ==
    ASSUME NEW A, "lf" \in A, NEW c \in Clients(A), NEW a \in A
    PROVE  ClientReceives(c, a) \in Clients(A)
  <1>1. EndOfLine(c) \in Clients(A) /\ c.line \in Lines(A)
    BY EndOfLineKeeps DEF Clients
  <1>2. <<>> \in Lines(A) /\ (a \notin {"cr", "lf"} => Append(c.line, a) \in Lines(A))
    BY <1>1, EmptySeq, AppendProperties DEF Lines, Terminators
  <1> QED BY <1>1, <1>2 DEF ClientReceives, Clients

ReceiveAll(c, chunk) == Fold(ClientReceives, c, chunk)

LEMMA ReceiveFold ==
    ASSUME NEW A, "lf" \in A, NEW c \in Clients(A)
    PROVE  /\ ReceiveAll(c, <<>>) = c
           /\ \A chunk \in Seq(A) : ReceiveAll(c, chunk) \in Clients(A)
           /\ \A chunk \in Seq(A), e \in A : ReceiveAll(c, Append(chunk, e)) = ClientReceives(ReceiveAll(c, chunk), e)
  <1> DEFINE S == Clients(A)
             E == A
             step == [p \in S \X E |-> ClientReceives(p[1], p[2])]
             fold == [chunk \in Seq(E) |-> ReceiveAll(c, chunk)]
  <1>1. c \in S
    OBVIOUS
  <1>2. ASSUME NEW x \in S, NEW e \in E PROVE ClientReceives(x, e) \in S
    BY ClientTyped
  <1>3. step \in [S \X E -> S] /\ \A x \in S, e \in E : step[<<x, e>>] = ClientReceives(x, e)
    BY <1>2
  <1>4. ASSUME NEW chunk \in Seq(E), NEW runs, TypedRuns(runs, S, E, step, c, chunk)
        PROVE  \E after : Runs(after, S, step, c, chunk) /\ fold[chunk] = after[Len(chunk)]
    <2> DEFINE Is(after) == after = [i \in 0 .. Len(chunk) |->
                              IF i = 0 THEN c ELSE ClientReceives(after[i - 1], chunk[i])]
               after == CHOOSE f : Is(f)
    <2> HIDE DEF S, E, step
    <2>1. \A i \in 0 .. Len(chunk) : runs[i] =
             IF i = 0 THEN c ELSE ClientReceives(runs[i - 1], chunk[i])
      BY <1>3, <1>4 DEF Runs, TypedRuns
    <2>2. Is(after)
      BY <1>4, <2>1 DEF TypedRuns
    <2>3. fold[chunk] = after[Len(chunk)]
      BY DEF ReceiveAll, Fold
    <2> HIDE DEF after, fold
    <2>4. 0 \in 0 .. Len(chunk) /\ \A i \in 1 .. Len(chunk) : i \in 0 .. Len(chunk) /\ i # 0 /\ chunk[i] \in E
      BY <1>4, LenProperties DEF TypedRuns
    <2>5. Runs(after, S, step, c, chunk)
      BY <1>3, <2>2, <2>4 DEF Runs
    <2> QED BY <2>3, <2>5
  <1> HIDE DEF S, E, step
  <1>5. IsFold(fold, S, E, step, c)
    <2> HIDE DEF fold
    <2> QED BY <1>1, <1>3, <1>4, FoldEquations DEF LastOfRuns
  <1>6. <<>> \in Seq(E) /\ \A chunk \in Seq(E), e \in E : Append(chunk, e) \in Seq(E)
    BY EmptySeq, AppendProperties
  <1>7. /\ ReceiveAll(c, <<>>) = c
        /\ \A chunk \in Seq(E) : ReceiveAll(c, chunk) \in S
        /\ \A chunk \in Seq(E), e \in E : ReceiveAll(c, Append(chunk, e)) = ClientReceives(ReceiveAll(c, chunk), e)
    BY <1>3, <1>5, <1>6 DEF IsFold
  <1> QED BY <1>7 DEF S, E

\* So does a whole chunk, however the stream was cut.
LEMMA ChunkFollows ==
    ASSUME NEW A, "lf" \in A, NEW raw \in Seq(A), NEW chunk \in Seq(A), NEW c, Follows(c, raw)
    PROVE  Follows(ReceiveAll(c, chunk), raw \o chunk)
  <1> DEFINE T == {k \in Seq(A) : Follows(ReceiveAll(c, k), raw \o k)}
  <1>0. c \in Clients(A)
    BY FollowerTyped
  <1>1. <<>> \in T
    <2>1. ReceiveAll(c, <<>>) = c
      BY <1>0, ReceiveFold
    <2>2. raw \o <<>> = raw /\ <<>> \in Seq(A)
      BY ConcatEmptySeq, EmptySeq
    <2> QED BY <2>1, <2>2
  <1>2. ASSUME NEW k \in Seq(A), k \in T, NEW a \in A PROVE Append(k, a) \in T
    <2>1. /\ ReceiveAll(c, Append(k, a)) = ClientReceives(ReceiveAll(c, k), a)
          /\ Append(k, a) \in Seq(A)
      BY <1>0, ReceiveFold, AppendProperties
    <2>2. raw \o k \in Seq(A) /\ raw \o Append(k, a) = Append(raw \o k, a)
      OBVIOUS
    <2>3. Follows(ReceiveAll(c, k), raw \o k)
      BY <1>2
    <2>4. Follows(ClientReceives(ReceiveAll(c, k), a), Append(raw \o k, a))
      BY <2>2, <2>3, ClientFollows
    <2> QED BY <2>1, <2>2, <2>4
  <1> HIDE DEF T
  <1>3. chunk \in T
    BY <1>1, <1>2, SequenceInduction
  <1> QED BY <1>3 DEF T

(***************************************************************************)
(* The invariant.                                                          *)
(***************************************************************************)

\* Every chunk is of the alphabet A.
ChunksOver(A) == \A m \in Modes : Chunks[m] \subseteq Seq(A)

\* What has arrived is of the alphabet A and the client has received it, but
\* for a leading byte order mark.
IInv(A) ==
    /\ mode \in Modes /\ arrived \in 0 .. MaxChunks[mode]
    /\ wire \in Seq(A)
    /\ Follows(client, StripBom(wire))

\* A chunk that arrives later is no part of the byte order mark.
LEMMA StripArrived ==
    ASSUME NEW A, NEW raw \in Seq(A), NEW chunk \in Seq(A)
    PROVE  StripBom(raw \o chunk) = StripBom(raw) \o (IF raw = <<>> THEN StripBom(chunk) ELSE chunk)
  <1>1. CASE raw = <<>>
    <2>1. raw \o chunk = chunk /\ StripBom(chunk) \in Seq(A) /\ StripBom(raw) = <<>>
      BY <1>1, StripTyped DEF StripBom
    <2> QED BY <1>1, <2>1, ConcatEmptySeq
  <1>2. CASE raw # <<>>
    <2>1. /\ raw \o chunk # <<>> /\ Head(raw \o chunk) = Head(raw)
          /\ Tail(raw \o chunk) = Tail(raw) \o chunk
      BY <1>2
    <2> QED BY <1>2, <2>1 DEF StripBom
  <1> QED BY <1>1, <1>2

\* A chunk that begins with a byte order mark.
LEMMA BomInFront ==
    ASSUME NEW A, NEW chunk \in Seq(A)
    PROVE  /\ IsPrefix(<<"bom">>, chunk) <=> chunk # <<>> /\ Head(chunk) = "bom"
           /\ chunk # <<>> => Tail(chunk) = SubSeq(chunk, 2, Len(chunk))
  <1> DEFINE B == {"bom"}
             mark == <<"bom">>
  <1>1. mark \in Seq(B) /\ Len(mark) = 1 /\ mark[1] = "bom" /\ Len(chunk) \in Nat
    BY LenProperties
  <1> HIDE DEF B, mark
  <1>2. IsPrefix(mark, chunk) <=> Len(chunk) >= 1 /\ chunk[1] = "bom"
    <2>1. IsPrefix(mark, chunk) <=> Len(mark) <= Len(chunk) /\ \A i \in 1 .. Len(mark) : mark[i] = chunk[i]
      BY <1>1, PrefixBySymbols
    <2> QED BY <1>1, <2>1
  <1>3. chunk # <<>> <=> Len(chunk) >= 1
    BY <1>1
  <1>4. chunk # <<>> => Head(chunk) = chunk[1] /\ Tail(chunk) = SubSeq(chunk, 2, Len(chunk))
    <2> SUFFICES ASSUME chunk # <<>> PROVE Head(chunk) = chunk[1] /\ Tail(chunk) = SubSeq(chunk, 2, Len(chunk))
      OBVIOUS
    <2>1. 1 \in 1 .. Len(chunk) /\ Len(chunk) \in 1 .. Len(chunk) /\ SubSeq(chunk, 1, Len(chunk)) = chunk
      BY <1>1, <1>3, SubSeqFull
    <2>2. Tail(SubSeq(chunk, 1, Len(chunk))) = SubSeq(chunk, 1 + 1, Len(chunk))
          /\ Head(SubSeq(chunk, 1, Len(chunk))) = chunk[1]
      BY <2>1, HeadTailOfSubSeq
    <2> QED BY <2>1, <2>2
  <1> QED BY <1>2, <1>3, <1>4 DEF mark

\* The client drops the byte order mark that the decoders drop.
LEMMA ReceivedIs ==
    ASSUME NEW A, NEW chunk \in Seq(A)
    PROVE  Received(chunk) = IF wire = <<>> THEN StripBom(chunk) ELSE chunk
  BY BomInFront DEF Received, StripBom

\* A client that has received nothing.
Fresh == [line |-> <<>>, afterCr |-> FALSE, buffer |-> <<>>, messages |-> <<>>]

LEMMA FreshFollows == Follows(Fresh, <<>>)
  <1>1. Split(<<>>) = [lines |-> <<>>, current |-> <<>>, afterCr |-> FALSE]
    BY SplitFold DEF SplitStart
  <1>2. ParseState(<<>>) = [data |-> <<>>, messages |-> <<>>] /\ Framed(<<>>) = <<>>
    BY ParseFold, FramedFold DEF ParseStart
  <1>3. Split(<<>>).lines = <<>> /\ Split(<<>>).current = <<>> /\ Split(<<>>).afterCr = FALSE
    BY <1>1
  <1>4. ParseState(Split(<<>>).lines).data = <<>> /\ ParseState(Split(<<>>).lines).messages = <<>>
    BY <1>2, <1>3
  <1> QED BY <1>2, <1>3, <1>4 DEF Follows, Fresh

LEMMA InitInvariant ==
    ASSUME NEW A
    PROVE  Init => IInv(A)
  <1> SUFFICES ASSUME Init PROVE IInv(A)
    OBVIOUS
  <1>3. Follows(client, <<>>)
    BY FreshFollows DEF Init, Fresh
  <1>4. StripBom(<<>>) = <<>> /\ <<>> \in Seq(A)
    BY EmptySeq DEF StripBom
  <1>5. 0 \in 0 .. MaxChunks[mode]
    BY SseAssumption DEF Init
  <1> QED BY <1>3, <1>4, <1>5 DEF Init, IInv

\* Every step preserves the invariant.
LEMMA StepInvariant ==
    ASSUME NEW A, "lf" \in A, ChunksOver(A)
    PROVE  IInv(A) /\ [Next]_vars => IInv(A)'
  <1> SUFFICES ASSUME IInv(A), [Next]_vars PROVE IInv(A)'
    OBVIOUS
  <1>1. ASSUME NEW chunk \in Chunks[mode], Arrive(chunk) PROVE IInv(A)'
    <2> DEFINE received == IF wire = <<>> THEN StripBom(chunk) ELSE chunk
    <2>1. chunk \in Seq(A) /\ wire \in Seq(A)
      BY DEF IInv, ChunksOver
    <2>2. StripBom(wire) \in Seq(A) /\ received \in Seq(A)
      BY <2>1, StripTyped
    <2>3. client' = ReceiveAll(client, received) /\ wire' = wire \o chunk /\ mode' = mode
      BY <1>1, <2>1, ReceivedIs DEF Arrive, ReceiveAll
    <2>4. StripBom(wire') = StripBom(wire) \o received
      BY <2>1, <2>3, StripArrived
    <2> HIDE DEF received
    <2>5. Follows(client', StripBom(wire'))
      BY <2>2, <2>3, <2>4, ChunkFollows DEF IInv
    <2>6. arrived' \in 0 .. MaxChunks[mode'] /\ mode' \in Modes
      BY <1>1, SseAssumption DEF Arrive, IInv
    <2>7. wire' \in Seq(A)
      BY <2>1, <2>3, ConcatProperties
    <2> QED BY <2>5, <2>6, <2>7 DEF IInv, Follows
  <1>2. CASE UNCHANGED vars
    BY <1>2 DEF vars, IInv, Follows
  <1> QED BY <1>1, <1>2 DEF Next

(***************************************************************************)
(* The recording and the live client.                                      *)
(***************************************************************************)

\* The invariant holds throughout every behaviour, over all symbols.
THEOREM Invariance == Spec => []IInv(Symbols)
  <1>1. "lf" \in Symbols /\ ChunksOver(Symbols)
    BY SseAssumption DEF Symbols, ChunksOver
  <1>2. Init => IInv(Symbols)
    BY InitInvariant
  <1>3. IInv(Symbols) /\ [Next]_vars => IInv(Symbols)'
    BY <1>1, StepInvariant
  <1> QED BY <1>2, <1>3, PTL DEF Spec

\* Type correctness of the stream, the client and what both decoders make of it.
THEOREM StreamTypeCorrectness == Spec => []TypeOK
  <1>1. "lf" \in Symbols /\ ChunksOver(Symbols)
    BY SseAssumption DEF Symbols, ChunksOver
  <1>2. IInv(Symbols) => TypeOK
    <2> SUFFICES ASSUME IInv(Symbols) PROVE TypeOK
      OBVIOUS
    <2>1. wire \in Seq(Symbols) /\ StripBom(wire) \in Seq(Symbols)
      BY StripTyped DEF IInv
    <2>2. client \in Clients(Symbols)
      BY <1>1, <2>1, FollowerTyped DEF IInv
    <2>3. client.line \in Seq(Symbols)
      BY <2>2, SeqMonotonic DEF Clients, Lines
    <2>4. GoMessages(wire) \in Seq(Seq(Symbols))
      BY <1>1, <2>1, FollowedStates, GoMessagesAre
    <2>5. TsMessages(wire) \in Seq(Seq(Symbols))
      <3>1. TsText(StripBom(wire)) \in Seq(Symbols)
        BY <2>1, TextTyped DEF Symbols
      <3> QED BY <1>1, <3>1, FollowedStates, TsMessagesAre
    <2> QED BY <2>1, <2>2, <2>3, <2>4, <2>5 DEF TypeOK, IInv, Clients
  <1> QED BY <1>2, Invariance, PTL

\* The client was handed Go's messages.
LEMMA ClientHasMessages ==
    ASSUME NEW A, IInv(A)
    PROVE  client.messages = GoMessages(wire)
  BY GoMessagesAre DEF IInv, Follows

\* A recording decodes to exactly what a live client was handed, wherever it
\* stops and however long it is, as long as its bytes are text.
THEOREM RecordingIsLive ==
    ASSUME ChunksOver(Symbols \ {"badByte"})
    PROVE  Spec => []RecordingMatchesLive
  <1> DEFINE A == Symbols \ {"badByte"}
  <1>1. "lf" \in A /\ "badByte" \notin A /\ ChunksOver(A)
    BY DEF Symbols
  <1> HIDE DEF A
  <1>2. IInv(A) => RecordingMatchesLive
    BY <1>1, ClientHasMessages, MessagesAgreement DEF IInv, RecordingMatchesLive
  <1>3. Init => IInv(A)
    BY <1>1, InitInvariant
  <1>4. IInv(A) /\ [Next]_vars => IInv(A)'
    BY <1>1, StepInvariant
  <1> QED BY <1>2, <1>3, <1>4, PTL DEF Spec

\* On any bytes: Go decodes a recording to what a live client was handed, and
\* TypeScript to the same with every invalid byte replaced, wherever it stops.
THEOREM RecordingIsLiveAsText ==
    Spec => [](GoMessages(wire) = client.messages /\ TsMessages(wire) = TextAll(client.messages))
  <1>1. "lf" \in Symbols /\ "replacement" \in Symbols
    BY DEF Symbols
  <1>2. IInv(Symbols) => /\ GoMessages(wire) = client.messages
                         /\ TsMessages(wire) = TextAll(client.messages)
    BY <1>1, ClientHasMessages, MessagesAsText DEF IInv
  <1> QED BY <1>2, Invariance, PTL

\* The two tools commit to the same at every point of every stream, in either
\* mode, without invalid bytes and numbers beyond every double.
THEOREM StreamsNeverDivide ==
    ASSUME ChunksOver(Symbols \ {"badByte", "resultHuge"})
    PROVE  Spec => []SseTwinsAgree
  <1> DEFINE A == Symbols \ {"badByte", "resultHuge"}
  <1>1. "lf" \in A /\ "badByte" \notin A /\ "resultHuge" \notin A /\ ChunksOver(A)
    BY DEF Symbols, Results
  <1> HIDE DEF A
  <1>2. IInv(A) => SseTwinsAgree
    BY <1>1, SseAgreement DEF IInv, SseTwinsAgree
  <1>3. Init => IInv(A)
    BY <1>1, InitInvariant
  <1>4. IInv(A) /\ [Next]_vars => IInv(A)'
    BY <1>1, StepInvariant
  <1> QED BY <1>2, <1>3, <1>4, PTL DEF Spec

(***************************************************************************)
(* A longer recording.                                                     *)
(***************************************************************************)

MessagesOf(raw) == ParseState(Split(raw).lines).messages

\* One more symbol completes at most one more message.
LEMMA OneMoreSymbol ==
    ASSUME NEW A, "lf" \in A, NEW raw \in Seq(A), NEW a \in A
    PROVE  \/ MessagesOf(Append(raw, a)) = MessagesOf(raw)
           \/ \E message \in Seq(A) : MessagesOf(Append(raw, a)) = Append(MessagesOf(raw), message)
  <1> DEFINE s == Split(raw)
             p == ParseState(s.lines)
  <1>1. /\ s.lines \in Seq(Seq(A)) /\ s.current \in Seq(A)
        /\ p \in ParseStates(A) /\ p.data \in Seq(Seq(A))
    BY FollowedStates
  <1>2. Split(Append(raw, a)) = SplitStep(s, a)
    BY SplitFold
  <1>3. Split(Append(raw, a)).lines \in {s.lines, Append(s.lines, s.current)}
    BY <1>2 DEF SplitStep
  <1>4. ParseState(Append(s.lines, s.current)) = ParseLine(p, s.current)
    BY <1>1, ParseFold
  <1> HIDE DEF s
  <1>5. ParseLine(p, s.current).messages \in {p.messages, Append(p.messages, JoinLines(p.data))}
    BY <1>1 DEF ParseLine, ParseStates
  <1>6. JoinLines(p.data) \in Seq(A)
    BY <1>1, JoinFold
  <1> QED BY <1>3, <1>4, <1>5, <1>6 DEF MessagesOf, s

\* More symbols keep the messages there were.
LEMMA MessagesExtend ==
    ASSUME NEW A, "lf" \in A, NEW raw \in Seq(A), NEW more \in Seq(A)
    PROVE  IsPrefix(MessagesOf(raw), MessagesOf(raw \o more))
  <1> DEFINE T == {k \in Seq(A) : IsPrefix(MessagesOf(raw), MessagesOf(raw \o k))}
  <1>0. \A r \in Seq(A) : MessagesOf(r) \in Seq(Seq(A))
    BY FollowedStates DEF MessagesOf
  <1>1. <<>> \in T
    <2>1. raw \o <<>> = raw /\ <<>> \in Seq(A) /\ Len(MessagesOf(raw)) \in Nat
      BY <1>0, ConcatEmptySeq, EmptySeq, LenProperties
    <2> QED BY <2>1 DEF IsPrefix
  <1>2. ASSUME NEW k \in Seq(A), k \in T, NEW a \in A PROVE Append(k, a) \in T
    <2> DEFINE before == MessagesOf(raw)
               now    == MessagesOf(raw \o k)
               next   == MessagesOf(raw \o Append(k, a))
    <2>1. raw \o k \in Seq(A) /\ raw \o Append(k, a) = Append(raw \o k, a) /\ Append(k, a) \in Seq(A)
      OBVIOUS
    <2>2. before \in Seq(Seq(A)) /\ now \in Seq(Seq(A))
      BY <1>0, <2>1
    <2>3. next = now \/ \E message \in Seq(A) : next = Append(now, message)
      <3> DEFINE r == raw \o k
      <3>1. raw \o Append(k, a) = Append(r, a) /\ r \in Seq(A)
        BY <2>1
      <3> HIDE DEF r
      <3>2. \/ MessagesOf(Append(r, a)) = MessagesOf(r)
            \/ \E message \in Seq(A) : MessagesOf(Append(r, a)) = Append(MessagesOf(r), message)
        BY <3>1, OneMoreSymbol
      <3>3. next = MessagesOf(Append(r, a)) /\ now = MessagesOf(r)
        BY <3>1 DEF r
      <3> HIDE DEF next, now
      <3> QED BY <3>2, <3>3
    <2>4. IsPrefix(before, now)
      BY <1>2
    <2> HIDE DEF before, now, next
    <2>5. ASSUME NEW message \in Seq(A) PROVE IsPrefix(before, Append(now, message))
      <3>1. /\ Len(before) \in Nat /\ Len(now) \in Nat /\ Len(before) <= Len(now)
            /\ SubSeq(before, 1, Len(before)) = SubSeq(now, 1, Len(before))
        BY <2>2, <2>4, LenProperties DEF IsPrefix
      <3>2. Len(Append(now, message)) = Len(now) + 1
        BY <2>2, AppendProperties
      <3>3. SubSeq(Append(now, message), 1, Len(before)) = SubSeq(now, 1, Len(before))
        BY <2>2, <3>1
      <3> QED BY <3>1, <3>2, <3>3 DEF IsPrefix
    <2>6. IsPrefix(before, next)
      BY <2>3, <2>4, <2>5
    <2> QED BY <2>1, <2>6 DEF before, next
  <1> HIDE DEF T
  <1>3. more \in T
    BY <1>1, <1>2, SequenceInduction
  <1> QED BY <1>3 DEF T

\* Whatever arrives, neither decoder takes back a message, nor changes one:
\* the messages of a recording begin those of every longer one.
THEOREM MessagesAreFinal == Spec => MessagesOnlyExtend
  <1> DEFINE A == Symbols
             Extends == /\ IsPrefix(GoMessages(wire), GoMessages(wire'))
                        /\ IsPrefix(TsMessages(wire), TsMessages(wire'))
  <1>1. "lf" \in A /\ "replacement" \in A /\ ChunksOver(A)
    BY SseAssumption DEF Symbols, ChunksOver
  <1>2. ASSUME IInv(A), [Next]_vars PROVE Extends
    <2>1. PICK more \in Seq(A) : StripBom(wire') = StripBom(wire) \o more
      <3>1. ASSUME NEW chunk \in Chunks[mode], Arrive(chunk)
            PROVE  \E more \in Seq(A) : StripBom(wire') = StripBom(wire) \o more
        <4>1. chunk \in Seq(A) /\ wire \in Seq(A) /\ wire' = wire \o chunk /\ StripBom(chunk) \in Seq(A)
          BY <1>1, <1>2, <3>1, StripTyped DEF IInv, ChunksOver, Arrive
        <4> QED BY <4>1, StripArrived
      <3>2. CASE UNCHANGED vars
        <4>1. wire' = wire /\ StripBom(wire) \in Seq(A) /\ <<>> \in Seq(A)
          BY <1>2, <3>2, StripTyped, EmptySeq DEF vars, IInv
        <4> QED BY <4>1, ConcatEmptySeq
      <3> QED BY <1>2, <3>1, <3>2 DEF Next
    <2>2. StripBom(wire) \in Seq(A) /\ TsText(StripBom(wire)) \in Seq(A) /\ TsText(more) \in Seq(A)
      BY <1>1, <1>2, StripTyped, TextTyped DEF IInv
    <2>3. IsPrefix(GoMessages(wire), GoMessages(wire'))
      BY <1>1, <2>1, <2>2, MessagesExtend, GoMessagesAre DEF MessagesOf
    <2>4. IsPrefix(TsMessages(wire), TsMessages(wire'))
      <3>1. TsText(StripBom(wire')) = TsText(StripBom(wire)) \o TsText(more)
        BY <1>1, <2>1, <2>2, TextOfMore
      <3>2. TsText(StripBom(wire')) \in Seq(A)
        BY <2>2, <3>1, ConcatProperties
      <3>3. TsMessages(wire) = MessagesOf(TsText(StripBom(wire)))
        BY <1>1, <2>2, TsMessagesAre DEF MessagesOf
      <3>4. TsMessages(wire') = MessagesOf(TsText(StripBom(wire')))
        BY <1>1, <3>2, TsMessagesAre DEF MessagesOf
      <3> QED BY <1>1, <2>2, <3>1, <3>3, <3>4, MessagesExtend
    <2> QED BY <2>3, <2>4
  <1>3. Spec => []IInv(A)
    BY Invariance
  <1>4. IInv(A) /\ [Next]_vars => [Extends]_vars
    BY <1>2
  <1> QED BY <1>3, <1>4, PTL DEF Spec, MessagesOnlyExtend

(***************************************************************************)
(* Re-framed on the way.                                                   *)
(***************************************************************************)

\* Symbols that are no terminators are added to the line begun.
LEMMA SplitLine ==
    ASSUME NEW A, NEW raw \in Seq(A), NEW line \in Lines(A),
           Split(raw).current = <<>>, Split(raw).afterCr = FALSE
    PROVE  Split(raw \o line) = [lines |-> Split(raw).lines, current |-> line, afterCr |-> FALSE]
  <1> DEFINE B == A \ Terminators
             T == {l \in Seq(B) : Split(raw \o l) =
                     [lines |-> Split(raw).lines, current |-> l, afterCr |-> FALSE]}
  <1>1. <<>> \in T
    <2>1. raw \o <<>> = raw /\ <<>> \in Seq(B)
      BY ConcatEmptySeq, EmptySeq
    <2>2. Split(raw) \in SplitStates(A)
      BY SplitFold
    <2> QED BY <2>1, <2>2 DEF SplitStates
  <1>2. ASSUME NEW l \in Seq(B), l \in T, NEW a \in B PROVE Append(l, a) \in T
    <2>1. l \in Seq(A) /\ a \in A /\ Append(l, a) \in Seq(B)
      BY SeqMonotonic, AppendProperties
    <2>2. raw \o Append(l, a) = Append(raw \o l, a) /\ raw \o l \in Seq(A)
      BY <2>1
    <2>3. Split(raw \o Append(l, a)) = SplitStep(Split(raw \o l), a)
      BY <2>1, <2>2, SplitFold
    <2> QED BY <1>2, <2>1, <2>3 DEF SplitStep, Terminators
  <1> HIDE DEF T
  <1>3. line \in T
    BY <1>1, <1>2, SequenceInduction DEF Lines
  <1> QED BY <1>3 DEF T

\* Lines on the wire are split into the same lines.
LEMMA SplitOfFramed ==
    ASSUME NEW A, "lf" \in A, NEW lines \in Seq(Lines(A))
    PROVE  Split(Framed(lines)) = [lines |-> lines, current |-> <<>>, afterCr |-> FALSE]
  <1> DEFINE T == {l \in Seq(Lines(A)) :
                     Split(Framed(l)) = [lines |-> l, current |-> <<>>, afterCr |-> FALSE]}
  <1>0. Lines(A) \subseteq Seq(A) /\ Seq(Lines(A)) \subseteq Seq(Seq(A))
    BY SeqMonotonic DEF Lines
  <1>1. <<>> \in T
    BY EmptySeq, FramedFold, SplitFold DEF SplitStart
  <1>2. ASSUME NEW l \in Seq(Lines(A)), l \in T, NEW line \in Lines(A) PROVE Append(l, line) \in T
    <2> DEFINE f == Framed(l)
    <2>1. /\ f \in Seq(A) /\ line \in Seq(A) /\ Append(l, line) \in Seq(Lines(A))
          /\ Framed(Append(l, line)) = f \o line \o <<"lf">>
      BY <1>0, FramedFold, AppendProperties DEF FrameLine
    <2>2. Split(f) = [lines |-> l, current |-> <<>>, afterCr |-> FALSE]
      BY <1>2
    <2> HIDE DEF f
    <2>3. Split(f \o line) = [lines |-> l, current |-> line, afterCr |-> FALSE]
      <3>1. Split(f).current = <<>> /\ Split(f).afterCr = FALSE /\ Split(f).lines = l
        BY <2>2
      <3> QED BY <2>1, <3>1, SplitLine
    <2>4. f \o line \o <<"lf">> = Append(f \o line, "lf") /\ f \o line \in Seq(A)
      BY <2>1
    <2>5. Split(f \o line \o <<"lf">>) = SplitStep(Split(f \o line), "lf")
      BY <2>4, SplitFold
    <2>6. SplitStep(Split(f \o line), "lf") =
            [lines |-> Append(l, line), current |-> <<>>, afterCr |-> FALSE]
      <3> DEFINE s == Split(f \o line)
      <3>1. s.lines = l /\ s.current = line /\ s.afterCr = FALSE
        BY <2>3
      <3> HIDE DEF s
      <3>2. SplitStep(s, "lf") = [lines |-> Append(l, line), current |-> <<>>, afterCr |-> FALSE]
        BY <3>1 DEF SplitStep
      <3> QED BY <3>2 DEF s
    <2> QED BY <2>1, <2>5, <2>6
  <1> HIDE DEF T
  <1>3. lines \in T
    BY <1>1, <1>2, SequenceInduction
  <1> QED BY <1>3 DEF T

\* One live client on a whole recording.
ClientOf(raw) == ReceiveAll(Fresh, StripBom(raw))

\* It holds what was split and parsed, and Go's messages.
LEMMA ClientOfIs ==
    ASSUME NEW A, "lf" \in A, NEW raw \in Seq(A)
    PROVE  /\ Follows(ClientOf(raw), StripBom(raw)) /\ ClientOf(raw) \in Clients(A)
           /\ GoMessages(raw) = ClientOf(raw).messages
  <1>1. StripBom(raw) \in Seq(A) /\ <<>> \in Seq(A) /\ <<>> \o StripBom(raw) = StripBom(raw)
    BY StripTyped, EmptySeq, ConcatEmptySeq
  <1>2. Follows(ClientOf(raw), <<>> \o StripBom(raw))
    BY <1>1, FreshFollows, ChunkFollows DEF ClientOf
  <1>3. Follows(ClientOf(raw), StripBom(raw))
    BY <1>1, <1>2
  <1>4. GoMessages(raw) = ClientOf(raw).messages
    BY <1>3, GoMessagesAre DEF Follows
  <1> QED BY <1>1, <1>3, <1>4, FollowerTyped

\* Two chunks in a row.
LEMMA ReceiveMore ==
    ASSUME NEW A, "lf" \in A, NEW c \in Clients(A), NEW x \in Seq(A), NEW y \in Seq(A)
    PROVE  ReceiveAll(c, x \o y) = ReceiveAll(ReceiveAll(c, x), y)
  <1> DEFINE d == ReceiveAll(c, x)
             T == {k \in Seq(A) : ReceiveAll(c, x \o k) = ReceiveAll(d, k)}
  <1>0. d \in Clients(A)
    BY ReceiveFold
  <1>1. <<>> \in T
    <2>1. x \o <<>> = x /\ <<>> \in Seq(A)
      BY ConcatEmptySeq, EmptySeq
    <2>2. ReceiveAll(d, <<>>) = d
      BY <1>0, ReceiveFold
    <2> QED BY <2>1, <2>2
  <1> HIDE DEF d
  <1>2. ASSUME NEW k \in Seq(A), k \in T, NEW a \in A PROVE Append(k, a) \in T
    <2>1. /\ x \o k \in Seq(A) /\ x \o Append(k, a) = Append(x \o k, a)
          /\ Append(k, a) \in Seq(A)
      OBVIOUS
    <2>2. ReceiveAll(c, Append(x \o k, a)) = ClientReceives(ReceiveAll(c, x \o k), a)
      <3> DEFINE r == x \o k
      <3>1. r \in Seq(A)
        BY <2>1
      <3> HIDE DEF r
      <3>2. ReceiveAll(c, Append(r, a)) = ClientReceives(ReceiveAll(c, r), a)
        BY <3>1, ReceiveFold
      <3> QED BY <3>2 DEF r
    <2>3. ReceiveAll(d, Append(k, a)) = ClientReceives(ReceiveAll(d, k), a)
      BY <1>0, ReceiveFold
    <2> QED BY <1>2, <2>1, <2>2, <2>3
  <1> HIDE DEF T
  <1>3. y \in T
    BY <1>1, <1>2, SequenceInduction
  <1> QED BY <1>3 DEF T, d

\* One symbol, and a "cr" and its "lf".
LEMMA ReceiveSymbols ==
    ASSUME NEW A, "lf" \in A, NEW c \in Clients(A)
    PROVE  /\ \A a \in A : ReceiveAll(c, <<a>>) = ClientReceives(c, a)
           /\ \A a \in A, b \in A : ReceiveAll(c, <<a, b>>) = ClientReceives(ClientReceives(c, a), b)
  <1>1. ASSUME NEW a \in A PROVE ReceiveAll(c, <<a>>) = ClientReceives(c, a)
    <2> DEFINE none == <<>>
    <2>1. <<a>> = Append(none, a) /\ none \in Seq(A) /\ ReceiveAll(c, none) = c
      BY ReceiveFold
    <2> HIDE DEF none
    <2>2. ReceiveAll(c, Append(none, a)) = ClientReceives(ReceiveAll(c, none), a)
      BY <2>1, ReceiveFold
    <2> QED BY <2>1, <2>2
  <1>2. ASSUME NEW a \in A, NEW b \in A
        PROVE  ReceiveAll(c, <<a, b>>) = ClientReceives(ClientReceives(c, a), b)
    <2> DEFINE one == <<a>>
    <2>1. <<a, b>> = Append(one, b) /\ one \in Seq(A) /\ ReceiveAll(c, one) = ClientReceives(c, a)
      BY <1>1
    <2> HIDE DEF one
    <2>2. ReceiveAll(c, Append(one, b)) = ClientReceives(ReceiveAll(c, one), b)
      BY <2>1, ReceiveFold
    <2> QED BY <2>1, <2>2
  <1> QED BY <1>1, <1>2

\* What follows on a stream is received after it.
LEMMA ClientOfMore ==
    ASSUME NEW A, "lf" \in A, NEW before \in Seq(A), NEW more \in Seq(A),
           before = <<>> => more = <<>> \/ Head(more) # "bom"
    PROVE  ClientOf(before \o more) = ReceiveAll(ClientOf(before), more)
  <1>1. StripBom(before \o more) = StripBom(before) \o more
    BY StripArrived DEF StripBom
  <1>2. Fresh \in Clients(A) /\ StripBom(before) \in Seq(A)
    BY EmptySeq, StripTyped DEF Fresh, Clients, Lines
  <1> QED BY <1>1, <1>2, ReceiveMore DEF ClientOf

LEMMA EndOfLineAlike ==
    ASSUME NEW A, NEW c \in Clients(A), NEW was \in BOOLEAN, NEW is \in BOOLEAN
    PROVE  [EndOfLine([c EXCEPT !.afterCr = was]) EXCEPT !.line = <<>>, !.afterCr = is]
             = [EndOfLine(c) EXCEPT !.line = <<>>, !.afterCr = is]
  <1> DEFINE d == [c EXCEPT !.afterCr = was]
  <1>1. d.line = c.line /\ d.buffer = c.buffer /\ d.messages = c.messages
        /\ d = [line |-> c.line, afterCr |-> was, buffer |-> c.buffer, messages |-> c.messages]
        /\ c = [line |-> c.line, afterCr |-> c.afterCr, buffer |-> c.buffer, messages |-> c.messages]
    BY DEF Clients
  <1> HIDE DEF d
  <1>2. CASE c.line = <<>> /\ c.buffer = <<>>
    BY <1>1, <1>2 DEF EndOfLine, d
  <1>3. CASE c.line = <<>> /\ c.buffer # <<>>
    BY <1>1, <1>3 DEF EndOfLine, d
  <1>4. CASE c.line # <<>> /\ IsDataLine(c.line)
    BY <1>1, <1>4 DEF EndOfLine, d
  <1>5. CASE c.line # <<>> /\ ~IsDataLine(c.line)
    BY <1>1, <1>5 DEF EndOfLine, d
  <1> QED BY <1>2, <1>3, <1>4, <1>5

\* Whether a "cr" came last makes no difference unless a "lf" comes next.
LEMMA TailAlike ==
    ASSUME NEW A, "lf" \in A, NEW c \in Clients(A), NEW afterCr \in BOOLEAN, NEW tail \in Seq(A),
           tail = <<>> \/ Head(tail) # "lf"
    PROVE  ReceiveAll([c EXCEPT !.afterCr = afterCr], tail).messages = ReceiveAll(c, tail).messages
  <1> DEFINE d == [c EXCEPT !.afterCr = afterCr]
             T == {k \in Seq(A) : k # <<>> /\ Head(k) # "lf" => ReceiveAll(d, k) = ReceiveAll(c, k)}
  <1>0. d \in Clients(A) /\ c = [d EXCEPT !.afterCr = c.afterCr] /\ d.messages = c.messages
        /\ d.line = c.line /\ d.buffer = c.buffer
    BY DEF Clients
  <1>1. <<>> \in T
    BY EmptySeq
  <1>2. ASSUME NEW k \in Seq(A), k \in T, NEW a \in A PROVE Append(k, a) \in T
    <2>1. Append(k, a) \in Seq(A)
      BY AppendProperties
    <2>2. /\ ReceiveAll(d, Append(k, a)) = ClientReceives(ReceiveAll(d, k), a)
          /\ ReceiveAll(c, Append(k, a)) = ClientReceives(ReceiveAll(c, k), a)
      BY <1>0, ReceiveFold
    <2>3. CASE k = <<>>
      <3>1. ReceiveAll(d, k) = d /\ ReceiveAll(c, k) = c /\ Head(Append(k, a)) = a
        BY <1>0, <2>3, ReceiveFold
      <3>2. a # "lf" => ClientReceives(d, a) = ClientReceives(c, a)
        BY EndOfLineAlike DEF ClientReceives, Clients
      <3> QED BY <2>1, <2>2, <3>1, <3>2
    <2>4. CASE k # <<>>
      <3>1. Head(Append(k, a)) = Head(k)
        BY <2>4, HeadTailAppend
      <3> QED BY <1>2, <2>1, <2>2, <2>4, <3>1
    <2> QED BY <2>3, <2>4
  <1> HIDE DEF T
  <1>3. tail \in T
    BY <1>1, <1>2, SequenceInduction
  <1>4. CASE tail = <<>>
    BY <1>0, <1>4, ReceiveFold
  <1>5. CASE tail # <<>>
    BY <1>3, <1>5 DEF T
  <1> QED BY <1>4, <1>5

\* The client at the end of a stream: after a "cr" if that came last, and with
\* no line begun where a line begins.
LEMMA ClientAtEnd ==
    ASSUME NEW A, "lf" \in A, NEW before \in Seq(A)
    PROVE  /\ ClientOf(before).afterCr => before # <<>> /\ Last(before) = "cr"
           /\ before \in {<<>>, <<"bom">>} \/ Last(before) \in Terminators =>
                ClientOf(before).line = <<>>
  <1> DEFINE c == ClientOf(before)
             s == Split(StripBom(before))
  <1>1. c.line = s.current /\ c.afterCr = s.afterCr
    BY ClientOfIs DEF Follows
  <1> HIDE DEF c, s
  <1>2. Split(<<>>).current = <<>> /\ Split(<<>>).afterCr = FALSE
    BY SplitFold DEF SplitStart
  <1>3. CASE before = <<>>
    BY <1>1, <1>2, <1>3 DEF c, s, StripBom
  <1>4. CASE before # <<>>
    <2>1. PICK r \in Seq(A), a \in A : before = Append(r, a)
      BY <1>4, SequenceEmptyOrAppend
    <2>2. Last(before) = a
      BY <2>1 DEF Last
    <2>3. before = r \o <<a>> /\ <<a>> \in Seq(A) /\ Head(<<a>>) = a /\ Tail(<<a>>) = <<>>
          /\ StripBom(r) \in Seq(A)
      BY <2>1, StripTyped
    <2>4. CASE r = <<>> /\ a = "bom"
      <3>1. StripBom(before) = <<>>
        BY <2>3, <2>4, StripArrived, ConcatEmptySeq DEF StripBom
      <3> QED BY <1>1, <1>2, <1>4, <2>2, <2>4, <3>1 DEF c, s
    <2>5. CASE ~(r = <<>> /\ a = "bom")
      <3>1. StripBom(before) = StripBom(r) \o <<a>>
        BY <2>3, <2>5, StripArrived DEF StripBom
      <3>2. StripBom(before) = Append(StripBom(r), a)
        BY <2>3, <3>1
      <3>3. s = SplitStep(Split(StripBom(r)), a)
        BY <2>3, <3>2, SplitFold DEF s
      <3>4. s.afterCr => a = "cr"
        BY <3>3 DEF SplitStep
      <3>5. a \in Terminators => s.current = <<>>
        BY <3>3 DEF SplitStep, Terminators
      <3>6. before # <<"bom">>
        <4>1. Len(before) = Len(r) + 1 /\ Len(r) \in Nat /\ (Len(r) = 0 => r = <<>>)
          BY <2>1, AppendProperties, LenProperties, EmptySeq
        <4>2. r = <<>> => before[1] = a
          BY <2>1
        <4>3. before = <<"bom">> => Len(before) = 1 /\ before[1] = "bom"
          OBVIOUS
        <4> QED BY <2>5, <4>1, <4>2, <4>3
      <3> QED BY <1>1, <1>4, <2>2, <3>4, <3>5, <3>6 DEF c
    <2> QED BY <2>4, <2>5
  <1> QED BY <1>3, <1>4

LEMMA EndOfLineTyped ==
    ASSUME NEW A, "lf" \in A, NEW c \in Clients(A), NEW is \in BOOLEAN
    PROVE  [EndOfLine(c) EXCEPT !.line = <<>>, !.afterCr = is] \in Clients(A)
  <1>1. EndOfLine(c) \in Clients(A) /\ <<>> \in Lines(A)
    BY EndOfLineKeeps, EmptySeq DEF Lines
  <1> QED BY <1>1 DEF Clients

\* A whole terminator ends the line and leaves the client at the next.
LEMMA EndingReceived ==
    ASSUME NEW A, "lf" \in A, "cr" \in A, NEW c \in Clients(A), NEW ending \in Endings,
           c.afterCr => Head(ending) # "lf"
    PROVE  ReceiveAll(c, ending) = [EndOfLine(c) EXCEPT !.line = <<>>, !.afterCr = (ending = <<"cr">>)]
  <1> DEFINE d(is) == [EndOfLine(c) EXCEPT !.line = <<>>, !.afterCr = is]
  <1>1. /\ ReceiveAll(c, <<"lf">>) = ClientReceives(c, "lf")
        /\ ReceiveAll(c, <<"cr">>) = ClientReceives(c, "cr")
        /\ ReceiveAll(c, <<"cr", "lf">>) = ClientReceives(ClientReceives(c, "cr"), "lf")
    BY ReceiveSymbols
  <1>2. ClientReceives(c, "cr") = d(TRUE)
    BY DEF ClientReceives
  <1>3. CASE ending = <<"lf">>
    <2>1. Head(ending) = "lf" /\ ending # <<"cr">>
      BY <1>3
    <2> QED BY <1>1, <1>3, <2>1 DEF ClientReceives
  <1>4. CASE ending = <<"cr">>
    BY <1>1, <1>2, <1>4
  <1>5. CASE ending = <<"cr", "lf">>
    <2>1. ending # <<"cr">>
      BY <1>5
    <2>2. d(TRUE) \in Clients(A) /\ d(TRUE).afterCr /\ [d(TRUE) EXCEPT !.afterCr = FALSE] = d(FALSE)
      BY EndOfLineTyped DEF Clients
    <2>3. ClientReceives(d(TRUE), "lf") = [d(TRUE) EXCEPT !.afterCr = FALSE]
      BY <2>2 DEF ClientReceives
    <2> QED BY <1>1, <1>2, <1>5, <2>1, <2>2, <2>3
  <1> QED BY <1>3, <1>4, <1>5 DEF Endings

\* A line of another field, terminated, leaves the client where it was, but for
\* a "cr" that is no longer the last symbol.
LEMMA OtherLineReceived ==
    ASSUME NEW A, "lf" \in A, NEW c \in Clients(A), c.line = <<>>,
           NEW line \in Lines(A), line # <<>>, ~IsDataLine(line)
    PROVE  ReceiveAll(c, line \o <<"lf">>) = [c EXCEPT !.afterCr = FALSE]
  <1> DEFINE B == A \ Terminators
             T == {l \in Seq(B) : l # <<>> => ReceiveAll(c, l) = [c EXCEPT !.line = l, !.afterCr = FALSE]}
  <1>0. Seq(B) \subseteq Seq(A) /\ B \subseteq A
    BY SeqMonotonic
  <1>1. <<>> \in T
    BY EmptySeq
  <1>2. ASSUME NEW l \in Seq(B), l \in T, NEW a \in B PROVE Append(l, a) \in T
    <2>1. /\ ReceiveAll(c, Append(l, a)) = ClientReceives(ReceiveAll(c, l), a)
          /\ Append(l, a) \in Seq(B) /\ ReceiveAll(c, <<>>) = c
      BY <1>0, ReceiveFold, AppendProperties
    <2>2. a \notin {"cr", "lf"}
      BY DEF Terminators
    <2>3. CASE l = <<>>
      BY <2>1, <2>2, <2>3 DEF ClientReceives, Clients
    <2>4. CASE l # <<>>
      BY <1>2, <2>1, <2>2, <2>4 DEF ClientReceives, Clients
    <2> QED BY <2>3, <2>4
  <1> HIDE DEF T
  <1>3. line \in T
    BY <1>1, <1>2, SequenceInduction DEF Lines
  <1>4. ReceiveAll(c, line) = [c EXCEPT !.line = line, !.afterCr = FALSE]
    BY <1>3 DEF T
  <1>5. line \in Seq(A) /\ line \o <<"lf">> = Append(line, "lf")
    BY <1>0 DEF Lines
  <1>6. ReceiveAll(c, Append(line, "lf")) = ClientReceives([c EXCEPT !.line = line, !.afterCr = FALSE], "lf")
    BY <1>4, <1>5, ReceiveFold
  <1>7. ClientReceives([c EXCEPT !.line = line, !.afterCr = FALSE], "lf") = [c EXCEPT !.afterCr = FALSE]
    BY DEF ClientReceives, EndOfLine, Clients
  <1> QED BY <1>5, <1>6, <1>7

\* Any whole terminator does.
LEMMA OtherEnding ==
    ASSUME NEW A, "lf" \in A, "cr" \in A, NEW before \in Seq(A), NEW after \in Seq(A),
           NEW e, EndsOneLine(before, e, after), NEW f, EndsOneLine(before, f, after)
    PROVE  GoMessages(before \o e \o after) = GoMessages(before \o f \o after)
  <1> DEFINE c == ClientOf(before)
             d == [EndOfLine(c) EXCEPT !.line = <<>>, !.afterCr = FALSE]
  <1>1. c \in Clients(A) /\ (c.afterCr => before # <<>> /\ Last(before) = "cr")
    BY ClientOfIs, ClientAtEnd
  <1> HIDE DEF c
  <1>2. ASSUME NEW ending, EndsOneLine(before, ending, after)
        PROVE  /\ GoMessages(before \o ending \o after) =
                    ReceiveAll([d EXCEPT !.afterCr = (ending = <<"cr">>)], after).messages
               /\ ending = <<"cr">> => after = <<>> \/ Head(after) # "lf"
    <2>1. ending \in Endings /\ ~Meet(before, ending) /\ ~Meet(ending, after)
      BY <1>2 DEF EndsOneLine
    <2>2. ending \in Seq(A) /\ ending # <<>> /\ Head(ending) \in {"cr", "lf"}
          /\ (ending = <<"cr">> => Last(ending) = "cr")
      <3>1. CASE ending = <<"lf">>
        <4>1. ending # <<"cr">>
          BY <3>1
        <4> QED BY <3>1, <4>1
      <3>2. CASE ending = <<"cr">>
        BY <3>2 DEF Last
      <3>3. CASE ending = <<"cr", "lf">>
        <4>1. ending # <<"cr">>
          BY <3>3
        <4> QED BY <3>3, <4>1
      <3> QED BY <2>1, <3>1, <3>2, <3>3 DEF Endings
    <2>3. ending \o after \in Seq(A) /\ Head(ending \o after) # "bom"
          /\ before \o ending \o after = before \o (ending \o after)
      <3>1. ending \o after \in Seq(A) /\ Head(ending \o after) = Head(ending)
        BY <2>2
      <3> QED BY <2>2, <3>1, ConcatAssociative
    <2>4. ClientOf(before \o (ending \o after)) = ReceiveAll(c, ending \o after)
      BY <2>3, ClientOfMore DEF c
    <2>5. ReceiveAll(c, ending \o after) = ReceiveAll(ReceiveAll(c, ending), after)
      BY <1>1, <2>2, ReceiveMore
    <2>6. c.afterCr => Head(ending) # "lf"
      BY <1>1, <2>1, <2>2 DEF Meet
    <2>7. ReceiveAll(c, ending) = [EndOfLine(c) EXCEPT !.line = <<>>, !.afterCr = (ending = <<"cr">>)]
      BY <1>1, <2>1, <2>6, EndingReceived
    <2>8. [EndOfLine(c) EXCEPT !.line = <<>>, !.afterCr = (ending = <<"cr">>)] =
            [d EXCEPT !.afterCr = (ending = <<"cr">>)]
      OBVIOUS
    <2>9. before \o (ending \o after) \in Seq(A)
      BY <2>3, ConcatProperties
    <2>10. GoMessages(before \o ending \o after) = ClientOf(before \o (ending \o after)).messages
      BY <2>3, <2>9, ClientOfIs
    <2>11. ending = <<"cr">> => after = <<>> \/ Head(after) # "lf"
      BY <2>1, <2>2 DEF Meet
    <2> HIDE DEF d
    <2> QED BY <2>4, <2>5, <2>7, <2>8, <2>10, <2>11
  <1>3. d \in Clients(A) /\ d.afterCr = FALSE /\ d = [d EXCEPT !.afterCr = FALSE]
    BY <1>1, EndOfLineTyped DEF Clients
  <1> HIDE DEF d
  <1>4. CASE (e = <<"cr">>) = (f = <<"cr">>)
    BY <1>2, <1>4
  <1>5. CASE (e = <<"cr">>) # (f = <<"cr">>)
    <2>1. after = <<>> \/ Head(after) # "lf"
      BY <1>2, <1>5
    <2>2. \A b \in BOOLEAN : ReceiveAll([d EXCEPT !.afterCr = b], after).messages = ReceiveAll(d, after).messages
      BY <1>3, <2>1, TailAlike
    <2> QED BY <1>2, <2>2
  <1> QED BY <1>4, <1>5

\* So does a line of another field where a line begins.
LEMMA OtherLineAdded ==
    ASSUME NEW A, "lf" \in A, NEW before \in Seq(A), NEW after \in Seq(A), BeginsLine(before, after),
           NEW line \in Lines(A), line # <<>>, ~IsDataLine(line), Head(line) # "bom"
    PROVE  GoMessages(before \o (line \o <<"lf">>) \o after) = GoMessages(before \o after)
  <1> DEFINE c == ClientOf(before)
             added == line \o <<"lf">>
  <1>1. c \in Clients(A) /\ c.line = <<>> /\ (c.afterCr => before # <<>> /\ Last(before) = "cr")
    BY ClientOfIs, ClientAtEnd DEF BeginsLine, Terminators
  <1>2. line \in Seq(A) /\ added \in Seq(A) /\ added # <<>> /\ Head(added) = Head(line)
    <2>1. line \in Seq(A)
      BY SeqMonotonic DEF Lines
    <2> QED BY <2>1
  <1>3. ReceiveAll(c, added) = [c EXCEPT !.afterCr = FALSE]
    BY <1>1, OtherLineReceived
  <1> HIDE DEF c, added
  <1>4. before = <<>> => after = <<>> \/ Head(after) # "bom"
    BY BomInFront DEF BeginsLine
  <1>5. c.afterCr => after = <<>> \/ Head(after) # "lf"
    BY <1>1 DEF BeginsLine, Meet
  <1>6. GoMessages(before \o after) = ReceiveAll(c, after).messages
    <2>1. before \o after \in Seq(A)
      BY ConcatProperties
    <2>2. ClientOf(before \o after) = ReceiveAll(c, after)
      BY <1>4, ClientOfMore DEF c
    <2> QED BY <2>1, <2>2, ClientOfIs
  <1>7. GoMessages(before \o added \o after) = ReceiveAll([c EXCEPT !.afterCr = FALSE], after).messages
    <2>1. added \o after \in Seq(A) /\ Head(added \o after) = Head(line)
          /\ before \o added \o after = before \o (added \o after)
          /\ before \o (added \o after) \in Seq(A)
      <3>1. added \o after \in Seq(A) /\ Head(added \o after) = Head(added)
        BY <1>2
      <3>2. before \o (added \o after) \in Seq(A)
        BY <3>1, ConcatProperties
      <3>3. before \o added \o after = before \o (added \o after)
        BY <1>2, ConcatAssociative
      <3> QED BY <1>2, <3>1, <3>2, <3>3
    <2>2. ClientOf(before \o (added \o after)) = ReceiveAll(c, added \o after)
      BY <2>1, ClientOfMore DEF c
    <2>3. ReceiveAll(c, added \o after) = ReceiveAll(ReceiveAll(c, added), after)
      BY <1>1, <1>2, ReceiveMore
    <2>4. GoMessages(before \o added \o after) = ClientOf(before \o (added \o after)).messages
      BY <2>1, ClientOfIs
    <2> QED BY <1>3, <2>2, <2>3, <2>4
  <1>8. ReceiveAll([c EXCEPT !.afterCr = FALSE], after).messages = ReceiveAll(c, after).messages
    <2>1. CASE c.afterCr
      <3>1. after = <<>> \/ Head(after) # "lf"
        BY <1>5, <2>1
      <3>2. FALSE \in BOOLEAN
        OBVIOUS
      <3> QED BY <1>1, <3>1, <3>2, TailAlike
    <2>2. CASE ~c.afterCr
      <3>1. c = [c EXCEPT !.afterCr = FALSE]
        BY <1>1, <2>2 DEF Clients
      <3> QED BY <3>1
    <2> QED BY <2>1, <2>2
  <1> QED BY <1>6, <1>7, <1>8 DEF added

\* The kind of terminators, comments and unknown fields are no part of what is
\* committed to, whatever arrives, invalid bytes included.
THEOREM FramingIsNoPart == Spec => []ReframingInvariant
  <1>1. "lf" \in Symbols /\ "cr" \in Symbols /\ "replacement" \in Symbols
    BY DEF Symbols
  <1>2. ASSUME NEW raw \in Seq(Symbols), NEW other \in Seq(Symbols), GoMessages(other) = GoMessages(raw)
        PROVE  Messages(other) = Messages(raw)
    BY <1>1, <1>2, MessagesAsText DEF Messages
  <1>3. ASSUME NEW line \in OtherLines
        PROVE  line \in Lines(Symbols) /\ line # <<>> /\ ~IsDataLine(line) /\ Head(line) # "bom"
    BY SseAssumption DEF Lines, Terminators
  <1>4. IInv(Symbols) => ReframingInvariant
    <2> SUFFICES ASSUME IInv(Symbols), NEW i \in 0 .. Len(wire), NEW n \in 0 .. 2, i + n <= Len(wire)
                 PROVE  LET before == SubSeq(wire, 1, i)
                            part   == SubSeq(wire, i + 1, i + n)
                            after  == SubSeq(wire, i + n + 1, Len(wire))
                        IN  /\ EndsOneLine(before, part, after) =>
                                 \A ending \in Endings \ {part} : EndsOneLine(before, ending, after) =>
                                     Messages(before \o ending \o after) = Messages(wire)
                            /\ part = <<>> /\ BeginsLine(before, after) =>
                                 \A line \in OtherLines :
                                     Messages(before \o (line \o <<"lf">>) \o after) = Messages(wire)
      BY DEF ReframingInvariant
    <2> DEFINE before == SubSeq(wire, 1, i)
               part   == SubSeq(wire, i + 1, i + n)
               after  == SubSeq(wire, i + n + 1, Len(wire))
    <2>1. wire \in Seq(Symbols) /\ Len(wire) \in Nat
      BY LenProperties DEF IInv
    <2>2. /\ before \in Seq(Symbols) /\ part \in Seq(Symbols) /\ after \in Seq(Symbols)
          /\ before \o part \o after = wire
      <3>1. /\ 1 \in 1 .. Len(wire) + 1 /\ i \in 1 - 1 .. Len(wire) /\ i + n \in i .. Len(wire)
            /\ i + n \in 1 - 1 .. Len(wire) /\ Len(wire) \in i + n .. Len(wire)
        BY <2>1
      <3>2. SubSeq(wire, 1, i) \o SubSeq(wire, i + 1, i + n) = SubSeq(wire, 1, i + n)
        BY <2>1, <3>1, ConcatAdjacentSubSeq
      <3>3. SubSeq(wire, 1, i + n) \o SubSeq(wire, i + n + 1, Len(wire)) = SubSeq(wire, 1, Len(wire))
        BY <2>1, <3>1, ConcatAdjacentSubSeq
      <3>4. SubSeq(wire, 1, Len(wire)) = wire
        BY <2>1, SubSeqFull
      <3>5. ASSUME NEW from \in 1 .. Len(wire) + 1, NEW to \in 0 .. Len(wire)
            PROVE  SubSeq(wire, from, to) \in Seq(Symbols)
        <4>1. from \in Int /\ to \in Int /\ \A j \in from .. to : wire[j] \in Symbols
          BY <2>1, LenProperties
        <4> QED BY <4>1, SubSeqProperties
      <3>6. /\ i \in 0 .. Len(wire) /\ i + 1 \in 1 .. Len(wire) + 1 /\ i + n \in 0 .. Len(wire)
            /\ i + n + 1 \in 1 .. Len(wire) + 1 /\ Len(wire) \in 0 .. Len(wire) /\ 1 \in 1 .. Len(wire) + 1
        BY <2>1
      <3>7. before \in Seq(Symbols) /\ part \in Seq(Symbols) /\ after \in Seq(Symbols)
        BY <3>5, <3>6
      <3> QED BY <3>2, <3>3, <3>4, <3>7
    <2> HIDE DEF before, part, after
    <2>3. ASSUME EndsOneLine(before, part, after), NEW ending, EndsOneLine(before, ending, after)
          PROVE  Messages(before \o ending \o after) = Messages(wire)
      <3>1. GoMessages(before \o ending \o after) = GoMessages(wire)
        BY <1>1, <2>2, <2>3, OtherEnding
      <3>2. ending \in Seq(Symbols)
        <4>1. <<"lf">> \in Seq(Symbols) /\ <<"cr">> \in Seq(Symbols) /\ <<"cr", "lf">> \in Seq(Symbols)
          BY <1>1
        <4> QED BY <2>3, <4>1 DEF EndsOneLine, Endings
      <3>3. before \o ending \o after \in Seq(Symbols)
        BY <2>2, <3>2, ConcatProperties
      <3> QED BY <1>2, <2>1, <3>1, <3>3
    <2>4. ASSUME part = <<>>, BeginsLine(before, after), NEW line \in OtherLines
          PROVE  Messages(before \o (line \o <<"lf">>) \o after) = Messages(wire)
      <3>1. before \o after = wire
        BY <2>2, <2>4, ConcatEmptySeq
      <3>2. GoMessages(before \o (line \o <<"lf">>) \o after) = GoMessages(wire)
        <4>1. line \in Lines(Symbols) /\ line # <<>> /\ ~IsDataLine(line) /\ Head(line) # "bom"
          BY <1>3
        <4>2. GoMessages(before \o (line \o <<"lf">>) \o after) = GoMessages(before \o after)
          BY <1>1, <2>2, <2>4, <4>1, OtherLineAdded
        <4> QED BY <3>1, <4>2
      <3>3. line \in Seq(Symbols) /\ <<"lf">> \in Seq(Symbols)
        <4>1. line \in Seq(Symbols)
          BY <1>3, SeqMonotonic DEF Lines
        <4> QED BY <1>1, <4>1
      <3>4. before \o (line \o <<"lf">>) \o after \in Seq(Symbols)
        <4>1. line \o <<"lf">> \in Seq(Symbols)
          BY <3>3, ConcatProperties
        <4>2. before \o (line \o <<"lf">>) \in Seq(Symbols)
          BY <2>2, <4>1, ConcatProperties
        <4> QED BY <2>2, <4>2, ConcatProperties
      <3> QED BY <1>2, <2>1, <3>2, <3>4
    <2> QED BY <2>3, <2>4 DEF before, part, after
  <1> QED BY <1>4, Invariance, PTL

(***************************************************************************)
(* Read back from its commitment.                                          *)
(***************************************************************************)

\* A reply holds one of the results that can arrive.
LEMMA ReplyResult ==
    ASSUME NEW A, NEW message \in Seq(A), IsReply(message)
    PROVE  Last(Tokens(message)) \in A \cap Results /\ Last(Tokens(message)) = Tokens(message)[2]
  <1>1. Tokens(message) \in Seq(A) /\ Len(Tokens(message)) = 2
    BY TokensFold DEF IsReply
  <1>2. Last(Tokens(message)) = Tokens(message)[2] /\ Tokens(message)[2] \in A
    BY <1>1, ElementOfSeq DEF Last
  <1> QED BY <1>2 DEF IsReply

Live(messages) == Fold(AddLive, <<>>, messages)

LEMMA LiveFold ==
    ASSUME NEW A
    PROVE  /\ Live(<<>>) = <<>>
           /\ \A messages \in Seq(Seq(A)) : Live(messages) \in Seq(A \cap Results)
           /\ \A messages \in Seq(Seq(A)), e \in Seq(A) : Live(Append(messages, e)) = AddLive(Live(messages), e)
  <1> DEFINE S == Seq(A \cap Results)
             E == Seq(A)
             step == [p \in S \X E |-> AddLive(p[1], p[2])]
             fold == [messages \in Seq(E) |-> Live(messages)]
  <1>1. <<>> \in S
    BY EmptySeq
  <1>2. ASSUME NEW x \in S, NEW e \in E PROVE AddLive(x, e) \in S
    BY ReplyResult, AppendProperties DEF AddLive
  <1>3. step \in [S \X E -> S] /\ \A x \in S, e \in E : step[<<x, e>>] = AddLive(x, e)
    BY <1>2
  <1>4. ASSUME NEW messages \in Seq(E), NEW runs, TypedRuns(runs, S, E, step, <<>>, messages)
        PROVE  \E after : Runs(after, S, step, <<>>, messages) /\ fold[messages] = after[Len(messages)]
    <2> DEFINE Is(after) == after = [i \in 0 .. Len(messages) |->
                              IF i = 0 THEN <<>> ELSE AddLive(after[i - 1], messages[i])]
               after == CHOOSE f : Is(f)
    <2> HIDE DEF S, E, step
    <2>1. \A i \in 0 .. Len(messages) : runs[i] =
             IF i = 0 THEN <<>> ELSE AddLive(runs[i - 1], messages[i])
      BY <1>3, <1>4 DEF Runs, TypedRuns
    <2>2. Is(after)
      BY <1>4, <2>1 DEF TypedRuns
    <2>3. fold[messages] = after[Len(messages)]
      BY DEF Live, Fold
    <2> HIDE DEF after, fold
    <2>4. 0 \in 0 .. Len(messages) /\ \A i \in 1 .. Len(messages) : i \in 0 .. Len(messages) /\ i # 0 /\ messages[i] \in E
      BY <1>4, LenProperties DEF TypedRuns
    <2>5. Runs(after, S, step, <<>>, messages)
      BY <1>3, <2>2, <2>4 DEF Runs
    <2> QED BY <2>3, <2>5
  <1> HIDE DEF S, E, step
  <1>5. IsFold(fold, S, E, step, <<>>)
    <2> HIDE DEF fold
    <2> QED BY <1>1, <1>3, <1>4, FoldEquations DEF LastOfRuns
  <1>6. <<>> \in Seq(E) /\ \A messages \in Seq(E), e \in E : Append(messages, e) \in Seq(E)
    BY EmptySeq, AppendProperties
  <1>7. /\ Live(<<>>) = <<>>
        /\ \A messages \in Seq(E) : Live(messages) \in S
        /\ \A messages \in Seq(E), e \in E : Live(Append(messages, e)) = AddLive(Live(messages), e)
    BY <1>3, <1>5, <1>6 DEF IsFold
  <1> QED BY <1>7 DEF S, E

\* A line of its own for every result.
Alone(results) == [i \in DOMAIN results |-> <<results[i]>>]

\* One more result is one more line.
LEMMA AloneAppended ==
    ASSUME NEW R, NEW results \in Seq(R), NEW result \in R
    PROVE  /\ Alone(results) \in Seq(Seq(R)) /\ (Alone(results) = <<>> <=> results = <<>>)
           /\ Alone(Append(results, result)) = Append(Alone(results), <<result>>)
  <1>1. ASSUME NEW rs \in Seq(R)
        PROVE  /\ Alone(rs) \in Seq(Seq(R)) /\ Len(Alone(rs)) = Len(rs)
               /\ \A i \in 1 .. Len(rs) : Alone(rs)[i] = <<rs[i]>>
    <2>1. /\ Len(rs) \in Nat /\ DOMAIN rs = 1 .. Len(rs)
          /\ \A i \in 1 .. Len(rs) : rs[i] \in R /\ <<rs[i]>> \in Seq(R)
      BY LenProperties
    <2>2. Alone(rs) \in [1 .. Len(rs) -> Seq(R)]
      BY <2>1 DEF Alone
    <2> QED BY <2>1, <2>2, FunctionIsSequence DEF Alone
  <1> DEFINE more == Append(results, result)
             lines == Append(Alone(results), <<result>>)
  <1>2. /\ more \in Seq(R) /\ Len(more) = Len(results) + 1 /\ Len(results) \in Nat
        /\ \A i \in 1 .. Len(results) : more[i] = results[i]
        /\ more[Len(results) + 1] = result
    BY AppendProperties, LenProperties
  <1>3. /\ lines \in Seq(Seq(R)) /\ Len(lines) = Len(results) + 1
        /\ \A i \in 1 .. Len(results) : lines[i] = Alone(results)[i]
        /\ lines[Len(results) + 1] = <<result>>
    <2>1. Alone(results) \in Seq(Seq(R)) /\ <<result>> \in Seq(R) /\ Len(Alone(results)) = Len(results)
      BY <1>1
    <2> QED BY <2>1, AppendProperties
  <1> HIDE DEF more, lines
  <1>4. ASSUME NEW i \in 1 .. Len(results) + 1 PROVE Alone(more)[i] = lines[i]
    <2>1. CASE i \in 1 .. Len(results)
      BY <1>1, <1>2, <1>3, <2>1
    <2>2. CASE i = Len(results) + 1
      BY <1>1, <1>2, <1>3, <2>2
    <2> QED BY <1>2, <2>1, <2>2
  <1>5. Alone(more) = lines
    BY <1>1, <1>2, <1>3, <1>4, SeqEqual
  <1>6. Alone(results) = <<>> <=> results = <<>>
    BY <1>1, EmptySeq
  <1> QED BY <1>1, <1>5, <1>6 DEF more, lines

\* The results that are committed to are those of the replies, one to a line.
LEMMA ResultsAreLive ==
    ASSUME NEW A, NEW messages \in Seq(Seq(A))
    PROVE  ResultsOf(messages) = Alone(Live(messages))
  <1> DEFINE T == {ms \in Seq(Seq(A)) : ResultsOf(ms) = Alone(Live(ms))}
  <1>1. <<>> \in T
    <2>1. Alone(<<>>) = <<>>
      BY EmptySeq, AloneAppended
    <2> QED BY <2>1, EmptySeq, ResultsFold, LiveFold
  <1>2. ASSUME NEW ms \in Seq(Seq(A)), ms \in T, NEW message \in Seq(A)
        PROVE  Append(ms, message) \in T
    <2>1. /\ ResultsOf(Append(ms, message)) = AddResult(ResultsOf(ms), message)
          /\ Live(Append(ms, message)) = AddLive(Live(ms), message)
          /\ Live(ms) \in Seq(A \cap Results) /\ Append(ms, message) \in Seq(Seq(A))
      BY ResultsFold, LiveFold, AppendProperties
    <2>2. CASE IsReply(message)
      <3> DEFINE result == Last(Tokens(message))
      <3>1. result \in A \cap Results /\ result = Tokens(message)[2]
        BY <2>2, ReplyResult
      <3>2. AddLive(Live(ms), message) = Append(Live(ms), result)
        BY <2>2 DEF AddLive
      <3>3. AddResult(ResultsOf(ms), message) = Append(ResultsOf(ms), <<result>>)
        BY <2>2, <3>1 DEF AddResult
      <3> HIDE DEF result
      <3>4. Alone(Append(Live(ms), result)) = Append(Alone(Live(ms)), <<result>>)
        BY <2>1, <3>1, AloneAppended
      <3> QED BY <1>2, <2>1, <3>2, <3>3, <3>4
    <2>3. CASE ~IsReply(message)
      BY <1>2, <2>1, <2>3 DEF AddLive, AddResult
    <2> QED BY <2>2, <2>3
  <1> HIDE DEF T
  <1>3. messages \in T
    BY <1>1, <1>2, SequenceInduction
  <1> QED BY <1>3 DEF T

\* Joined lines that end with a newline read back as the same lines.
LEMMA JoinedReadsBack ==
    ASSUME NEW A, "lf" \in A, NEW lines \in Seq(Lines(A))
    PROVE  Split(JoinLines(lines) \o <<"lf">>).lines = IF lines = <<>> THEN << <<>> >> ELSE lines
  <1>1. lines \in Seq(Seq(A))
    BY SeqMonotonic DEF Lines
  <1>2. CASE lines # <<>>
    <2>1. Framed(lines) = JoinLines(lines) \o <<"lf">>
      BY <1>1, <1>2, JoinedIsFramed
    <2>2. Split(Framed(lines)).lines = lines
      BY SplitOfFramed
    <2> QED BY <1>2, <2>1, <2>2
  <1>3. CASE lines = <<>>
    <2>1. JoinLines(<<>>) = <<>>
      BY JoinFold
    <2>2. <<>> \o <<"lf">> = Append(<<>>, "lf") /\ <<>> \in Seq(A)
      OBVIOUS
    <2>3. Split(Append(<<>>, "lf")) = SplitStep(SplitStart, "lf")
      BY <2>2, SplitFold
    <2>4. SplitStep(SplitStart, "lf").lines = Append(<<>>, <<>>)
      BY DEF SplitStep, SplitStart
    <2>5. Append(<<>>, <<>>) = << <<>> >>
      OBVIOUS
    <2> QED BY <1>3, <2>1, <2>2, <2>3, <2>4, <2>5
  <1> QED BY <1>2, <1>3

\* A JSON-RPC commitment is, line by line, the results that a live client was
\* handed, for streams of text and numbers within a double.
THEOREM CommitmentReadsBack ==
    ASSUME ChunksOver(Symbols \ {"badByte", "resultHuge"})
    PROVE  Spec => []ResultsReadBack
  <1> DEFINE A == Symbols \ {"badByte", "resultHuge"}
  <1>1. "lf" \in A /\ "badByte" \notin A /\ "resultHuge" \notin A /\ ChunksOver(A)
    BY DEF Symbols, Results
  <1>0. A \cap Results \cap Terminators = {}
    BY DEF Results, Terminators
  <1> HIDE DEF A
  <1>2. IInv(A) => ResultsReadBack
    <2> SUFFICES ASSUME IInv(A), mode = "sse-jsonrpc"
                 PROVE  Split(TsOutputsHash(wire, mode).committed \o <<"lf">>).lines =
                          IF LiveResults = <<>> THEN << <<>> >>
                          ELSE [i \in DOMAIN LiveResults |-> <<LiveResults[i]>>]
      BY DEF ResultsReadBack
    <2> DEFINE ms == client.messages
               lines == Alone(LiveResults)
    <2>1. ms = TsMessages(wire) /\ ms \in Seq(Seq(A))
      BY <1>1, ClientHasMessages, MessagesAgreement DEF IInv
    <2>2. TsOutputsHash(wire, mode).committed = JoinLines(ResultsOf(ms))
      BY <1>1, <2>1, JsonRpcCommitted DEF TsOutputsHash
    <2>3. ResultsOf(ms) = lines
      BY <2>1, ResultsAreLive DEF LiveResults, Live
    <2>4. ResultsOf(ms) \in Seq(Lines(A))
      <3>1. ResultLines(A) \subseteq Lines(A)
        <4> DEFINE B == A \ Terminators
        <4>1. \A result \in A \cap Results : result \in B
          BY <1>0
        <4> HIDE DEF B
        <4>2. \A result \in B : <<result>> \in Seq(B)
          OBVIOUS
        <4> QED BY <4>1, <4>2 DEF ResultLines, Lines, B
      <3>2. ResultsOf(ms) \in Seq(ResultLines(A))
        BY <2>1, ResultsFold
      <3> QED BY <3>1, <3>2, SeqMonotonic
    <2>5. lines = <<>> <=> LiveResults = <<>>
      <3>1. LiveResults \in Seq(A \cap Results)
        BY <2>1, LiveFold DEF LiveResults, Live
      <3>2. Len(LiveResults) \in Nat /\ DOMAIN LiveResults = 1 .. Len(LiveResults)
        BY <3>1, LenProperties
      <3>3. DOMAIN lines = DOMAIN LiveResults
        BY DEF Alone
      <3> QED BY <3>1, <3>2, <3>3, EmptySeq
    <2>6. lines = [i \in DOMAIN LiveResults |-> <<LiveResults[i]>>]
      BY DEF Alone
    <2> HIDE DEF lines, ms
    <2>7. Split(JoinLines(lines) \o <<"lf">>).lines = IF lines = <<>> THEN << <<>> >> ELSE lines
      BY <1>1, <2>3, <2>4, JoinedReadsBack
    <2> QED BY <2>2, <2>3, <2>5, <2>6, <2>7
  <1>3. Init => IInv(A)
    BY <1>1, InitInvariant
  <1>4. IInv(A) /\ [Next]_vars => IInv(A)'
    BY <1>1, StepInvariant
  <1> QED BY <1>2, <1>3, <1>4, PTL DEF Spec
==============================================================================

------------------------------ MODULE SseDecode ------------------------------
(***************************************************************************)
(* Decoding of a streamed tool output and what of it is committed to:      *)
(* SSEDecode and SSEOutputsHash of src/go/veritrail.go, parseSse and       *)
(* sseOutputsHash of src/ts/src/commands/sse-outputs-hash.ts.              *)
(*                                                                         *)
(* A stream is a sequence of symbols: the line terminators "cr" and "lf",  *)
(* the word "data", "colon", "space", a letter "x", the byte order mark    *)
(* "bom", and "badByte", a byte that is not UTF-8.  A JSON-RPC reply is    *)
(* the symbol "head" and then its result, one of Results; "notice" is a    *)
(* whole message without a result.                                         *)
(***************************************************************************)
EXTENDS JsonValues, Naturals, Sequences, SequencesExt

\* "resultHuge" holds a number beyond every double; no result here has a lone
\* surrogate, which Go refuses too and TypeScript keeps.
Results == {"result1", "result2", "resultHuge"}

Modes == {"sse", "sse-jsonrpc"}

\* FoldLeft as one recursive function on the positions of a sequence.
Fold(Op(_, _), start, seq) ==
    LET after[i \in 0 .. Len(seq)] == IF i = 0 THEN start ELSE Op(after[i - 1], seq[i])
    IN  after[Len(seq)]

(***************************************************************************)
(* Both decoders.                                                          *)
(***************************************************************************)

\* A single byte order mark in front is no part of the first line.
StripBom(raw) == IF raw # <<>> /\ Head(raw) = "bom" THEN Tail(raw) ELSE raw

\* Variant: a "cr" and the "lf" right after it end two lines.
SplitStep_EveryTerminator(s, symbol) ==
    IF symbol \in {"cr", "lf"}
    THEN [lines |-> Append(s.lines, s.current), current |-> <<>>, afterCr |-> FALSE]
    ELSE [lines |-> s.lines, current |-> Append(s.current, symbol), afterCr |-> FALSE]

\* One symbol of splitLines: a "lf" right after a "cr" ends no second line.
SplitStep(s, symbol) ==
    IF symbol \in {"cr", "lf"}
    THEN [lines   |-> IF symbol = "lf" /\ s.afterCr THEN s.lines ELSE Append(s.lines, s.current),
          current |-> <<>>, afterCr |-> symbol = "cr"]
    ELSE [lines |-> s.lines, current |-> Append(s.current, symbol), afterCr |-> FALSE]

SplitStart == [lines |-> <<>>, current |-> <<>>, afterCr |-> FALSE]
Split(raw) == Fold(SplitStep, SplitStart, raw)

\* The name of the field is what precedes the first colon, or the whole line;
\* one space after the colon is not part of the value.
ColonAt(line) == SelectInSeq(line, LAMBDA symbol : symbol = "colon")
Field(line)   == IF ColonAt(line) = 0 THEN line ELSE SubSeq(line, 1, ColonAt(line) - 1)
Value(line)   ==
    IF ColonAt(line) = 0 THEN <<>>
    ELSE LET rest == SubSeq(line, ColonAt(line) + 1, Len(line))
         IN  IF rest # <<>> /\ Head(rest) = "space" THEN Tail(rest) ELSE rest

\* Variant: the parts are joined with the terminator of the wire.
JoinLines_CrLf(parts) ==
    IF parts = <<>> THEN <<>>
    ELSE Fold(LAMBDA joined, part : joined \o <<"crlf">> \o part, Head(parts), Tail(parts))

\* strings.Join and Array.join, with a newline between the parts.
JoinTwo(joined, part) == joined \o <<"lf">> \o part
JoinLines(parts) ==
    IF parts = <<>> THEN <<>> ELSE Fold(JoinTwo, Head(parts), Tail(parts))

\* One line: a blank line dispatches what data lines there were and starts the
\* next event; comments (an empty field name) and other fields are skipped.
ParseLine(s, line) ==
    IF line = <<>>
    THEN [data |-> <<>>,
          messages |-> IF s.data = <<>> THEN s.messages ELSE Append(s.messages, JoinLines(s.data))]
    ELSE IF Field(line) = <<"data">> THEN [s EXCEPT !.data = Append(@, Value(line))]
    ELSE s

ParseStart   == [data |-> <<>>, messages |-> <<>>]
\* Variant: what is pending when the input ends is dispatched.
Parse_Trailing(lines) ==
    LET s == Fold(ParseLine, ParseStart, lines)
    IN  IF s.data = <<>> THEN s.messages ELSE Append(s.messages, JoinLines(s.data))
Parse(lines) == Fold(ParseLine, ParseStart, lines).messages

(***************************************************************************)
(* Where they differ.                                                      *)
(***************************************************************************)

\* Go keeps the bytes and takes an unterminated last line for no line.
GoSplitLines(raw) == Split(StripBom(raw)).lines
GoMessages(raw)   == Parse(GoSplitLines(raw))

\* TypeScript decodes to text first, invalid bytes to the replacement
\* character, and takes an unterminated last line for a line.
TsText(raw) == [i \in DOMAIN raw |-> IF raw[i] = "badByte" THEN "replacement" ELSE raw[i]]
\* Variant: the text after the last terminator is a line even when empty.
TsSplitLines_EmptyLast(raw) ==
    LET s == Split(TsText(StripBom(raw))) IN Append(s.lines, s.current)
TsSplitLines(raw) ==
    LET s == Split(TsText(StripBom(raw)))
    IN  IF s.current = <<>> THEN s.lines ELSE Append(s.lines, s.current)
TsMessages(raw)  == Parse(TsSplitLines(raw))

(***************************************************************************)
(* Mode sse-jsonrpc: only the results are committed to, canonically.       *)
(***************************************************************************)
\* JSON text may have white space and line breaks between its tokens.
AddToken(tokens, symbol) == IF symbol \in {"space", "lf"} THEN tokens ELSE Append(tokens, symbol)
Tokens(message) == Fold(AddToken, <<>>, message)

\* A message that is a JSON object with a result.
IsReply(message) ==
    /\ Len(Tokens(message)) = 2
    /\ Tokens(message)[1] = "head" /\ Tokens(message)[2] \in Results

\* Variant: a message without a result leaves an empty line.
ResultsOf_KeepsPlace(messages) ==
    [i \in DOMAIN messages |-> IF IsReply(messages[i]) THEN <<Tokens(messages[i])[2]>> ELSE <<>>]

\* The results in the order of their messages; every other message is skipped.
AddResult(results, message) ==
    IF IsReply(message) THEN Append(results, <<Tokens(message)[2]>>) ELSE results
ResultsOf(messages) == Fold(AddResult, <<>>, messages)

\* The canonical form of a result: a number beyond every double has none in Go,
\* where all that precedes it is lost too, and is null in TypeScript.
GoJsonRpcCommitted(messages) ==
    IF <<"resultHuge">> \in ToSet(ResultsOf(messages)) THEN Fail("invalid_input")
    ELSE [committed |-> JoinLines(ResultsOf(messages))]
TsJsonRpcCommitted(messages) ==
    [committed |-> JoinLines([i \in DOMAIN ResultsOf(messages) |->
        IF ResultsOf(messages)[i] = <<"resultHuge">> THEN <<"null">> ELSE ResultsOf(messages)[i]])]

\* sse-outputs-hash: the hash of what is committed to is what is committed to.
GoOutputsHash(raw, mode) ==
    IF mode = "sse" THEN [committed |-> JoinLines(GoMessages(raw))]
    ELSE IF mode = "sse-jsonrpc" THEN GoJsonRpcCommitted(GoMessages(raw))
    ELSE Fail("invalid_input")
TsOutputsHash(raw, mode) ==
    IF mode = "sse" THEN [committed |-> JoinLines(TsMessages(raw))]
    ELSE IF mode = "sse-jsonrpc" THEN TsJsonRpcCommitted(TsMessages(raw))
    ELSE Fail("unsupported_mode")
==============================================================================

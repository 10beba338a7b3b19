------------------------------ MODULE SseStream ------------------------------
(***************************************************************************)
(* A streamed tool output on the wire.  Both decoders (SseDecode) read the *)
(* whole recording at once.  Here the stream grows chunk by chunk, next to *)
(* the parser that a live event-source client runs on it (external: the    *)
(* WHATWG algorithm the code cites); whatever has arrived may be recorded  *)
(* and hashed at any time.                                                 *)
(***************************************************************************)
EXTENDS SseDecode

CONSTANTS
    Chunks,     \* per mode, the sequences of symbols that may arrive
    MaxChunks,  \* bound: how many, per mode
    OtherLines  \* comments and lines of other fields an intermediary may add

Symbols == {"cr", "lf", "data", "colon", "space", "x", "bom", "badByte", "head", "notice",
            "replacement"} \cup Results

\* A live client takes a line for data by how it begins, and one space after the
\* colon for no part of the value.
IsDataLine(line) == line = <<"data">> \/ IsPrefix(<<"data", "colon">>, line)
DataOf(line) ==
    LET skipped == IF IsPrefix(<<"data", "colon", "space">>, line) THEN 3 ELSE 2
    IN  SubSeq(line, skipped + 1, Len(line))

ASSUME SseAssumption ==
    /\ DOMAIN Chunks = Modes /\ \A mode \in Modes : Chunks[mode] \subseteq Seq(Symbols)
    /\ MaxChunks \in [Modes -> Nat]
    /\ \A line \in OtherLines :
         /\ line \in Seq(Symbols \ {"cr", "lf"}) /\ line # <<>>
         /\ ~IsDataLine(line) /\ Head(line) # "bom"

VARIABLES
    mode,     \* the mode the recording is hashed in
    arrived,  \* bound: the number of chunks that have arrived
    wire,     \* the symbols that have arrived
    client    \* the live parser: [line, afterCr, buffer, messages]

vars == <<mode, arrived, wire, client>>

\* A live client keeps a data buffer, appends to it the value and a newline for
\* every data line, and at a blank line dispatches the buffer, unless it is
\* empty, without its last newline.
EndOfLine(c) ==
    IF c.line = <<>>
    THEN IF c.buffer = <<>> THEN c
         ELSE [c EXCEPT !.buffer = <<>>,
                        !.messages = Append(@, SubSeq(c.buffer, 1, Len(c.buffer) - 1))]
    ELSE IF IsDataLine(c.line) THEN [c EXCEPT !.buffer = @ \o DataOf(c.line) \o <<"lf">>]
    ELSE c

ClientReceives(c, symbol) ==
    IF symbol = "lf" /\ c.afterCr THEN [c EXCEPT !.afterCr = FALSE]
    ELSE IF symbol \in {"cr", "lf"}
    THEN [EndOfLine(c) EXCEPT !.line = <<>>, !.afterCr = (symbol = "cr")]
    ELSE [c EXCEPT !.line = Append(@, symbol), !.afterCr = FALSE]

\* A byte order mark is dropped where the stream begins.
Received(chunk) ==
    IF wire = <<>> /\ IsPrefix(<<"bom">>, chunk) THEN SubSeq(chunk, 2, Len(chunk)) ELSE chunk

Arrive(chunk) ==
    /\ arrived < MaxChunks[mode]
    /\ arrived' = arrived + 1
    /\ wire' = wire \o chunk
    /\ client' = Fold(ClientReceives, client, Received(chunk))
    /\ UNCHANGED mode

Init ==
    /\ mode \in Modes
    /\ arrived = 0 /\ wire = <<>>
    /\ client = [line |-> <<>>, afterCr |-> FALSE, buffer |-> <<>>, messages |-> <<>>]

Next == \E chunk \in Chunks[mode] : Arrive(chunk)

Spec == Init /\ [][Next]_vars

------------------------------------------------------------------------------
(***************************************************************************)
(* Properties.                                                             *)
(***************************************************************************)

\* Type correctness of the state and of what the decoders make of it.
TypeOK ==
    /\ mode \in Modes /\ arrived \in 0 .. MaxChunks[mode]
    /\ wire \in Seq(Symbols)
    /\ client.line \in Seq(Symbols) /\ client.buffer \in Seq(Symbols) /\ client.afterCr \in BOOLEAN
    /\ {client.messages, GoMessages(wire), TsMessages(wire)} \subseteq Seq(Seq(Symbols))

\* What either decoder makes of the recording is exactly what a live client was
\* handed, wherever the recording stops: in the middle of an event, of a line
\* or between a "cr" and its "lf".
RecordingMatchesLive ==
    GoMessages(wire) = client.messages /\ TsMessages(wire) = client.messages

\* The two tools commit to the same bytes, in either mode.
SseTwinsAgree == GoOutputsHash(wire, mode) = TsOutputsHash(wire, mode)

\* The results of the replies a live JSON-RPC client was handed, in their order.
AddLive(results, message) ==
    IF IsReply(message) THEN Append(results, Last(Tokens(message))) ELSE results
LiveResults == Fold(AddLive, <<>>, client.messages)

\* A JSON-RPC commitment reads back, line by line, as exactly the results that a
\* live client was handed: notifications, broken messages and the line breaks
\* inside a reply leave no trace, and no two lists of results share a commitment.
ResultsReadBack ==
    mode = "sse-jsonrpc" =>
        Split(TsOutputsHash(wire, mode).committed \o <<"lf">>).lines =
            IF LiveResults = <<>> THEN << <<>> >> ELSE [i \in DOMAIN LiveResults |-> <<LiveResults[i]>>]

\* src/docs/DESIGN.md:153: "an empty trailing message is dropped" from what is
\* committed to.  The code drops what no blank line ended, and no message that a
\* blank line did end.
EmptyTrailingMessageDropped ==
    mode = "sse" /\ client.messages # <<>> /\ Last(client.messages) = <<>> =>
        GoOutputsHash(wire, mode).committed = JoinLines(Front(client.messages))

\* A longer recording extends the messages of a shorter one: a message once
\* decoded is never changed, split or withdrawn by what arrives after it.
MessagesOnlyExtend ==
    [][IsPrefix(GoMessages(wire), GoMessages(wire')) /\ IsPrefix(TsMessages(wire), TsMessages(wire'))]_vars

\* The terminators of a line; a "cr" and a "lf" that meet are one.
Endings == {<<"lf">>, <<"cr">>, <<"cr", "lf">>}
Meet(left, right) ==
    left # <<>> /\ right # <<>> /\ Last(left) = "cr" /\ Head(right) = "lf"

\* Between what comes before and after it, the ending is one whole terminator.
EndsOneLine(before, ending, after) ==
    ending \in Endings /\ ~Meet(before, ending) /\ ~Meet(ending, after)

\* A line begins after a terminator and where the stream begins, which is after
\* the byte order mark if there is one.
BeginsLine(before, after) ==
    /\ before \in {<<>>, <<"bom">>} \/ Last(before) \in {"cr", "lf"}
    /\ ~Meet(before, after)
    /\ before = <<>> => ~IsPrefix(<<"bom">>, after)

Messages(raw) == <<GoMessages(raw), TsMessages(raw)>>

\* Re-framing a stream on the way does not change its messages, and so not what
\* is committed to: neither a terminator of another kind, anywhere, nor a
\* keep-alive comment or another field where a line begins, even inside an event.
ReframingInvariant ==
    LET messages == Messages(wire) IN
    \A i \in 0 .. Len(wire), n \in 0 .. 2 : i + n <= Len(wire) =>
        LET before == SubSeq(wire, 1, i)
            part   == SubSeq(wire, i + 1, i + n)
            after  == SubSeq(wire, i + n + 1, Len(wire))
        IN  /\ EndsOneLine(before, part, after) =>
                 \A ending \in Endings \ {part} : EndsOneLine(before, ending, after) =>
                     Messages(before \o ending \o after) = messages
            /\ part = <<>> /\ BeginsLine(before, after) =>
                 \A line \in OtherLines :
                     Messages(before \o (line \o <<"lf">>) \o after) = messages
==============================================================================

----------------------------- MODULE MCSseStream -----------------------------
(* Streams for TLC: symbol by symbol in mode sse, line by line in sse-jsonrpc. *)
EXTENDS SseStream

\* Every way a stream can be cut and terminated.
SingleSymbols == {<<symbol>> : symbol \in {"cr", "lf", "data", "colon", "space", "x", "bom"}}

\* Lines with a reply or with one half of it, a notification and broken JSON as
\* whole events, a comment, and blank lines.
Lines ==
    {<<"data", "colon", "head", "result1", "lf">>, <<"data", "colon", "space", "head", "cr">>,
     <<"data", "colon", "space", "result2", "cr", "lf">>, <<"data", "colon", "notice", "lf", "lf">>,
     <<"data", "colon", "x", "lf", "lf">>, <<"colon", "x", "lf">>, <<"lf">>}

\* A keep-alive comment and another field, both with "data" in them.
MCOtherLines == {<<"colon", "data">>, <<"data", "data", "colon", "x">>}

MCChunks    == [m \in Modes |-> IF m = "sse" THEN SingleSymbols ELSE Lines]
MCMaxChunks == [m \in Modes |-> IF m = "sse" THEN 6 ELSE 5]
==============================================================================

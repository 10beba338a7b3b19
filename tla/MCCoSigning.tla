----------------------------- MODULE MCCoSigning -----------------------------
(* An instance of CoSigning for TLC: a tool and a skill, called at once. *)
EXTENDS CoSigning

CONSTANTS c1, c2, mAdd, mSub, mSum, p1, p2, b1, b2, t1, t2, n1, srv, gw, kid1, k1, k2, k3, d1

MCTexts  == {mAdd, mSub, mSum, srv, gw, kid1, d1, "mcp", "a2a", "EdDSA", "ES256"}
MCKeyAlg == [k \in Keys |-> "EdDSA"]

Text(t) == [form |-> "object", kind |-> "text", content |-> t, file |-> NoFile]
File(t, name) ==
    [form |-> "object", kind |-> "file", content |-> "absent",
     file |-> [NoFile EXCEPT !.form = "object", !.bytes = t, !.name = name]]
Odd(kind) == [form |-> "object", kind |-> kind, content |-> "absent", file |-> NoFile]

\* The tool there is, called with two inputs, and a tool there is not; the skill
\* there is, with a message of text and with one that has an unsupported part.
AddOne  == [binding |-> "mcp", method |-> mAdd, input |-> <<p1>>]
AddTwo  == [binding |-> "mcp", method |-> mAdd, input |-> <<p2>>]
NoTool  == [binding |-> "mcp", method |-> mSub, input |-> <<p1>>]
Summary == [binding |-> "a2a", method |-> mSum, input |-> <<Text(t1), File(t2, "null")>>]
BadPart == [binding |-> "a2a", method |-> mSum, input |-> <<Text(t1), Odd("audio")>>]

MCRequests == {AddOne, AddTwo, NoTool, Summary, BadPart}
MCAnswer   == [r \in MCRequests |->
    CASE r = AddOne -> <<b1>>
      [] r = AddTwo -> <<b2>>
      [] r = NoTool -> <<b1>>
      [] OTHER -> <<Text(t1), File(t2, "absent")>>]

\* Another result; parts that read the same as the answer (a name written as
\* null); the parts in another order, and other parts.
MCRewritten == [b \in {"mcp", "a2a"} |->
    IF b = "mcp" THEN {<<b1>>, <<b2>>}
    ELSE {<<Text(t1), File(t2, "null")>>, <<File(t2, "absent"), Text(t1)>>,
          <<Text(t1), File(t2, n1)>>, <<Text(t1), Odd("audio")>>}]
MCFirstKey == [p \in {srv, gw} |-> IF p = srv THEN k1 ELSE k2]
==============================================================================

-------------------------- MODULE MCContentAddress --------------------------
(* Texts for TLC: names whose order differs between code points and UTF-16    *)
(* units, of which one is a prefix of another and one ends in a lone          *)
(* surrogate, and values of every kind that is read or written in a way of    *)
(* its own.                                                                   *)
EXTENDS ContentAddress

Tokens    == <<116>>          \* a magnitude
TokensTwo == <<116, 50>>      \* the same name and one more character
Ligature  == <<64307>>        \* above the surrogates, within the BMP
Emoji     == <<55357, 56832>> \* a surrogate pair
Lone      == <<114, 55357>>   \* the first half of the pair
ReceiptId == <<114>>

Value(type, content, spelling) == [type |-> type, content |-> content, spelling |-> spelling]

MCMagnitudes == {Tokens}
MCNames   == {Tokens, TokensTwo, Ligature, Emoji, Lone, ReceiptId}
MCWritten == {Value("string", "s1", "plain"), Value("string", "s1", "escaped"),
              Value("string", "s2", "plain"), Value("null", "null", "plain"),
              Value("string", "lone", "escaped")}
             \cup {Value("number", n, "plain") : n \in {4, 5, 9}}
MCPublished ==
    {Object(<<>>)} \cup
    {Object(<<m, n>>) : <<m, n>> \in {<<m, n>> \in Members \X Members :
        /\ {m.value, n.value} \subseteq {Value("string", "s1", "plain"), Value("number", 4, "plain"),
                                        Value("number", 5, "plain")}
        /\ LexBefore(m.name, n.name)}}

\* Names on both sides of the surrogates.
KeyNames     == {Ligature, Emoji}
KeyWritten   == {Value("string", "s1", "plain")}
KeyPublished == {Object(<<>>)}
==============================================================================

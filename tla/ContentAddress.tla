--------------------------- MODULE ContentAddress ---------------------------
(***************************************************************************)
(* A JSON object that is addressed by its content: a receipt (receipt-id), *)
(* a value (jcs) or a cost block (cost-canon).  What stores and relays it  *)
(* writes it again in its own way (external): members in another order,    *)
(* values in another spelling.  It may also change it: another value, one  *)
(* more or one less member, a name written twice.                          *)
(***************************************************************************)
EXTENDS Jcs

CONSTANTS
    Written,     \* the scalars that are written
    MemberNames, \* the names that are written
    Published,   \* the texts that are addressed first, each name once
    MaxMembers,  \* bound: the members of an object
    MaxChanges   \* bound: the steps the text takes

Members == [name : MemberNames, value : Written]
Object(members) == [type |-> "object", members |-> members]

\* A name is a text, and what is written is a scalar.  A lone surrogate is the
\* only surrogate of its name: gowebpki/jcs reads a surrogate and an escape after
\* it as one character, whatever they are.
ASSUME WrittenAssumption ==
    /\ MemberNames \subseteq Seq(Nat)
    /\ \A name \in MemberNames : IsWellFormed(name) \/
          \A i, j \in DOMAIN name : {name[i], name[j]} \subseteq 55296 .. 57343 => i = j
    /\ \A s \in Written :
          /\ s.type \in {"string", "number", "boolean", "null", "array"}
          /\ s.type = "number" => s.content \in Nat
ASSUME PublishedAssumption ==
    \A v \in Published :
        /\ v = Object(v.members) /\ v.members \in Seq(Members) /\ HasUniqueNames(v)
        /\ Len(v.members) <= MaxMembers
ASSUME BoundAssumption == MaxMembers \in Nat /\ MaxChanges \in Nat

VARIABLES
    published,  \* the text as it was first addressed
    text,       \* the text as it is now
    changes     \* bound: the steps so far

vars == <<published, text, changes>>

Rewrite(members) ==
    /\ changes < MaxChanges
    /\ changes' = changes + 1
    /\ text' = Object(members)
    /\ UNCHANGED published

SwapMembers(i) ==
    Rewrite([text.members EXCEPT ![i] = text.members[i + 1], ![i + 1] = text.members[i]])

WriteValue(i, value) == Rewrite([text.members EXCEPT ![i].value = value])

\* The name may be there already.
AddMember(member) == Len(text.members) < MaxMembers /\ Rewrite(Append(text.members, member))

DropMember(i) == Rewrite(RemoveAt(text.members, i))

Init ==
    /\ published \in Published
    /\ text = published
    /\ changes = 0

Next ==
    \/ \E i \in 1 .. Len(text.members) - 1 : SwapMembers(i)
    \/ \E i \in DOMAIN text.members, value \in Written : WriteValue(i, value)
    \/ \E member \in Members : AddMember(member)
    \/ \E i \in DOMAIN text.members : DropMember(i)

Spec == Init /\ [][Next]_vars

------------------------------------------------------------------------------
(***************************************************************************)
(* Properties.                                                             *)
(***************************************************************************)

\* Type correctness of the texts and of the values of a canonical form: each in
\* its one spelling, each number finite.
TypeOK ==
    /\ text.type = "object" /\ text.members \in Seq(Members) /\ Len(text.members) <= MaxMembers
    /\ published.members \in Seq(Members) /\ changes \in 0 .. MaxChanges
    /\ \A s \in Scalars(Canonical(text)) :
          s.spelling = "plain" /\ (s.type = "number" => s.content <= MaxFinite)

\* What a text says, however it is written.
Data(v) ==
    [name \in Names(v) |-> [type |-> ValueOf(v, name).type, content |-> ValueOf(v, name).content]]
Exact(v) ==
    HasUniqueNames(v) /\ \A s \in Scalars(v) : s.type = "number" => s.content <= MaxExact

\* Two texts have one address exactly when they say the same: no rewriting
\* changes the address of a receipt and no change of its data keeps it, as long
\* as its numbers are exact; Go has no address for a lone surrogate.
SameAddressIffSameData ==
    Exact(text) /\ Exact(published) =>
        /\ (TsJcs(text) = TsJcs(published)) <=> (Data(text) = Data(published))
        /\ WellFormedText(text) /\ WellFormedText(published) =>
              ((GoJcs(text) = GoJcs(published)) <=> (Data(text) = Data(published)))

\* For a text with unique names, finite numbers and no lone surrogate each of the
\* three commands does the same in both tools, but for a magnitude that is neither
\* a string nor a number.
AddressingTwinsAgree ==
    HasUniqueNames(text) /\ ~HasHuge(text) /\ WellFormedText(text) =>
        /\ GoJcs(text) = TsJcs(text)
        /\ GoReceiptIdCommand(text) = TsReceiptIdCommand(text)
        /\ \/ GoCostCanon(text) = TsCostCanon(text)
           \/ \E name \in Magnitudes :
                 HasName(text, name) /\ ValueOf(text, name).type \notin {"string", "number"}

\* "Object keys sorted lexicographically (Unicode code-point order, which is what
\* JS string comparison uses" (src/ts/src/commands/jcs.ts).
KeysInCodePointOrder ==
    LET \* The code points of a name order as its units do, its surrogates last.
        rank(name) == [i \in DOMAIN name |->
                           IF name[i] \in 55296 .. 57343 THEN name[i] + 65536 ELSE name[i]]
        members == Canonical(text).members
    IN  \A i \in 1 .. Len(members) - 1 :
            LexBefore(rank(members[i].name), rank(members[i + 1].name))

\* The canonical form is a text of its own: canonical again, each name once, so
\* that verification may compare the bytes it received with their own form.
CanonicalIsFixpoint ==
    Canonical(Canonical(text)) = Canonical(text) /\ HasUniqueNames(Canonical(text))

\* Cost blocks that either tool accepts and that have one canonical form hold
\* the very same magnitudes: none was rounded on the way ("Confirms no
\* number-serialization divergence is possible", CONTRACT.md).
CostKeptExactly ==
    \A Canon \in {"go", "ts"} :
        LET canon(v) == IF Canon = "go" THEN GoCostCanon(v) ELSE TsCostCanon(v)
        IN  canon(text) = canon(published) /\ ~Failed(canon(text)) =>
                \A name \in Magnitudes :
                    /\ HasName(text, name) <=> HasName(published, name)
                    /\ HasName(text, name) => Data(text)[name] = Data(published)[name]
==============================================================================

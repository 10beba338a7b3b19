--------------------------------- MODULE Jcs ---------------------------------
(***************************************************************************)
(* The byte-source layer of the commands jcs, receipt-id and cost-canon:   *)
(* RFC 8785 canonicalization, in TypeScript by src/ts/src/commands/jcs.ts, *)
(* in Go by the library gowebpki/jcs (external).  Hashing and the          *)
(* hash-string are ideal: an address is the canonical form itself.         *)
(*                                                                         *)
(* A JSON value is [type, content, spelling] or, for an object, a          *)
(* [type, members] with members a sequence of [name, value] as they are    *)
(* written; "absent" is the type of a member that is not there.  A name is *)
(* the sequence of its UTF-16 code units, as a JavaScript string is.       *)
(* spelling tells apart the ways to write the same value: 1 and 1.0, an    *)
(* escaped character, more or less white space.                            *)
(***************************************************************************)
EXTENDS JsonValues, Integers, Sequences, SequencesExt

CONSTANTS
    MaxExact,        \* the largest integer below which a double is exact (2^53)
    MaxFinite,       \* the largest finite double
    ReceiptIdName,   \* the member name "receipt_id"
    Magnitudes,      \* the member names "tokens", "usd_micros" and "wall_ms"
    LoneStrings      \* the contents of strings with a lone surrogate, escaped

\* The largest finite double is exact, and even.
ASSUME JcsAssumption ==
    /\ MaxExact \in Nat /\ MaxExact % 4 = 0
    /\ MaxFinite \in Nat /\ MaxFinite % 2 = 0 /\ MaxExact <= MaxFinite

\* A number is read as the nearest double: above MaxExact an odd integer is
\* rounded to the even one of its two neighbours that ends in an even bit.
Double(n) ==
    IF n <= MaxExact \/ n % 2 = 0 THEN n ELSE IF n % 4 = 1 THEN n - 1 ELSE n + 1

(***************************************************************************)
(* The order of members.                                                   *)
(***************************************************************************)
LexBefore(s, t) ==
    \/ IsStrictPrefix(s, t)
    \/ \E i \in DOMAIN s \cap DOMAIN t :
          s[i] < t[i] /\ SubSeq(s, 1, i - 1) = SubSeq(t, 1, i - 1)

\* Array.prototype.sort without a comparator: by UTF-16 code units.
Precedes(m, n) == LexBefore(m.name, n.name)

\* The members of a set as a sequence in that order.
Sorted(members) ==
    CHOOSE s \in SetToSeqs(members) : \A i, j \in DOMAIN s : i < j => Precedes(s[i], s[j])

(***************************************************************************)
(* The canonical form.                                                     *)
(***************************************************************************)
Names(v)         == {v.members[i].name : i \in DOMAIN v.members}
IsObject(v)      == v.type = "object"
HasName(v, name) == IsObject(v) /\ name \in Names(v)
HasUniqueNames(v) ==
    IsObject(v) => \A i, j \in DOMAIN v.members : i # j => v.members[i].name # v.members[j].name
\* The value of a name that is written twice is the last one, in both parsers.
ValueOf(v, name) ==
    LET last == SelectLastInSeq(v.members, LAMBDA m : m.name = name)
    IN  v.members[last].value
Scalars(v) == IF IsObject(v) THEN {v.members[i].value : i \in DOMAIN v.members} ELSE {v}
\* No code unit of the name is half of a surrogate pair without its other half.
HighSurrogates == 55296 .. 56319
LowSurrogates  == 56320 .. 57343
IsWellFormed(name) ==
    \A i \in DOMAIN name :
        /\ name[i] \in HighSurrogates =>
              i + 1 \in DOMAIN name /\ name[i + 1] \in LowSurrogates
        /\ name[i] \in LowSurrogates =>
              i - 1 \in DOMAIN name /\ name[i - 1] \in HighSurrogates

\* The names and strings of the text are well-formed.
WellFormedText(v) ==
    /\ IsObject(v) => \A name \in Names(v) : IsWellFormed(name)
    /\ \A s \in Scalars(v) : s.type = "string" => s.content \notin LoneStrings

HasHuge(v) == \E s \in Scalars(v) : s.type = "number" /\ s.content > MaxFinite

\* Variant: the spelling of a value is kept.
CanonicalScalar_AsSpelled(s) == [type |-> s.type, content |-> s.content, spelling |-> s.spelling]

\* JSON.stringify of a scalar: one spelling of a string, the shortest of a double.
CanonicalScalar(s) ==
    IF (s.type = "number" /\ s.content > MaxFinite) \/ s.type = "absent"
    THEN [type |-> "null", content |-> "null", spelling |-> "plain"]
    ELSE [type |-> s.type, spelling |-> "plain",
          content |-> IF s.type = "number" THEN Double(s.content) ELSE s.content]

\* Variant: members stay in the order they are written in.
Canonical_AsWritten(v) ==
    IF ~IsObject(v) THEN CanonicalScalar(v)
    ELSE [type |-> "object",
          members |-> [i \in DOMAIN v.members |->
              [name |-> v.members[i].name, value |-> CanonicalScalar(v.members[i].value)]]]

\* jcsString: one member per name, sorted.  It is a text again.
Canonical(v) ==
    IF ~IsObject(v) THEN CanonicalScalar(v)
    ELSE [type |-> "object",
          members |-> Sorted({[name |-> name, value |-> CanonicalScalar(ValueOf(v, name))] :
                                 name \in Names(v)})]

(***************************************************************************)
(* The three commands in TypeScript.                                       *)
(***************************************************************************)
TsJcs(v) == [canonical |-> Canonical(v)]

\* Variant: a receipt that names its own id is addressed all the same.
TsReceiptIdCommand_Unguarded(v) ==
    IF v.type \in {"absent", "null"} THEN Fail("internal_error") ELSE [canonical |-> Canonical(v)]

\* hasOwnProperty of nothing throws; an array or a scalar has no receipt_id.
TsReceiptIdCommand(v) ==
    IF v.type \in {"absent", "null"} THEN Fail("internal_error")
    ELSE IF HasName(v, ReceiptIdName) THEN Fail("receipt_id_must_be_absent")
    ELSE [canonical |-> Canonical(v)]

\* Variant: a number is refused only where it is not exact.
TsCostCanon_ExactNumbers(v) ==
    IF v.type \in {"absent", "null"} THEN Fail("internal_error")
    ELSE IF \E name \in Magnitudes : HasName(v, name) /\ ValueOf(v, name).type = "number"
                                     /\ ValueOf(v, name).content > MaxFinite
    THEN Fail("cost_must_be_string_int")
    ELSE [canonical |-> Canonical(v)]

\* A magnitude that is a number is refused; null, true or an array is not.
TsCostCanon(v) ==
    IF v.type \in {"absent", "null"} THEN Fail("internal_error")
    ELSE IF \E name \in Magnitudes : HasName(v, name) /\ ValueOf(v, name).type = "number"
    THEN Fail("cost_must_be_string_int")
    ELSE [canonical |-> Canonical(v)]

(***************************************************************************)
(* The three commands in Go.                                               *)
(***************************************************************************)
\* The library refuses a name written twice, a number without a double and a lone
\* surrogate.
GoJcs(v) ==
    IF v.type = "absent" \/ ~HasUniqueNames(v) \/ HasHuge(v) \/ ~WellFormedText(v)
    THEN Fail("invalid_input")
    ELSE [canonical |-> Canonical(v)]

\* The probe for a member decodes objects, and null as an object without any.
GoReceiptIdCommand(v) ==
    IF v.type \notin {"object", "null"} THEN Fail("invalid_input")
    ELSE IF HasName(v, ReceiptIdName) THEN Fail("receipt_id_must_be_absent")
    ELSE GoJcs(v)

\* A magnitude that is there is a string.
GoCostCanon(v) ==
    IF v.type \notin {"object", "null"} THEN Fail("invalid_input")
    ELSE IF \E name \in Magnitudes : HasName(v, name) /\ ValueOf(v, name).type # "string"
    THEN Fail("cost_must_be_string_int")
    ELSE GoJcs(v)
==============================================================================

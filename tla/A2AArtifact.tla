----------------------------- MODULE A2AArtifact -----------------------------
(***************************************************************************)
(* The canonical form of an A2A artifact that outputs_hash and inputs_hash *)
(* commit to: A2AArtifactHash of src/go/a2a.go and a2aArtifactHash of      *)
(* src/ts/src/commands/a2a-artifact-hash.ts.  Every part is mapped, in     *)
(* order, to a descriptor; the first part that has none decides the error. *)
(* Hashing is ideal: the hash of a descriptor is the descriptor.           *)
(*                                                                         *)
(* A part is [form, kind, content, file]: content is its text or data, any *)
(* JSON value; file is [form, bytes, encoding, uri, declared_digest,       *)
(* mimeType, mimetype, name], where bytes stands for what the base64 text  *)
(* decodes to.  "mimetype" is the member of that spelling, which           *)
(* encoding/json takes for mimeType.  What is no object has no members,    *)
(* and no string has a lone surrogate (Go refuses it or decodes it to      *)
(* U+FFFD, TypeScript keeps it).                                           *)
(***************************************************************************)
EXTENDS JsonValues, Naturals, Sequences

\* A file with its bytes: they are hashed, never embedded.
Inline(bytes, mimeType, name) ==
    [kind |-> "file", digest |-> bytes,
     mimeType |-> NullIfAbsent(mimeType), name |-> NullIfAbsent(name)]

\* A file by reference: what the uri leads to is never read.
ByUri(uri, declared, mimeType, name) ==
    [kind |-> "file", uri |-> uri, declared_digest |-> NullIfAbsent(declared),
     mimeType |-> NullIfAbsent(mimeType), name |-> NullIfAbsent(name)]

Valued(p) == [kind |-> p.kind, content |-> NullIfAbsent(p.content)]

\* The error of the first part that failed, or all descriptors.
FirstFailureOr(ds) ==
    IF \E i \in DOMAIN ds : Failed(ds[i])
    THEN ds[CHOOSE i \in DOMAIN ds : Failed(ds[i]) /\ \A j \in 1 .. i - 1 : ~Failed(ds[j])]
    ELSE [parts |-> ds]

(***************************************************************************)
(* src/go/a2a.go: parts and files are decoded into structs, so a member of *)
(* another type fails the decoding; null decodes to nothing.               *)
(***************************************************************************)
GoMimeType(f) == IF f.mimetype = "absent" THEN f.mimeType ELSE f.mimetype

GoFile(f) ==
    IF f.form = "other" \/ "nonString" \in {f.bytes, f.uri, f.mimeType, f.mimetype, f.name}
    THEN Fail("invalid_input")
    ELSE IF IsString(f.bytes)
    THEN IF f.encoding = "lenient" THEN Fail("invalid_input")
         ELSE Inline(f.bytes, GoMimeType(f), f.name)
    ELSE IF IsString(f.uri) THEN ByUri(f.uri, f.declared_digest, GoMimeType(f), f.name)
    ELSE Fail("unsupported_part")

\* mapPart.
GoDescriptor(p) ==
    IF p.form = "other" \/ p.kind = "nonString" THEN Fail("invalid_input")
    ELSE IF p.kind \in {"text", "data"} THEN Valued(p)
    ELSE IF p.kind = "file" THEN GoFile(p.file)
    ELSE Fail("unsupported_part")

GoArtifactHash(a) ==
    IF a.form \in {"absent", "other"} \/ a.partsForm = "other" THEN Fail("invalid_input")
    ELSE FirstFailureOr([i \in DOMAIN a.parts |-> GoDescriptor(a.parts[i])])

(***************************************************************************)
(* src/ts/src/commands/a2a-artifact-hash.ts                                *)
(***************************************************************************)
\* Variant: a file is taken by its uri where it has one.
TsFile_UriFirst(f) ==
    IF IsString(f.uri) THEN ByUri(f.uri, f.declared_digest, f.mimeType, f.name)
    ELSE IF IsString(f.bytes) THEN Inline(f.bytes, f.mimeType, f.name)
    ELSE Fail("unsupported_part")

TsFile(f) ==
    IF IsString(f.bytes) THEN Inline(f.bytes, f.mimeType, f.name)
    ELSE IF IsString(f.uri) THEN ByUri(f.uri, f.declared_digest, f.mimeType, f.name)
    ELSE Fail("unsupported_part")

\* partToDescriptor; reading the kind of a part that is null throws.
TsDescriptor(p) ==
    IF p.form = "null" THEN Fail("internal_error")
    ELSE IF p.kind \in {"text", "data"} THEN Valued(p)
    ELSE IF p.kind = "file" THEN TsFile(p.file)
    ELSE Fail("unsupported_part")

TsArtifactHash(a) ==
    IF a.partsForm # "array" THEN Fail("unsupported_part")
    ELSE FirstFailureOr([i \in DOMAIN a.parts |-> TsDescriptor(a.parts[i])])

(***************************************************************************)
(* What the hash is for.                                                   *)
(***************************************************************************)
\* The parts are a list, and what is no object has no kind.
IsPartList(parts) ==
    /\ Len(parts) \in Nat /\ DOMAIN parts = 1 .. Len(parts)
    /\ \A i \in DOMAIN parts : parts[i].form = "object" \/ parts[i].kind = "absent"

\* An artifact as the contract describes it; any kind, any mix of members.
WellFormedFile(f) ==
    /\ f.form \in {"object", "null", "absent"} /\ f.encoding = "standard" /\ f.mimetype = "absent"
    /\ "nonString" \notin {f.bytes, f.uri, f.mimeType, f.name}
WellFormedArtifact(a) ==
    /\ a.form = "object" /\ a.partsForm = "array"
    /\ \A i \in DOMAIN a.parts :
          a.parts[i].form = "object" /\ a.parts[i].kind # "nonString" /\ WellFormedFile(a.parts[i].file)

\* Two parts hold the same for whoever reads them: the same text or data, the
\* same bytes or the same reference, under the same name and type.
SameContent(p, q) ==
    /\ p.kind = q.kind
    /\ p.kind # "file" => NullIfAbsent(p.content) = NullIfAbsent(q.content)
    /\ p.kind = "file" =>
          /\ NullIfAbsent(p.file.mimeType) = NullIfAbsent(q.file.mimeType)
          /\ NullIfAbsent(p.file.name) = NullIfAbsent(q.file.name)
          /\ IF IsString(p.file.bytes) THEN q.file.bytes = p.file.bytes
             ELSE /\ ~IsString(q.file.bytes) /\ q.file.uri = p.file.uri
                  /\ NullIfAbsent(q.file.declared_digest) = NullIfAbsent(p.file.declared_digest)
==============================================================================

----------------------------- MODULE JsonValues -----------------------------
(***************************************************************************)
(* What the commands of veritrail tell apart in the JSON they are given:   *)
(* a member that should hold a string holds one, or is absent, null or of  *)
(* another type; base64 text is read by a strict or by a lenient decoder.  *)
(***************************************************************************)
NonStrings == {"absent", "null", "nonString"}

IsString(v) == v \notin NonStrings

\* Go's stringClaim: the claim's string, or "" for anything that is not one.
StringClaim(c) == IF c \in NonStrings THEN "" ELSE c

\* orNull and nullableString: an optional member is written as null when absent.
NullIfAbsent(v) == IF v = "absent" THEN "null" ELSE v

\* Base64 text is "standard", with or without padding, or "lenient": with a
\* character of another alphabet, which Node's Buffer translates or skips and
\* Go's decoders refuse.
Encodings == {"standard", "lenient"}

\* The one line a tool prints instead of a result.
Fail(code) == [error |-> code]
Failed(out) == "error" \in DOMAIN out
==============================================================================

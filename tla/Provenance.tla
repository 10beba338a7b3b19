------------------------------ MODULE Provenance ------------------------------
(***************************************************************************)
(* What receipts and verify-chain are for, without keys, signatures,       *)
(* registries or JWS: a growing record of works, each with an author and   *)
(* at most one parent recorded before it; agents that attest works, their  *)
(* own or not; and auditors that accept lineages.  An accepted lineage     *)
(* leads from a work to a root, and every author on it attested its own    *)
(* work.  Lineage implements this specification.                           *)
(***************************************************************************)
EXTENDS Naturals, Sequences

CONSTANTS
    Names,       \* the identities of works
    Agents,    \* who authors and attests
    Auditors,  \* who accepts lineages
    NoParent,  \* the parent of a root
    Unknown,   \* parents that are no recorded work and never become one
    MaxPath    \* bound: the longest lineage an auditor considers

VARIABLES
    works,     \* the recorded works, [id, author, parent]
    attested,  \* <<agent, id>>: the agent attested the work
    accepted   \* per auditor, the lineage it accepted last, <<>> if it declined

vars == <<works, attested, accepted>>

Recorded == {w.id : w \in works}

\* A path of ids from a work to a root, each attested by its own author.
IsLineage(path) ==
    /\ path # <<>>
    /\ \A i \in 1 .. Len(path) :
          \E w \in works :
             /\ w.id = path[i] /\ <<w.author, w.id>> \in attested
             /\ i = Len(path) => w.parent = NoParent
             /\ i # Len(path) => w.parent = path[i + 1]

Record(id, author, parent) ==
    /\ id \notin Recorded
    /\ parent \in Recorded \cup Unknown \cup {NoParent}
    /\ works' = works \cup {[id |-> id, author |-> author, parent |-> parent]}
    /\ UNCHANGED <<attested, accepted>>

Attest(agent, id) ==
    /\ id \in Recorded
    /\ attested' = attested \cup {<<agent, id>>}
    /\ UNCHANGED <<works, accepted>>

Accept(auditor, path) ==
    /\ IsLineage(path)
    /\ accepted' = [accepted EXCEPT ![auditor] = path]
    /\ UNCHANGED <<works, attested>>

\* An auditor may decline anything: its registry may be old, a key revoked.
Decline(auditor) ==
    /\ accepted' = [accepted EXCEPT ![auditor] = <<>>]
    /\ UNCHANGED <<works, attested>>

Init == works = {} /\ attested = {} /\ accepted = [a \in Auditors |-> <<>>]

Next ==
    \/ \E id \in Names, author \in Agents, parent \in Recorded \cup Unknown \cup {NoParent} :
          Record(id, author, parent)
    \/ \E agent \in Agents, id \in Names : Attest(agent, id)
    \/ \E auditor \in Auditors, n \in 1 .. MaxPath :
          \E path \in [1 .. n -> Names] : Accept(auditor, path)
    \/ \E auditor \in Auditors : Decline(auditor)

Spec == Init /\ [][Next]_vars
==============================================================================

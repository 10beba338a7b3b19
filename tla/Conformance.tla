----------------------------- MODULE Conformance -----------------------------
(***************************************************************************)
(* The conformance harness, src/conformance/compare.mjs: every vector of a *)
(* suite is run through the Go and then the TypeScript binary, and passes  *)
(* when both ran, both printed the same and what they printed matches the  *)
(* vector's anchor, if it has one.  Any other outcome fails the suite.     *)
(*                                                                         *)
(* A vector is an invocation of Cli with an anchor and with file, "ok" or  *)
(* "broken" (no JSON).  Its input is written to stdin again by             *)
(* JSON.stringify, so stdin is JSON unless the vector has no input.        *)
(***************************************************************************)
EXTENDS Cli

CONSTANTS
    Suites,       \* the sequences of vectors the harness may find
    MaySpawnFail  \* whether spawning a binary may fail or the binary exit non-zero

ASSUME ConformanceAssumption ==
    /\ MaySpawnFail \in BOOLEAN
    /\ \A s \in Suites : Len(s) \in Nat /\ DOMAIN s = 1 .. Len(s)

NoAnchor == <<>>                  \* no member of the output is anchored
NoOutput == [run |-> "notYet"]
RunError == [run |-> "failed"]    \* the process did not start or did not exit 0

VARIABLES
    suite,     \* the vector files, sorted by name
    next,      \* the index of the vector being run
    goOut,     \* what the Go binary gave for it
    tsOut,     \* what the TypeScript binary gave for it
    results,   \* the outcome of every vector so far
    exitCode   \* "running", then "exit 0" or "exit 1"

vars == <<suite, next, goOut, tsOut, results, exitCode>>

Vector == suite[next]
Running == exitCode = "running" /\ next <= Len(suite)

\* A file that parses, with a command that spawnSync takes for an argument.
Readable(v) == v.file = "ok" /\ v.command # "missing"

\* run(): a spawn error or a non-zero exit status, or the line printed.
Outputs(line) == {line} \cup (IF MaySpawnFail THEN {RunError} ELSE {})

RunGo ==
    /\ Running /\ Readable(Vector) /\ goOut = NoOutput
    /\ goOut' \in Outputs(GoCli(Vector))
    /\ UNCHANGED <<suite, next, tsOut, results, exitCode>>

\* The second binary runs even when the first one failed.
RunTs ==
    /\ Running /\ goOut # NoOutput /\ tsOut = NoOutput
    /\ tsOut' \in Outputs(TsCli(Vector))
    /\ UNCHANGED <<suite, next, goOut, results, exitCode>>

\* anchorMismatch: every anchored member is printed, and as anchored.
Matches(out, anchor) ==
    \A member \in DOMAIN anchor : member \in DOMAIN out /\ out[member] = anchor[member]

\* Variants: the two outputs are not compared; the anchor is the whole output.
Outcome_NoDiff(go, ts, anchor) ==
    IF RunError \in {go, ts} THEN "RUNERR"
    ELSE IF ~Matches(go, anchor) THEN "ANCHOR" ELSE "PASS"
Outcome_WholeAnchor(go, ts, anchor) ==
    IF RunError \in {go, ts} THEN "RUNERR"
    ELSE IF go # ts THEN "DIVERGE"
    ELSE IF anchor # go THEN "ANCHOR" ELSE "PASS"

\* Only the Go output is held against the anchor: by then the two are equal.
Outcome(go, ts, anchor) ==
    IF RunError \in {go, ts} THEN "RUNERR"
    ELSE IF go # ts THEN "DIVERGE"
    ELSE IF ~Matches(go, anchor) THEN "ANCHOR"
    ELSE "PASS"

\* Variants: the vector is not advanced; a vector that could not run is retried.
Compare_SameVector ==
    /\ Running /\ tsOut # NoOutput
    /\ results' = Append(results, Outcome(goOut, tsOut, Vector.anchor))
    /\ goOut' = NoOutput /\ tsOut' = NoOutput
    /\ UNCHANGED <<suite, next, exitCode>>
Compare_Retry ==
    /\ Running /\ tsOut # NoOutput
    /\ IF RunError \in {goOut, tsOut} THEN UNCHANGED <<results, next>>
       ELSE /\ results' = Append(results, Outcome(goOut, tsOut, Vector.anchor))
            /\ next' = next + 1
    /\ goOut' = NoOutput /\ tsOut' = NoOutput
    /\ UNCHANGED <<suite, exitCode>>

Compare ==
    /\ Running /\ tsOut # NoOutput
    /\ results' = Append(results, Outcome(goOut, tsOut, Vector.anchor))
    /\ next' = next + 1
    /\ goOut' = NoOutput /\ tsOut' = NoOutput
    /\ UNCHANGED <<suite, exitCode>>

\* A vector that cannot be read ends the harness by an uncaught exception: the
\* vectors after it are never run.
Crash ==
    /\ Running /\ ~Readable(Vector)
    /\ exitCode' = "exit 1"
    /\ UNCHANGED <<suite, next, goOut, tsOut, results>>

\* An empty vector directory passes: nothing failed.
Exit ==
    /\ exitCode = "running" /\ next > Len(suite)
    /\ exitCode' = IF \E i \in DOMAIN results : results[i] # "PASS" THEN "exit 1" ELSE "exit 0"
    /\ UNCHANGED <<suite, next, goOut, tsOut, results>>

Init ==
    /\ suite \in Suites
    /\ next = 1
    /\ goOut = NoOutput /\ tsOut = NoOutput
    /\ results = <<>>
    /\ exitCode = "running"

Next == RunGo \/ RunTs \/ Compare \/ Crash \/ Exit

\* The harness is one process that runs to its end; every child returns.
Spec == Init /\ [][Next]_vars /\ WF_vars(Next)

------------------------------------------------------------------------------
(***************************************************************************)
(* Properties.                                                             *)
(***************************************************************************)
Outcomes == {"PASS", "RUNERR", "DIVERGE", "ANCHOR"}

\* Type correctness of the state; every vector before the next has an outcome.
TypeOK ==
    /\ next \in 1 .. Len(suite) + 1
    /\ results \in Seq(Outcomes) /\ Len(results) = next - 1
    /\ exitCode \in {"running", "exit 0", "exit 1"}

\* What a green harness shows: every vector of the suite could be read, both
\* binaries ran on it, printed the same, and whatever is anchored as anchored.
CleanExitMeansConformant ==
    exitCode = "exit 0" =>
        \A i \in DOMAIN suite :
            /\ Readable(suite[i]) /\ GoCli(suite[i]) = TsCli(suite[i])
            /\ Matches(GoCli(suite[i]), suite[i].anchor)

\* A red harness is never a false alarm: a binary failed to run, a vector could
\* not be read, divides the two tools or contradicts its anchor.
RedExitIsJustified ==
    exitCode = "exit 1" =>
        \/ \E i \in DOMAIN results : results[i] = "RUNERR"
        \/ \E i \in DOMAIN suite :
              \/ ~Readable(suite[i])
              \/ GoCli(suite[i]) # TsCli(suite[i])
              \/ ~Matches(GoCli(suite[i]), suite[i].anchor)

\* Whatever the command, for an invocation that follows the contract, right or
\* wrong, the two binaries print the same where both ran.
PlainVectorsAgree ==
    ({goOut, tsOut} \cap {NoOutput, RunError} = {} /\ PlainInvocation(Vector)) => goOut = tsOut

\* "Both the Go and TypeScript verifiers MUST implement this identical CLI
\* contract" (src/conformance/CONTRACT.md): no suite ends with a divergence.
AgreeOnWholeSuite ==
    exitCode # "running" => \A i \in DOMAIN results : results[i] # "DIVERGE"

\* The harness ends with an exit code whatever the vectors and the binaries do.
HarnessTerminates == <>(exitCode # "running")
==============================================================================

-------------------------- MODULE Conformance_proofs --------------------------
(***************************************************************************)
(* The two command line tools print the same line for every invocation     *)
(* that follows the contract, whatever the command and the sizes of its    *)
(* lists and streams; and what the exit code of the conformance harness    *)
(* shows, for every suite.                                                 *)
(***************************************************************************)
EXTENDS Conformance, Agreement_proofs, SseDecode_proofs

(***************************************************************************)
(* The two tools.                                                          *)
(***************************************************************************)
\* jcs, receipt-id and cost-canon: one canonical form or one error.
LEMMA AddressingAgreement ==
    ASSUME NEW in
    PROVE  /\ PlainInput("jcs", in) => GoRun("jcs", in) = TsRun("jcs", in)
           /\ PlainInput("receipt-id", in) => GoRun("receipt-id", in) = TsRun("receipt-id", in)
           /\ PlainInput("cost-canon", in) => GoRun("cost-canon", in) = TsRun("cost-canon", in)
  BY DEF PlainInput, PlainValue, GoRun, TsRun, IsObject, HasName, GoJcs, TsJcs,
         GoReceiptIdCommand, TsReceiptIdCommand, GoCostCanon, TsCostCanon

\* One command on an object that follows the contract.
LEMMA RunAgreement ==
    ASSUME NEW command \in Commands, NEW in, PlainInput(command, in),
           command = "sse-outputs-hash" => in.bytes \in Seq(ToSet(in.bytes)),
           command = "verify" => in.jws \in JwsSet,
           command = "verify-chain" => in.receipts \in Seq(JwsSet),
           command = "sign" => in.receipt.ext \in BOOLEAN
    PROVE  GoRun(command, in) = TsRun(command, in)
  <1>1. CASE command \in {"jcs", "receipt-id", "cost-canon"}
    BY <1>1, AddressingAgreement
  <1>2. CASE command \in {"hashstring", "digest"}
    BY <1>2 DEF GoRun, TsRun, PlainInput, PlainText, GoHashString, TsHashString, GoBytes,
                GoRefusesBytes, NonStrings
  <1>3. CASE command = "verify"
    BY <1>3, VerifyAgreement DEF GoRun, TsRun, PlainInput
  <1>4. CASE command = "verify-chain"
    BY <1>4, ChainAgreement DEF GoRun, TsRun, PlainInput, Hops
  <1>5. CASE command = "a2a-artifact-hash"
    BY <1>5, ArtifactAgreement DEF GoRun, TsRun, PlainInput
  <1>6. CASE command = "sign"
    BY <1>6, SignAgreement DEF GoRun, TsRun, PlainInput
  <1>7. CASE command = "sse-outputs-hash"
    <2> DEFINE A == ToSet(in.bytes)
    <2>1. PlainText(in) /\ in.mode \in Modes /\ A \cap {"badByte", "resultHuge"} = {}
      BY <1>7 DEF PlainInput
    <2>2. in.bytes \in Seq(A)
      BY <1>7
    <2> HIDE DEF A
    <2>3. GoOutputsHash(in.bytes, in.mode) = TsOutputsHash(in.bytes, in.mode)
      BY <2>1, <2>2, SseAgreement
    <2> QED
      BY <1>7, <2>1, <2>3 DEF GoRun, TsRun, PlainText, GoBytes, GoRefusesBytes, TsSseOutputsHash,
                              NonStrings
  <1>8. QED
    BY <1>1, <1>2, <1>3, <1>4, <1>5, <1>6, <1>7 DEF Commands

\* Data of its type: a JWS or a list of them, a receipt without other members or
\* with, a stream that is a sequence.
Typed(inv) ==
    inv.stdin = "object" =>
        /\ inv.command = "verify" => inv.input.jws \in JwsSet
        /\ inv.command = "verify-chain" => inv.input.receipts \in Seq(JwsSet)
        /\ inv.command = "sign" => inv.input.receipt.ext \in BOOLEAN
        /\ inv.command = "sse-outputs-hash" => inv.input.bytes \in Seq(ToSet(inv.input.bytes))

\* Whatever the command, the two tools print the same line for an invocation
\* that follows the contract, right or wrong.
THEOREM CliAgreement ==
    ASSUME NEW inv, PlainInvocation(inv), Typed(inv)
    PROVE  GoCli(inv) = TsCli(inv)
  <1>1. CASE inv.command = "missing" \/ inv.stdin = "unreadable"
    BY <1>1 DEF PlainInvocation, GoCli, TsCli, Commands
  <1>2. CASE inv.command \in Commands /\ inv.stdin = "object" /\ PlainInput(inv.command, inv.input)
    <2>1. GoRun(inv.command, inv.input) = TsRun(inv.command, inv.input)
      BY <1>2, RunAgreement DEF Typed
    <2>2. inv.command # "missing" /\ inv.command # ""
      BY <1>2 DEF Commands
    <2>3. QED
      BY <1>2, <2>1, <2>2 DEF GoCli, TsCli
  <1>3. QED
    BY <1>1, <1>2 DEF PlainInvocation

(***************************************************************************)
(* The harness.  Its properties speak of the exit code and of the tools;   *)
(* what links them is the record of outcomes, and so the invariant says    *)
(* what each recorded outcome proves of its vector.                        *)
(***************************************************************************)
\* What the outcome recorded for a vector shows of it.
Shows(outcome, v) ==
    /\ outcome = "PASS" =>
          Readable(v) /\ GoCli(v) = TsCli(v) /\ Matches(GoCli(v), v.anchor)
    /\ outcome = "DIVERGE" => GoCli(v) # TsCli(v)
    /\ outcome = "ANCHOR" => ~Matches(GoCli(v), v.anchor)

\* The outputs held are those of the vector being run.
HeldOutputs ==
    /\ goOut # NoOutput =>
          /\ next <= Len(suite) /\ Readable(Vector)
          /\ goOut \in {RunError, GoCli(Vector)}
    /\ tsOut # NoOutput => goOut # NoOutput /\ tsOut \in {RunError, TsCli(Vector)}

\* The exit code sums up the outcomes, unless a vector could not be read.
ExitCodeSumsUp ==
    /\ exitCode = "exit 0" =>
          next = Len(suite) + 1 /\ \A i \in DOMAIN results : results[i] = "PASS"
    /\ exitCode = "exit 1" =>
          \/ next <= Len(suite) /\ ~Readable(suite[next])
          \/ \E i \in DOMAIN results : results[i] # "PASS"

IInv ==
    /\ suite \in Suites
    /\ TypeOK
    /\ HeldOutputs
    /\ \A i \in DOMAIN results : Shows(results[i], suite[i])
    /\ ExitCodeSumsUp

\* The outcome of two outputs of a vector that was read shows what it says.
LEMMA OutcomeShows ==
    ASSUME NEW v, Readable(v), NEW go \in {RunError, GoCli(v)}, NEW ts \in {RunError, TsCli(v)}
    PROVE  Outcome(go, ts, v.anchor) \in Outcomes /\ Shows(Outcome(go, ts, v.anchor), v)
  BY DEF Outcome, Outcomes, Shows

\* The initial states satisfy the invariant.
LEMMA InitInvariant == Init => IInv
  BY ConformanceAssumption DEF Init, IInv, TypeOK, HeldOutputs, ExitCodeSumsUp

\* Every step of the harness preserves the invariant.
LEMMA StepInvariant == IInv /\ [Next]_vars => IInv'
  <1> SUFFICES ASSUME IInv, [Next]_vars PROVE IInv'
    OBVIOUS
  <1> USE DEF IInv, Vector, Running
  <1>0. /\ Len(suite) \in Nat /\ DOMAIN suite = 1 .. Len(suite)
        /\ results \in Seq(Outcomes) /\ Len(results) = next - 1 /\ next \in 1 .. Len(suite) + 1
    BY ConformanceAssumption DEF TypeOK
  <1>1. CASE RunGo
    <2>1. HeldOutputs'
      BY <1>1 DEF RunGo, HeldOutputs, Outputs
    <2>2. QED
      BY <1>1, <2>1 DEF RunGo, TypeOK, ExitCodeSumsUp
  <1>2. CASE RunTs
    <2>1. HeldOutputs'
      BY <1>2 DEF RunTs, HeldOutputs, Outputs
    <2>2. QED
      BY <1>2, <2>1 DEF RunTs, TypeOK, ExitCodeSumsUp
  <1>3. CASE Compare
    <2> DEFINE o == Outcome(goOut, tsOut, Vector.anchor)
    <2>1. o \in Outcomes /\ Shows(o, suite[next])
      BY <1>3, OutcomeShows DEF Compare, HeldOutputs
    <2>2. /\ results' = Append(results, o) /\ next' = next + 1 /\ next <= Len(suite)
          /\ exitCode' = "running" /\ suite' = suite /\ goOut' = NoOutput /\ tsOut' = NoOutput
      BY <1>3 DEF Compare
    <2> HIDE DEF o
    <2>3. /\ results' \in Seq(Outcomes) /\ Len(results') = Len(results) + 1
          /\ DOMAIN results' = 1 .. Len(results) + 1
          /\ \A i \in DOMAIN results : i \in DOMAIN results' /\ results'[i] = results[i]
          /\ results'[Len(results) + 1] = o
      BY <1>0, <2>1, <2>2
    <2>4. TypeOK'
      <3>1. next' \in 1 .. Len(suite') + 1 /\ Len(results') = next' - 1
        BY <1>0, <2>2, <2>3
      <3>2. QED
        BY <2>2, <2>3, <3>1 DEF TypeOK
    <2>5. \A i \in DOMAIN results' : Shows(results'[i], suite'[i])
      <3>1. \A i \in DOMAIN results' : i \in DOMAIN results \/ i = next
        BY <1>0, <2>3
      <3>2. results'[next] = o
        BY <1>0, <2>3
      <3>3. QED
        BY <2>1, <2>2, <2>3, <3>1, <3>2
    <2>6. QED
      BY <2>2, <2>4, <2>5 DEF HeldOutputs, ExitCodeSumsUp
  <1>4. CASE Crash
    BY <1>4 DEF Crash, TypeOK, HeldOutputs, ExitCodeSumsUp
  <1>5. CASE Exit
    <2>0. next > Len(suite)
      BY <1>5 DEF Exit
    <2>1. next = Len(suite) + 1
      <3> HIDE DEF IInv
      <3>1. QED
        BY <1>0, <2>0
    <2>2. exitCode' \in {"exit 0", "exit 1"} /\ UNCHANGED <<suite, next, goOut, tsOut, results>>
      BY <1>5 DEF Exit
    <2>3. ExitCodeSumsUp'
      BY <1>5, <2>1, <2>2 DEF Exit, ExitCodeSumsUp
    <2>4. TypeOK'
      BY <2>2 DEF TypeOK
    <2>5. HeldOutputs'
      BY <2>2 DEF HeldOutputs
    <2>6. QED
      BY <2>2, <2>3, <2>4, <2>5
  <1>6. CASE UNCHANGED vars
    BY <1>6 DEF vars, TypeOK, HeldOutputs, ExitCodeSumsUp
  <1>7. QED
    BY <1>1, <1>2, <1>3, <1>4, <1>5, <1>6 DEF Next

\* There is one outcome for every vector before the next one.
LEMMA OutcomesOfPrefix ==
    ASSUME IInv
    PROVE  /\ DOMAIN suite = 1 .. Len(suite) /\ Len(suite) \in Nat
           /\ next \in 1 .. Len(suite) + 1 /\ DOMAIN results = 1 .. next - 1
           /\ \A i \in DOMAIN results : i \in DOMAIN suite /\ results[i] \in Outcomes
           /\ next <= Len(suite) => next \in DOMAIN suite
           /\ next = Len(suite) + 1 => DOMAIN results = DOMAIN suite
  <1>1. results \in Seq(Outcomes) /\ Len(results) = next - 1 /\ next \in 1 .. Len(suite) + 1
    BY DEF IInv, TypeOK
  <1>2. DOMAIN suite = 1 .. Len(suite) /\ Len(suite) \in Nat
    BY ConformanceAssumption DEF IInv
  <1> HIDE DEF IInv
  <1>3. DOMAIN results = 1 .. next - 1 /\ \A i \in DOMAIN results : results[i] \in Outcomes
    BY <1>1
  <1>4. \A i \in 1 .. next - 1 : i \in 1 .. Len(suite)
    BY <1>1, <1>2
  <1>5. next <= Len(suite) => next \in 1 .. Len(suite)
    BY <1>1, <1>2
  <1>6. next = Len(suite) + 1 => 1 .. next - 1 = 1 .. Len(suite)
    BY <1>1, <1>2
  <1>7. QED
    BY <1>1, <1>2, <1>3, <1>4, <1>5, <1>6

\* The invariant holds throughout every behaviour.
THEOREM HarnessInvariance == Spec => []IInv
  BY InitInvariant, StepInvariant, PTL DEF Spec

\* Type correctness of the harness: one outcome for every vector before the next.
THEOREM HarnessTypeCorrectness == Spec => []TypeOK
  <1>1. IInv => TypeOK
    BY DEF IInv
  <1>2. QED
    BY <1>1, HarnessInvariance, PTL

\* A green harness: on every vector of the suite, of any length, the two tools
\* agree, and with the anchor.
THEOREM GreenMeansConformant == Spec => []CleanExitMeansConformant
  <1>1. IInv => CleanExitMeansConformant
    <2> SUFFICES ASSUME IInv, exitCode = "exit 0", NEW i \in DOMAIN suite
                 PROVE  /\ Readable(suite[i]) /\ GoCli(suite[i]) = TsCli(suite[i])
                        /\ Matches(GoCli(suite[i]), suite[i].anchor)
      BY DEF CleanExitMeansConformant
    <2>1. next = Len(suite) + 1 /\ \A j \in DOMAIN results : results[j] = "PASS"
      BY DEF IInv, ExitCodeSumsUp
    <2>2. i \in DOMAIN results
      BY <2>1, OutcomesOfPrefix
    <2>3. Shows(results[i], suite[i])
      BY <2>2 DEF IInv
    <2>4. QED
      BY <2>1, <2>2, <2>3 DEF Shows
  <1>2. QED
    BY <1>1, HarnessInvariance, PTL

\* A red harness has its reason in the suite or in a binary that failed to run.
THEOREM RedIsJustified == Spec => []RedExitIsJustified
  <1>1. IInv => RedExitIsJustified
    <2> SUFFICES ASSUME IInv, exitCode = "exit 1" PROVE RedExitIsJustified
      BY DEF RedExitIsJustified
    <2>1. CASE next <= Len(suite) /\ ~Readable(suite[next])
      <3>1. next \in DOMAIN suite
        BY <2>1, OutcomesOfPrefix
      <3>2. QED
        BY <2>1, <3>1 DEF RedExitIsJustified
    <2>2. ASSUME NEW i \in DOMAIN results, results[i] # "PASS"
          PROVE  RedExitIsJustified
      <3>0. i \in DOMAIN suite
        BY OutcomesOfPrefix
      <3>1. results[i] \in {"RUNERR", "DIVERGE", "ANCHOR"}
        BY <2>2, OutcomesOfPrefix DEF Outcomes
      <3>2. Shows(results[i], suite[i])
        BY DEF IInv
      <3>3. QED
        BY <3>0, <3>1, <3>2 DEF Shows, RedExitIsJustified
    <2>3. QED
      BY <2>1, <2>2 DEF IInv, ExitCodeSumsUp
  <1>2. QED
    BY <1>1, HarnessInvariance, PTL

\* No vector that follows the contract, and whose data is of its type, divides
\* the two tools, whichever command it calls.
THEOREM PlainVectorsNeverDiverge ==
    ASSUME \A s \in Suites : \A i \in DOMAIN s : PlainInvocation(s[i]) => Typed(s[i])
    PROVE  Spec => []PlainVectorsAgree
  <1>1. IInv => PlainVectorsAgree
    <2> SUFFICES ASSUME IInv, {goOut, tsOut} \cap {NoOutput, RunError} = {},
                        PlainInvocation(Vector)
                 PROVE  goOut = tsOut
      BY DEF PlainVectorsAgree
    <2>1. goOut = GoCli(Vector) /\ tsOut = TsCli(Vector) /\ next <= Len(suite)
      BY DEF IInv, HeldOutputs
    <2>2. next \in DOMAIN suite
      BY <2>1, OutcomesOfPrefix
    <2>3. Typed(Vector)
      BY <2>2 DEF IInv, Vector
    <2>4. QED
      BY <2>1, <2>3, CliAgreement
  <1>2. QED
    BY <1>1, HarnessInvariance, PTL
==============================================================================

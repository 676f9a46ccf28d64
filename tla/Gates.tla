------------------------------- MODULE Gates --------------------------------
(***************************************************************************)
(* The gates a candidate passes: Phase B verifies it in a sandbox          *)
(* (phase_b_orchestrator.ts), Phase C decides on its promotion             *)
(* (phase_c_orchestrator.ts). Operators only; Measures runs them.          *)
(*                                                                         *)
(* A metrics snapshot has the stability index, in thousandths, and the     *)
(* time saved. The other three metrics are null in every sandbox of the    *)
(* repository ("A3"), and a metric that is null is not predicted.          *)
(***************************************************************************)
EXTENDS Integers, FiniteSets

CONSTANT Null       \* a metric that was not measured, a claim not made

SecurityInvariants == {"INV-003", "INV-005"}
BlastRank == [SELF |-> 0, TENANT |-> 1, GLOBAL |-> 2]

\* stability_delta_noise_floor
NoiseFloor == 10

-----------------------------------------------------------------------------
(* Phase B                                                                   *)

\* The first of the declared invariants that fails.
FirstFailing(invariants, failing) ==
    LET positions == {i \in DOMAIN invariants : invariants[i] \in failing}
    IN  IF positions = {} THEN "none"
        ELSE invariants[CHOOSE i \in positions : \A j \in positions : i <= j]

Accuracy(actual, predicted) ==
    IF predicted = Null \/ actual = Null THEN "not_predicted"
    ELSE IF actual >= predicted THEN "met" ELSE "missed"

StabilityOk(pre, post) == pre.stability = 0 \/ post.stability - pre.stability >= -NoiseFloor

\* Gate 2. A claim fails it only when it was measured and missed.
OutcomePassed(pre, post, claim) ==
    StabilityOk(pre, post) /\ Accuracy(post.saved, claim) # "missed"

\* The class of a failed gate 2: the sign of the stability delta decides first,
\* and the last two need a claim that was predicted and not met.
OutcomeRejection(pre, post) ==
    IF post.stability < pre.stability THEN "STABILITY_REGRESSION"
    ELSE IF post.saved = Null THEN "MEASUREMENT_ENV_INVALID" ELSE "PREDICTION_OVERCLAIM"

\* Gate 3. Declared tests rule out the claim to be orthogonal.
NoRegressionPassed(candidate, tests, orthogonality) ==
    IF candidate.declaresTests THEN tests # "fail"
    ELSE candidate.orthogonal => orthogonality # "refuted"

\* One candidate through the sandbox, whose answers are given: the first of the
\* screens and gates that stops it, or "verified".
RunPhaseBForCandidate(candidate, ceiling, answer) ==
    LET stops == << <<~candidate.hasDiff, "skipped">>,
                    <<BlastRank[candidate.blast] > BlastRank[ceiling], "BLAST_RADIUS_EXCEEDED">>,
                    <<~answer.opens \/ ~answer.applies, "SANDBOX_EXECUTION_ERROR">>,
                    <<FirstFailing(candidate.invariants, answer.failing) # "none", "INVARIANT_VIOLATION">>,
                    <<~OutcomePassed(answer.pre, answer.post, candidate.claim),
                      OutcomeRejection(answer.pre, answer.post)>>,
                    <<~NoRegressionPassed(candidate, answer.tests, answer.orthogonality),
                      "REGRESSION_TEST_FAILURE">>,
                    <<TRUE, "verified">> >>
    IN  stops[CHOOSE i \in DOMAIN stops : stops[i][1] /\ \A j \in 1..(i - 1) : ~stops[j][1]][2]

\* The ledger code of a rejection; the rules in their order. F-003 needs an
\* entry of its own code that names the invariant.
FailureLedgerWrite(class, candidate, failing, ledger) ==
    CASE class = "INVARIANT_VIOLATION" ->
           IF failing \in SecurityInvariants THEN "F-001"
           ELSE IF [code |-> "F-003", names |-> failing] \in ledger THEN "F-003" ELSE "none"
      [] class = "REGRESSION_TEST_FAILURE" -> IF candidate.deletes THEN "F-002" ELSE "none"
      [] class = "PREDICTION_OVERCLAIM" ->
           IF candidate.claim # Null /\ candidate.claim > 0 THEN "F-004" ELSE "none"
      [] class = "MEASUREMENT_ENV_INVALID" -> "F-009"
      [] OTHER -> "none"

\* One entry per code: a code that is there keeps the constraint it came with.
ApplyFailureLedgerWrite(ledger, code, failing) ==
    IF code = "none" \/ \E e \in ledger : e.code = code THEN ledger
    ELSE ledger \cup {[code |-> code, names |-> IF code = "F-001" THEN failing ELSE "none"]}

\* Infrastructure failures block nothing.
BlockEvent(class) ==
    CASE class \in {"SANDBOX_EXECUTION_ERROR", "verified", "skipped"} -> "none"
      [] class = "INVARIANT_VIOLATION" -> "INV_VIOLATION_REJECT"
      [] class = "BLAST_RADIUS_EXCEEDED" -> "BLAST_RADIUS_QUARANTINE"
      [] OTHER -> "PROMOTION_GATE_FAIL"

-----------------------------------------------------------------------------
(* Phase C                                                                   *)

SystemStabilityFloor == 550

SystemGate(snapshot) ==
    /\ snapshot.stability >= SystemStabilityFloor
    /\ snapshot.invariantFailures = 0
    /\ "INV_VIOLATION_REJECT" \notin snapshot.events

\* Mutant: P-01 only.
PatchGate_BlastOnly(patch) ==
    IF patch.candidate.blast = "GLOBAL" THEN "DEFERRED_HUMAN" ELSE "PROMOTED"

\* P-01 decides before P-02.
PatchGate(patch) ==
    IF patch.candidate.blast = "GLOBAL" THEN "DEFERRED_HUMAN"
    ELSE IF patch.delta >= 0 THEN "PROMOTED" ELSE "DEFERRED_STABILITY"

Disposition(patch, snapshot, driftBlocks) ==
    IF driftBlocks \/ ~SystemGate(snapshot) THEN "DEFERRED_STABILITY" ELSE PatchGate(patch)

=============================================================================

--------------------------- MODULE ComparisonGate ---------------------------
(***************************************************************************)
(* tools/comparison_gate_cli.ts: a run judges the comparison table by a    *)
(* policy (renderer-react/src/app/comparison_loader.ts), asks for a freeze *)
(* when it rejects it or the change since the table before is too risky,   *)
(* writes its result, and appends it to a ledger each line of which names  *)
(* the hash of the line above.  One run at a time; a run may die anywhere, *)
(* and a write may be cut short.                                           *)
(*                                                                         *)
(* A table is a set of rows [axis, openclaw, agos], of which the last two  *)
(* are cells. Weights, scores and impacts are in hundredths.               *)
(***************************************************************************)
EXTENDS Integers, Sequences
LOCAL INSTANCE FiniteSetsExt

CONSTANTS
    Tables,         \* comparison_data.json, from run to run
    Profiles,       \* policies as they are written: records of some of the fields
    NoTable,        \* no --previous
    NoResult,
    MaxGateRuns     \* bound: runs

VARIABLES
    gate,           \* the run: [step, result]; a result has its run, its prev, and what was found
    decisions,      \* decision_log.jsonl: lines [result, readable]
    unended,        \* the last line lacks its newline
    gate_result,    \* comparison_gate_result.latest.json
    frozen,         \* system_freeze.requested is there
    gate_runs,      \* runs so far
    gate_upset      \* has something failed? (bound: once)

comparison_vars == <<gate, decisions, unended, gate_result, frozen, gate_runs, gate_upset>>

IdleGate == [step |-> "idle", result |-> NoResult]

ComparisonInit ==
    /\ gate = IdleGate
    /\ decisions = <<>> /\ unended = FALSE
    /\ gate_result = NoResult /\ frozen = FALSE
    /\ gate_runs = 0 /\ gate_upset = FALSE

-----------------------------------------------------------------------------
(* Evidence                                                                  *)

RoundedTo(num, den) == (2 * num + den) \div (2 * den)

TypeWeight == [official_docs |-> 100, security_report |-> 90, paper |-> 85, issue |-> 75, analysis |-> 65]
ScopeWeight == [runtime |-> 100, extension |-> 90, inference |-> 70]

ScoreEvidence(e) == RoundedTo(TypeWeight[e.type] * ScopeWeight[e.scope] * e.confidence, 10000)

ScoreEvidences(es) ==
    IF es = <<>> THEN 0
    ELSE RoundedTo(MapThenSumSet(LAMBDA i : ScoreEvidence(es[i]), DOMAIN es), Len(es))

\* What a cell claims against what it shows, as severities.
CellConflicts(cell, policy) ==
    LET some(field, value) == \E i \in DOMAIN cell.evidences : cell.evidences[i][field] = value
        analysisOnly == \A i \in DOMAIN cell.evidences : cell.evidences[i].type = "analysis"
        low == ScoreEvidences(cell.evidences) < policy.score_threshold
    IN     {s \in {"error"} : \/ cell.status = "implemented" /\ (analysisOnly \/ some("scope", "inference") \/ low)
                              \/ cell.status = "inferred" /\ ~some("scope", "inference")}
      \cup {s \in {"warn"} : \/ cell.status = "specified" /\ some("scope", "runtime")
                             \/ cell.status # "implemented" /\ low}

Conflicts(table, policy) == UNION {CellConflicts(row[side], policy) : row \in table, side \in {"openclaw", "agos"}}

-----------------------------------------------------------------------------
(* Policy                                                                    *)

DefaultPolicy ==
    [score_threshold |-> 60, reject_on_error |-> TRUE, review_required_on_warn |-> TRUE,
     freeze_on_risk_levels |-> {"high", "critical"},
     requires_human_on_decisions |-> {"REVIEW_REQUIRED", "REJECT"}]

\* A field that is missing or out of range is the default's; so is an empty list of
\* levels to freeze on, while an empty list of decisions for a human stands.
NormalizePolicy(raw) ==
    [f \in DOMAIN DefaultPolicy |->
        IF \/ f \notin DOMAIN raw
           \/ f = "score_threshold" /\ raw[f] \notin 0..100
           \/ f = "freeze_on_risk_levels" /\ raw[f] = {}
        THEN DefaultPolicy[f] ELSE raw[f]]

\* Errors that do not reject count for nothing: they are not even reviewed.
EnforceComparisonPolicy(table, policy) ==
    LET found == Conflicts(table, policy)
    IN  IF policy.reject_on_error /\ "error" \in found THEN "REJECT"
        ELSE IF policy.review_required_on_warn /\ "warn" \in found THEN "REVIEW_REQUIRED" ELSE "ACCEPT"

-----------------------------------------------------------------------------
(* The change since the table before                                         *)

ImpactOf ==
    [label |-> 5, mechanism |-> 20, status |-> 20, detail |-> 10, evidences |-> 25,
     type |-> 15, ref |-> 5, confidence |-> 15, scope |-> 15, note |-> 5, owner |-> 15, last_verified |-> 10]

\* A field of the evidences counts once, however many of them it changed in, and
\* those only one of the cells has not at all.
CellDiff(before, after) ==
    LET both == DOMAIN before.evidences \cap DOMAIN after.evidences
    IN  {f \in {"label", "mechanism", "status", "detail"} : before[f] # after[f]}
        \cup {f \in {"evidences"} : Len(before.evidences) # Len(after.evidences)}
        \cup {f \in {"type", "ref", "confidence", "scope", "note", "owner", "last_verified"} :
                \E i \in both : before.evidences[i][f] # after.evidences[i][f]}

CalculateImpact(changes) ==
    LET sum == MapThenSumSet(LAMBDA f : ImpactOf[f], changes) IN IF sum > 100 THEN 100 ELSE sum

RiskFromImpact(score) ==
    CASE score >= 75 -> "critical"
      [] score >= 50 /\ score < 75 -> "high"
      [] score >= 25 /\ score < 50 -> "medium"
      [] OTHER -> "low"

\* The worst cell of the rows both tables have: a row that was added or removed
\* changes nothing.
HighestRisk(before, after) ==
    LET both == {p \in before \X after : p[1].axis = p[2].axis}
        impacts == {0} \cup {CalculateImpact(CellDiff(p[1][side], p[2][side])) :
                               p \in both, side \in {"openclaw", "agos"}}
    IN  RiskFromImpact(CHOOSE i \in impacts : \A j \in impacts : j <= i)

-----------------------------------------------------------------------------
(* A run                                                                     *)

\* A dry run freezes nothing, and says so.
RunGate ==
    /\ gate.step = "idle" /\ gate_runs < MaxGateRuns
    /\ gate_runs' = gate_runs + 1
    /\ \E table \in Tables, before \in Tables \cup {NoTable}, raw \in Profiles, dry \in BOOLEAN :
         LET policy == NormalizePolicy(raw)
             decision == EnforceComparisonPolicy(table, policy)
             risky == before # NoTable /\ HighestRisk(before, table) \in policy.freeze_on_risk_levels
         IN  gate' = [step |-> "freeze",
                      result |-> [run |-> gate_runs', prev |-> 0, decision |-> decision,
                                  freeze |-> decision = "REJECT" \/ risky, dry |-> dry,
                                  human |-> decision \in policy.requires_human_on_decisions]]
    /\ UNCHANGED <<decisions, unended, gate_result, frozen, gate_upset>>

TriggerSystemFreeze ==
    /\ gate.step = "freeze"
    /\ frozen' = (frozen \/ (gate.result.freeze /\ ~gate.result.dry))
    /\ gate' = [gate EXCEPT !.step = "write"]
    /\ UNCHANGED <<decisions, unended, gate_result, gate_runs, gate_upset>>

WriteGateResult ==
    /\ gate.step = "write"
    /\ gate_result' = gate.result
    /\ gate' = [gate EXCEPT !.step = "append"]
    /\ UNCHANGED <<decisions, unended, frozen, gate_runs, gate_upset>>

\* Mutant: a last line that cannot be read counts as none.
LastLedgerHash_Lenient ==
    IF decisions = <<>> THEN {0}
    ELSE IF decisions[Len(decisions)].readable THEN {decisions[Len(decisions)].result.run} ELSE {0}

\* A line is known by its run, time being part of what is hashed. There is no hash
\* to follow when the last line cannot be parsed: the run throws.
LastLedgerHash ==
    IF decisions = <<>> THEN {0}
    ELSE {d.result.run : d \in {d \in {decisions[Len(decisions)]} : d.readable}}

\* A line after one without newline is glued to it, and neither can be read.
AppendDecisionLedger ==
    /\ gate.step = "append"
    /\ \E prev \in LastLedgerHash :
         LET line == [result |-> [gate.result EXCEPT !.prev = prev], readable |-> ~unended]
         IN  decisions' = Append(IF unended THEN SubSeq(decisions, 1, Len(decisions) - 1) ELSE decisions, line)
    /\ unended' = FALSE
    /\ gate' = IdleGate
    /\ UNCHANGED <<gate_result, frozen, gate_runs, gate_upset>>

LedgerUnreadable ==
    /\ gate.step = "append" /\ LastLedgerHash = {}
    /\ gate' = IdleGate
    /\ UNCHANGED <<decisions, unended, gate_result, frozen, gate_runs, gate_upset>>

\* The run dies, or its freeze command fails. Of its result, or of its line, perhaps
\* a part was written, or of the line all but the newline.
RunDies ==
    /\ gate.step # "idle" /\ ~gate_upset /\ gate_upset' = TRUE
    /\ gate' = IdleGate
    /\ gate_result' \in IF gate.step = "write" THEN {gate_result, NoResult} ELSE {gate_result}
    /\ \/ UNCHANGED <<decisions, unended>>
       \/ /\ gate.step = "append"
          /\ \E prev \in LastLedgerHash, whole \in BOOLEAN :
               decisions' = Append(decisions, [result |-> [gate.result EXCEPT !.prev = prev], readable |-> whole])
          /\ unended' = TRUE
    /\ UNCHANGED <<frozen, gate_runs>>

ComparisonNext ==
    \/ RunGate \/ TriggerSystemFreeze \/ WriteGateResult \/ AppendDecisionLedger \/ LedgerUnreadable \/ RunDies

ComparisonSpec == ComparisonInit /\ [][ComparisonNext]_comparison_vars

-----------------------------------------------------------------------------
\* The ledger is evidence: wherever a run died and whatever was cut short, each line
\* that can be read names the line above, which can be read too, so that nothing was
\* taken out unseen; what it says should freeze is frozen; and while nothing failed,
\* the result file is what its last line says.
DecisionsChained ==
    /\ \A i \in DOMAIN decisions :
         LET line == decisions[i]
         IN  line.readable =>
             /\ IF i = 1 THEN line.result.prev = 0
                ELSE decisions[i - 1].readable /\ line.result.prev = decisions[i - 1].result.run
             /\ line.result.freeze => line.result.dry \/ frozen
    /\ gate.step = "idle" /\ ~gate_upset /\ decisions # <<>> =>
         gate_result.run = decisions[Len(decisions)].result.run

=============================================================================

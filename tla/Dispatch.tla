------------------------------ MODULE Dispatch ------------------------------
(***************************************************************************)
(* The dispatch gate and its weekly watch. The orchestrator                *)
(* (dynamic_prompt_orchestrator.ts) hands a request on only after its      *)
(* record was validated and audited; the telemetry CLI counts the audit    *)
(* log; the watcher (watch_week2_baseline_fixation.py) turns the counts    *)
(* and the review baseline into a gate, records it, and reports how the    *)
(* records changed since the run before. The three share files only.       *)
(*                                                                         *)
(* Times are tenths of an hour.                                            *)
(***************************************************************************)
EXTENDS Integers, Sequences, FiniteSets, TLC

CONSTANTS
    Requests,       \* [operation, blast, context] of a request
    Rejections,     \* the rejection ledger, in its order: [blast, risk, days, corrected]
    MaxPrecedents,  \* rejections a capsule names (5 in the code)
    Prohibitions,   \* number of active high rules of the constitution
    Reviews,        \* queued reviews: review -> [created, queued], before the window's end
    ReviewTimes,    \* when a review may be completed, before the window's end
    None,
    MaxRequests,    \* bound: requests
    MaxWatches      \* bound: runs of the watcher

RiskOrder == <<"low", "medium", "high", "critical">>

ASSUME DispatchInputs ==
    /\ Rejections \in Seq([blast : {"SELF", "TENANT", "GLOBAL"}, risk : {"low", "medium", "high", "critical"},
                           days : Nat, corrected : BOOLEAN])
    /\ MaxPrecedents \in Nat \ {0}

VARIABLES
    call,           \* the orchestrator: [step, request, reason]
    requests,       \* requests so far
    audit,          \* dispatch.audit.jsonl: [event, result, readable]
    fragment,       \* does the file end in the torn beginning of a line?
    delivered,      \* records given to the dispatch callback
    telemetry,      \* dispatch_audit_metrics.latest.json
    completed,      \* review_queue.csv: review -> completion time or None
    watch,          \* the watcher: [step, record, before, after]
    artifact,       \* post_gate_action.latest.json
    gates,          \* post_gate_action.audit.jsonl
    latest,         \* post_gate_action_metrics.latest.json
    previous,       \* post_gate_action_metrics.previous.json
    report,         \* the trend of WEEK2_REPORT_TEMPLATE.md
    upset           \* has something failed? (bound: once)

caller_vars == <<call, requests, audit, fragment, delivered>>
watcher_vars == <<watch, artifact, gates, latest, previous, report>>
dispatch_vars == <<caller_vars, telemetry, completed, watcher_vars, upset>>

IdleWatch == [step |-> "idle", record |-> None, before |-> None, after |-> None]

DispatchInit ==
    /\ call = [step |-> "idle", request |-> None, reason |-> "none"] /\ requests = 0
    /\ audit = <<>> /\ fragment = FALSE /\ delivered = {}
    /\ telemetry = None
    /\ completed = [r \in DOMAIN Reviews |-> None]
    /\ watch = IdleWatch
    /\ artifact = None /\ gates = <<>>
    /\ latest = None /\ previous = None /\ report = None
    /\ upset = FALSE

-----------------------------------------------------------------------------
(* The orchestrator                                                          *)

RankOf(risk) == CHOOSE i \in 1..4 : RiskOrder[i] = risk

\* A deletion outranks a modification, a wider blast radius a smaller one.
RiskLevel(request) ==
    LET wide == CASE request.blast = "GLOBAL" -> 2 [] request.blast = "TENANT" -> 1 [] OTHER -> 0
    IN  CASE request.operation = "DELETE" -> RiskOrder[2 + wide]
          [] request.operation = "UPDATE" -> RiskOrder[1 + wide]
          [] OTHER -> "low"

\* The rejections the request is compared with.
HardFilter(request) ==
    {i \in DOMAIN Rejections :
        LET t == Rejections[i]
        IN  /\ ~t.corrected /\ t.blast = request.blast /\ t.days <= 90
            /\ RankOf(t.risk) <= RankOf(RiskLevel(request))}

Uncorrected == {i \in DOMAIN Rejections : ~Rejections[i].corrected}

Ahead(i) == {j \in Uncorrected : j < i}

\* At high risk the first uncorrected rejections, whatever they are about.
NegativePrecedents(request) ==
    IF RiskLevel(request) \notin {"high", "critical"} THEN {}
    ELSE {i \in Uncorrected : Cardinality(Ahead(i)) < MaxPrecedents}

\* They become one capsule of the prompt, and every active high rule another.
InjectedCapsules(request) ==
    IF RiskLevel(request) \notin {"high", "critical"} THEN 0
    ELSE Prohibitions + (IF Uncorrected # {} THEN 1 ELSE 0)

Orchestrate ==
    /\ call.step = "idle" /\ requests < MaxRequests
    /\ \E r \in Requests : call' = [step |-> "validate", request |-> r, reason |-> "none"]
    /\ requests' = requests + 1
    /\ UNCHANGED <<audit, fragment, delivered, telemetry, completed, watcher_vars, upset>>

\* Why a request is refused: without its context, or with a run_id whose
\* colon breaks the pattern of the idempotency key.
Refusal(request) ==
    CASE request.context = "missing" -> "missing_required_context"
      [] request.context = "colon" -> "schema_validation_failed"
      [] OTHER -> "none"

\* A line after a fragment is glued to it, and neither can be parsed.
AppendAudit(result) ==
    /\ audit' = Append(audit, [event |-> requests, result |-> result, readable |-> ~fragment])
    /\ fragment' = FALSE

ValidateAndAudit ==
    /\ call.step = "validate" /\ Refusal(call.request) = "none"
    /\ AppendAudit("validated")
    /\ call' = [call EXCEPT !.step = "dispatch"]
    /\ UNCHANGED <<requests, delivered, telemetry, completed, watcher_vars, upset>>

Refuse ==
    /\ call.step = "validate" /\ Refusal(call.request) # "none"
    /\ call' = [call EXCEPT !.step = "refused", !.reason = Refusal(call.request)]
    /\ UNCHANGED <<requests, audit, fragment, delivered, telemetry, completed, watcher_vars, upset>>

AuditFailure ==
    /\ call.step = "refused"
    /\ AppendAudit(call.reason)
    /\ call' = [call EXCEPT !.step = "idle"]
    /\ UNCHANGED <<requests, delivered, telemetry, completed, watcher_vars, upset>>

\* Mutant: a log that cannot be written does not stop the dispatch.
AppendFails_Swallowed ==
    /\ ~upset /\ upset' = TRUE
    /\ fragment' \in {fragment, TRUE}
    /\ \/ call.step = "validate" /\ Refusal(call.request) = "none" /\ call' = [call EXCEPT !.step = "dispatch"]
       \/ call.step = "refused" /\ call' = [call EXCEPT !.step = "idle"]
    /\ UNCHANGED <<requests, audit, delivered, telemetry, completed, watcher_vars>>

\* The append of a line throws, perhaps half-way: the request is refused, which
\* is audited in turn; when that fails too, only the caller hears of it.
AppendFails ==
    /\ ~upset /\ upset' = TRUE
    /\ fragment' \in {fragment, TRUE}
    /\ \/ /\ call.step = "validate" /\ Refusal(call.request) = "none"
          /\ call' = [call EXCEPT !.step = "refused", !.reason = "unknown_dispatch_failure"]
       \/ call.step = "refused" /\ call' = [call EXCEPT !.step = "idle"]
    /\ UNCHANGED <<requests, audit, delivered, telemetry, completed, watcher_vars>>

OrchestrateAndDispatch ==
    /\ call.step = "dispatch"
    /\ \E accepted \in BOOLEAN :   \* the callback may throw instead
         delivered' = IF accepted
                      THEN delivered \cup {[event |-> requests, request |-> call.request,
                                            filtered |-> Cardinality(HardFilter(call.request)),
                                            precedents |-> NegativePrecedents(call.request),
                                            injected |-> InjectedCapsules(call.request)]}
                      ELSE delivered
    /\ call' = [call EXCEPT !.step = "idle"]
    /\ UNCHANGED <<requests, audit, fragment, telemetry, completed, watcher_vars, upset>>

CallerDies ==
    /\ call.step # "idle" /\ ~upset /\ upset' = TRUE
    /\ call' = [call EXCEPT !.step = "idle"]
    /\ fragment' \in IF call.step = "dispatch" THEN {fragment} ELSE {fragment, TRUE}
    /\ UNCHANGED <<requests, audit, delivered, telemetry, completed, watcher_vars>>

-----------------------------------------------------------------------------
(* The telemetry CLI and the review queue                                    *)

Readable(lines) == {i \in DOMAIN lines : lines[i].readable}

CountDispatches ==
    /\ telemetry' =
         LET parsed == Readable(audit)
         IN  [read |-> Len(audit),
              parsed |-> Cardinality(parsed),
              ready |-> Cardinality({i \in parsed : audit[i].result = "validated"}),
              failed |-> Cardinality({i \in parsed : audit[i].result # "validated"}),
              missing |-> Cardinality({i \in parsed : audit[i].result = "missing_required_context"})]
    /\ UNCHANGED <<caller_vars, completed, watcher_vars, upset>>

CompleteReview ==
    /\ \E r \in DOMAIN Reviews, t \in ReviewTimes :
         completed[r] = None /\ completed' = [completed EXCEPT ![r] = t]
    /\ UNCHANGED <<caller_vars, telemetry, watcher_vars, upset>>

-----------------------------------------------------------------------------
(* The watcher                                                               *)

\* Ten times the q-th tenth of values, interpolated between neighbours.
Quantile(values, q) ==
    LET sorted == SortSeq(values, <=)
        at == q * (Len(values) - 1)
        below == at \div 10 + 1
        above == IF below < Len(values) THEN below + 1 ELSE below
    IN  10 * sorted[below] + (at % 10) * (sorted[above] - sorted[below])

Band(value, limit) ==
    CASE value > 10 * limit -> "out_of_bound"
      [] value <= 10 * limit /\ value >= 9 * limit -> "near_bound"
      [] OTHER -> "within_bound"

ValuesOf(rs, value(_)) ==
    LET order[s \in SUBSET rs] ==
          IF s = {} THEN <<>> ELSE LET r == CHOOSE r \in s : TRUE IN Append(order[s \ {r}], value(r))
    IN  order[rs]

Done == {r \in DOMAIN Reviews : completed[r] # None}
Waiting == DOMAIN Reviews \ Done

\* Pending until a review is completed; the worst band of the three after it.
BaselineAssessment ==
    IF Done = {} THEN "pending"
    ELSE LET cycles == ValuesOf(Done, LAMBDA r : Reviews[r].created - completed[r])
             ages == ValuesOf(Waiting, LAMBDA r : Reviews[r].queued)
             bands == {Band(Quantile(cycles, 5), 480), Band(Quantile(ages, 5), 180), Band(Quantile(ages, 9), 360)}
         IN  CASE "out_of_bound" \in bands -> "out_of_bound"
               [] "out_of_bound" \notin bands /\ "near_bound" \in bands -> "near_bound"
               [] OTHER -> "within_bound"

\* Mutant: any failure is a review, and only without one is attention asked for.
Signal_ReviewFirst ==
    CASE telemetry = None -> "ok"
      [] telemetry # None /\ telemetry.failed > 0 -> "review_required"
      [] telemetry # None /\ telemetry.failed = 0 /\ telemetry.missing > 0 -> "hard_attention"
      [] OTHER -> "ok"

\* No telemetry counts as no failure.
Signal ==
    CASE telemetry = None -> "ok"
      [] telemetry # None /\ telemetry.missing > 0 -> "hard_attention"
      [] telemetry # None /\ telemetry.missing = 0 /\ (telemetry.ready < telemetry.parsed \/ telemetry.failed > 0)
           -> "review_required"
      [] OTHER -> "ok"

GateStatus(baseline, signal) ==
    IF signal = "hard_attention" THEN "ATTENTION_REQUIRED"
    ELSE CASE baseline = "within_bound" -> "PASS"
           [] baseline = "near_bound" -> "WATCH"
           [] baseline = "out_of_bound" -> "FAIL"
           [] OTHER -> "PENDING_BASELINE"

\* The first that applies.
RequiredAction(status, signal) ==
    IF status = "ATTENTION_REQUIRED" THEN "manual_review_required"
    ELSE IF signal = "review_required" THEN "add_weekly_review_note"
    ELSE IF status = "PENDING_BASELINE" THEN "wait_for_baseline_completion"
    ELSE IF telemetry = None \/ telemetry.parsed = 0 THEN "monitor_dispatch_data"
    ELSE "none"

\* With every review completed there is no queue to have an age, and the run
\* throws before it has written anything.
RunOnce ==
    /\ watch.step = "idle" /\ Len(gates) < MaxWatches
    /\ Done = {} \/ Waiting # {}
    /\ LET status == GateStatus(BaselineAssessment, Signal)
       IN  watch' = [step |-> "artifact", before |-> None, after |-> None,
                     record |-> [status |-> status, action |-> RequiredAction(status, Signal),
                                 read |-> IF telemetry = None THEN 0 ELSE telemetry.read]]
    /\ UNCHANGED <<caller_vars, telemetry, completed, artifact, gates, latest, previous, report, upset>>

SaveArtifact ==
    /\ watch.step = "artifact"
    /\ artifact' = watch.record
    /\ watch' = [watch EXCEPT !.step = "audit"]
    /\ UNCHANGED <<caller_vars, telemetry, completed, gates, latest, previous, report, upset>>

AppendGateAudit ==
    /\ watch.step = "audit"
    /\ gates' = Append(gates, watch.record)
    /\ watch' = [watch EXCEPT !.step = "previous"]
    /\ UNCHANGED <<caller_vars, telemetry, completed, artifact, latest, previous, report, upset>>

\* The counts over the first n records.
MetricsOf(n) ==
    [total |-> n,
     statuses |-> [s \in {gates[i].status : i \in 1..n} |-> Cardinality({i \in 1..n : gates[i].status = s})]]

\* What was latest becomes previous; without a latest, previous stays.
RefreshPrevious ==
    /\ watch.step = "previous"
    /\ previous' = IF latest # None THEN latest ELSE previous
    /\ watch' = [watch EXCEPT !.step = "latest", !.before = previous']
    /\ UNCHANGED <<caller_vars, telemetry, completed, artifact, gates, latest, report, upset>>

RefreshLatest ==
    /\ watch.step = "latest"
    /\ latest' = MetricsOf(Len(gates))
    /\ watch' = [watch EXCEPT !.step = "report", !.after = latest']
    /\ UNCHANGED <<caller_vars, telemetry, completed, artifact, gates, previous, report, upset>>

\* A write that fails, or is cut short, leaves the file as it was or unreadable,
\* which counts as absent. The watcher goes on without metrics, or dies with it.
RefreshFails ==
    /\ ~upset /\ upset' = TRUE
    /\ \/ watch.step = "previous" /\ latest # None /\ previous' \in {previous, None} /\ UNCHANGED latest
       \/ watch.step = "latest" /\ latest' \in {latest, None} /\ UNCHANGED previous
    /\ watch' \in {IdleWatch, [watch EXCEPT !.step = "report", !.before = None]}
    /\ UNCHANGED <<caller_vars, telemetry, completed, artifact, gates, report>>

\* The trend is unavailable without both snapshots.
UpdateTemplate ==
    /\ watch.step = "report"
    /\ report' = IF watch.before = None \/ watch.after = None THEN None
                 ELSE [since |-> watch.before.total, delta |-> watch.after.total - watch.before.total,
                       changed |-> {s \in DOMAIN watch.after.statuses :
                                      s \notin DOMAIN watch.before.statuses
                                      \/ watch.after.statuses[s] # watch.before.statuses[s]}]
    /\ watch' = IdleWatch
    /\ UNCHANGED <<caller_vars, telemetry, completed, artifact, gates, latest, previous, upset>>

WatcherDies ==
    /\ watch.step \in {"artifact", "audit", "previous", "latest", "report"}
    /\ ~upset /\ upset' = TRUE
    /\ watch' = IdleWatch
    /\ UNCHANGED <<caller_vars, telemetry, completed, artifact, gates, latest, previous, report>>

DispatchNext ==
    \/ Orchestrate \/ ValidateAndAudit \/ Refuse \/ AuditFailure \/ AppendFails
    \/ OrchestrateAndDispatch \/ CallerDies
    \/ CountDispatches \/ CompleteReview
    \/ RunOnce \/ SaveArtifact \/ AppendGateAudit \/ RefreshPrevious \/ RefreshLatest
    \/ RefreshFails \/ UpdateTemplate \/ WatcherDies

DispatchSpec == DispatchInit /\ [][DispatchNext]_dispatch_vars

-----------------------------------------------------------------------------
(* Properties                                                                *)

\* A record reaches the callback only with an audit line of its own that says it
\* was validated, and no line that says it was not, whatever append failed; the
\* line is lost to a reader only when something had failed. Of the requests that
\* reach it, one that deletes or changes something global was put with every active
\* high rule and a capsule of uncorrected rejections, which leaves one out only when
\* as many as it holds come before it in the ledger, relevant or not.
DeliveredIsAudited ==
    \A d \in delivered :
        /\ \E i \in DOMAIN audit : /\ audit[i].event = d.event /\ audit[i].result = "validated"
                                   /\ ~upset => audit[i].readable
        /\ \A i \in DOMAIN audit : audit[i].event = d.event => audit[i].result = "validated"
        /\ d.request.blast = "GLOBAL" /\ d.request.operation \in {"DELETE", "UPDATE"} =>
              /\ d.injected = Prohibitions + (IF Uncorrected # {} THEN 1 ELSE 0)
              /\ d.precedents \subseteq Uncorrected
              /\ \A i \in Uncorrected \ d.precedents : Cardinality(Ahead(i)) >= MaxPrecedents

\* What the gate says is what the orchestrator did: a recorded gate asks for
\* attention exactly when the log it was computed from shows a dispatch without
\* context, and asks for nothing only when that log shows dispatches and every
\* one was validated.
RefusalsReachGate ==
    \A g \in DOMAIN gates :
        LET seen == SubSeq(audit, 1, gates[g].read)
        IN  /\ gates[g].action = "manual_review_required" <=>
                  \E i \in Readable(seen) : seen[i].result = "missing_required_context"
            /\ gates[g].action = "none" =>
                  /\ Readable(seen) # {}
                  /\ \A i \in Readable(seen) : seen[i].result = "validated"

=============================================================================

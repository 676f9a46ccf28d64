---------------------------- MODULE OpenClawQueue ----------------------------
(***************************************************************************)
(* External candidates: tools/openclaw_cli.ts decides a request with       *)
(* evaluateGateway of openclaw_gateway.ts and appends it to a queue file;  *)
(* loadOpenClawCandidates of nightly_loop_runner.ts takes the file at the  *)
(* end of HYPOTHESIZING.  Each request is one CLI process; the CLIs, the   *)
(* runner and its crashes interleave at every file access.                 *)
(***************************************************************************)
EXTENDS OpenClawGateway, Integers, Sequences

CONSTANTS
    Requests,        \* the requests ever submitted
    MaxCycles,       \* bound: nightly cycles
    MaxCrashes,      \* bound: crashes of the runner
    AuditMayFail,    \* may the append to the audit log fail?
    RenameMayFail    \* may the rename of the queue file fail?

\* What the rules look at; good: the quality controls on rationale and diff.
RequestType == [id : Nat, risk : {"LOW", "MEDIUM", "HIGH"},
                action : {"query", "enqueue_candidate", "human_review", "unknown"},
                touches : {"free", "kernel", "benchmark"},
                payload : {"complete", "global", "empty"}, good : BOOLEAN]

ASSUME RequestAssumption ==
    /\ Requests \subseteq RequestType
    /\ \A x, y \in Requests : x.id = y.id => x = y
ASSUME QueueBounds == MaxCycles \in Nat /\ MaxCrashes \in Nat
ASSUME QueueSwitches == {AuditMayFail, RenameMayFail} \subseteq BOOLEAN

Cycles == 1 .. MaxCycles

VARIABLES
    \* files
    audit,       \* openclaw_gateway_audit.jsonl: the verdict logged for a request
    queue,       \* openclaw_enqueue_queue.jsonl, <<>> when there is none
    archive,     \* .consumed.<cycle>.jsonl
    f018,        \* failure_ledger.json: F-018 counted for a request
    state,       \* task_state.json
    cycle,       \* the cycle it belongs to
    promoted,    \* adaptation memory: requests whose candidate was promoted
    \* processes
    cli,         \* where a request's CLI is
    pc, lines, passIds, candidates,
    \* history
    skipped,     \* requests a quality control or the correlation turned away
    tested,      \* <<cycle, request>>: handed to the sandbox
    unlogged,    \* requests whose audit line was not written
    kept,        \* a rename failed
    crashes

queue_files == <<audit, queue, archive, f018, state, cycle, promoted>>
runner == <<pc, lines, passIds, candidates>>
queue_history == <<skipped, tested, unlogged, kept, crashes>>
queue_vars == <<queue_files, cli, runner, queue_history>>

(* Files and locals hold what their writers put there.                        *)
QueueTypeOK ==
    /\ audit \in [Requests -> {"none"} \cup GatewayVerdict]
    /\ queue \in Seq(Requests) /\ lines \in Seq(Requests)
    /\ archive \in [Cycles -> Seq(Requests)]
    /\ f018 \in [Requests -> Nat]
    /\ state \in {"OBSERVING", "HYPOTHESIZING", "TESTING"}
    /\ cycle \in 0 .. MaxCycles
    /\ promoted \subseteq Requests
    /\ cli \in [Requests -> {"new", "passed", "done"}]
    /\ pc \in {"idle", "readQueue", "readAudit", "consider", "rename", "testing", "sandbox"}
    /\ passIds \subseteq Requests /\ candidates \subseteq Requests
    /\ skipped \subseteq Requests /\ tested \subseteq Cycles \X Requests
    /\ unlogged \subseteq Requests /\ kept \in BOOLEAN
    /\ crashes \in 0 .. MaxCrashes

QueueInit ==
    /\ audit = [q \in Requests |-> "none"]
    /\ queue = <<>> /\ lines = <<>>
    /\ archive = [c \in Cycles |-> <<>>]
    /\ f018 = [q \in Requests |-> 0]
    /\ state = "OBSERVING" /\ cycle = 0
    /\ promoted = {}
    /\ cli = [q \in Requests |-> "new"]
    /\ pc = "idle" /\ passIds = {} /\ candidates = {}
    /\ skipped = {} /\ tested = {} /\ unlogged = {} /\ kept = FALSE
    /\ crashes = 0

-----------------------------------------------------------------------------
(* The CLI: decide, log, and enqueue what passed.                            *)

VerdictLogged(q) == audit' = [audit EXCEPT ![q] = EvaluateGateway(q)] /\ UNCHANGED unlogged
VerdictNotLogged(q) == AuditMayFail /\ unlogged' = unlogged \cup {q} /\ UNCHANGED audit

\* process: an audit append that fails does not stop the request.
Process(q) ==
    /\ cli[q] = "new"
    /\ VerdictLogged(q) \/ VerdictNotLogged(q)
    /\ cli' = [cli EXCEPT ![q] = IF EvaluateGateway(q) = "PASS" THEN "passed" ELSE "done"]
    /\ UNCHANGED <<queue, archive, f018, state, cycle, promoted, runner,
                   skipped, tested, kept, crashes>>

\* handlePassedRequest: only candidates leave a trace.
HandlePassed(q) ==
    /\ cli[q] = "passed"
    /\ queue' = IF q.action = "enqueue_candidate" THEN Append(queue, q) ELSE queue
    /\ cli' = [cli EXCEPT ![q] = "done"]
    /\ UNCHANGED <<audit, archive, f018, state, cycle, promoted, runner,
                   skipped, tested, unlogged, kept, crashes>>

-----------------------------------------------------------------------------
(* The runner                                                                *)

\* A new cycle, or the one whose task_state.json says HYPOTHESIZING, calls the
\* LLM and comes to the queue.  A resume of TESTING has no checkpoint here and
\* throws.
Hypothesize ==
    /\ pc = "idle"
    /\ \/ state = "OBSERVING" /\ cycle < MaxCycles /\ cycle' = cycle + 1
       \/ state = "HYPOTHESIZING" /\ cycle' = cycle
    /\ state' = "HYPOTHESIZING"
    /\ pc' = "readQueue"
    /\ UNCHANGED <<audit, queue, archive, f018, promoted, cli, lines, passIds,
                   candidates, queue_history>>

\* Mutant: the audit log is read before the queue.
ReadQueue_AuditFirst ==
    /\ pc = "readQueue"
    /\ \/ /\ passIds = {}
          /\ passIds' = {q \in Requests : audit[q] = "PASS"}
          /\ UNCHANGED <<pc, lines>>
       \/ /\ passIds # {}
          /\ lines' = queue
          /\ pc' = IF queue = <<>> THEN "testing" ELSE "consider"
          /\ UNCHANGED passIds
    /\ UNCHANGED <<queue_files, cli, candidates, queue_history>>

ReadQueue ==
    /\ pc = "readQueue"
    /\ lines' = queue
    /\ pc' = IF queue = <<>> THEN "testing" ELSE "readAudit"
    /\ UNCHANGED <<queue_files, cli, passIds, candidates, queue_history>>

\* loadGatewayPassRequestIds: without a file nothing is correlated, and every
\* request counts as passed.
ReadAudit ==
    /\ pc = "readAudit"
    /\ passIds' = IF \A q \in Requests : audit[q] = "none" THEN Requests
                  ELSE {q \in Requests : audit[q] = "PASS"}
    /\ pc' = "consider"
    /\ UNCHANGED <<queue_files, cli, lines, candidates, queue_history>>

\* The quality controls: rationale, diff and duplicates first; then the
\* correlation, whose failure is written to the failure ledger at once.
Consider ==
    LET q == Head(lines) IN
    /\ pc = "consider"
    /\ \/ /\ ~q.good \/ q \in promoted
          /\ UNCHANGED <<f018, candidates>>
       \/ /\ q.good /\ q \notin promoted /\ q \notin passIds
          /\ f018' = [f018 EXCEPT ![q] = @ + 1]
          /\ UNCHANGED candidates
       \/ /\ q.good /\ q \notin promoted /\ q \in passIds
          /\ candidates' = candidates \cup {q}
          /\ UNCHANGED f018
    /\ lines' = Tail(lines)
    /\ skipped' = IF q \in candidates' THEN skipped ELSE skipped \cup {q}
    /\ pc' = IF Len(lines) > 1 THEN "consider"
             ELSE IF candidates' = {} THEN "testing" ELSE "rename"
    /\ UNCHANGED <<audit, queue, archive, state, cycle, promoted, cli, passIds,
                   tested, unlogged, kept, crashes>>

\* Mutant: the file is renamed only when every line became a candidate.
Rename_OnlyIfAll ==
    /\ pc = "rename"
    /\ IF \A i \in DOMAIN queue : queue[i] \in candidates
         THEN /\ archive' = [archive EXCEPT ![cycle] = queue]
              /\ queue' = <<>>
         ELSE UNCHANGED <<archive, queue>>
    /\ pc' = "testing"
    /\ UNCHANGED <<audit, f018, state, cycle, promoted, cli, lines, passIds,
                   candidates, queue_history>>

\* The whole file is moved, over the cycle's older archive if there is one.
Rename ==
    /\ pc = "rename"
    /\ archive' = [archive EXCEPT ![cycle] = queue]
    /\ queue' = <<>>
    /\ pc' = "testing"
    /\ UNCHANGED <<audit, f018, state, cycle, promoted, cli, lines, passIds,
                   candidates, queue_history>>

\* The error is caught; the entries are read again by the next cycle.
RenameFails ==
    /\ RenameMayFail
    /\ pc = "rename"
    /\ kept' = TRUE
    /\ pc' = "testing"
    /\ UNCHANGED <<queue_files, cli, lines, passIds, candidates, skipped, tested, unlogged,
                   crashes>>

EnterTesting ==
    /\ pc = "testing"
    /\ state' = "TESTING"
    /\ pc' = "sandbox"
    /\ UNCHANGED <<audit, queue, archive, f018, cycle, promoted, cli, lines, passIds,
                   candidates, queue_history>>

\* Phases B to D: some candidates are promoted and remembered.
TestAndReport ==
    /\ pc = "sandbox"
    /\ tested' = tested \cup ({cycle} \X candidates)
    /\ \E new \in SUBSET candidates : promoted' = promoted \cup new
    /\ state' = "OBSERVING"
    /\ pc' = "idle" /\ passIds' = {} /\ candidates' = {}
    /\ UNCHANGED <<audit, queue, archive, f018, cycle, cli, lines, skipped, unlogged,
                   kept, crashes>>

Crash ==
    /\ pc # "idle"
    /\ crashes < MaxCrashes
    /\ crashes' = crashes + 1
    /\ pc' = "idle" /\ lines' = <<>> /\ passIds' = {} /\ candidates' = {}
    /\ UNCHANGED <<queue_files, cli, skipped, tested, unlogged, kept>>

-----------------------------------------------------------------------------
CLI(q) == Process(q) \/ HandlePassed(q)
Runner == Hypothesize \/ ReadQueue \/ ReadAudit \/ Consider \/ Rename \/ RenameFails
          \/ EnterTesting \/ TestAndReport

QueueNext == (\E q \in Requests : CLI(q)) \/ Runner \/ Crash

QueueSpec == QueueInit /\ [][QueueNext]_queue_vars

-----------------------------------------------------------------------------
\* A request that the gateway logged as passed is never counted as a bypass:
\* its line is in the log before it is in the queue, and the runner reads the
\* queue before the log.
NoFalseBypass == \A q \in Requests : f018[q] > 0 => q \in unlogged

\* As long as no rename failed, a request reaches the sandbox in one cycle
\* only, whatever crashes come between reading and renaming.
TestedOnce == ~kept => \A x, y \in tested : x[2] = y[2] => x = y

\* What openclaw_cli.ts tells the operator who enqueues a candidate, "Phase A will
\* evaluate this in the next nightly run": it waits in the queue until a cycle judges it.
EnqueuedIsJudged ==
    \A q \in Requests :
        q.action = "enqueue_candidate" /\ EvaluateGateway(q) = "PASS" /\ cli[q] = "done" =>
            \/ \E i \in DOMAIN queue : queue[i] = q
            \/ q \in candidates \cup skipped \/ \E c \in Cycles : <<c, q>> \in tested

=============================================================================

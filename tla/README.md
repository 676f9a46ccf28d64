# A verification project for project-manuals

TLA+ modules, TLC configurations and TLAPS proofs kept beside the nightly
self-improvement loop of this repository. Paths are relative to the repository
root; `runner` is `tools/nightly_loop_runner.ts`.

## 1. Inventory

The repository is a TypeScript system with Python analysis scripts. Its core is a
controller that once a night asks an LLM for patches, verifies them, promotes
some, and writes a report, with all of its memory in JSON files.

| Component | State it keeps | Operations | Hard behaviour |
|---|---|---|---|
| Nightly controller (`runner`) | the ledger directory: `task_state.json`, checkpoints, morning results, failure ledger, cumulative statistics, lineage, drift adaptation, rollback record | `resumeFromTaskStateMachine`, `runNightlyLoop`, `FilesystemLedgerStore` | crash between any two writes, resume, files overwritten in place |
| Phase A (`phase_a_*`) | none | render prompts, call the LLM | the call fails, or answers differently on a resume |
| Phase B (`phase_b_orchestrator`, `benchmark_sandbox_runner`) | drift history | three gates per candidate, blast-radius pre-screen | measurement recorded although the cycle is lost |
| Phase C (`phase_c_orchestrator`) | none | system gate, patch gate, promotion | evaluated twice for one cycle |
| Phase D (`phase_d_aggregator`) | none | tiers, counters, morning result | reads what an earlier, interrupted run of the same cycle wrote |
| Drift (`drift_monitor`, `drift_adaptation`, `rollback_executor`) | one history per target | record, compute, adapt | stale verdicts, thresholds |
| Human review (`human_review_writer`) | `review_queue.json`, `approved_pending.json`, decisions | decide, merge, remove | concurrent read-modify-write with the runner, partial decisions |
| PR submitter (`pr_submitter`) | the git working tree | branch, apply, commit, push, open PR | failure in the middle, repetition after a resume |
| Adaptation memory (`adaptation_memory_writer`) | append-only log and side files | append, score, hints | duplicates after a resume |
| OpenClaw (`openclaw_gateway`, `openclaw_cli`, queue reader in `runner` 725-881) | queue file, audit file, daily counters | admit, shrink, enqueue, consume | two processes on one file, rename race |
| Hub (`hub/server.ts`, `contract/proof.ts`) | hash-chained event log, SSE clients | append, heartbeat, broadcast | interleaved read-sign-append |
| repo_split MCP server (`tools/repo_split_mcp`) | confirmations, artifacts | plan, preview, confirm, execute | reuse and expiry of a confirmation |
| Caretaker (`repo_caretaker`) and CI (`merge_gate`, `verify_constitution`, `workflow_runtime`) | git branches and index, action log, defer queue | observe, classify, commit a memo, push | a git command fails and leaves something staged; its own pull requests come back as findings |
| Dispatch (`dynamic_prompt_orchestrator`, telemetry CLI, `watch_week2_baseline_fixation.py`) | audit logs, latest and previous artifacts | refuse, audit, dispatch; count; judge, record, report | three programs that share files only, appends that fail |
| Weekly judgement (`judge_healthy_streak.py`, `apply_healthy_streak_to_report.py`) | the result that is the next run's history | evaluate, count streaks | weeks judged in parts or twice |
| Environment, observations, seeds (`environment_profiler`, `world_shift_detector`, `phase14_observation_collector`, `initialize_failure_ledger`) | `environment_profile.json`, seeded failure ledger | capture, compare, collect | replaced before the night that reads it is over |
| Comparison gate (`comparison_gate_cli`, `comparison_loader`) | chained decision ledger, latest result, freeze marker | score, judge, freeze, record | dies while it appends |
| OpenClaw's memory (`openclaw_action_log_writer`, `openclaw_decision_engine`) | log of attempts, two files of statistics, policy | attempt, stop, shrink and retry, decide, learn | several processes overwrite each other's counts; not wired in yet |
| Renderer, solvers | not wired in | | see section 7 |

How they interact. The controller calls Phases A to D in one process, through
`await`s that run one after the other; it shares files with other processes only
through the review store (operators), the OpenClaw queue (`openclaw_cli`) and the
drift state (the sandbox). The hub and the repo_split server are servers of their
own. `PROJECT.json` lists every component with what is modelled of it, and every
hazard with the line where it bites and the properties that watch it.

What makes each component correct, in the order of the plan: the controller must
never undo or redo a decision, whatever crashes; a review decision must be applied
once and not lost; a queue entry must reach the sandbox once; the gates must
promote only what was verified; the event chain must stay a chain; an executed
split must lose no file; a memory's side files must count what its log holds; a
dispatch must be audited and a refusal seen by the weekly gate; a prompt must warn
of what was grave; a branch must hold its own patch; a chained ledger must show
what was taken out of it.

## 2. Plan

| Step | Module | Says | Composes |
|---|---|---|---|
| 1, done | `CycleLedger` | what the ledger promises of a cycle (abstract) | |
| 1, done | `NightlyCycle` | the controller with crashes, drift, review, PRs | implements `CycleLedger` |
| 1, done | `NightlyCycle_proofs` | types, checkpoints, final decisions, promotions; the refinement | extends `NightlyCycle` |
| 1, done | `HumanReview`, `HumanReview_proofs` | decisions in their real steps, several reviewers and the runner | shares the review store with `NightlyCycle` |
| 1, done | `OpenClawQueue` | gateway, CLI, queue file, consumption | feeds the batch that `NightlyCycle` tests; with `HumanReview` and `RepoSplit` in `MCShared` |
| 2, done | `Gates`, `Drift`, `Morning` | gates, drift arithmetic, tiers and the morning screen, as operators | |
| 2, done | `Measures` | what nights measure and make of it | extends the three; in `MCTools` too |
| 2, done | `HubChain` | concurrent appends to the event chain, heartbeat, SSE, cursor | |
| 2, done | `RepoSplit` | server, confirmations, scripts and the files they move | |
| 2, done | `SkillMemory`, `Dispatch`, `Streak`, `Proposals`, `Caretaker`, `PrSubmitter`, `ComparisonGate` | the tools around the controller | `Observation` in `Proposals`, `Constitution` in `Caretaker`, all in `MCTools` |
| 3, done | `OpenClawGateway`, `OpenClawDecisions`, `OpenClawLearning`, `Totals` | the gateway's rules; OpenClaw's choices, and the statistics they rest on; sums over sets | the first in `OpenClawQueue` too, all in `MCTools` |
| 3, done | `OpenClawQueue_proofs`, `HubChain_proofs`, `RepoSplit_proofs`, `Measures_proofs`, `Tools_proofs`, `Memory_proofs` | the safety properties of these components; in `NightlyCycle_proofs` and `HumanReview_proofs` drift, rollback, counting and approvals | each extends its component |
| 4 | proofs | what is left of the safety properties: the leaders of a report (`LeadersAgree`) | |

No module that is to be proved about uses a RECURSIVE operator.

## 3. The model of the controller

`NightlyCycle.tla`. Each action is one write to disk, or one external call, with the
computation before it, because a crash can fall between any two of them. The process
has a program counter `pc`, which names its next write, and `run`, what it holds in
memory; a crash resets both. The stores are variables:

| Variable | File | Written by (runner lines) |
|---|---|---|
| `tsm` | `task_state.json` | `ResetState`, `Observe`, `EnterTesting`, `EnterPromoting`, `Finish` (604-620, 1132, 1221, 1292, 1659) |
| `bck`, `cck` | `checkpoints/phase_b_*`, `phase_c_*` | `SaveB` (1288), `EvaluateGate` (1356, 1377) |
| `morning`, `cum`, `lineage`, `latest` | morning results, `cumulative_stats`, `cycle_lineage`, `latest_drift_adaptation` | `WriteMorning` ... `WriteAdaptation` (1861-1893) |
| `rollback` | `active_rollback.json` | `UpdateRollback` (1631-1651) |
| `f011`, `rejCount` | `failure_ledger.json` | `RecordStateLoss`, `ApplyLedgerWrites` (593-620, 1285) |
| `torn` | which of the other files cannot be parsed | `TearFile` |
| `drift` | the drift monitor's directory | `RunSandbox` |
| `approved`, `reviewQ` | the review store | `RemoveApproved`, `QueueDeferred`, `ApplyReviewDecision` |
| `prs`, `memory` | branches handed to git; appends to the adaptation memory | `SubmitPrs`, `AppendMemory` |

Abstractions. A patch is its cycle and its kind: `self`, `global` (blast radius
GLOBAL, which Phase C defers to a human) or `negative` (it lowers the stability
index). A cycle id is a number: ids come from `randomUUID()`, so all that matters is
that they are new. Skill ids are the number of the evaluation that made them, since
each evaluation draws new ones. The drift state is its verdict. The caller's system
snapshot, which the gate of Phase C reads, may change between runs, so an evaluation
that drift does not block is free to find the gate open or closed.

The files carry no content beyond that; a file a crash left unparsable is `torn` and
every `JSON.parse` of it throws, which ends the run in `Abort` with `task_state.json`
as it was. A torn `task_state.json` is the state-loss path instead. Reads that cannot
fail in this model (a file nobody tears, or one that is written whole) have no error
branch.

`Crash` and `CrashInWrite` may happen at any step. `DispatchFails` is the dispatcher
throwing. `ApplyReviewDecision` is an operator in another process.

`CycleLedger.tla` is the abstract specification: cycles go from pending to verified,
decided and reported, one at a time and in order, what was verified and decided is
fixed, and a cycle can be lost once. Its variables are functions of the files
(`StageOf`, `Ledger` at the end of `NightlyCycle`).

### The review store

`HumanReview.tla` takes the one-step decision of `NightlyCycle` apart. A call of
`applyReviewDecision` reads the queue and fixes the queue it will write (`Submit`),
appends the verdict (`AppendRejection`, or `ReadApproved` and `AppendApproved`), writes
the queue (`WriteQueue`) and saves the record (`SaveRecord`). The calls run in one
process: a store method runs to its end without an await, so that between the read and
the write of one no other call comes in (`Undisturbed`), but between two methods any
does. The runner is another process and nothing locks the files, so it comes in between
a read and a write as well, and each of its own reads and writes is an action: it reads
the approvals (`StartNight`), removes them one patch at a time (`ReadRemoval`,
`RemoveApproved`), merges the deferred patches into the queue (`ReadReviewQueue`,
`WriteMerged`) and reports (`ReportPromotions`). A cycle that failed is resumed with the
patches its decision deferred (`open`). Any call may fail at any step (`ReviewerFails`,
`RunnerFails`). A decision is a record with a number that stands for its `decision_id`,
and the same decision may be submitted again. That the checkpoint of an approved patch is
still there, which `NightlyCycle` checks, is taken for granted here.
`approved_pending.json` is a list; no property depends on its order, so the model has the
set of its entries, each with its number among the approvals of its patch.

Three things do get lost or come back when the two processes meet, and the properties
name them instead of excluding the meeting: a call writes a queue that it read before the
runner merged a patch (`erased`); the runner writes back a list, or removes a patch from
it, without having read an approval that came later (`wiped`); an append writes back
entries that the runner removed in the meantime (`revived`). `NotDropped`, `RecordTrue` and
`PromotedByApproval` say that nothing else loses a patch or an approval, or promotes one
twice. The header's "never left in a half-updated state" (23) is about validation errors: a
store method that throws later leaves a patch decided and still pending (`ReviewerFails`),
which no run asserts either way.

### The OpenClaw queue

`OpenClawQueue.tla` has one CLI process for each request and the runner. A CLI decides with
`EvaluateGateway` (the rules in their order) and appends to the audit log (`Process`, an
append that fails is ignored), then appends a candidate that passed to the queue
(`HandlePassed`). The runner reads the queue (`ReadQueue`), then the log (`ReadAudit`),
judges one line after the other (`Consider`, which counts F-018 at once), and renames the
file if any line became a candidate (`Rename`). Nothing locks the two files, so each access
is an action. Phases B to D are one action here (`TestAndReport`): `NightlyCycle` has their
steps, and takes a batch as given. A line appended between the read and the rename goes to
the archive, which nothing reads, although the CLI announces that "Phase A will evaluate
this in the next nightly run" (347-348); the run `v_late` shows it with `EnqueuedIsJudged`.
Likewise a passed `approve_human_review` is announced to "take effect in next Phase C cycle"
(372) and leaves nothing but its audit line.

### OpenClaw's memory and choices

`OpenClawLearning.tla` has the statistics over OpenClaw's attempts. A gateway reads them
when it is made (`OpenGateway`), counts in its memory, and after each attempt appends a line
to the log (`AppendAttempt`) and writes both files out whole (`FlushIntents`,
`FlushSuggests`). Several processes may have a gateway at once and overwrite each other's
counts; each access may be the last before a kill, which may leave the file torn, and a
failing write is swallowed. An append that fails (`LineFails`) or is killed
(`KillAppending`) leaves nothing, a part of the line, or all of it but its end, and the next
line is then glued to it. The attempts made are `attempt_log`, those of them no reader finds
in the file are `lost`, and `last_line` is what a line without an end holds.
`StatsOfTheLog`: no count is beyond the attempts made, the log falls short of them by two
lines at most for each kill or failing write, and undisturbed the two agree.
`OpenClawDecisions.tla` holds, as operators, what is decided from the statistics: the scored
choice between reusing a hint, shrinking the scope and a new candidate, the reward that the
operator may learn (`Learn`), the lock of an intent, and the panels of the morning brief. No
program of the repository passes the three paths that switch this on (`openclaw_cli.ts`
210-216, `phase14_live_fire.ts` 708), and `decideAction` and `updatePolicy` have no caller:
the modules describe the exported functions as an operator's tool is told to use them.

What one notices while translating. Nothing is ever put into `_last_pending_suggest`
(416), so no recovery path is ever credited and the best path is the first suggested; the
comment at 386-392 and the operator's guide say it is credited. `processWithAutoShrink`
shrinks the radius and leaves `risk_level` at HIGH, for which the request was blocked, so
its retry is blocked again, where the comment at `openclaw_gateway.ts` 347-357 has it
evaluated as the safe side. The success rate and its age are added to every candidate
alike, so neither the rate nor its decay ever decides, unlike what
`openclaw_decision_engine.ts` 613-616 and 638-639 say; a locked intent keeps the
candidate `shrink_scope` (818-835) beside the two that the comment at 374 leaves it. Each
of these is visible in one function that no program calls, so none has a run; no property
asserts either side. A pre-reject is counted for the key `action::target`, not for the
intent it stopped, and the clamp of the policy bonus at 0.20 is never reached, since a
mean reward of at most 1 weighs 0.05. Left out: the tombstones of skill links (writer
289-304), which no choice reads, and `selectBestSuggestPath`.

### Measurements, gates and the morning

`Measures.tla` follows the numbers that `NightlyCycle` leaves out: a night asks for
candidates (`Hypothesize`), tests each with one of the answers the sandbox can give
(`Test`), writes the rejections to the failure ledger, and aggregates (`Aggregate`).
`Gates` holds the pre-screens, the three gates of Phase B and the gates of Phase C as
operators over a candidate and its measurement, `Drift` the monitor's arithmetic in
exact fractions (a slope is a pair of integers, never rounded), the adaptation and the
rollback record, `Morning` the tier policy and the screen. `DriftReadersAgree` holds
because the z-score of a run in its own window of five is bounded by 4/sqrt(5), so the
sudden-drop threshold is out of reach and four readers that each judge drift on their
own all come to judge the slope. Its names are `MeasuresInit`, `MeasuresNext` and
`MeasuresSpec`, so that the run `tools` can start it beside the tools.

Simplifications: the system gate reads the snapshot the context was built with, as in
the code, so SYS-02 and SYS-03 never see tonight's rejections; `max_candidates_override`
changes the prompt only and has no effect here; the Python benchmark is an answer, and
that the sandbox ignores a failing `git apply` shows as a measurement of an unchanged
tree, which is one of the answers. F-003 and F-009 are in the tables of the code and
written by none of its paths.

### The hub

`HubChain.tla`: every writer (boot, a quarantine, a generation, a configuration edit, a
heartbeat) reads the last event, signs a successor and appends it, awaiting in between, so
writers interleave. `overlap` remembers that two were between read and append: then links do
break, and only `PredecessorRecorded` is left of the chain. `LogIsChained` is both. A
subscriber gets an event from its writer and from the tail of the file. The watchdog's
recovery branch has no action, because `WatchdogNeverFires`: a request is counted as
accepted and as enqueued in one synchronous step, so no window has the one without the
other. Events with equal content on one predecessor have equal hashes (`Twins`), and send a
paging client back: `CursorResumes` excludes them by name. Reads fail in two ways that the
server hides. `getNewLines` answers an error with no lines, and the tail goes on behind them
all the same (`TailFile`, 412-449): what it skipped (`unread`) is in the stream only once
the request that wrote it has broadcast it too, which `TailMissesNothing` says.
`readAllLogs` answers an error with an empty file (`ReadAllLogs`, 222-235), which a paging
client gets as a page without items and without a cursor: `CursorResumes` says that even
then a client that keeps its cursor loses nothing. That "null" means "last page"
(`api_schema.ts` 93) is therefore not claimed. The two make `ReadersMissNothing`. Left out:
the dashboard page (it shows the oldest fifty events), the WebSocket's mock stream, and
correction metadata (`enrichEventMetadata`), for which no program of the repository writes
an event. The stream enriches each event by itself, so it could never show one adopted.

### The split server

`RepoSplit.tla`: plans, previews and confirmations are the server's memory and are lost by a
restart; an execution runs a PowerShell script whose steps (preflight, copy one item, clone,
filter, set the remote, move, delete) are actions, each of which may fail, with a second
execution or a restart in between. `runPowerShell` has no listener for 'error' and no
timeout: a script that cannot be spawned ends the server with all it remembers
(`SpawnFails`), and one that never ends is never answered, so no liveness is claimed of a
call. The order in which a script takes its items is free; a preview is one action, degraded
too when its counts do not add up (`miscounted`). `NothingLost` is about every file of the
scratch checkout, `CleanRunIsComplete` and `FilteredBeforeTarget` about what an execution
that reported success has done. Within its life a confirmation authorises any number of
executions.

### The skill memory

`SkillMemory.tla`: a night appends its promotions (`AppendEntries`), updates the reuse
counts (`UpdateReuseStats`), the scores per environment (`UpdateEnvScores`) and, with the
tree, the generation (`BuildSkillTree`); each may fail (the runner warns and goes on) or
be the last before a crash, and the resumed night repeats them. An append that breaks off
(`AppendPart`) leaves whole entries, a line without its end (`partial`) or a piece of one
(`Fragment`); what follows is glued to it, and only what is `Legible` is read again, while
the scores of the night are counted from memory. Reports read the `Newest` lines and cut
their lists: 20 nodes of the tree, windows of 200 and 50 lines, 5 hints in the code are
constants, so that the run (3, 5, 3 and 2) really cuts. Where the tree is cut,
`LeadersAgree` says nothing of hints and hot targets. Scores are the code's,
rounded to four digits; a day of the model is 14 days, where the decay is exp(-1) = 0.368
(a comment says 0.5). What one notices while translating: a count of reuse grows by the
number of earlier entries, hence `2 * reuse <= n * (n - 1)` and not `n - 1`; an empty
memory is in CRITICAL health, so each night before the first promotion collapses a
generation; the boost for hot targets lifts expired entries back over the limit of the
hints; the branch a fork recommends may be projected worse than another; the morning
brief reads `recommended_actions` where the field is `actions`; a skill promoted on two
nights is two nodes of the tree, and may be synthesized with itself; a skill that is to be
pruned may still be synthesized.

### Dispatch and the weekly watch

`Dispatch.tla` has the orchestrator (refusals in their order, the audit line, the callback),
the telemetry CLI, the review baseline with its quantiles, and the watcher (artifact, audit
line, previous and latest metrics, report), each write an action. The precedents of a prompt
are the first five uncorrected rejections whatever their age (`NegativePrecedents`; the run
cuts at two), the similarity ranking never reaches it, and `idempotency_key` is the same for
each dispatch of a run, so ranking and key are left out. A gate that is FAIL routes to the
action "none", and ATTENTION_REQUIRED hides FAIL: `RefusalsReachGate` therefore speaks of
the dispatch log alone. A watcher that reads telemetry it cannot parse, or a baseline with
every review completed, ends with an exception before its first write.

`Streak.tla` has the weekly judgement, whole or on a history, and the report. A history
keeps no measures, so readiness is never reached across runs (the option's help, line
41, says the history is there to maintain streaks), and a week judged twice counts
twice, in one input (`Inputs`: nothing compares the weeks of a list) or in two; freezes are
not looked at with fewer than four weeks, and a freeze may be null. An invariant that is
missing makes the continuity INVALID, which hides a FAIL and is none of the reasons of
PRECHECK, so that such a week may be judged HEALTHY (`Continuity`, `OwnStatus`).
`ReadinessIsEarned` is what is left: the report never says ready of a week that was not
sound, and of no fewer than four evaluations. Three weeks, one of them named twice, are
four evaluations.

### Prompts and observations

`Proposals.tla`: `SeedFailureLedger`, then nights of `CaptureProfile`, `RenderPrompt`,
`TakeReply`, `TestCandidates`, `WriteMorning`; `NightFails` anywhere, and the night is
resumed or given up. Constraints are trimmed as in `phase_a_orchestrator.ts` (critical ones
first, and they may exceed the cap); the observations are computed by `Observation` from
gates, dispatches, reviews, invariants, reasons and the health snapshot, and the focus seeds
are the gravest of them. Constraints and seeds are sets: nothing is said of their order in
the text, and what a sort followed by a cut leaves is `FirstOf` of an order.
`derived_baselines` is always empty in the code, so workflow results never become seeds. A
reply is accepted or refused as a whole; an array at the top level counts as no candidates.

### Caretaker and CI

`Caretaker.tla` takes each finding through the git commands of the caretaker. A failed
commit stays staged and enters the next finding's branch; if then a `git add` fails, the
checkout of main is refused and every later finding fails. `MemosKeptOnce` is what
survives this. CI runs of its own branches are findings of the next night; their verdict
is `Constitution`'s, operators for `verify_constitution.ts`, the workflow validation and
`merge_gate.ts`. `nightly.yml` runs the same tool twice in two modes; `Modes` has both.

### Pull requests

`PrSubmitter.tla`: one action per git command, on HEAD, the working tree (a set of
patches), the index, local and remote branches, with failures, kills and an operator who
cleans up. An unmerged index keeps the directory on the failed branch. A `git status`
that fails prints nothing and is taken for a clean tree (`Status`, `misread`): the branch
made then may hold more than its patch, and `OwnPatchOnly` names this as the only way. A
directory on a detached head has `HEAD` for its branch, and going back to that changes
nothing (`Detached`, `Restore`); so does a `rev-parse` that fails (164). The header's
"always restored" (25) is thus true of no directory that is dirty, unmerged or detached.
`AnswersAreTrue` is about the skills of the gate; that skills injected by approval are
never submitted is what `v_injected` shows. Only the initial fetch is not modelled.

### The comparison gate

`ComparisonGate.tla`: scores, conflicts, policies and the risk of a change as operators; a
run computes its decision (`RunGate`), freezes, writes its result and appends to the
ledger, and may die at any step or in the middle of a write. A torn last line makes every
later run throw after its freeze and result; a line without newline is glued to the next
and both become unreadable. Errors under a policy that does not reject are not even
reviewed, and rows that were added or removed carry no risk: the operators say so. Two
runs at once, which would fork the chain, are left out, as nothing starts two.

## 4. Runs

Each MC module only names the values of its run. Deadlock is not checked where a bound
stops the system. `tools` starts one of nine modules that share no state (the measures, the
memory, dispatch, streak, proposals, caretaker, submitter, comparison gate, learning), and
`shared` one of three (review store, OpenClaw queue, split server), so that their
behaviours are those of each alone; that keeps the number of runs small.

| Run | Instance | Shows |
|---|---|---|
| `torn` | 2 cycles, 2 crashes, torn writes | the type invariant; a resumable state has its checkpoints; one branch per patch; rejections counted once; promotions justified; the ledger implements `CycleLedger` |
| `crash` | 2 cycles, 1 crash, failing LLM | rollback targets and the blast-radius ceiling follow the last reported drift, also over a resume; a cycle in PROMOTING finishes |
| `no_crash` | 3 cycles, lineage of 2 | promotions are counted once; a tested cycle is reported |
| `shared` | 2 patches, 2 reviewers, 3 calls, 1 failure; 4 requests, 2 cycles, 1 crash, failing appends and renames; 2 executions of 5 inputs, 1 confirmation, 1 restart | no deferred patch is lost from the queue and records are true but for the named meetings with the runner; nothing is promoted more often than it was approved or written back; no logged request is counted as a bypass; a request is tested in one cycle; a split loses no file, a success is complete, a clone is filtered before it gets its remote |
| `hub` | boot, 2 quarantines, 1 generation, 1 heartbeat, failing appends and reads | the chain verifies unless writers overlap, and predecessors are there even then; the watchdog sees nothing; paging and the tail miss nothing |
| `tools` | see below; 2 nights of up to 3 candidates, histories of 0 or 4 runs | promotions meet their claims; the readers of drift agree; tiers are earned; side files follow the log; the parts of a report agree; what is dispatched is audited; refusals reach the gate; readiness is earned; the prompt warns; memos are kept once; branches hold their own patch; the submitter's answers are true; the ledger stays chained; OpenClaw's statistics are of its log, and its choices cautious |

The bounds. A property about one cycle needs that cycle, one before it (whose drift,
lineage and approvals it reads) and two crashes: one to interrupt it, one to interrupt
the resumption. Lineage is trimmed for real with `LineageMax = 2` and three cycles; it
is 7 in the code. A batch is empty or holds patches of every kind the run is about:
kinds are judged independently of each other. Memory appends are counted up to
`AppendCap`; no guard reads them.

For the review store two calls and two patches are what one decision needs to undo the
removal made by another, three calls let one begin after the runner came in between, and
one failure lets a resumed night meet an interrupted decision.

For the OpenClaw queue two requests that pass, one that is skipped and one that the
gateway refuses make every order of good and bad lines; a second cycle is needed to see
a request twice, and one crash for a cycle that reads the queue twice.

For the hub, two quarantines of one node are what makes twins, and a generation and a
heartbeat with its council event are the writers that await in other places. `Edits` is
empty: an edit takes the steps of a quarantine. For the split server, two executions
are what can meet in one file, and the clock's two values let a confirmation expire
before or after its use.

For the measures, the thresholds of the code are kept, except that live fire asks for 20
runs before it trusts a slope and the run for 5 (`MinRuns`, the controller's default);
a history of four makes the second night the first with a slope. The snapshots (500, 860,
920) lie under and between the stability limits of the tiers.

For `tools`: one disturbance, three days and six entries (three nights of two) for the
memory, enough for a skill to be promoted twice, in two environments, and to expire, for an
append to break off and be followed by another, and for every cap to cut; two requests and
two watches with one failure, three uncorrected precedents of which two fit; four weeks, one
of which may be unsound (`MaxUnsound`), which is the streak that L3 wants, and five
evaluations; three cycles, of which one may fail, a cap of one constraint and a window of
two; two nights, two git failures and one kill for the caretaker (a failed commit and a
failed `git add` after it are the worst case); three skills, three runs and one crash for
the submitter; three tables, two policies, three runs and one failure for the comparison
gate: one to be torn, one to follow, one after that; for OpenClaw two gateways, a request
that passes and one that is blocked, two recovery paths, two attempts (`MaxAttempts`), two
rewards and one kill or failing write, which may cost its own line and the next. The two
gateways are interchangeable (`Gatekeepers`), and the run has invariants only.

Fairness. `WF_vars(Runner)` says that the loop is invoked again after it ends (it is
a nightly loop, whose header counts on "the next invocation") and that a running
process takes its next step. Nothing is assumed of crashes, failing LLM calls or
operators. The liveness runs bound crashes and leave LLM failures unbounded.

## 5. Where the code and its documentation disagree

Six runs are expected to violate a property that a comment of the repository states.
The quotations are in `PROJECT.json`.

| Run | Property | What happens |
|---|---|---|
| `v_counted_twice` | `CumulativeMatchesReports` | a crash after 1878: the resumed cycle counts its promotions again |
| `v_approval_lost` | `ApprovalPromoted` | the only composition in the repository (`phase14_live_fire.ts` 724-727) gives each run a review store of its own (`ReviewDirPerRun`): an approval waits where no later night reads it, though `runner` 1381-1383 says it is promoted |
| `v_injected` | `PromotedHasPr` | a patch promoted by approval is in the report and, as `pr_submitter.ts` 166 walks the gate's results only, in no pull request, though `runner` 388-389 and 1420-1421 submit every promoted patch |
| `v_late` | `EnqueuedIsJudged` | a candidate enqueued between the runner's read of the queue (733) and its renaming (869) is archived unread, though `openclaw_cli.ts` 347-348 says that the next run evaluates it |
| `v_env_invalid` | `EnvInvalidRejected` | a measurement without values counts as not predicted, and the claim is verified unmeasured |
| `v_shift_lost` | `ShiftsAreTold` | the profile is replaced at the start of the night; if the night fails, its shift is told by no report |

The first needs one crash, `v_shift_lost` one failing night, the others none.

## 6. Proofs

`NightlyCycle_proofs.tla` proves, for every number of
cycles and crashes, every set of batches and every setting of the switches (the four
assumptions of `NightlyCycle` on its constants are all that is used in this part):

- `TypeCorrect`, `TypeOKHolds`: every store and local stays in its range, and a
  running process and a written state belong to a cycle.
- `StateIsBacked`: a state that will be resumed has the checkpoints its resumption
  reads. `RejectionsOnce`: the failure ledger counts a cycle's rejections once.
  `OneBranchPerPatch`: no patch is submitted under two branch names.
- `DecisionsAreFinal`: no step replaces a whole checkpoint.
- `PromotionsJustified`: what a report shows as promoted was verified, does not lower
  the stability index, and is GLOBAL only with a human's approval.
- `LedgerImplements`: the files implement `CycleLedger`.

None of these invariants is inductive alone. That the gate is evaluated once, for
example, is true because a run that did not resume PROMOTING finds no decision on
disk when it comes to the gate, and that depends on where every earlier run of the
cycle could stop. `LedgerInv` says it: `StateFollows` gives, for each value of `pc`,
what `task_state.json` holds and whose cycle it is; `CheckpointsFollow` gives, for
each state and `pc`, which checkpoints exist and that the locals equal them;
`PrsFromDecisions` ties a branch to the saved decision it came from. The proof has one
lemma per part of the loop (`StartupLedger`, `PhaseABLedger`, `PhaseCLedger`,
`PhaseDLedger`, `FailureLedger`) and two for the steps that leave its files alone.
Torn writes and crashes are in `FailureLedger`; nothing bounds their number.

`PromotionInv` adds what the promotions need: the review queue and the approval list
hold only GLOBAL patches, whatever is in the list has been approved, and a saved
decision, the injected approvals (`run.extra`) and a report promote only what is
`Justified`. A justification stays valid because saved checkpoints and human decisions
do (`JustifiedStays`).

The refinement adds one fact to `LedgerInv`, that a lost cycle is older than the newest
id, so that no lost cycle is ever worked on again. `SaveVerifies`, `EvaluateDecides`
and `FinishReports` map three actions to the three steps of a cycle, `WriteAfterLoss`
the write over an unreadable state to `Lose` (or, when that cycle's report was already
out, to `Report`), and every other step stutters.

### The controller's reports

Drift, approvals and counters need what a report says of the cycle that is on disk.
`ReportInv` adds to `LedgerInv` that outside PROMOTING the stores are `Settled`: the
rollback record and the adaptation are those of the newest report; a running report has
the drift of its cycle. `TargetsFollowDrift` and `CeilingAlwaysRead` follow for every
number of crashes between writes, under `TornWrites = FALSE`: a torn adaptation is read
as none, and a torn state restarts without it, which the code accepts. The second is an
action property: no step tests a batch with a GLOBAL patch under a ceiling that
last night's report set.

`CounterMatchesReports` holds without crashes only (`MaxCrashes = 0`, and one review store
for all nights, `ReviewDirPerRun = FALSE`); with one crash it is refuted by
`v_counted_twice`. Within that, for any number of nights: `Places` says of each approved
patch where it is (in the approval list, in the hands of the run, in a decision, in a
report, and in one of them only), `CountInv` what the counter lacks at each step between
reports. TLC checked both before they were proved.

### The review store

`HumanReview_proofs.tla`, for every set of patches and reviewers and any number of calls
and failures, with the runner's steps between every read and write of a call and the
other way round. `DeferredNotDropped`: `ReviewInv` says that a call which has come to the
queue or the record has appended its verdict, and that a night about to write has, of each
deferred patch, either read it in the queue, or a verdict on it, or seen it `erased`.
`RecordsTellTheTruth`: by `RecordInv` a call that is past its verdict has it in the lists,
and a list that is about to be written has all that is there but what is named
(`ListsInv`). `PromotionsWithinApprovals`: `ApprovalInv` counts, for each patch, promotions,
entries of the approval list and entries in the hands of a night, which together are never
more than its approvals and the entries written back (`revived`). It rests on the
finiteness of the list and on lemmas about cardinalities of its parts.

### The OpenClaw queue

`OpenClawQueue_proofs.tla`, for every set of requests, cycles, crashes, and appends and
renames that fail. `QueueInv` says of each line where it came from (`FromPassed`,
`LinesCorrelated`), of each candidate that it was taken from a line read in this cycle
(`CandidatesTaken`), and of each tested request that its line is gone unless a rename failed
(`TestedIsGone`). `LoggedIsNoBypass` and `RequestsTestedOnce` are its consequences. Of the
constants they assume that no two requests have one id (`RequestAssumption`): the CLI draws
it at random (`openclaw_cli.ts` 158, 199).

### The hub

`HubChain_proofs.tla`, for every set of writers, which only have to be distinct
(`HubWriters`), and any number of ticks, which are counted from 1 (`HubTicks`). `ChainInv`:
what a writer signed names a line of the log or nothing (`SignedOnLine`), and as long as
nobody overlapped the last line (`SignedOnHead`). `LogStaysChained` combines
`SerialWritersChain` and `PredecessorsAreLines`; `WatchdogIsBlind` needs only that both
counters of a window move together (`FlowInv`); `ReadersKeepUp` combines `TailStreamsAll`
(`StreamInv`) and `CursorsResume`, which is a lemma about `EventsByCursor` under `ChainInv`,
for the whole file and for the empty one that a failing read gives. What a failing tail has
skipped is streamed when its request answers (`StreamInv`).

### The split scripts

`RepoSplit_proofs.tla`, for every plan whose layouts agree on what they include, any
number of calls, confirmations and restarts. `CallInv` says what an execution has left to
do, `FileInv` that every path is somewhere (`SplitLosesNothing`), `CloneInv` how far each
clone has come and which script is at work on it, so that a filter that failed half-way
is told from one that ended (`FilteredFirst`, `CleanRunsAreComplete`). The assumption
`PlanByPath` is what the planner computes (a path is included in both layouts or in none,
`repo_split_plan.ps1` 76-155), `InputsValidated` what zod lets through (`server.ts` 34-64).

### Measurements

`Measures_proofs.tla`. `TiersAreEarned` by `TierInv`, over the lineage as it is kept.
Its proof found that an earlier form of `TiersEarned`, which asked for the whole history
of a tier, is false after seven nights, because the lineage is cut (`phase_d_aggregator.ts` 726,
`nightly_loop_runner.ts` 1886): the property now says what can be read off the lineage.
`PromotionsMeetClaims` (`ClaimInv`) holds for every answer of the sandbox and every
window of 5 to 20 runs (`MinRuns`; a slope is taken of the last twenty, `drift_monitor.ts` 311).
`ReadersOfDriftAgree` needs the arithmetic: in its own window a run's z-score is bounded,
so that the threshold of a sudden drop is never reached. It is proved for all integers
from an inequality about sums of squares (`HistoryInv`, `ReadersInv`).

### The tools

`Tools_proofs.tla` has one part for each tool; each can be read alone.

- `BranchesHoldOwnPatch`: `DirectoryInv` says for each step what the working tree and the
  index hold and which branch is checked out; for any skills, runs, kills and failing git
  commands, a failing `git status` and a detached head included. `CallsAnswerTruly`: a call
  has answered for the skills of the gate that are not ahead of it, and "created" only of a
  branch that is its own commit (`AnswerInv`; a batch names no skill twice, `PrBatches`, as
  the gate draws new ids).
- `LedgerStaysChained`: `LedgerInv` says for each step of a run whether the file ends in a
  whole line, and that nothing is written after an unreadable one.
- `DeliveriesAudited` (`DeliveryInv`) and `GatesTellTheTruth` (`GateInv`): what telemetry
  counts and a gate records is true of the log it was computed from, which only grows; a
  prompt has all precedents but those for which the cut leaves no room.
- `MemosStayWhole`: `MemoInv` says in which of the places (loose, staged, in one branch)
  a memo can be at each git command, whatever fails and wherever a run is killed
  (`CaretakerInputs`: GitHub and the other repositories answer with lists, and no branch
  named after a finding is main).

### What is carried on

`Memory_proofs.tla`: what one night or week hands to the next.

- `L3IsEarned`: `JudgedInv` ties every judged week to the input it was judged from, also one
  with an invalid invariant, a null freeze or a week named twice. That
  streaks count what they say is shown by an induction over the judged weeks, done with
  the least counterexample (`WFMin`), as a theorem with an operator parameter cannot be
  used here.
- `CountsAreOfTheLog`: the counts of a gateway and those in the files stay within the
  attempts made (`NothingInvented`), for any gateways that overwrite each other's files,
  kills and torn writes, and are those of the log while nothing of that happens
  (`AllCounted`); each kill or failing write costs the log two lines at most
  (`LostCounted`). A step
  either records a line (`Records`) or moves counts about (`Quiet`). It assumes that a
  torn file does not parse as statistics (`LearningMarks`).
- `ChoicesStayCautious`: of the three candidates the cautious one has the best score when
  the intent failed, the radius is GLOBAL or the morning hostile, whatever was learnt.
  `ChoiceInv` says what the scores can add to the weights: every policy entry is a mean of
  rewards of 1 and -1, so a bonus lies within 500 of 10000, and every statistic counts an
  attempt. The failures of a node are a sum over a set (`Totals`), about which the
  lemmas `SumAdds`, `SumSame` and `SumLess` are shown by induction on cardinality, again
  with the least counterexample. A hint scores
  at most 1 (`LearningInputs`).
- `PromptsWarn`: `ProposalsInv` says that the ledger has one entry for each code, that the
  lineage falls strictly and lies before the night, so an entry has one age, and that a
  rendered prompt is the one computed from the ledger as it still stands. What `FirstOf`
  leaves out has `n` before it, and what it takes comes before what it leaves
  (`FirstAreMany`, `FirstComeFirst`, for every strict total order on a finite set).
  `PromptInputs` says only that there are finitely many codes and that counts are
  positive.

- `SidecarsFollowLog`: the sidecars are written after the log, so `MemoryInv` says how much
  of it each has read: at `reuse` and `env` all but the night (`NightIsWritten`: the last
  entries are of the night's keys, environment and day), else everything. What a sidecar
  counts is within the part it has read (`ReuseBacked`, `ScoresBacked`), and is that part
  while no write failed and no night was resumed (`ReuseExact`, `ScoresExact`). A failure
  lets the log run ahead, which only adds to what backs a count (`ReuseGrows`,
  `ScoresGrow`); that a key counts as reused just when it has entries of two nights needs
  that what was read before is of an earlier day (`DaysPass`). A piece of a line has no key
  of its own, so nothing counts it, and undisturbed there is none (`WholeLines`). The bound
  on a count of reuse is quadratic, and goes from n to n + 1 (`PairsGrow`). The mastery of
  an environment is a sum over keys, which is the number of its entries because every entry
  has one key (`SumOfParts`). It assumes that promotions have a stability delta of at least
  0, which P-02 demands (`phase_c_orchestrator.ts` 212), and that no environment is the mark
  for none (`SkillInputs`).

The assumptions on constants are named in the modules that declare them, TLC evaluates
them in the runs, and each says what the code makes sure of: a parser that refuses other
input, an id that is drawn at random, a plan that is computed by path.

## 7. What is only model-checked, and what is not modelled

Liveness (`PromotingFinishes`, `TestedCycleReported`) rests on fairness
and is checked by TLC only: ENABLED and fairness are out of the prover's reach. Of the
safety properties one is model-checked only: `LeadersAgree` is about lists made with
`SelectSeq` and `SortSeq`, of which the prover has no definition, ranked by a comparison
of nearly equal scores that is not transitive. Its clauses about hints hold while the hints
look at the whole log: in a longer one they are taken from fewer lines than the tree, and
need not be its best nodes; the bounds of the run are on both sides of this. The
violations of section 5 are TLC's, too.

Not modelled in the controller: two runners at once (nothing locks the ledger directory),
the wording of prompts and reports, `LoopRunRecord`. A file cut short by a crash is modelled
(`torn`); that one read with a bare `JSON.parse` (1768) then stops every resumption has no
run of its own: it is the reason why liveness is checked with `TornWrites = FALSE`, and no
property covers it, as none covers a script of the split server that cannot start or never
ends. A week that is named twice in one input makes three weeks ready, where
`PHASE14_OPERATIONAL_RUNBOOK.md` 277 asks for four consecutive ones; it counts evaluations,
which `ReadinessIsEarned` says, and has no run. A torn morning result is never read back by
the runner. In `OpenClawQueue` the duplicate check looks at every promotion, not the last
50; the blast radius of an entry, its text (`good` stands for its rationale and diff) and
`max_enqueue_per_day` (which nothing reads) are left out; the shrinking retry is in
`OpenClawLearning`.

Not modelled because the program never runs them: `generateConstraints` of
`contract/ledger_icl.ts` (no caller); `state/model.ts` of the split server (its
transitions are consulted only with a snapshot, which no request can carry); the solvers
under `phase14/solvers` (used by their own smoke tests); correction metadata of the hub
(nothing writes a correction). The renderer is a reference interface whose `App.tsx`
imports a session module that is not in the repository. Left out as data or I/O: the
texts of pull requests, memos, prompts and headlines, the dashboard page, the transport
to LLM providers, the probing of the machine, `collect_repo_inputs.ts`, and the GitHub
side of `nightly.yml` and `auto-merge.yml`.

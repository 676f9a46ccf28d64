-------------------------- MODULE OpenClawLearning ---------------------------
(***************************************************************************)
(* The memory of OpenClaw (tools/openclaw_action_log_writer.ts, written by *)
(* the gateway of openclaw_gateway.ts): a log of attempts and two files of *)
(* statistics over it.  Each gateway loads the statistics when it is made, *)
(* counts in its own memory and writes them out whole after every attempt. *)
(* Gateways are processes of their own and may be killed at and within     *)
(* every access to a file.  The decisions taken from the statistics are    *)
(* those of OpenClawDecisions; who takes them is outside the program.      *)
(*                                                                         *)
(* The log is given by the attempts that were to be written to it and by   *)
(* which of them a reader does not find: a line that is missing or torn,   *)
(* or one that was glued to a line without its end.                        *)
(***************************************************************************)
EXTENDS OpenClawGateway, OpenClawDecisions

CONSTANTS
    Gateways,       \* processes with a gateway
    Asks,           \* requests they may submit
    Stops,          \* requests they may stop before submission
    Environs,       \* environments in which rewards are learnt
    HintQualities,  \* scores of the best hint
    Mornings,       \* what a morning result says
    NoReason,       \* reject_reason: null
    Torn,           \* a file cut short
    MaxAttempts,    \* bound: lines of the log
    MaxRewards,     \* bound: attempts that are rewarded
    MaxUpsets       \* bound: kills and failed writes

Reasons == {"invariant_violation", "high_risk_global", "duplicate_strategy", "low_hint_score", "cap_exceeded"}
SuggestPaths == {"reduce_blast_radius", "reuse_hint", "find_new_target"}

AskType == [action : {"query", "enqueue_candidate", "human_review"}, target : STRING, phrase : STRING,
            risk : {"LOW", "MEDIUM", "HIGH"}, touches : {"free", "kernel", "benchmark"},
            radius : Radii, complete : BOOLEAN]
StopType == [action : {"enqueue_candidate"}, target : STRING, path : SuggestPaths,
             reason : {"duplicate_strategy", "low_hint_score", "cap_exceeded"}]

MorningType == [health : 0 .. 10000, posture : {"GREEN", "YELLOW", "RED"}, failures : Nat]

ASSUME LearningInputs ==
    /\ Asks \subseteq AskType /\ Stops \subseteq StopType /\ Environs \subseteq EnvironmentStates
    /\ HintQualities \subseteq 0 .. 10000 /\ Mornings \subseteq MorningType
ASSUME LearningBounds == MaxAttempts \in Nat /\ MaxRewards \in Nat /\ MaxUpsets \in Nat

VARIABLES
    attempt_log,    \* openclaw_action_log.jsonl: the attempts made
    lost,           \* those of them that cannot be read from it
    last_line,      \* those on its last line, if that has no end yet
    intent_stats,   \* openclaw_intent_stats.json: intent -> counts
    suggest_stats,  \* openclaw_suggest_stats.json: paths in order of their first use
    policy,         \* openclaw_policy.json
    rewards,        \* attempts rewarded in it
    gateways,       \* the memory of the processes
    shared,         \* were two gateways ever open at once?
    upsets

log_vars == <<attempt_log, lost, last_line>>
learning_vars == <<log_vars, intent_stats, suggest_stats, policy, rewards, gateways, shared, upsets>>

Closed == [pc |-> "closed"]

LearningInit ==
    /\ attempt_log = <<>> /\ lost = {} /\ last_line = {}
    /\ intent_stats = <<>> /\ suggest_stats = <<>> /\ policy = <<>> /\ rewards = 0
    /\ gateways = [g \in Gateways |-> Closed]
    /\ shared = FALSE /\ upsets = 0

-----------------------------------------------------------------------------
(* Entries and counts                                                        *)

\* The phrase of a candidate is its rationale.
ResolveIntentKey(ask) ==
    IF ask.action = "enqueue_candidate" THEN <<ask.target, ask.phrase>> ELSE <<ask.action, ask.target>>

\* The intent of a stop is that of the action, not that of the candidate.
StopKey(stop) == <<stop.action, stop.target>>

IntentKeys == {ResolveIntentKey(ask) : ask \in Asks} \cup {StopKey(stop) : stop \in Stops}

IntentCounts == [attempts : Nat, successes : Nat, dominant : Reasons \cup {NoReason}]

\* What is cut short does not parse as statistics.
ASSUME LearningMarks ==
    /\ NoReason \notin Reasons
    /\ \A keys \in SUBSET IntentKeys : Torn \notin [keys -> IntentCounts]

Verdict(ask) ==
    EvaluateGateway([risk |-> ask.risk, action |-> ask.action, touches |-> ask.touches,
                     payload |-> IF ask.radius = "GLOBAL" THEN "global"
                                 ELSE IF ask.complete THEN "complete" ELSE "empty"])

Outcome(verdict) == IF verdict = "PASS" THEN "SUCCESS" ELSE verdict

\* HIGH_RISK_BLOCKED is the code of the first rule, and of no other.
MapRejectCode(ask) ==
    IF Verdict(ask) = "PASS" THEN NoReason
    ELSE IF ask.risk = "HIGH" THEN "high_risk_global" ELSE "invariant_violation"

Tried(stats, key) == IF key \in DOMAIN stats THEN stats[key].attempts ELSE 0

\* The gateway names no recovery path.
GatewayEntry(ask, stats) ==
    [intent |-> ResolveIntentKey(ask), outcome |-> Outcome(Verdict(ask)), reason |-> MapRejectCode(ask),
     attempt |-> IF ask.action = "enqueue_candidate" THEN Tried(stats, ResolveIntentKey(ask)) + 1 ELSE 0]

StopEntry(stop, stats) ==
    [intent |-> StopKey(stop), reason |-> stop.reason,
     outcome |-> IF stop.reason = "cap_exceeded" THEN "STOPPED_BY_CAP" ELSE "PRE_REJECT",
     attempt |-> Tried(stats, StopKey(stop)) + 1]

\* Mutant: a success is not counted as an attempt.
UpdateIntentStats_Failures(stats, entry) ==
    LET key == entry.intent
        old == IF key \in DOMAIN stats THEN stats[key] ELSE [attempts |-> 0, successes |-> 0, dominant |-> NoReason]
        won == entry.outcome = "SUCCESS"
    IN  [k \in DOMAIN stats \cup {key} |->
           IF k # key THEN stats[k]
           ELSE [attempts |-> old.attempts + (IF won THEN 0 ELSE 1), successes |-> old.successes + (IF won THEN 1 ELSE 0),
                 dominant |-> IF won THEN old.dominant ELSE entry.reason]]

\* The pattern called dominant is the last one.
UpdateIntentStats(stats, entry) ==
    LET key == entry.intent
        old == IF key \in DOMAIN stats THEN stats[key] ELSE [attempts |-> 0, successes |-> 0, dominant |-> NoReason]
        won == entry.outcome = "SUCCESS"
    IN  [k \in DOMAIN stats \cup {key} |->
           IF k # key THEN stats[k]
           ELSE [attempts |-> old.attempts + 1, successes |-> old.successes + (IF won THEN 1 ELSE 0),
                 dominant |-> IF won THEN old.dominant ELSE entry.reason]]

UpdateSuggestStats(suggests, path) ==
    IF \E i \in DOMAIN suggests : suggests[i].path = path
    THEN [i \in DOMAIN suggests |->
            IF suggests[i].path = path THEN [suggests[i] EXCEPT !.suggested = @ + 1] ELSE suggests[i]]
    ELSE Append(suggests, [path |-> path, suggested |-> 1, credited |-> 0])

\* The path last suggested for the intent in this process is credited. Nothing is
\* ever put into pending.
BackFill(suggests, pending, key) ==
    [i \in DOMAIN suggests |->
        IF key \in DOMAIN pending /\ suggests[i].path = pending[key]
        THEN [suggests[i] EXCEPT !.credited = @ + 1] ELSE suggests[i]]

-----------------------------------------------------------------------------
(* The life of a gateway                                                     *)

Loaded(file) == IF file = Torn THEN <<>> ELSE file

\* The constructor: the statistics are read once.
OpenGateway(g) ==
    /\ gateways[g].pc = "closed" /\ Len(attempt_log) < MaxAttempts
    /\ gateways' = [gateways EXCEPT ![g] =
                      [pc |-> "idle", intents |-> Loaded(intent_stats), suggests |-> Loaded(suggest_stats),
                       pending |-> <<>>, retry |-> {}, outcome |-> "none"]]
    /\ shared' = (shared \/ \E h \in Gateways : gateways[h].pc # "closed")
    /\ UNCHANGED <<log_vars, intent_stats, suggest_stats, policy, rewards, upsets>>

\* The line is written whole: after one without its end both are unreadable.
AppendAttempt(entry) ==
    LET n == Len(attempt_log) + 1
    IN  /\ attempt_log' = Append(attempt_log, entry)
        /\ lost' = IF last_line = {} THEN lost ELSE lost \cup last_line \cup {n}
        /\ last_line' = {}
        /\ UNCHANGED upsets

\* Nothing of it is written, a part, or all but its end.
LineFails(entry) ==
    LET n == Len(attempt_log) + 1
    IN  /\ upsets < MaxUpsets /\ upsets' = upsets + 1
        /\ attempt_log' = Append(attempt_log, entry)
        /\ \/ lost' = lost \cup {n} /\ UNCHANGED last_line
           \/ lost' = lost \cup last_line \cup {n} /\ last_line' = last_line \cup {n}
           \/ lost' = (IF last_line = {} THEN lost ELSE lost \cup last_line \cup {n}) /\ last_line' = last_line \cup {n}

\* append_gateway_result of process, which swallows a failing append: what
\* processWithAutoShrink will ask next, if anything, is kept in retry.
Attempt(g, ask, retry) ==
    LET entry == GatewayEntry(ask, gateways[g].intents)
        won == entry.outcome = "SUCCESS"
    IN  /\ AppendAttempt(entry) \/ LineFails(entry)
        /\ gateways' = [gateways EXCEPT
              ![g].pc = "intents", ![g].retry = retry, ![g].outcome = entry.outcome,
              ![g].intents = UpdateIntentStats(@, entry),
              ![g].suggests = IF won THEN BackFill(@, gateways[g].pending, entry.intent) ELSE @,
              ![g].pending = IF won THEN [k \in DOMAIN @ \ {entry.intent} |-> @[k]] ELSE @]

Process(g, ask) ==
    /\ gateways[g].pc = "idle" /\ Len(attempt_log) < MaxAttempts
    /\ Attempt(g, ask, {})
    /\ UNCHANGED <<intent_stats, suggest_stats, policy, rewards, shared>>

\* What was blocked for its risk is asked again with the next smaller radius; the
\* risk it declares is left as it was.
ProcessWithAutoShrink(g, ask) ==
    /\ gateways[g].pc = "idle" /\ Len(attempt_log) < MaxAttempts
    /\ Attempt(g, ask, IF ask.risk = "HIGH" /\ AutoShrinkBlastRadius(ask.radius) # ask.radius
                       THEN {[ask EXCEPT !.radius = AutoShrinkBlastRadius(@)]} ELSE {})
    /\ UNCHANGED <<intent_stats, suggest_stats, policy, rewards, shared>>

Retry(g) ==
    /\ gateways[g].pc = "retry" /\ Len(attempt_log) < MaxAttempts
    /\ \E ask \in gateways[g].retry : Attempt(g, ask, {})
    /\ UNCHANGED <<intent_stats, suggest_stats, policy, rewards, shared>>

\* append_pre_reject: the cap names no path.
PreReject(g, stop) ==
    LET entry == StopEntry(stop, gateways[g].intents)
    IN  /\ gateways[g].pc = "idle" /\ Len(attempt_log) < MaxAttempts
        /\ AppendAttempt(entry) \/ LineFails(entry)
        /\ gateways' = [gateways EXCEPT
              ![g].pc = "intents", ![g].outcome = entry.outcome,
              ![g].intents = UpdateIntentStats(@, entry),
              ![g].suggests = IF stop.reason = "cap_exceeded" THEN @ ELSE UpdateSuggestStats(@, stop.path)]
        /\ UNCHANGED <<intent_stats, suggest_stats, policy, rewards, shared>>

\* _flushSidecars, one file after the other: over what other gateways have written.
FlushIntents(g) ==
    /\ gateways[g].pc = "intents"
    /\ intent_stats' = gateways[g].intents
    /\ gateways' = [gateways EXCEPT ![g].pc = "suggests"]
    /\ UNCHANGED <<log_vars, suggest_stats, policy, rewards, shared, upsets>>

FlushSuggests(g) ==
    /\ gateways[g].pc = "suggests"
    /\ suggest_stats' = gateways[g].suggests
    /\ gateways' = [gateways EXCEPT ![g].pc = IF gateways[g].retry = {} THEN "learn" ELSE "retry"]
    /\ UNCHANGED <<log_vars, intent_stats, policy, rewards, shared, upsets>>

\* A write that fails is swallowed too; the file is as it was, or cut short.
FlushFails(g) ==
    /\ upsets < MaxUpsets /\ upsets' = upsets + 1
    /\ \/ /\ gateways[g].pc = "intents" /\ intent_stats' \in {intent_stats, Torn} /\ UNCHANGED suggest_stats
          /\ gateways' = [gateways EXCEPT ![g].pc = "suggests"]
       \/ /\ gateways[g].pc = "suggests" /\ suggest_stats' \in {suggest_stats, Torn} /\ UNCHANGED intent_stats
          /\ gateways' = [gateways EXCEPT ![g].pc = IF gateways[g].retry = {} THEN "learn" ELSE "retry"]
    /\ UNCHANGED <<log_vars, policy, rewards, shared>>

\* The operator rewards what it did by its outcome, or does not.
Learn(g) ==
    /\ gateways[g].pc = "learn"
    /\ \/ /\ rewards < MaxRewards /\ rewards' = rewards + 1
          /\ \E env \in Environs, action \in ActionTypes :
                policy' = UpdatePolicy(policy, action, IF gateways[g].outcome = "SUCCESS" THEN 1 ELSE -1, env)
       \/ UNCHANGED <<policy, rewards>>
    /\ gateways' = [gateways EXCEPT ![g].pc = "idle", ![g].outcome = "none"]
    /\ UNCHANGED <<log_vars, intent_stats, suggest_stats, shared, upsets>>

CloseGateway(g) ==
    /\ gateways[g].pc = "idle"
    /\ gateways' = [gateways EXCEPT ![g] = Closed]
    /\ UNCHANGED <<log_vars, intent_stats, suggest_stats, policy, rewards, shared, upsets>>

\* Between the accesses, or within a write.
KillGateway(g) ==
    /\ gateways[g].pc \in {"intents", "suggests", "retry"}
    /\ upsets < MaxUpsets /\ upsets' = upsets + 1
    /\ intent_stats' \in {intent_stats} \cup (IF gateways[g].pc = "intents" THEN {Torn} ELSE {})
    /\ suggest_stats' \in {suggest_stats} \cup (IF gateways[g].pc = "suggests" THEN {Torn} ELSE {})
    /\ gateways' = [gateways EXCEPT ![g] = Closed]
    /\ UNCHANGED <<log_vars, policy, rewards, shared>>

\* Within the append: the line is left as a failing append leaves it, and nobody counts it.
KillAppending(g, entry) ==
    /\ Len(attempt_log) < MaxAttempts
    /\ LineFails(entry)
    /\ gateways' = [gateways EXCEPT ![g] = Closed]
    /\ UNCHANGED <<intent_stats, suggest_stats, policy, rewards, shared>>

\* The lines that a gateway may be writing.
Writing(g) ==
    LET stats == gateways[g].intents
    IN  IF gateways[g].pc = "idle"
        THEN {GatewayEntry(ask, stats) : ask \in Asks} \cup {StopEntry(stop, stats) : stop \in Stops}
        ELSE IF gateways[g].pc = "retry" THEN {GatewayEntry(ask, stats) : ask \in gateways[g].retry}
        ELSE {}

GatewayStep(g) ==
    \/ OpenGateway(g) \/ CloseGateway(g) \/ KillGateway(g)
    \/ \E entry \in Writing(g) : KillAppending(g, entry)
    \/ \E ask \in Asks : Process(g, ask) \/ ProcessWithAutoShrink(g, ask)
    \/ \E stop \in Stops : PreReject(g, stop)
    \/ Retry(g) \/ FlushIntents(g) \/ FlushSuggests(g) \/ FlushFails(g) \/ Learn(g)

LearningNext == \E g \in Gateways : GatewayStep(g)

LearningSpec == LearningInit /\ [][LearningNext]_learning_vars

-----------------------------------------------------------------------------
(* Properties                                                                *)

Open(g) == gateways[g].pc # "closed"

\* One gateway at a time, no failure.
Undisturbed == ~shared /\ upsets = 0

AttemptsAt(key) == {i \in DOMAIN attempt_log : attempt_log[i].intent = key}
SuccessesAt(key) == {i \in AttemptsAt(key) : attempt_log[i].outcome = "SUCCESS"}

\* No count is beyond the attempts made.
WithinLog(stats) ==
    \A key \in DOMAIN stats :
        /\ stats[key].attempts <= Cardinality(AttemptsAt(key))
        /\ stats[key].successes <= Cardinality(SuccessesAt(key))

\* Every attempt is counted.
CountsLog(stats) ==
    /\ DOMAIN stats = {attempt_log[i].intent : i \in DOMAIN attempt_log}
    /\ \A key \in DOMAIN stats :
          /\ stats[key].attempts = Cardinality(AttemptsAt(key))
          /\ stats[key].successes = Cardinality(SuccessesAt(key))

\* The statistics are of the log: whatever gateways overwrite each other's files, die
\* between two accesses or within one, no intent has more attempts or successes than
\* were made, no attempt number runs ahead of the retry cap, and the log falls short of
\* the attempts by two lines for every kill or failing write at most (a torn line costs
\* the next one). One gateway at a time and undisturbed, the statistics count every
\* line, none is lost, and the attempts of an intent are numbered as they come.
StatsOfTheLog ==
    /\ WithinLog(Loaded(intent_stats))
    /\ \A g \in Gateways : Open(g) => WithinLog(gateways[g].intents)
    /\ \A i \in DOMAIN attempt_log :
          attempt_log[i].attempt <= Cardinality({j \in AttemptsAt(attempt_log[i].intent) : j <= i})
    /\ lost \subseteq DOMAIN attempt_log /\ Cardinality(lost) <= 2 * upsets
    /\ Undisturbed =>
         /\ \A g \in Gateways : Open(g) => CountsLog(gateways[g].intents)
         /\ (\A g \in Gateways : gateways[g].pc # "intents") => CountsLog(intent_stats)
         /\ \A i \in DOMAIN attempt_log : attempt_log[i].attempt # 0 =>
               attempt_log[i].attempt = Cardinality({j \in AttemptsAt(attempt_log[i].intent) : j <= i})

\* What is decided follows from what was learnt, lately or long ago: an
\* intent that fails is not tried anew and no panel calls it safe; a target whose
\* intents all fail is shown green only for its own score; no reward ever makes a GLOBAL
\* change the next thing to try, nor its shrunk form unless all is stable; an
\* environment without rewards reuses the hint; and a morning that is RED is hostile and
\* reviewed first.
ChoicesAreCautious ==
    LET stats == Loaded(intent_stats)
        keys == DOMAIN stats \cup {attempt_log[i].intent : i \in DOMAIN attempt_log}
    IN  /\ \A key \in keys, morning \in Mornings, hint \in HintQualities, radius \in Radii, fresh \in {0, 10} :
              LET env == DeriveEnvironmentState(morning)
                  choice == DecideAction(stats, key, hint, radius, fresh, env, policy)
              IN  /\ choice = "new_candidate" => ~IsIntentLocked(stats, key) /\ radius # "GLOBAL"
                  /\ choice = "shrink_scope" /\ radius = "GLOBAL" => env = "STABLE"
                  /\ (\A k \in DOMAIN policy : k[1] # env) => choice = "reuse_hint"
                  /\ morning.posture = "RED" => env = "HOSTILE" /\ PrioritizeReviewItem(morning, stats) = 1
        /\ \A key \in DOMAIN stats : IsIntentLocked(stats, key) => key \notin SafeToIgnore(stats)
        /\ \A target \in {key[1] : key \in DOMAIN stats} :
              (\A key \in DOMAIN stats : key[1] = target => IsIntentLocked(stats, key)) =>
                 ComputeVisualSignal(TRUE, "NEUTRAL", NodeStats(stats, target)) \in {"red", "yellow"}

=============================================================================

----------------------------- MODULE Observation ----------------------------
(***************************************************************************)
(* What a night observes (phase14_observation_collector.ts): the files the *)
(* weekly governance left, as entries [kind, count] that Phase A turns     *)
(* into focus seeds. Operators only.  The data are a record:               *)
(*   gates       records of the watcher, by their status                   *)
(*   dispatches  lines the telemetry CLI read, or NoFile                   *)
(*   unassigned  reviews without a reviewer                                *)
(*   invariants  of the judged week: invariant -> PASS, WATCH, FAIL        *)
(*   reasons     why the week's judgement says NOT_ELIGIBLE                *)
(*   health      repo_health_snapshot.json: [build, lint, failing], or     *)
(*               NoFile                                                    *)
(***************************************************************************)
EXTENDS Integers, Sequences, FiniteSets

CONSTANT NoFile

Entry(kind, count) == [kind |-> kind, count |-> count]

EntryIf(kind, count) == IF count > 0 THEN <<Entry(kind, count)>> ELSE <<>>

\* A gate that stays pending, a dispatch log that is empty, reviews nobody has.
CollectErrorLogEntries(data) ==
    EntryIf("error_log", Cardinality({i \in DOMAIN data.gates : data.gates[i] = "PENDING_BASELINE"}))
    \o (IF data.dispatches = 0 THEN <<Entry("error_log", 1)>> ELSE <<>>)
    \o EntryIf("error_log", data.unassigned)

Stressed(data) == {i \in DOMAIN data.invariants : data.invariants[i] # "PASS"}

\* An invariant that is only watched counts as one that failed. The last entry is
\* there whatever was observed.
CollectInvariantStress(data) ==
    [i \in 1..Cardinality(Stressed(data)) |-> Entry("invariant_stress", 1)]
    \o EntryIf("invariant_stress", Cardinality(data.reasons))
    \o <<Entry("invariant_stress", 2)>>

\* A failing test counts once, however many nights it has failed.
CollectFromRepoHealthSnapshot(data) ==
    IF data.health = NoFile THEN <<>>
    ELSE EntryIf("error_log", data.health.build) \o EntryIf("error_log", data.health.lint)
         \o [i \in 1..Cardinality(data.health.failing) |-> Entry("flaky_regression", 1)]

CollectObservationWindow(data) ==
    CollectErrorLogEntries(data) \o CollectFromRepoHealthSnapshot(data) \o CollectInvariantStress(data)

=============================================================================

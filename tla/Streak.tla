------------------------------- MODULE Streak -------------------------------
(***************************************************************************)
(* The weekly judgement of the governance loop. judge_healthy_streak.py    *)
(* gives a week a status, counts the healthy weeks in a row and decides    *)
(* whether four of them make the system eligible for L3; the weeks come in *)
(* one input, or the earlier ones from the result of the run before.       *)
(* apply_healthy_streak_to_report.py copies the result into the report.    *)
(*                                                                         *)
(* Times are tenths of an hour.                                            *)
(***************************************************************************)
EXTENDS Integers, Sequences, FiniteSets

CONSTANTS
    WeekInputs,     \* [cycle, p50, p90, invariants, freeze (Unknown: null), complete] of a week
    Unknown,        \* a field the history file does not keep
    MaxWeeks,       \* bound: weeks
    MaxUnsound,     \* bound: weeks that are not sound
    MaxEvaluated    \* bound: evaluations of a judgement

VARIABLES
    weeks,          \* the weekly inputs so far
    judged,         \* the result file: evaluated_weeks
    judged_to,      \* the week each of them is
    weekly_report   \* what the report says

streak_vars == <<weeks, judged, judged_to, weekly_report>>

StreakInit ==
    /\ weeks = <<>> /\ judged = <<>> /\ judged_to = <<>>
    /\ weekly_report = Unknown

-----------------------------------------------------------------------------
(* One week                                                                  *)

\* Velocity, latency, observability, visibility, human authority, oscillation.
InvariantKeys == {"I1", "I2", "I3", "I4", "I5", "I6"}

\* Of a cycle time the limit itself is a breach, of a queue age it is not.
Bands(w) ==
    LET band(stable, watch) == IF stable THEN "stable" ELSE IF watch THEN "watch" ELSE "breach"
    IN  {band(w.cycle <= 432, w.cycle < 480), band(w.p50 <= 162, w.p50 <= 180), band(w.p90 <= 324, w.p90 <= 360)}

\* The worst value of the invariants; one that is missing or no value hides the others.
Continuity(w) ==
    LET values == {w.invariants[i] : i \in DOMAIN w.invariants}
    IN  IF "INVALID" \in values THEN "INVALID"
        ELSE IF "FAIL" \in values THEN "FAIL" ELSE IF "WATCH" \in values THEN "WATCH" ELSE "PASS"

Failing(w, invariants) == \E i \in invariants : w.invariants[i] = "FAIL"
Blind(w) == Failing(w, {"I3", "I4"})
Unauthorised(w) == Failing(w, {"I5"})

\* An invalid continuity is none of the reasons: such a week may be healthy.
OwnStatus(w) ==
    IF Blind(w) \/ ~w.complete THEN "PRECHECK"
    ELSE IF Unauthorised(w) \/ "breach" \in Bands(w) \/ Continuity(w) = "FAIL" THEN "DEGRADED"
    ELSE IF "watch" \in Bands(w) \/ Continuity(w) = "WATCH" THEN "AT_RISK"
    ELSE "HEALTHY"

NoWeek == [status |-> "none", streak |-> 0]

\* A second week at risk in a row is degraded, after which the next is at risk again.
EvaluateWeek(w, before) ==
    LET status == IF before.status = "AT_RISK" /\ OwnStatus(w) = "AT_RISK" THEN "DEGRADED" ELSE OwnStatus(w)
    IN  [status |-> status, streak |-> IF status = "HEALTHY" THEN before.streak + 1 ELSE 0,
         continuity |-> Continuity(w), freeze |-> w.freeze, cycle |-> w.cycle, p50 |-> w.p50, p90 |-> w.p90,
         blind |-> Blind(w), unauthorised |-> Unauthorised(w)]

-----------------------------------------------------------------------------
(* The judgement                                                             *)

LastFour(es) == SubSeq(es, IF Len(es) > 4 THEN Len(es) - 3 ELSE 1, Len(es))

\* Why the window is not eligible; the bounds and the freeze are looked at only
\* when it has four weeks, and a value the history does not keep breaks them.
ReadinessReasons(es) ==
    LET four == LastFour(es)
        some(P(_)) == \E i \in DOMAIN four : P(four[i])
        full == Len(four) = 4
        given == {r \in {"human_authority_violation"} : some(LAMBDA e : e.unauthorised)}
            \cup {r \in {"judgement_invalid"} : some(LAMBDA e : e.blind)}
            \cup {r \in {"healthy_streak_below_4"} : es[Len(es)].streak < 4}
    IN  given \cup
        IF ~full THEN {"insufficient_weeks_for_l3_window"}
        ELSE {r \in {"invariant_continuity_not_all_pass"} : some(LAMBDA e : e.continuity # "PASS")}
             \cup {r \in {"median_cycle_time_bound_not_held"} :
                      some(LAMBDA e : IF e.cycle = Unknown THEN TRUE ELSE e.cycle >= 480)}
             \cup {r \in {"queue_age_bound_not_held"} :
                      some(LAMBDA e : IF e.p50 = Unknown THEN TRUE ELSE e.p50 > 180 \/ e.p90 > 360)}
             \cup {r \in {"gate_freeze_occurred_in_window"} : some(LAMBDA e : e.freeze # FALSE)}

\* Mutant: the file keeps the times.
FromHistory_Whole(e) == [e EXCEPT !.blind = FALSE, !.unauthorised = FALSE]

\* What is left of an evaluated week in the result file.
FromHistory(e) ==
    [e EXCEPT !.cycle = Unknown, !.p50 = Unknown, !.p90 = Unknown, !.blind = FALSE, !.unauthorised = FALSE]

\* The weeks of an input, after the given evaluations.
Evaluated(history, input) ==
    LET after[i \in 0..Len(input)] ==
          IF i = 0 THEN history
          ELSE LET es == after[i - 1]
               IN  Append(es, EvaluateWeek(weeks[input[i]], IF es = <<>> THEN NoWeek ELSE es[Len(es)]))
    IN  after[Len(input)]

\* The weeks from one on, in order; one of them may be there twice.
Through(from, to) == [i \in 1..(to - from + 1) |-> from + i - 1]
Inputs(first, last) ==
    {Through(first, last)} \cup {Through(first, again) \o Through(again, last) : again \in first..last}

\* A week that may be one of the four (what Observe may add, and what is meant by ready).
Sound(w) ==
    /\ Continuity(w) = "PASS" /\ w.complete /\ w.freeze = FALSE
    /\ w.cycle <= 432 /\ w.p50 <= 162 /\ w.p90 <= 324

Observe ==
    /\ Len(weeks) < MaxWeeks
    /\ \E w \in WeekInputs :
         /\ Sound(w) \/ Cardinality({i \in DOMAIN weeks : ~Sound(weeks[i])}) < MaxUnsound
         /\ weeks' = Append(weeks, w)
    /\ UNCHANGED <<judged, judged_to, weekly_report>>

\* The operator judges the latest week, or all in one input, with or without the
\* history file, which may hold some of them already; an input is a list that
\* nothing compares, and may name a week twice.
Judge ==
    /\ weeks # <<>>
    /\ \E first \in {1, Len(weeks)}, withHistory \in BOOLEAN : \E input \in Inputs(first, Len(weeks)) :
         LET history == IF withHistory THEN [i \in DOMAIN judged |-> FromHistory(judged[i])] ELSE <<>>
             es == Evaluated(history, input)
         IN  /\ Len(es) <= MaxEvaluated
             /\ judged' = es
             /\ judged_to' = (IF withHistory THEN judged_to ELSE <<>>) \o input
    /\ UNCHANGED <<weeks, weekly_report>>

\* The report has no field of its own for the freeze: it asks the reasons.
Inject ==
    /\ judged # <<>>
    /\ LET status == judged[Len(judged)].status
       IN  weekly_report' = [window |-> LastFour(judged_to),
                             result |-> CASE status = "HEALTHY" -> "PASS"
                                          [] status = "AT_RISK" -> "WATCH" [] OTHER -> "FAIL",
                             freeze |-> "gate_freeze_occurred_in_window" \in ReadinessReasons(judged),
                             ready |-> ReadinessReasons(judged) = {}]
    /\ UNCHANGED <<weeks, judged, judged_to>>

StreakNext == Observe \/ Judge \/ Inject

StreakSpec == StreakInit /\ [][StreakNext]_streak_vars

-----------------------------------------------------------------------------
(* Properties                                                                *)

\* L3 is earned: however the weeks were handed over, in parts, again, with or
\* without the history, the report says ready only of four evaluations of weeks
\* that each held every invariant, without a freeze and with stable times, and
\* none of which was skipped (a week that one input names twice is two of them);
\* and a streak counts evaluations without a single unhealthy one among them
\* (a week with an invalid invariant counts, and keeps the report from ready).
ReadinessIsEarned ==
    /\ weekly_report # Unknown => (weekly_report.ready =>
          LET window == weekly_report.window
          IN  /\ Len(window) = 4
              /\ \A i \in 1..4 : window[i] \in DOMAIN weeks /\ Sound(weeks[window[i]])
              /\ \A i \in 1..3 : window[i + 1] \in {window[i], window[i] + 1})
    /\ judged # <<>> =>
          LET n == Len(judged)
          IN  /\ judged[n].streak <= n
              /\ \A i \in (n - judged[n].streak + 1)..n : OwnStatus(weeks[judged_to[i]]) = "HEALTHY"

=============================================================================

------------------------------- MODULE Drift --------------------------------
(***************************************************************************)
(* What the drift monitor computes from the measurements of one target     *)
(* (drift_monitor.ts), what the controller makes of it                     *)
(* (drift_adaptation.ts), and the run a recovery goes back to              *)
(* (rollback_executor.ts).                                                 *)
(*                                                                         *)
(* A measurement is the number of ten-thousandths of a minute saved, to    *)
(* which the benchmark rounds. Means, deviations and slopes are fractions, *)
(* compared by multiplying out: every comparison below is exact.           *)
(***************************************************************************)
EXTENDS Integers, Sequences, SequencesExt

CONSTANTS
    MaxHistory,     \* measurements kept
    MinRuns         \* measurements a slope needs

ASSUME HistoryAssumption == MaxHistory \in Nat \ {0} /\ MinRuns \in Nat \ {0}

LastRuns(history, n) ==
    IF Len(history) <= n THEN history ELSE SubSeq(history, Len(history) - n + 1, Len(history))

TotalOf(values) ==
    LET sum[i \in 0..Len(values)] == IF i = 0 THEN 0 ELSE sum[i - 1] + values[i]
    IN  sum[Len(values)]

\* record: the newest MaxHistory measurements are kept.
RecordRun(history, value) == LastRuns(Append(history, value), MaxHistory)

-----------------------------------------------------------------------------
(* Statistics                                                                *)

\* Mean is sum / n, variance is spread / n^2.
WindowStats(values) ==
    LET n == Len(values)
        sum == TotalOf(values)
    IN  [n |-> n, sum |-> sum,
         spread |-> n * TotalOf([i \in 1..n |-> values[i] * values[i]]) - sum * sum]

\* The least-squares slope over positions 0 .. n-1, as a fraction; no slope for
\* a constant position.
OlsSlope(values) ==
    LET n == Len(values)
        sumI == TotalOf([i \in 1..n |-> i - 1])
        sumIY == TotalOf([i \in 1..n |-> (i - 1) * values[i]])
        sumI2 == TotalOf([i \in 1..n |-> (i - 1) * (i - 1)])
    IN  [num |-> n * sumIY - sumI * TotalOf(values), den |-> n * sumI2 - sumI * sumI]

\* slope_drift_threshold is a hundredth of the unit of measurement.
Falling(slope) == 100 * slope.num < -slope.den
Rising(slope) == 100 * slope.num > slope.den

\* Is value below mean - (p/q) deviations, strictly? Squared where both sides
\* are positive.
BelowDeviations(value, stats, p, q) ==
    LET gap == stats.sum - stats.n * value
    IN  gap > 0 /\ q * q * gap * gap > p * p * stats.spread

\* The z-score of the newest run in the window that contains it.
SuddenDrop(history) ==
    LET window == WindowStats(LastRuns(history, 5))
    IN  /\ window.n >= 3 /\ window.spread > 0
        /\ BelowDeviations(Last(history), window, 5, 2)

-----------------------------------------------------------------------------
(* compute                                                                   *)

HasSlope(history) == Len(LastRuns(history, 20)) >= MinRuns

DriftDetected(history) ==
    /\ history # <<>>
    /\ \/ HasSlope(history) /\ Falling(OlsSlope(LastRuns(history, 20)))
       \/ SuddenDrop(history)

Trend(history) ==
    CASE DriftDetected(history) -> "degrading"
      [] ~DriftDetected(history) /\ ~HasSlope(history) -> "insufficient_data"
      [] OTHER -> IF Rising(OlsSlope(LastRuns(history, 20))) THEN "improving" ELSE "stable"

-----------------------------------------------------------------------------
(* computeDriftAdaptation                                                    *)

NoRun == 0

PromotionBlocked(history) == Len(history) >= 5 /\ DriftDetected(history)

\* Mutant: searches from the oldest run.
LastGoodRun_Oldest(history) ==
    LET window == WindowStats(LastRuns(history, 5))
        good == {i \in DOMAIN history : ~BelowDeviations(history[i], window, 1, 2)}
    IN  IF good = {} THEN NoRun ELSE CHOOSE i \in good : \A j \in good : i <= j

\* The newest run that is no more than half a deviation below the mean of the
\* last five.
LastGoodRun(history) ==
    LET window == WindowStats(LastRuns(history, 5))
        good == {i \in DOMAIN history : ~BelowDeviations(history[i], window, 1, 2)}
    IN  IF good = {} THEN NoRun ELSE CHOOSE i \in good : \A j \in good : j <= i

\* What the next cycle is told, and the run a recovery goes back to.
ComputeDriftAdaptation(history) ==
    LET blocked == PromotionBlocked(history)
    IN  [blocked |-> blocked,
         maxCandidates |-> IF blocked THEN 1 ELSE NoRun,
         ceiling |-> IF blocked THEN "SELF" ELSE "none",
         lastGood |-> IF blocked THEN LastGoodRun(history) ELSE NoRun]

\* A record is built only for a target with a run to go back to.
RollbackRecord(adaptation) ==
    IF adaptation.blocked THEN adaptation.lastGood ELSE NoRun

-----------------------------------------------------------------------------
(* The morning screen judges the same measurements on its own.               *)

DriftStatus(history) ==
    CASE Len(history) < 5 -> "none"
      [] Len(history) >= 5 /\ DriftDetected(history) -> "DEGRADING"
      [] OTHER -> IF Trend(history) = "improving" THEN "IMPROVING" ELSE "STABLE"

=============================================================================

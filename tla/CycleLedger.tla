----------------------------- MODULE CycleLedger -----------------------------
(***************************************************************************)
(* What the ledger promises of the cycles, whatever crashes: cycles are    *)
(* worked on one at a time and in order; a cycle's verified set is fixed   *)
(* when the sandbox is done, its gate decision when Phase C is done, and   *)
(* both stay as they are; a cycle is reported only after its decision; and *)
(* the only other way out is to be given up, once, for good.               *)
(***************************************************************************)
EXTENDS Integers

CONSTANTS Cycles, Kind

VARIABLES stage, verified, promoted, deferred

vars == <<stage, verified, promoted, deferred>>

Stage == {"pending", "verified", "decided", "reported", "lost"}

Init ==
    /\ stage = [c \in Cycles |-> "pending"]
    /\ verified = [c \in Cycles |-> {}]
    /\ promoted = [c \in Cycles |-> {}]
    /\ deferred = [c \in Cycles |-> {}]

Open(c) == stage[c] \in {"verified", "decided"}

\* No other cycle is open and no later one was ever worked on.
Verify(c) ==
    /\ stage[c] = "pending"
    /\ \A d \in Cycles : ~Open(d) /\ (d > c => stage[d] = "pending")
    /\ \E ver \in SUBSET Kind : verified' = [verified EXCEPT ![c] = ver]
    /\ stage' = [stage EXCEPT ![c] = "verified"]
    /\ UNCHANGED <<promoted, deferred>>

\* A patch is promoted, deferred to a human, or neither.
Decide(c) ==
    /\ stage[c] = "verified"
    /\ \E p \in SUBSET verified[c] : \E h \in SUBSET (verified[c] \ p) :
          /\ promoted' = [promoted EXCEPT ![c] = p]
          /\ deferred' = [deferred EXCEPT ![c] = h]
    /\ stage' = [stage EXCEPT ![c] = "decided"]
    /\ UNCHANGED verified

Report(c) ==
    /\ stage[c] = "decided"
    /\ stage' = [stage EXCEPT ![c] = "reported"]
    /\ UNCHANGED <<verified, promoted, deferred>>

Lose(c) ==
    /\ stage[c] \in {"pending", "verified", "decided"}
    /\ stage' = [stage EXCEPT ![c] = "lost"]
    /\ UNCHANGED <<verified, promoted, deferred>>

Next == \E c \in Cycles : Verify(c) \/ Decide(c) \/ Report(c) \/ Lose(c)

Spec == Init /\ [][Next]_vars

=============================================================================

--------------------------- MODULE MCOpenClawQueue ---------------------------
(***************************************************************************)
(* Requests for TLC: candidates that pass, one of poor quality, and one    *)
(* for each rule of the gateway.                                           *)
(***************************************************************************)
EXTENDS OpenClawQueue

Candidate(n) == [id |-> n, risk |-> "MEDIUM", action |-> "enqueue_candidate",
                 touches |-> "free", payload |-> "complete", good |-> TRUE]

MixedRequests ==
    {Candidate(1), Candidate(2), [Candidate(3) EXCEPT !.good = FALSE],
     [Candidate(4) EXCEPT !.payload = "global"]}

=============================================================================

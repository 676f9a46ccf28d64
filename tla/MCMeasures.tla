----------------------------- MODULE MCMeasures -----------------------------
(***************************************************************************)
(* Measures with batches of up to three candidates, savings of 0 and 1,    *)
(* and two nights, which begin with no measurement or with four.           *)
(***************************************************************************)
EXTENDS Measures

Candidate(claim, blast, invariants) ==
    [hasDiff |-> TRUE, claim |-> claim, blast |-> blast, invariants |-> invariants,
     declaresTests |-> TRUE, orthogonal |-> FALSE, deletes |-> FALSE]

Claiming == Candidate(1, "TENANT", <<"INV-003">>)
Modest == Candidate(Null, "SELF", <<"INV-001">>)
Wide == Candidate(1, "GLOBAL", <<>>)
Empty == [Candidate(Null, "SELF", <<>>) EXCEPT !.hasDiff = FALSE]
Deleting == [Candidate(Null, "SELF", <<>>) EXCEPT !.deletes = TRUE]

MCCandidates == <<{<<Claiming>>, <<Empty, Deleting>>}, {<<Wide>>, <<Claiming, Modest, Modest>>}>>
MCHistories == {<<>>, <<1, 1, 1, 0>>}
MCLedgers == {{}, {[code |-> "F-001", names |-> "none"], [code |-> "F-003", names |-> "none"]}}
=============================================================================

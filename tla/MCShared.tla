------------------------------ MODULE MCShared -------------------------------
(***************************************************************************)
(* The components that several processes of their own use at once, one to a *)
(* behaviour: they share no state with each other, so that the behaviours  *)
(* of each are those it has alone.                                         *)
(***************************************************************************)
EXTENDS HumanReview, MCOpenClawQueue, MCRepoSplit, TLC

VARIABLE component

\* No patch and no reviewer is special.
Symmetry == Permutations(Patch) \cup Permutations(Reviewers)

SharedInit ==
    /\ component \in {"review", "queue", "split"}
    /\ ReviewInit /\ QueueInit /\ Init

SharedNext ==
    \/ component = "review" /\ ReviewNext /\ UNCHANGED <<component, queue_vars, vars>>
    \/ component = "queue" /\ QueueNext /\ UNCHANGED <<component, review_vars, vars>>
    \/ component = "split" /\ Next /\ UNCHANGED <<component, review_vars, queue_vars>>

SharedSpec == SharedInit /\ [][SharedNext]_<<component, review_vars, queue_vars, vars>>

=============================================================================

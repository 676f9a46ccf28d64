------------------------------- MODULE Totals -------------------------------
(***************************************************************************)
(* Totals over finite sets, of the values a function has on them.          *)
(***************************************************************************)
EXTENDS Integers

\* The sum of value[x] over the elements x of S.
SumOf(value, S) ==
    LET sum[part \in SUBSET S] ==
          IF part = {} THEN 0
          ELSE LET x == CHOOSE y \in part : TRUE IN value[x] + sum[part \ {x}]
    IN  sum[S]

=============================================================================

--------------------------- MODULE MCNightlyCycle ---------------------------
(***************************************************************************)
(* Values of the constants for TLC.                                        *)
(***************************************************************************)
EXTENDS NightlyCycle

\* Answers of which the sandbox verifies nothing, or one patch of every kind.
SomeBatches == {{}, Kind}

\* The answers for the runs about what reaches the reports.
PromotableBatches == {{"global"}, {"self", "global"}}

=============================================================================

------------------------------ MODULE MCWatch ------------------------------
(***************************************************************************)
(* The sets and budgets of the Watch runs are ordinary values, given in    *)
(* their cfg files.                                                        *)
(***************************************************************************)
EXTENDS Watch
=============================================================================

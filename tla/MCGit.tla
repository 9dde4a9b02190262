------------------------------- MODULE MCGit -------------------------------
(***************************************************************************)
(* Symmetry: nothing tells one caller, or one file outside .ai/, from      *)
(* another.                                                                *)
(***************************************************************************)
EXTENDS Git, TLC

Symmetry == Permutations(Callers) \cup Permutations(Files \ StateFiles)
=============================================================================

---------------------------- MODULE MCAtomicFile ----------------------------
(***************************************************************************)
(* Calls of Write are model values, interchangeable.                       *)
(***************************************************************************)
EXTENDS AtomicFile, TLC

Interchangeable == Permutations(Writers)
=============================================================================

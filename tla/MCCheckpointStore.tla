------------------------- MODULE MCCheckpointStore -------------------------
(***************************************************************************)
(* One command of each kind; the bounds are given in the cfg file.         *)
(***************************************************************************)
EXTENDS CheckpointStore
=============================================================================

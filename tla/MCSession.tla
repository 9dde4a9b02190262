----------------------------- MODULE MCSession -----------------------------
(***************************************************************************)
(* Two sessions, so that one can be current while another is continued.    *)
(***************************************************************************)
EXTENDS Session
=============================================================================

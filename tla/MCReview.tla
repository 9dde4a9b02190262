------------------------------ MODULE MCReview ------------------------------
(***************************************************************************)
(* Replies with every object of up to MaxObject characters, after prose    *)
(* with and without a brace in it.                                         *)
(***************************************************************************)
EXTENDS Review

AnyProse   == {<<>>, <<"x">>, <<"quote">>, <<"close", "slash">>, <<"open", "x", "close">>, <<"open">>}
AnyTrailer == {<<>>, <<"close">>, <<"open">>, <<"quote", "open", "close">>}
=============================================================================

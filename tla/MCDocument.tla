----------------------------- MODULE MCDocument -----------------------------
(***************************************************************************)
(* The documents by the way they are written: BACKLOG.md and CHANGELOG.md, *)
(* CURRENT.md, which a new task replaces, and DECISIONS.md, which grows.   *)
(***************************************************************************)
EXTENDS Document

AnyBreak  == {"none", "open", "bad"}
Backlogs  == {[ops |-> {"update", "init"}, breaks |-> AnyBreak, concurrent |-> c] : c \in BOOLEAN}
Current   == {[ops |-> {"update", "replace", "init"}, breaks |-> AnyBreak, concurrent |-> FALSE]}
Decisions == {[ops |-> {"append"}, breaks |-> b, concurrent |-> c] : b \in {AnyBreak, {"bad"}}, c \in BOOLEAN}

AllDocs == Backlogs \cup Current \cup Decisions
=============================================================================

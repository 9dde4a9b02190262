----------------------------- MODULE MCExecutor -----------------------------
(***************************************************************************)
(* Two tasks, the second with the higher priority, under five settings:    *)
(* the default one, a reviewer that writes, no reviewer, and the last two  *)
(* without automatic commits.                                              *)
(***************************************************************************)
EXTENDS ExecutorRefinement, Recovery

MCPriority == [t \in Tasks |-> IF t = 1 THEN 2 ELSE 1]

Set(r, e, a, i) == [review |-> r, reviewerEdits |-> e, autoCommit |-> a, stateIgnored |-> i]

MCSettings == {Set(TRUE, FALSE, TRUE, FALSE), Set(TRUE, TRUE, TRUE, TRUE), Set(FALSE, FALSE, TRUE, FALSE),
               Set(TRUE, FALSE, FALSE, FALSE), Set(FALSE, FALSE, FALSE, TRUE)}
=============================================================================

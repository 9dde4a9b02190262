------------------------------ MODULE Register ------------------------------
(***************************************************************************)
(* What a durable file promises its users: it always holds one complete    *)
(* value somebody wrote, and losing power takes back, at most, the latest  *)
(* writes that were not yet acknowledged.                                  *)
(***************************************************************************)
EXTENDS Naturals, Sequences

CONSTANTS Values, First

VARIABLES
  log,       \* the values the file has held, oldest first; the last one is its value
  promised   \* how many of them no power loss may take back

vars == <<log, promised>>

Init == log = <<First>> /\ promised = 1

Publish == \E v \in Values : log' = Append(log, v) /\ UNCHANGED promised

Promise == promised' \in promised..Len(log) /\ UNCHANGED log

LosePower == \E k \in promised..Len(log) : log' = SubSeq(log, 1, k) /\ UNCHANGED promised

Next == Publish \/ Promise \/ LosePower
Spec == Init /\ [][Next]_vars
=============================================================================

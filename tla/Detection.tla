------------------------------ MODULE Detection ------------------------------
(***************************************************************************)
(* `leadengineer detect` (App.DetectToolchain and internal/toolchain):     *)
(* Claude is asked how the project verifies itself, and what it reports    *)
(* becomes the declaration in TOOLCHAIN.md that the next run of the gates  *)
(* is chosen from.  People write that document too.                        *)
(*                                                                         *)
(* How the object is found in the reply is in module Review (the two scans *)
(* are the same code), and how the document is written in Document.        *)
(***************************************************************************)
EXTENDS Gates

CONSTANTS Replies,   \* the lists of gates that Claude may report, and
          Written    \* that people may write

ASSUME DetectionAssumption ==
  Replies \cup Written \subseteq Seq(Declaration) /\ \A p \in Projects : p.doc # "detected"

\* ParseToolchain drops what cannot be a gate, and keeps the rest in order.  (By places
\* rather than with SelectSeq, of which a prover knows nothing; MCGates compares them.)
CanRun(g) == g.name # "" /\ g.command # ""
Kept(reply) == {i \in DOMAIN reply : CanRun(reply[i])}
Rank(reply, i) == Cardinality(Kept(reply) \cap 1..i)

Runnable(reply) ==
  [n \in 1..Cardinality(Kept(reply)) |-> reply[CHOOSE i \in Kept(reply) : Rank(reply, i) = n]]

\* Mutant: what was detected is saved as it comes.
AcceptableUnchecked(gates) == gates # <<>>

\* A set that is worth recording: not empty, and FromSpecs takes it.
Acceptable(gates) == gates # <<>> /\ FromSpecs(gates) # Refused

DetectionInit == Untouched /\ at = "idle"

\* DetectToolchain.  In a cooldown, without a readable reply, with no set worth
\* recording, and when the write fails, it changes nothing.
Detect ==
  /\ at = "idle"
  /\ \E reply \in Replies :
       /\ Acceptable(Runnable(reply))
       /\ project' = [project EXCEPT !.doc = "detected", !.specs = Runnable(reply), !.reported = reply]
  /\ UNCHANGED <<at, set, results, cancelled, tree>>

\* Somebody writes the declaration by hand, or removes it.
PersonDeclares ==
  /\ at = "idle"
  /\ \/ \E specs \in Written : project' = [project EXCEPT !.doc = "declared", !.specs = specs]
     \/ project' = [project EXCEPT !.doc = "absent", !.specs = <<>>]
  /\ UNCHANGED <<at, set, results, cancelled, tree>>

\* A task is started.
Begin == at = "idle" /\ at' = "choosing" /\ UNCHANGED <<project, set, results, cancelled, tree>>

DetectionNext == Detect \/ PersonDeclares \/ Begin \/ Next

DetectionSpec == DetectionInit /\ [][DetectionNext]_vars
-----------------------------------------------------------------------------
\* What `detect` recorded is what the next task is checked by: the run is not refused,
\* and every gate that was reported with a name and a command is in the set, as required
\* as it was reported to be ("rejected now rather than failing the next task for an
\* unrelated-looking reason", App.DetectToolchain).
DetectedIsUsed ==
  project.doc = "detected" /\ ~project.inspection /\ at \notin {"idle", "choosing"}
     => /\ at # "refused"
        /\ \A g \in Range(project.reported) : CanRun(g) =>
             \E k \in DOMAIN set : /\ set[k].name = g.name /\ set[k].required = g.required
                                   /\ set[k].kind = "command"
=============================================================================

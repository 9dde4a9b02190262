--------------------------- MODULE CheckpointStore ---------------------------
(***************************************************************************)
(* The checkpoint directory of internal/checkpoint/store.go, shared by     *)
(* processes: the pipeline, which creates checkpoints, `checkpoint prune`, *)
(* which deletes them, and `recover`, `status` and `checkpoint verify`,    *)
(* which read them.  The store's mutex orders the calls of one process     *)
(* only, so the steps of two commands interleave: a directory listing, the *)
(* reading of one file and the removal of one file are steps of their own. *)
(* A file appears in one step, by a rename.                                *)
(*                                                                         *)
(* A file is known by its id, a timestamp and a per-process counter, and   *)
(* is sound or damaged in one of the ways load tells apart.                *)
(***************************************************************************)
EXTENDS Naturals, FiniteSets

CONSTANTS
  Pruners, Readers,   \* commands, each a process of its own
  Keep,               \* checkpoint.retention, or --keep
  Damage,             \* what may become of a file: "corrupt", "newer", "unreadable"
  ClockMayStepBack,
  None,
  \* Bounds of the model.
  MaxTime, MaxMade, MaxDamage

ASSUME StoreAssumption ==
  /\ Keep \in Nat \ {0} /\ Pruners \cap Readers = {}
  /\ Damage \subseteq {"corrupt", "newer", "unreadable"}
  /\ ClockMayStepBack \in BOOLEAN
  /\ {MaxTime, MaxMade, MaxDamage} \subseteq Nat

VARIABLES
  files,    \* the directory: what each file is, and the order in which they were made
  clock, seq,
  proc,     \* the commands: where each is and what it has read so far (upto: made when it began)
  made, harmed

vars == <<files, clock, seq, proc, made, harmed>>

Procs == Pruners \cup Readers
Kinds == {"intact", "corrupt", "newer", "unreadable"}
Ids   == [time : 0..MaxTime, seq : 1..MaxMade]
File  == [id : Ids, kind : Kinds, birth : 1..MaxMade]

Idle  == [at |-> "idle", op |-> "none", unseen |-> {}, whole |-> {}, bad |-> {}, answer |-> "none",
          upto |-> 0, found |-> None]
Local == [at : {"idle", "reading", "removing"}, op : {"none", "prune", "latest", "verify"},
          unseen : SUBSET Ids, whole : SUBSET Ids, bad : SUBSET Ids,
          answer : {"none", "found", "empty", "error", "clean", "damaged"}, upto : 0..MaxMade, found : Ids \cup {None}]
-----------------------------------------------------------------------------
\* listIDs sorts the names, which is to sort by time and then by counter.
Later(a, b) == a.time > b.time \/ (a.time = b.time /\ a.seq > b.seq)

\* Mutant: oldest first.
NewestIsOldest(S) == CHOOSE a \in S : \A b \in S \ {a} : Later(b, a)
Newest(S) == CHOOSE a \in S : \A b \in S \ {a} : Later(a, b)

Listing == {f.id : f \in files}
Named(id) == {f \in files : f.id = id}

\* load: what reading the file of that name gives now.
Load(id) == IF Named(id) = {} THEN "missing" ELSE (CHOOSE f \in Named(id) : TRUE).kind

\* Mutant: one too few is kept.
BeyondTooMany(S, keep) == {a \in S : Cardinality({b \in S : Later(b, a)}) + 1 >= keep}

\* The ids in S beyond the keep newest.
Beyond(S, keep) == {a \in S : Cardinality({b \in S : Later(b, a)}) >= keep}

Intact(S)  == {f \in S : f.kind = "intact"}
Usable     == Intact(files)
Loc(p, s)  == proc' = [proc EXCEPT ![p] = s]
Quiet      == \A p \in Procs : proc[p].at = "idle"
-----------------------------------------------------------------------------
Init == /\ files = {} /\ clock = 0 /\ seq = 0 /\ made = 0 /\ harmed = 0
        /\ proc = [p \in Procs |-> Idle]

\* CreateCheckpoint.  Names hold nanoseconds: even after a restart and a clock set back
\* no name comes up that is in use.
Create ==
  /\ made < MaxMade
  /\ LET id == [time |-> clock, seq |-> seq + 1]
     IN  Named(id) = {} /\ files' = files \cup {[id |-> id, kind |-> "intact", birth |-> made + 1]}
  /\ seq' = seq + 1 /\ made' = made + 1
  /\ UNCHANGED <<clock, proc, harmed>>

\* A new pipeline process counts from one again; ids hold nanoseconds, so time
\* has passed since the last checkpoint of the process before it.
CreatorRestarts == /\ clock < MaxTime /\ clock' = clock + 1 /\ seq' = 0
                   /\ UNCHANGED <<files, proc, made, harmed>>

ClockTicks == /\ clock < MaxTime /\ clock' = clock + 1
              /\ UNCHANGED <<files, seq, proc, made, harmed>>

\* The wall clock is set back.
ClockSteps == /\ ClockMayStepBack /\ clock > 0 /\ clock' = clock - 1
              /\ UNCHANGED <<files, seq, proc, made, harmed>>

\* A file goes bad, while no command is at work.
Harm == /\ harmed < MaxDamage /\ harmed' = harmed + 1 /\ Quiet
        /\ \E f \in Usable, k \in Damage : files' = (files \ {f}) \cup {[f EXCEPT !.kind = k]}
        /\ UNCHANGED <<clock, seq, proc, made>>

\* A command starts by listing the directory.
Begin(p, op) ==
  /\ proc[p].at = "idle"
  /\ Loc(p, [Idle EXCEPT !.at = "reading", !.op = op, !.unseen = Listing, !.upto = made])
  /\ UNCHANGED <<files, clock, seq, made, harmed>>

Answer(p, a, id) == Loc(p, [Idle EXCEPT !.op = proc[p].op, !.answer = a, !.found = id])

\* Mutant: a corrupt file is an error like any other.
ReadLatestStrict(p) ==
  /\ proc[p].at = "reading" /\ proc[p].op = "latest"
  /\ IF proc[p].unseen = {} THEN Answer(p, "empty", None)
     ELSE LET id == Newest(proc[p].unseen)
          IN  IF Load(id) = "intact" THEN Answer(p, "found", id) ELSE Answer(p, "error", None)
  /\ UNCHANGED <<files, clock, seq, made, harmed>>

\* GetLatestCheckpoint: newest first; a corrupt file is passed over, any other
\* trouble, a missing file included, is returned.
ReadLatest(p) ==
  /\ proc[p].at = "reading" /\ proc[p].op = "latest"
  /\ IF proc[p].unseen = {} THEN Answer(p, "empty", None)
     ELSE LET id == Newest(proc[p].unseen)
          IN  CASE Load(id) = "intact"  -> Answer(p, "found", id)
                [] Load(id) = "corrupt" -> Loc(p, [proc[p] EXCEPT !.unseen = @ \ {id}])
                [] OTHER                -> Answer(p, "error", None)
  /\ UNCHANGED <<files, clock, seq, made, harmed>>

\* checkpoint verify, and the count of corrupt files in recover and status: every
\* listed file that does not load is reported as corrupt.
ReadVerify(p) ==
  /\ proc[p].at = "reading" /\ proc[p].op = "verify"
  /\ IF proc[p].unseen = {} THEN Answer(p, IF proc[p].bad = {} THEN "clean" ELSE "damaged", None)
     ELSE LET id == Newest(proc[p].unseen)
          IN  Loc(p, [proc[p] EXCEPT !.unseen = @ \ {id},
                                     !.bad = IF Load(id) = "intact" THEN @ ELSE @ \cup {id}])
  /\ UNCHANGED <<files, clock, seq, made, harmed>>

\* PruneOldCheckpoints, with no more files than it may keep: nothing to do.
PruneNothing(p) ==
  /\ proc[p].at = "reading" /\ proc[p].op = "prune"
  /\ Cardinality(proc[p].unseen \cup proc[p].whole \cup proc[p].bad) <= Keep
  /\ Loc(p, Idle)
  /\ UNCHANGED <<files, clock, seq, made, harmed>>

\* Otherwise each file is read; what is not corrupt counts as intact.  From then on
\* whole and bad are the files to remove.
PruneRead(p) ==
  /\ proc[p].at = "reading" /\ proc[p].op = "prune"
  /\ Cardinality(proc[p].unseen \cup proc[p].whole \cup proc[p].bad) > Keep
  /\ IF proc[p].unseen = {}
     THEN Loc(p, [proc[p] EXCEPT !.at = "removing", !.whole = Beyond(@, Keep)])
     ELSE LET id == Newest(proc[p].unseen)
          IN  Loc(p, IF Load(id) = "corrupt"
                     THEN [proc[p] EXCEPT !.unseen = @ \ {id}, !.bad = @ \cup {id}]
                     ELSE [proc[p] EXCEPT !.unseen = @ \ {id}, !.whole = @ \cup {id}])
  /\ UNCHANGED <<files, clock, seq, made, harmed>>

\* The corrupt files go first, then the surplus, newest first; one already gone
\* is no error.
PruneRemove(p) ==
  /\ proc[p].at = "removing"
  /\ LET doomed == IF proc[p].bad # {} THEN proc[p].bad ELSE proc[p].whole
     IN  IF doomed = {} THEN Loc(p, Idle) /\ UNCHANGED files
         ELSE /\ files' = files \ Named(Newest(doomed))
              /\ Loc(p, [proc[p] EXCEPT !.bad = @ \ {Newest(doomed)}, !.whole = @ \ {Newest(doomed)}])
  /\ UNCHANGED <<clock, seq, made, harmed>>

\* The command is killed, or a removal fails and ends it.
PruneStops(p) == /\ proc[p].at # "idle" /\ Loc(p, Idle)
                 /\ UNCHANGED <<files, clock, seq, made, harmed>>

Prune(p)  == Begin(p, "prune") \/ PruneNothing(p) \/ PruneRead(p) \/ PruneRemove(p) \/ PruneStops(p)
Read(p)   == Begin(p, "latest") \/ Begin(p, "verify") \/ ReadLatest(p) \/ ReadVerify(p)
Creator   == Create \/ CreatorRestarts
Outside   == ClockTicks \/ ClockSteps \/ Harm

Next == Creator \/ Outside \/ (\E p \in Pruners : Prune(p)) \/ (\E r \in Readers : Read(r))
Spec == Init /\ [][Next]_vars
-----------------------------------------------------------------------------
\* Types; no two files have one name.
TypeOK ==
  /\ files \subseteq File /\ \A f, g \in files : f.id = g.id => f = g
  /\ clock \in 0..MaxTime /\ seq \in 0..MaxMade /\ made \in 0..MaxMade /\ harmed \in 0..MaxDamage
  /\ proc \in [Procs -> Local]

\* What command p reports in this step, and the usable checkpoints that were there
\* for it to find: made before it listed the directory, and still present.
Reports(p, a)    == proc[p].at = "reading" /\ proc'[p].at = "idle" /\ proc'[p].answer = a
ThereFor(p)      == {f \in Usable : f.birth <= proc[p].upto}
Pruned           == {f \in Usable : f.id \notin {g.id : g \in files'}}

\* Names tell the order in which the checkpoints were made, as they do unless the
\* clock was set back.
InOrder == \A f, g \in files : f.birth < g.birth => Later(g.id, f.id)

\* Of those it listed, a prune has removed the next one p is to read.
NextGone(p) == proc[p].unseen # {} /\ Named(Newest(proc[p].unseen)) = {}

\* Recovery resumes from the most recent usable checkpoint there is.
RecoveryFindsNewest ==
  [][InOrder => \A r \in Readers : Reports(r, "found") =>
       \E f \in Named(proc'[r].found) : \A g \in ThereFor(r) : g.birth <= f.birth]_vars

\* A damaged checkpoint never blocks recovery while an older intact one exists; only
\* a prune that gets ahead of it does.
RecoveryNotBlocked ==
  [][\A r \in Readers : Reports(r, "error") \/ Reports(r, "empty") =>
       ThereFor(r) = {} \/ NextGone(r)]_vars

\* Retention removes a usable checkpoint only if Keep more recent usable ones stay,
\* through any interruption: it never trades a usable one for a damaged one (with one
\* prune at a time, and damage that load recognises as such).
PruneKeepsUsable ==
  [][InOrder => \A f \in Pruned : Cardinality({g \in Usable \ Pruned : g.birth > f.birth}) >= Keep]_vars
=============================================================================

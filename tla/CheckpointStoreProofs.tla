----------------------- MODULE CheckpointStoreProofs -----------------------
(***************************************************************************)
(* For any number of commands and checkpoints: recovery finds the newest   *)
(* usable checkpoint, no damaged one is in its way, and retention leaves   *)
(* as many usable ones as it is told to.                                   *)
(***************************************************************************)
EXTENDS CheckpointStore, TLAPS, FiniteSetTheorems, WellFoundedInduction
-----------------------------------------------------------------------------
\* The largest of a set of bounded numbers, and with it the newest of a set of names.
LEMMA LargestExists ==
  ASSUME NEW n \in Nat, NEW S \in SUBSET (0..n), S # {}
  PROVE  \E i \in S : \A j \in S : j <= i
<1> DEFINE T == {n - i : i \in S}
<1>1. T \subseteq Nat /\ T # {}
  <2>1. \A i \in S : n - i \in Nat
    OBVIOUS
  <2> QED BY <2>1
<1>2. PICK x \in T : \A y \in T : ~(<<y, x>> \in OpToRel(<, Nat))
  <2> HIDE DEF T
  <2> QED BY <1>1, NatLessThanWellFounded, WFMin
<1>3. \A y \in T : ~(y < x)
  BY <1>1, <1>2 DEF OpToRel
<1>4. PICK i \in S : x = n - i
  BY <1>2
<1>5. ASSUME NEW j \in S PROVE j <= i
  <2>1. n - j \in T
    OBVIOUS
  <2>2. ~(n - j < n - i)
    BY <2>1, <1>3, <1>4
  <2> QED BY <2>2
<1> QED BY <1>5

LEMMA LaterIsOrder ==
  /\ \A a, b \in Ids : a = b \/ Later(a, b) \/ Later(b, a)
  /\ \A a, b \in Ids : ~(Later(a, b) /\ Later(b, a))
  /\ \A a, b, c \in Ids : Later(a, b) /\ Later(b, c) => Later(a, c)
  BY DEF Ids, Later

LEMMA NewestIsLatest ==
  ASSUME NEW S \in SUBSET Ids, S # {}
  PROVE  Newest(S) \in S /\ \A b \in S \ {Newest(S)} : Later(Newest(S), b)
<1>1. MaxTime \in Nat /\ MaxMade \in Nat
  BY StoreAssumption
<1>2. PICK t \in {a.time : a \in S} : \A u \in {a.time : a \in S} : u <= t
  <2>1. {a.time : a \in S} \in SUBSET (0..MaxTime) /\ {a.time : a \in S} # {}
    BY DEF Ids
  <2> QED BY <1>1, <2>1, LargestExists
<1> DEFINE Last == {a \in S : a.time = t}
<1>3. PICK q \in {a.seq : a \in Last} : \A r \in {a.seq : a \in Last} : r <= q
  <2>1. {a.seq : a \in Last} \in SUBSET (0..MaxMade) /\ {a.seq : a \in Last} # {}
    BY <1>1 DEF Ids
  <2> QED BY <1>1, <2>1, LargestExists
<1>4. PICK a \in S : a.time = t /\ a.seq = q
  BY <1>3
<1>5. ASSUME NEW b \in S \ {a} PROVE Later(a, b)
  <2>1. b.time <= t
    BY <1>2
  <2>2. b.time = t => b.seq <= q
    BY <1>3
  <2>3. b.time = t => b.seq # q
    BY <1>4 DEF Ids
  <2> QED BY <2>1, <2>2, <2>3, <1>4 DEF Ids, Later
<1>6. \E c \in S : \A b \in S \ {c} : Later(c, b)
  BY <1>5
<1> QED BY <1>6 DEF Newest
-----------------------------------------------------------------------------
\* A name belongs to one checkpoint, and so does a place in the order they were made in.
FilesOK ==
  /\ files \in SUBSET File /\ IsFiniteSet(files)
  /\ \A f, g \in files : f.id = g.id \/ f.birth = g.birth => f = g
  /\ \A f \in files : f.birth <= made

CountsOK == /\ clock \in 0..MaxTime /\ made \in 0..MaxMade /\ harmed \in 0..MaxDamage
            /\ seq \in 0..MaxMade /\ seq <= made

ProcsOK == proc \in [Procs -> Local] /\ \A p \in Procs : proc[p].upto <= made

\* `recover` has not passed over a usable checkpoint that was there when it began.
Passes(p) ==
  proc[p].at = "reading" /\ proc[p].op = "latest" =>
    \A f \in Usable : f.birth <= proc[p].upto => f.id \in proc[p].unseen

IInv == FilesOK /\ CountsOK /\ ProcsOK /\ \A r \in Readers : Passes(r)

USE DEF Procs, Kinds

LEMMA IdleIsLocal == Idle \in Local
  BY StoreAssumption DEF Idle, Local

LEMMA LoadIsKind ==
  ASSUME FilesOK, NEW f \in files
  PROVE  Load(f.id) = f.kind
  BY DEF FilesOK, Load, Named

LEMMA LoadFinds ==
  ASSUME NEW id, Load(id) # "missing"
  PROVE  \E f \in files : f.id = id /\ Load(id) = f.kind
  BY DEF Load, Named

\* How the directory may change: a checkpoint is made, one is damaged, one is removed.
Makes == \E id \in Ids : /\ Named(id) = {}
                         /\ files' = files \cup {[id |-> id, kind |-> "intact", birth |-> made + 1]}
                         /\ made' = made + 1 /\ UNCHANGED proc
Harms == \E f \in Usable, k \in Damage : files' = (files \ {f}) \cup {[f EXCEPT !.kind = k]}

LEMMA CreateMakes ==
  ASSUME CountsOK, Create
  PROVE  Makes
<1>1. [time |-> clock, seq |-> seq + 1] \in Ids
  BY StoreAssumption DEF CountsOK, Create, Ids
<1> QED BY <1>1 DEF Create, Makes

LEMMA MakesKeepsFiles ==
  ASSUME FilesOK, made \in Nat, made < MaxMade, Makes
  PROVE  FilesOK'
<1>1. PICK id \in Ids :
        /\ Named(id) = {} /\ made' = made + 1
        /\ files' = files \cup {[id |-> id, kind |-> "intact", birth |-> made + 1]}
  BY DEF Makes
<1> DEFINE n == [id |-> id, kind |-> "intact", birth |-> made + 1]
<1>2. n \in File /\ n.id = id /\ n.birth = made + 1
  BY StoreAssumption DEF File
<1>3. \A f \in files : f.id # id /\ f.birth # made + 1 /\ f.birth <= made + 1
  BY <1>1 DEF FilesOK, Named, File
<1>4. IsFiniteSet(files')
  BY <1>1, FS_AddElement DEF FilesOK
<1> HIDE DEF n
<1> QED BY <1>1, <1>2, <1>3, <1>4 DEF FilesOK, n

LEMMA HarmsKeepsFiles ==
  ASSUME FilesOK, Harms, made' = made
  PROVE  FilesOK'
<1>1. PICK f \in Usable, k \in Damage : files' = (files \ {f}) \cup {[f EXCEPT !.kind = k]}
  BY DEF Harms
<1> DEFINE n == [f EXCEPT !.kind = k]
<1>2. f \in files /\ f \in File
  BY DEF Usable, Intact, FilesOK
<1>3. n \in File /\ n.id = f.id /\ n.birth = f.birth
  BY <1>2, StoreAssumption DEF File
<1>4. IsFiniteSet(files')
  <2>1. IsFiniteSet(files \ {f})
    BY FS_Subset DEF FilesOK
  <2> QED BY <1>1, <2>1, FS_AddElement
<1> HIDE DEF n
<1>5. files' = (files \ {f}) \cup {n}
  BY <1>1 DEF n
<1> QED BY <1>2, <1>3, <1>4, <1>5 DEF FilesOK

LEMMA LessKeepsFiles ==
  ASSUME FilesOK, files' \subseteq files, made' = made
  PROVE  FilesOK'
<1>1. IsFiniteSet(files')
  BY FS_Subset DEF FilesOK
<1> QED BY <1>1 DEF FilesOK
-----------------------------------------------------------------------------
\* What each step does to the command that takes it.
Answers == {"none", "found", "empty", "error", "clean", "damaged"}

LEMMA LocIsLocal ==
  ASSUME ProcsOK, NEW p \in Procs, NEW s \in Local, s.upto <= made, Loc(p, s), made' = made
  PROVE  ProcsOK' /\ proc'[p] = s /\ \A q \in Procs \ {p} : proc'[q] = proc[q]
  BY DEF ProcsOK, Loc

LEMMA BeginIsLocal ==
  ASSUME FilesOK, CountsOK, NEW p \in Procs, NEW op \in {"prune", "latest", "verify"}, Begin(p, op)
  PROVE  \E s \in Local : /\ Loc(p, s) /\ s.at = "reading" /\ s.op = op /\ s.unseen = Listing
                          /\ s.whole = {} /\ s.bad = {} /\ s.upto = made
<1>1. Listing \in SUBSET Ids
  BY DEF FilesOK, Listing, File
<1> DEFINE s == [Idle EXCEPT !.at = "reading", !.op = op, !.unseen = Listing, !.upto = made]
<1>2. s \in Local
  BY <1>1, IdleIsLocal DEF Idle, Local, CountsOK
<1> QED BY <1>2 DEF Begin, Idle

LEMMA AnswerIsLocal ==
  ASSUME ProcsOK, NEW p \in Procs, NEW a \in Answers, NEW id \in Ids \cup {None}, Answer(p, a, id)
  PROVE  \E s \in Local : /\ Loc(p, s) /\ s.at = "idle" /\ s.upto = 0
                          /\ s.answer = a /\ s.found = id
<1> DEFINE s == [Idle EXCEPT !.op = proc[p].op, !.answer = a, !.found = id]
<1>1. proc[p] \in Local
  BY DEF ProcsOK
<1>2. s \in Local
  BY <1>1, IdleIsLocal DEF Idle, Local, Answers
<1> QED BY <1>2 DEF Answer, Idle

\* A command that goes on reading or removing has less to look at.
Narrows(p) ==
  \E s \in Local : /\ Loc(p, s) /\ s.op = proc[p].op /\ s.upto = proc[p].upto
                   /\ s.at \in {proc[p].at, "removing"}

LEMMA ReadVerifyNarrows ==
  ASSUME ProcsOK, NEW p \in Procs, ReadVerify(p), proc[p].unseen # {}
  PROVE  Narrows(p)
<1> DEFINE id == Newest(proc[p].unseen)
           bad == IF Load(id) = "intact" THEN proc[p].bad ELSE proc[p].bad \cup {id}
           s   == [proc[p] EXCEPT !.unseen = @ \ {id}, !.bad = bad]
<1>1. proc[p] \in Local
  BY DEF ProcsOK
<1>2. id \in Ids
  BY <1>1, NewestIsLatest DEF Local
<1> HIDE DEF id
<1>3. s \in Local /\ s.op = proc[p].op /\ s.upto = proc[p].upto /\ s.at = proc[p].at
  BY <1>1, <1>2 DEF Local
<1>4. Loc(p, s)
  BY DEF ReadVerify, id
<1> HIDE DEF s
<1> QED BY <1>3, <1>4 DEF Narrows

LEMMA PruneReadNarrows ==
  ASSUME ProcsOK, NEW p \in Procs, PruneRead(p)
  PROVE  Narrows(p)
<1>1. proc[p] \in Local
  BY DEF ProcsOK
<1>2. CASE proc[p].unseen = {}
  <2> DEFINE s == [proc[p] EXCEPT !.at = "removing", !.whole = Beyond(@, Keep)]
  <2>1. Beyond(proc[p].whole, Keep) \in SUBSET Ids
    BY <1>1 DEF Local, Beyond
  <2>2. s \in Local /\ s.op = proc[p].op /\ s.upto = proc[p].upto /\ s.at = "removing"
    BY <1>1, <2>1 DEF Local
  <2>3. Loc(p, s)
    BY <1>2 DEF PruneRead
  <2> HIDE DEF s
  <2> QED BY <2>2, <2>3 DEF Narrows
<1>3. CASE proc[p].unseen # {}
  <2> DEFINE id == Newest(proc[p].unseen)
             s  == IF Load(id) = "corrupt"
                   THEN [proc[p] EXCEPT !.unseen = @ \ {id}, !.bad = @ \cup {id}]
                   ELSE [proc[p] EXCEPT !.unseen = @ \ {id}, !.whole = @ \cup {id}]
  <2>1. id \in Ids
    BY <1>1, <1>3, NewestIsLatest DEF Local
  <2>2. Loc(p, s)
    BY <1>3 DEF PruneRead
  <2> HIDE DEF id
  <2>3. s \in Local /\ s.op = proc[p].op /\ s.upto = proc[p].upto /\ s.at = proc[p].at
    BY <1>1, <2>1 DEF Local
  <2> HIDE DEF s
  <2> QED BY <2>2, <2>3 DEF Narrows
<1> QED BY <1>2, <1>3

LEMMA PruneRemoveNarrows ==
  ASSUME ProcsOK, NEW p \in Procs, PruneRemove(p)
  PROVE  Narrows(p) \/ Loc(p, Idle)
<1> DEFINE doomed == IF proc[p].bad # {} THEN proc[p].bad ELSE proc[p].whole
           id     == Newest(doomed)
           s      == [proc[p] EXCEPT !.bad = @ \ {id}, !.whole = @ \ {id}]
<1>1. proc[p] \in Local
  BY DEF ProcsOK
<1>2. s \in Local /\ s.op = proc[p].op /\ s.upto = proc[p].upto /\ s.at = proc[p].at
  <2> HIDE DEF id
  <2> QED BY <1>1 DEF Local
<1>3. Loc(p, s) \/ Loc(p, Idle)
  BY DEF PruneRemove
<1> HIDE DEF s
<1> QED BY <1>2, <1>3 DEF Narrows

\* GetLatestCheckpoint has nothing left to read, has found what it looks for, passes over
\* a corrupt checkpoint, or returns an error.
Reads(r, s) ==
  LET id == Newest(proc[r].unseen)
  IN  \/ proc[r].unseen = {} /\ s.at = "idle" /\ s.answer = "empty"
      \/ /\ proc[r].unseen # {} /\ Load(id) = "intact"
         /\ s.at = "idle" /\ s.answer = "found" /\ s.found = id
      \/ /\ proc[r].unseen # {} /\ Load(id) = "corrupt"
         /\ s.at = "reading" /\ s.op = "latest" /\ s.upto = proc[r].upto
         /\ s.unseen = proc[r].unseen \ {id}
      \/ /\ proc[r].unseen # {} /\ Load(id) \notin {"intact", "corrupt"}
         /\ s.at = "idle" /\ s.answer = "error"

LEMMA ReadLatestReads ==
  ASSUME ProcsOK, made \in Nat, NEW r \in Procs, ReadLatest(r)
  PROVE  \E s \in Local : Loc(r, s) /\ s.upto <= made /\ Reads(r, s)
<1>1. proc[r] \in Local /\ proc[r].upto <= made /\ proc[r].at = "reading" /\ proc[r].op = "latest"
  BY DEF ProcsOK, ReadLatest
<1>2. CASE proc[r].unseen = {}
  <2>1. Answer(r, "empty", None)
    BY <1>2 DEF ReadLatest
  <2>2. PICK s \in Local : Loc(r, s) /\ s.at = "idle" /\ s.upto = 0 /\ s.answer = "empty"
    BY <2>1, AnswerIsLocal DEF Answers
  <2> QED BY <1>2, <2>2 DEF Reads
<1>3. CASE proc[r].unseen # {}
  <2>1. PICK id : id = Newest(proc[r].unseen)
    OBVIOUS
  <2>2. id \in Ids
    BY <1>1, <1>3, <2>1, NewestIsLatest DEF Local
  <2>3. CASE Load(id) = "intact"
    <3>1. Answer(r, "found", id)
      BY <1>3, <2>1, <2>3 DEF ReadLatest
    <3>2. PICK s \in Local : /\ Loc(r, s) /\ s.at = "idle" /\ s.upto = 0
                             /\ s.answer = "found" /\ s.found = id
      BY <2>2, <3>1, AnswerIsLocal DEF Answers
    <3> QED BY <1>3, <2>1, <2>3, <3>2 DEF Reads
  <2>4. CASE Load(id) = "corrupt"
    <3> DEFINE s == [proc[r] EXCEPT !.unseen = @ \ {id}]
    <3>1. Loc(r, s)
      BY <1>3, <2>1, <2>4 DEF ReadLatest
    <3>2. /\ s \in Local /\ s.at = "reading" /\ s.op = "latest" /\ s.upto = proc[r].upto
          /\ s.unseen = proc[r].unseen \ {id}
      BY <1>1 DEF Local
    <3> HIDE DEF s
    <3> QED BY <1>1, <1>3, <2>1, <2>4, <3>1, <3>2 DEF Reads
  <2>5. CASE Load(id) \notin {"intact", "corrupt"}
    <3>1. Answer(r, "error", None)
      BY <1>3, <2>1, <2>5 DEF ReadLatest
    <3>2. PICK s \in Local : Loc(r, s) /\ s.at = "idle" /\ s.upto = 0 /\ s.answer = "error"
      BY <3>1, AnswerIsLocal DEF Answers
    <3> QED BY <1>3, <2>1, <2>5, <3>2 DEF Reads
  <2> QED BY <2>3, <2>4, <2>5
<1> QED BY <1>2, <1>3
-----------------------------------------------------------------------------
\* A command that does not move keeps what it knows, whatever others do to the files.
LEMMA OthersPass ==
  ASSUME made \in Nat, NEW r, Passes(r), proc[r].upto <= made, proc'[r] = proc[r],
         \A f \in Usable' : f \in Usable \/ f.birth > made,
         proc[r].upto \in Nat, \A f \in Usable' : f.birth \in Nat
  PROVE  Passes(r)'
  BY DEF Passes

\* A step of one command, which at most removes a file.
LEMMA CommandStep ==
  ASSUME IInv, UNCHANGED <<clock, seq, made, harmed>>, files' \subseteq files,
         NEW p \in Procs, NEW s \in Local, s.upto <= made, Loc(p, s), p \in Readers => Passes(p)'
  PROVE  IInv'
<1>1. FilesOK'
  BY LessKeepsFiles DEF IInv
<1>2. CountsOK'
  BY DEF IInv, CountsOK
<1>3. ProcsOK' /\ \A q \in Procs \ {p} : proc'[q] = proc[q]
  BY LocIsLocal DEF IInv
<1>4. ASSUME NEW r \in Readers PROVE Passes(r)'
  <2>1. CASE r = p
    BY <2>1
  <2>2. CASE r # p
    <3>1. \A f \in Usable' : f \in Usable /\ f.birth \in Nat
      BY DEF IInv, FilesOK, File, Usable, Intact
    <3>2. proc[r].upto \in Nat /\ proc[r].upto <= made /\ made \in Nat
      BY DEF IInv, ProcsOK, Local, CountsOK
    <3> QED BY <1>3, <2>2, <3>1, <3>2, OthersPass DEF IInv
  <2> QED BY <2>1, <2>2
<1> QED BY <1>1, <1>2, <1>3, <1>4 DEF IInv

\* A step of nobody's: the creator, the clock, and damage while all commands are idle.
LEMMA OutsideStep ==
  ASSUME IInv, FilesOK', CountsOK', proc' = proc, made <= made',
         \/ Quiet
         \/ \A f \in Usable' : f \in Usable \/ f.birth > made
  PROVE  IInv'
<1>1. ProcsOK'
  BY DEF IInv, ProcsOK, CountsOK, Local
<1>2. ASSUME NEW r \in Readers PROVE Passes(r)'
  <2>1. CASE Quiet
    BY <2>1 DEF Quiet, Passes
  <2>2. CASE \A f \in Usable' : f \in Usable \/ f.birth > made
    <3>1. \A f \in Usable' : f.birth \in Nat
      BY DEF FilesOK, File, Usable, Intact
    <3>2. proc[r].upto \in Nat /\ proc[r].upto <= made /\ made \in Nat
      BY DEF IInv, ProcsOK, Local, CountsOK
    <3> QED BY <2>2, <3>1, <3>2, OthersPass DEF IInv
  <2> QED BY <2>1, <2>2
<1> QED BY <1>1, <1>2 DEF IInv

LEMMA CreateStep == ASSUME IInv, Create PROVE IInv'
<1>1. Makes /\ made \in Nat /\ made < MaxMade
  BY CreateMakes DEF IInv, CountsOK, Create
<1>2. FilesOK'
  BY <1>1, MakesKeepsFiles DEF IInv
<1>3. CountsOK'
  BY StoreAssumption DEF IInv, CountsOK, Create
<1>4. proc' = proc /\ made <= made' /\ \A f \in Usable' : f \in Usable \/ f.birth > made
  BY <1>1 DEF Makes, Usable, Intact
<1> QED BY <1>2, <1>3, <1>4, OutsideStep

LEMMA ClockStep == ASSUME IInv, CreatorRestarts \/ ClockTicks \/ ClockSteps PROVE IInv'
<1>1. files' = files /\ proc' = proc /\ made' = made
  BY DEF CreatorRestarts, ClockTicks, ClockSteps
<1>2. CountsOK'
  BY StoreAssumption DEF IInv, CountsOK, CreatorRestarts, ClockTicks, ClockSteps
<1>3. FilesOK'
  BY <1>1, LessKeepsFiles DEF IInv
<1>4. made <= made' /\ \A f \in Usable' : f \in Usable
  BY <1>1 DEF IInv, CountsOK, Usable, Intact
<1> QED BY <1>1, <1>2, <1>3, <1>4, OutsideStep

LEMMA HarmStep == ASSUME IInv, Harm PROVE IInv'
<1>1. FilesOK'
  BY HarmsKeepsFiles DEF IInv, Harm, Harms
<1>2. CountsOK' /\ proc' = proc /\ made <= made' /\ Quiet
  BY StoreAssumption DEF IInv, CountsOK, Harm
<1> QED BY <1>1, <1>2, OutsideStep

LEMMA BeginStep ==
  ASSUME IInv, NEW p \in Procs, NEW op \in {"prune", "latest", "verify"}, Begin(p, op)
  PROVE  IInv'
<1>1. PICK s \in Local : /\ Loc(p, s) /\ s.at = "reading" /\ s.op = op /\ s.unseen = Listing
                         /\ s.upto = made
  BY BeginIsLocal DEF IInv
<1>2. UNCHANGED <<files, clock, seq, made, harmed>>
  BY DEF Begin
<1>3. proc'[p] = s /\ made \in Nat
  BY <1>1, <1>2, LocIsLocal DEF IInv, CountsOK
<1>4. Passes(p)'
  BY <1>1, <1>2, <1>3 DEF Passes, Usable, Intact, Listing
<1> QED BY <1>1, <1>2, <1>3, <1>4, CommandStep

LEMMA ReadLatestStep == ASSUME IInv, NEW r \in Readers, ReadLatest(r) PROVE IInv'
<1>1. PICK s \in Local : Loc(r, s) /\ s.upto <= made /\ Reads(r, s)
  BY ReadLatestReads DEF IInv, CountsOK
<1>2. UNCHANGED <<files, clock, seq, made, harmed>>
  BY DEF ReadLatest
<1>3. proc'[r] = s
  BY <1>1, <1>2, LocIsLocal DEF IInv
<1>4. Passes(r)'
  <2> SUFFICES ASSUME s.at = "reading", NEW f \in Usable, f.birth <= s.upto
               PROVE  f.id \in s.unseen
    BY <1>2, <1>3 DEF Passes, Usable, Intact
  <2>1. PICK id : id = Newest(proc[r].unseen)
    OBVIOUS
  <2>2. /\ Load(id) = "corrupt" /\ s.upto = proc[r].upto /\ s.unseen = proc[r].unseen \ {id}
    BY <1>1, <2>1 DEF Reads
  <2>3. f.id \in proc[r].unseen
    BY <2>2 DEF IInv, Passes, ReadLatest
  <2>4. Load(f.id) = "intact"
    BY LoadIsKind DEF IInv, Usable, Intact
  <2> QED BY <2>2, <2>3, <2>4
<1> QED BY <1>1, <1>2, <1>4, CommandStep

LEMMA ReadVerifyStep == ASSUME IInv, NEW r \in Readers, ReadVerify(r) PROVE IInv'
<1>1. UNCHANGED <<files, clock, seq, made, harmed>> /\ proc[r].op = "verify"
  BY DEF ReadVerify
<1>2. CASE proc[r].unseen = {}
  <2>1. \E a \in Answers : Answer(r, a, None)
    BY <1>2 DEF ReadVerify, Answers
  <2>2. PICK s \in Local : Loc(r, s) /\ s.at = "idle" /\ s.upto = 0
    BY <2>1, AnswerIsLocal DEF IInv
  <2>3. s.upto <= made
    BY <2>2 DEF IInv, CountsOK
  <2>4. proc'[r] = s
    BY <1>1, <2>2, <2>3, LocIsLocal DEF IInv
  <2> QED BY <1>1, <2>2, <2>3, <2>4, CommandStep DEF Passes
<1>3. CASE proc[r].unseen # {}
  <2>1. PICK s \in Local : Loc(r, s) /\ s.op = proc[r].op /\ s.upto = proc[r].upto
    BY <1>3, ReadVerifyNarrows DEF IInv, Narrows
  <2>2. s.upto <= made
    BY <2>1 DEF IInv, ProcsOK
  <2>3. proc'[r] = s
    BY <1>1, <2>1, <2>2, LocIsLocal DEF IInv
  <2> QED BY <1>1, <2>1, <2>2, <2>3, CommandStep DEF Passes
<1> QED BY <1>2, <1>3

LEMMA PruneStep ==
  ASSUME IInv, NEW p \in Pruners, PruneNothing(p) \/ PruneRead(p) \/ PruneRemove(p) \/ PruneStops(p)
  PROVE  IInv'
<1>1. /\ UNCHANGED <<clock, seq, made, harmed>> /\ files' \subseteq files
      /\ p \in Procs /\ p \notin Readers
  BY StoreAssumption DEF PruneNothing, PruneRead, PruneRemove, PruneStops
<1>2. Narrows(p) \/ Loc(p, Idle)
  BY <1>1, PruneReadNarrows, PruneRemoveNarrows DEF IInv, PruneNothing, PruneStops
<1>3. PICK s \in Local : Loc(p, s) /\ (s.upto = proc[p].upto \/ s.upto = 0)
  BY <1>2, IdleIsLocal DEF Narrows, Idle
<1>4. s.upto <= made
  BY <1>1, <1>3 DEF IInv, ProcsOK, CountsOK
<1> QED BY <1>1, <1>3, <1>4, CommandStep

LEMMA InitIInv == Init => IInv
<1> SUFFICES ASSUME Init PROVE IInv
  OBVIOUS
<1>1. FilesOK /\ CountsOK
  BY FS_EmptySet, StoreAssumption DEF Init, FilesOK, CountsOK
<1>2. \A p \in Procs : proc[p] = Idle
  BY DEF Init
<1>3. Idle.at = "idle" /\ Idle.upto = 0
  BY DEF Idle
<1>4. ProcsOK
  BY <1>1, <1>2, <1>3, IdleIsLocal DEF Init, ProcsOK, CountsOK
<1>5. \A r \in Readers : Passes(r)
  BY <1>2, <1>3 DEF Passes
<1> QED BY <1>1, <1>4, <1>5 DEF IInv

LEMMA NextStep == ASSUME IInv, [Next]_vars PROVE IInv'
<1>1. CASE Creator \/ Outside
  BY <1>1, CreateStep, ClockStep, HarmStep DEF Creator, Outside
<1>2. ASSUME NEW p \in Pruners, Prune(p) PROVE IInv'
  BY <1>2, BeginStep, PruneStep DEF Prune
<1>3. ASSUME NEW r \in Readers, Read(r) PROVE IInv'
  BY <1>3, BeginStep, ReadLatestStep, ReadVerifyStep DEF Read
<1>4. CASE UNCHANGED vars
  <2>1. FilesOK' /\ CountsOK' /\ proc' = proc /\ made <= made' /\ \A f \in Usable' : f \in Usable
    BY <1>4 DEF vars, IInv, FilesOK, CountsOK, Usable, Intact
  <2> QED BY <2>1, OutsideStep
<1> QED BY <1>1, <1>2, <1>3, <1>4 DEF Next

\* Every directory that the commands can leave, and all that they know of it, satisfies
\* IInv.
THEOREM Invariance == Spec => []IInv
<1> QED BY InitIInv, NextStep, PTL DEF Spec

\* The types of the model; and no two files have one name.
THEOREM Typed == Spec => []TypeOK
<1>1. IInv => TypeOK
  BY DEF IInv, FilesOK, CountsOK, ProcsOK, TypeOK
<1> QED BY <1>1, Invariance, PTL
-----------------------------------------------------------------------------
\* Only GetLatestCheckpoint, and only the command's own, reports what these two speak of.
LEMMA OthersSteps ==
  ASSUME ProcsOK, NEW p \in Procs, NEW r \in Procs, p # r,
         \/ \E op \in {"prune", "latest", "verify"} : Begin(p, op)
         \/ ReadLatest(p) \/ ReadVerify(p)
         \/ PruneNothing(p) \/ PruneRead(p) \/ PruneRemove(p) \/ PruneStops(p)
  PROVE  proc'[r] = proc[r]
<1>1. \A s : Loc(p, s) => proc'[r] = proc[r]
  BY DEF Loc, ProcsOK
<1>2. \E s : Loc(p, s)
  BY DEF Begin, ReadLatest, ReadVerify, PruneNothing, PruneRead, PruneRemove, PruneStops, Answer
<1> QED BY <1>1, <1>2

LEMMA LatestReports ==
  ASSUME IInv, Next, NEW r \in Readers, NEW a \in {"found", "empty", "error"}, Reports(r, a)
  PROVE  ReadLatest(r)
<1>1. proc'[r] # proc[r] /\ proc[r].at = "reading" /\ ProcsOK
  BY DEF Reports, IInv
<1>2. ~(Creator \/ Outside)
  BY <1>1 DEF Creator, Outside, Create, CreatorRestarts, ClockTicks, ClockSteps, Harm
<1>3. \A p \in Pruners : ~Prune(p)
  BY <1>1, OthersSteps, StoreAssumption DEF Prune
<1>4. \A p \in Readers : p # r => ~Read(p)
  BY <1>1, OthersSteps DEF Read
<1>5. Read(r)
  BY <1>2, <1>3, <1>4 DEF Next
<1>6. ~ReadVerify(r)
  <2> SUFFICES ASSUME ReadVerify(r) PROVE FALSE
    OBVIOUS
  <2>1. made' = made
    BY DEF ReadVerify
  <2>2. CASE proc[r].unseen # {}
    <3>1. PICK s \in Local : Loc(r, s) /\ s.at \in {"reading", "removing"} /\ s.upto = proc[r].upto
      BY <1>1, <2>2, ReadVerifyNarrows DEF Narrows
    <3>2. proc'[r] = s
      BY <1>1, <2>1, <3>1, LocIsLocal DEF ProcsOK
    <3> QED BY <3>1, <3>2 DEF Reports
  <2>3. CASE proc[r].unseen = {}
    <3>1. PICK b \in {"clean", "damaged"} : Answer(r, b, None)
      BY <2>3 DEF ReadVerify
    <3>2. PICK s \in Local : Loc(r, s) /\ s.upto = 0 /\ s.answer = b
      BY <1>1, <3>1, AnswerIsLocal DEF Answers
    <3>3. proc'[r] = s
      BY <1>1, <2>1, <3>2, LocIsLocal DEF IInv, CountsOK
    <3> QED BY <3>2, <3>3 DEF Reports
  <2> QED BY <2>2, <2>3
<1> QED BY <1>1, <1>5, <1>6 DEF Read, Begin

\* What it reports is what it has read.
LEMMA ReportIsRead ==
  ASSUME IInv, Next, NEW r \in Readers, NEW a \in {"found", "empty", "error"}, Reports(r, a)
  PROVE  /\ Reads(r, proc'[r])
         /\ \A f \in ThereFor(r) : f.id \in proc[r].unseen
         /\ proc[r].unseen \in SUBSET Ids
<1>1. ReadLatest(r)
  BY LatestReports
<1>2. PICK s \in Local : Loc(r, s) /\ s.upto <= made /\ Reads(r, s)
  BY <1>1, ReadLatestReads DEF IInv, CountsOK
<1>3. proc'[r] = s
  BY <1>1, <1>2, LocIsLocal DEF IInv, ReadLatest
<1> QED BY <1>1, <1>2, <1>3 DEF IInv, ProcsOK, Local, Passes, ReadLatest, ThereFor

LEMMA FoundIsNewest ==
  ASSUME IInv, Next, InOrder, NEW r \in Readers, Reports(r, "found")
  PROVE  \E f \in Named(proc'[r].found) : \A g \in ThereFor(r) : g.birth <= f.birth
<1>1. PICK id : id = Newest(proc[r].unseen)
  OBVIOUS
<1>2. Load(id) = "intact" /\ proc'[r].found = id /\ proc[r].unseen # {}
  BY <1>1, ReportIsRead DEF Reads, Reports
<1>3. PICK f \in files : f.id = id
  BY <1>2, LoadFinds
<1>4. ASSUME NEW g \in ThereFor(r) PROVE g.birth <= f.birth
  <2>1. g \in files /\ g.id \in proc[r].unseen
    BY ReportIsRead DEF ThereFor, Usable, Intact
  <2>2. g.id = f.id \/ Later(f.id, g.id)
    BY <1>1, <1>2, <1>3, <2>1, ReportIsRead, NewestIsLatest
  <2>3. f.birth \in Nat /\ g.birth \in Nat /\ f.id \in Ids /\ g.id \in Ids
    BY <1>3, <2>1 DEF IInv, FilesOK, File
  <2>4. CASE g.id = f.id
    BY <1>3, <2>1, <2>3, <2>4 DEF IInv, FilesOK
  <2>5. CASE Later(f.id, g.id)
    <3>1. ~Later(g.id, f.id)
      BY <2>3, <2>5, LaterIsOrder
    <3> QED BY <1>3, <2>1, <2>3, <3>1 DEF InOrder
  <2> QED BY <2>2, <2>4, <2>5
<1> QED BY <1>2, <1>3, <1>4 DEF Named

\* GetLatestCheckpoint: recovery resumes from the most recent usable checkpoint, whatever
\* is made, damaged and pruned while it reads, as long as names tell the order.
THEOREM RecoveryIsNewest == Spec => RecoveryFindsNewest
<1>1. IInv /\ [Next]_vars =>
        [InOrder => \A r \in Readers : Reports(r, "found") =>
           \E f \in Named(proc'[r].found) : \A g \in ThereFor(r) : g.birth <= f.birth]_vars
  BY FoundIsNewest
<1> QED BY <1>1, Invariance, PTL DEF Spec, RecoveryFindsNewest
-----------------------------------------------------------------------------
\* Where all damage is such that load recognises it, and prunes run one at a time.
OnlyCorrupt == Damage \subseteq {"corrupt"}
OnePruner   == \A p, q \in Pruners : p = q

KindsOK == \A f \in files : f.kind \in {"intact", "corrupt"}

LEMMA KindsInvariant == ASSUME OnlyCorrupt PROVE Spec => []KindsOK
<1>1. Init => KindsOK
  BY DEF Init, KindsOK
<1>2. KindsOK /\ Create => KindsOK'
  BY DEF Create, KindsOK
<1>3. ASSUME KindsOK, IInv, Harm PROVE KindsOK'
  <2>1. PICK f \in Usable, k \in Damage : files' = (files \ {f}) \cup {[f EXCEPT !.kind = k]}
    BY <1>3 DEF Harm
  <2>2. [f EXCEPT !.kind = k].kind = "corrupt"
    BY <1>3 DEF OnlyCorrupt, IInv, FilesOK, File, Usable, Intact
  <2> QED BY <1>3, <2>1, <2>2 DEF KindsOK
<1>4. KindsOK /\ files' \subseteq files => KindsOK'
  BY DEF KindsOK
<1>5. [Next]_vars => Create \/ Harm \/ files' \subseteq files
  BY DEF Next, Creator, Outside, CreatorRestarts, ClockTicks, ClockSteps, Prune, Read, Begin,
         ReadLatest, ReadVerify, PruneNothing, PruneRead, PruneRemove, PruneStops, vars
<1>6. KindsOK /\ IInv /\ [Next]_vars => KindsOK'
  BY <1>2, <1>3, <1>4, <1>5
<1> QED BY <1>1, <1>6, Invariance, PTL DEF Spec

LEMMA BlockedByPrune ==
  ASSUME IInv, KindsOK, Next, NEW r \in Readers, NEW a \in {"empty", "error"}, Reports(r, a)
  PROVE  ThereFor(r) = {} \/ NextGone(r)
<1>1. PICK id : id = Newest(proc[r].unseen)
  OBVIOUS
<1>2. CASE proc[r].unseen = {}
  BY <1>2, ReportIsRead
<1>3. CASE proc[r].unseen # {} /\ Load(id) \notin {"intact", "corrupt"}
  <2>1. Load(id) = "missing"
    BY <1>3, LoadFinds DEF KindsOK
  <2>2. Named(id) = {}
    <3>1. ASSUME NEW f \in Named(id) PROVE FALSE
      BY <2>1, <3>1, LoadIsKind DEF Named, KindsOK, IInv
    <3> QED BY <3>1
  <2> QED BY <1>1, <1>3, <2>2 DEF NextGone
<1> QED BY <1>1, <1>2, <1>3, ReportIsRead DEF Reads, Reports

\* GetLatestCheckpoint: a corrupt checkpoint never blocks recovery while an older intact
\* one exists; only a prune that has removed the next one to read does.
THEOREM CorruptionDoesNotBlock == OnlyCorrupt => (Spec => RecoveryNotBlocked)
<1> SUFFICES ASSUME OnlyCorrupt PROVE Spec => RecoveryNotBlocked
  OBVIOUS
<1>1. IInv /\ KindsOK /\ [Next]_vars =>
        [\A r \in Readers : Reports(r, "error") \/ Reports(r, "empty") =>
           ThereFor(r) = {} \/ NextGone(r)]_vars
  BY BlockedByPrune
<1>2. Spec => []KindsOK
  BY KindsInvariant
<1> QED BY <1>1, <1>2, Invariance, PTL DEF Spec, RecoveryNotBlocked
-----------------------------------------------------------------------------
\* The usable checkpoints that a prune spares and that are later than a.
Spared(p, a) == {f \in Usable : f.id \notin proc[p].whole /\ Later(f.id, a)}

\* What a prune has read is still so when it removes, and enough is spared.
Knows(p) ==
  /\ proc[p].at = "reading" => \A a \in proc[p].unseen : \E f \in files : f.id = a
  /\ proc[p].at # "idle" => /\ \A a \in proc[p].whole : \E f \in Usable : f.id = a
                            /\ \A a \in proc[p].bad : \E f \in files : f.id = a /\ f.kind # "intact"
  /\ proc[p].at = "removing" => \A a \in proc[p].whole : Cardinality(Spared(p, a)) >= Keep

LEMMA SparedIsFinite ==
  ASSUME FilesOK, NEW p, NEW a
  PROVE  IsFiniteSet(Spared(p, a)) /\ Cardinality(Spared(p, a)) \in Nat
<1>1. Spared(p, a) \in SUBSET files
  BY DEF Spared, Usable, Intact
<1>2. IsFiniteSet(Spared(p, a))
  BY <1>1, FS_Subset DEF FilesOK
<1> QED BY <1>2, FS_CardinalityType

\* A prune that spares no fewer spares enough.
LEMMA SparedGrows ==
  ASSUME FilesOK, FilesOK', NEW p, NEW a, Cardinality(Spared(p, a)) >= Keep,
         Spared(p, a) \subseteq Spared(p, a)'
  PROVE  (Cardinality(Spared(p, a)) >= Keep)'
<1> DEFINE N == Cardinality(Spared(p, a))
<1>1. IsFiniteSet(Spared(p, a)') /\ Cardinality(Spared(p, a)') \in Nat
  <2>1. Spared(p, a)' \in SUBSET files'
    BY DEF Spared, Usable, Intact
  <2>2. IsFiniteSet(Spared(p, a)')
    BY <2>1, FS_Subset DEF FilesOK
  <2> QED BY <2>2, FS_CardinalityType
<1>2. Cardinality(Spared(p, a)) <= Cardinality(Spared(p, a)')
  BY <1>1, FS_Subset
<1>3. Cardinality(Spared(p, a)) \in Nat /\ Keep \in Nat
  BY SparedIsFinite, StoreAssumption
<1>4. Cardinality(Spared(p, a)') >= Keep
  BY <1>1, <1>2, <1>3
<1> QED BY <1>4

\* While a prune is at work nothing is taken from under it but by itself.
LEMMA OthersKnow ==
  ASSUME FilesOK, FilesOK', NEW p, Knows(p), proc'[p] = proc[p],
         files \subseteq files' \/ proc[p].at = "idle"
  PROVE  Knows(p)'
<1>1. CASE proc[p].at = "idle"
  BY <1>1 DEF Knows
<1>2. CASE files \subseteq files'
  <2>1. Usable \subseteq Usable'
    BY <1>2 DEF Usable, Intact
  <2>2. ASSUME NEW a PROVE Spared(p, a) \subseteq Spared(p, a)'
    BY <2>1 DEF Spared
  <2>3. ASSUME proc[p].at = "removing", NEW a \in proc[p].whole
        PROVE  (Cardinality(Spared(p, a)) >= Keep)'
    BY <2>2, <2>3, SparedGrows DEF Knows
  <2> QED BY <1>2, <2>1, <2>3 DEF Knows
<1> QED BY <1>1, <1>2

\* The surplus: the Keep newest whole checkpoints are spared, for each that is not.
LEMMA BeyondIsSpared ==
  ASSUME FilesOK, NEW W \in SUBSET Ids, \A b \in W : \E f \in Usable : f.id = b,
         NEW a \in Beyond(W, Keep)
  PROVE  \E S \in SUBSET {f \in Usable : f.id \notin Beyond(W, Keep) /\ Later(f.id, a)} :
            Cardinality(S) >= Keep
<1>1. Beyond(W, Keep) \in SUBSET Ids /\ Beyond(W, Keep) \subseteq W
  BY DEF Beyond
<1>2. PICK b : b = Newest(Beyond(W, Keep))
  OBVIOUS
<1>3. b \in Beyond(W, Keep) /\ b \in Ids /\ a \in Ids
  BY <1>1, <1>2, NewestIsLatest
<1> DEFINE L == {c \in W : Later(c, b)}
           S == {f \in Usable : f.id \in L}
<1>4. Cardinality(L) >= Keep
  BY <1>3 DEF Beyond
<1>5. ASSUME NEW f \in S PROVE f.id \notin Beyond(W, Keep) /\ Later(f.id, a)
  <2>1. f.id \in Ids /\ Later(f.id, b)
    OBVIOUS
  <2>2. f.id \notin Beyond(W, Keep)
    <3> SUFFICES ASSUME f.id \in Beyond(W, Keep) PROVE FALSE
      OBVIOUS
    <3>1. f.id = b \/ Later(b, f.id)
      BY <1>1, <1>2, NewestIsLatest
    <3> QED BY <1>3, <2>1, <3>1, LaterIsOrder
  <2>3. b = a \/ Later(b, a)
    BY <1>1, <1>2, NewestIsLatest
  <2> QED BY <1>3, <2>1, <2>2, <2>3, LaterIsOrder
<1>6. Cardinality(S) >= Cardinality(L) /\ Cardinality(S) \in Nat /\ Cardinality(L) \in Nat
  <2>1. S \in SUBSET files
    BY DEF Usable, Intact
  <2>2. IsFiniteSet(S)
    BY <2>1, FS_Subset DEF FilesOK
  <2> DEFINE name == [f \in S |-> f.id]
  <2>3. \A c \in L : \E f \in S : name[f] = c
    OBVIOUS
  <2>4. name \in [S -> L]
    OBVIOUS
  <2> HIDE DEF name, S, L
  <2>5. name \in Surjection(S, L)
    BY <2>3, <2>4 DEF Surjection
  <2>6. IsFiniteSet(L) /\ Cardinality(L) <= Cardinality(S)
    BY <2>2, <2>5, FS_Surjection
  <2> QED BY <2>2, <2>6, FS_CardinalityType
<1>7. Keep \in Nat
  BY StoreAssumption
<1>8. Cardinality(S) >= Keep
  <2> HIDE DEF S, L
  <2> QED BY <1>4, <1>6, <1>7
<1>9. S \in SUBSET {f \in Usable : f.id \notin Beyond(W, Keep) /\ Later(f.id, a)}
  <2> HIDE DEF L
  <2> QED BY <1>5
<1> HIDE DEF S
<1> QED BY <1>8, <1>9

LEMMA PruneReadKnows ==
  ASSUME IInv, IInv', KindsOK, NEW p \in Pruners, PruneRead(p), Knows(p)
  PROVE  Knows(p)'
<1>1. proc[p] \in Local /\ proc[p].at = "reading" /\ files' = files /\ FilesOK /\ FilesOK'
  BY DEF IInv, ProcsOK, PruneRead
<1>2. \A s : Loc(p, s) => proc'[p] = s
  BY DEF Loc, IInv, ProcsOK
<1>3. Usable' = Usable
  BY <1>1 DEF Usable, Intact
<1>4. CASE proc[p].unseen = {}
  <2>1. proc'[p] = [proc[p] EXCEPT !.at = "removing", !.whole = Beyond(@, Keep)]
    BY <1>2, <1>4 DEF PruneRead
  <2>2. PICK W : W = proc[p].whole
    OBVIOUS
  <2>3. /\ proc'[p].at = "removing" /\ proc'[p].whole = Beyond(W, Keep) /\ proc'[p].bad = proc[p].bad
        /\ W \in SUBSET Ids
    BY <1>1, <2>1, <2>2 DEF Local
  <2>4. /\ \A a \in W : \E f \in Usable : f.id = a
        /\ \A a \in proc[p].bad : \E f \in files : f.id = a /\ f.kind # "intact"
    BY <1>1, <2>2 DEF Knows
  <2>5. ASSUME NEW a \in Beyond(W, Keep) PROVE (Cardinality(Spared(p, a)) >= Keep)'
    <3>1. PICK S \in SUBSET {f \in Usable : f.id \notin Beyond(W, Keep) /\ Later(f.id, a)} :
                 Cardinality(S) >= Keep
      BY <1>1, <2>3, <2>4, BeyondIsSpared
    <3>2. S \in SUBSET (Spared(p, a)')
      BY <1>3, <2>3, <3>1 DEF Spared
    <3>3. IsFiniteSet(Spared(p, a)')
      <4>1. Spared(p, a)' \in SUBSET files'
        BY DEF Spared, Usable, Intact
      <4> QED BY <1>1, <4>1, FS_Subset DEF FilesOK
    <3>4. /\ Cardinality(S) \in Nat /\ Cardinality(Spared(p, a)') \in Nat /\ Keep \in Nat
          /\ Cardinality(S) <= Cardinality(Spared(p, a)')
      BY <3>2, <3>3, FS_Subset, FS_CardinalityType, StoreAssumption
    <3>5. Cardinality(Spared(p, a)') >= Keep
      BY <3>1, <3>4
    <3> QED BY <3>5
  <2>6. Beyond(W, Keep) \subseteq W
    BY DEF Beyond
  <2> QED BY <1>1, <1>3, <2>3, <2>4, <2>5, <2>6 DEF Knows
<1>5. CASE proc[p].unseen # {}
  <2>1. PICK id : id = Newest(proc[p].unseen)
    OBVIOUS
  <2>2. id \in proc[p].unseen
    BY <1>1, <1>5, <2>1, NewestIsLatest DEF Local
  <2>3. PICK f \in files : f.id = id
    BY <1>1, <2>2 DEF Knows
  <2>4. Load(id) = f.kind /\ f.kind \in {"intact", "corrupt"}
    BY <1>1, <2>3, LoadIsKind DEF KindsOK
  <2>5. CASE f.kind = "corrupt"
    <3>1. proc'[p] = [proc[p] EXCEPT !.unseen = @ \ {id}, !.bad = @ \cup {id}]
      BY <1>2, <1>5, <2>1, <2>4, <2>5 DEF PruneRead
    <3>2. /\ proc'[p].at = "reading" /\ proc'[p].unseen = proc[p].unseen \ {id}
          /\ proc'[p].bad = proc[p].bad \cup {id} /\ proc'[p].whole = proc[p].whole
      BY <1>1, <3>1 DEF Local
    <3> QED BY <1>1, <1>3, <2>3, <2>5, <3>2 DEF Knows
  <2>6. CASE f.kind = "intact"
    <3>1. proc'[p] = [proc[p] EXCEPT !.unseen = @ \ {id}, !.whole = @ \cup {id}]
      BY <1>2, <1>5, <2>1, <2>4, <2>6 DEF PruneRead
    <3>2. /\ proc'[p].at = "reading" /\ proc'[p].unseen = proc[p].unseen \ {id}
          /\ proc'[p].bad = proc[p].bad /\ proc'[p].whole = proc[p].whole \cup {id}
      BY <1>1, <3>1 DEF Local
    <3>3. f \in Usable
      BY <2>6 DEF Usable, Intact
    <3> QED BY <1>1, <1>3, <2>3, <3>2, <3>3 DEF Knows
  <2> QED BY <2>4, <2>5, <2>6
<1> QED BY <1>4, <1>5

\* A removal: the next to go, and the only one that goes.
Removes(p, id) ==
  /\ id = Newest(IF proc[p].bad # {} THEN proc[p].bad ELSE proc[p].whole)
  /\ id \in IF proc[p].bad # {} THEN proc[p].bad ELSE proc[p].whole
  /\ files' = files \ Named(id)
  /\ proc'[p].at = "removing"
  /\ proc'[p].bad = proc[p].bad \ {id} /\ proc'[p].whole = proc[p].whole \ {id}

LEMMA PruneRemoves ==
  ASSUME ProcsOK, NEW p \in Procs, PruneRemove(p)
  PROVE  \/ proc'[p].at = "idle" /\ files' = files
         \/ \E id \in Ids : Removes(p, id)
<1>1. proc[p] \in Local /\ proc[p].at = "removing"
  BY DEF ProcsOK, PruneRemove
<1>2. PICK doomed : doomed = IF proc[p].bad # {} THEN proc[p].bad ELSE proc[p].whole
  OBVIOUS
<1>3. CASE doomed = {}
  <2>1. proc' = [proc EXCEPT ![p] = Idle] /\ files' = files
    BY <1>2, <1>3 DEF PruneRemove, Loc
  <2> QED BY <2>1 DEF ProcsOK, Idle
<1>4. CASE doomed # {}
  <2>1. PICK id : id = Newest(doomed)
    OBVIOUS
  <2>2. id \in doomed /\ id \in Ids
    BY <1>1, <1>2, <1>4, <2>1, NewestIsLatest DEF Local
  <2>3. /\ files' = files \ Named(id)
        /\ proc' = [proc EXCEPT ![p] = [proc[p] EXCEPT !.bad = @ \ {id}, !.whole = @ \ {id}]]
    BY <1>2, <1>4, <2>1 DEF PruneRemove, Loc
  <2>4. proc'[p] = [proc[p] EXCEPT !.bad = @ \ {id}, !.whole = @ \ {id}]
    BY <2>3 DEF ProcsOK
  <2>5. /\ proc'[p].at = "removing"
        /\ proc'[p].bad = proc[p].bad \ {id} /\ proc'[p].whole = proc[p].whole \ {id}
    BY <1>1, <2>4 DEF Local
  <2>6. Removes(p, id)
    BY <1>2, <2>1, <2>2, <2>3, <2>5 DEF Removes
  <2> QED BY <2>2, <2>6
<1> QED BY <1>3, <1>4

LEMMA PruneRemoveKnows ==
  ASSUME IInv, IInv', NEW p \in Pruners, PruneRemove(p), Knows(p)
  PROVE  Knows(p)'
<1>1. ProcsOK /\ p \in Procs /\ FilesOK /\ FilesOK' /\ proc[p].at = "removing"
  BY DEF IInv, PruneRemove
<1>2. CASE proc'[p].at = "idle"
  BY <1>2 DEF Knows
<1>3. ASSUME NEW id \in Ids, Removes(p, id) PROVE Knows(p)'
  <2>1. \A f \in files : f.id # id => f \in files'
    BY <1>3 DEF Removes, Named
  <2>2. \A f \in Usable : f.id # id => f \in Usable'
    BY <2>1 DEF Usable, Intact
  <2>3. ASSUME NEW a \in proc[p].whole, a # id PROVE Spared(p, a) \subseteq Spared(p, a)'
    <3> SUFFICES ASSUME NEW f \in Usable, f.id \notin proc[p].whole, Later(f.id, a)
                 PROVE  f \in Spared(p, a)'
      BY DEF Spared
    <3>1. f.id # id
      <4>1. CASE proc[p].bad # {}
        <5>1. PICK g \in files : g.id = id /\ g.kind # "intact"
          BY <1>1, <1>3, <4>1 DEF Removes, Knows
        <5> QED BY <1>1, <5>1 DEF FilesOK, Usable, Intact
      <4>2. CASE proc[p].bad = {}
        BY <1>3, <4>2 DEF Removes
      <4> QED BY <4>1, <4>2
    <3> QED BY <1>3, <2>2, <3>1 DEF Spared, Removes
  <2>4. ASSUME NEW a \in proc'[p].whole PROVE (Cardinality(Spared(p, a)) >= Keep)'
    <3>1. a \in proc[p].whole /\ a # id
      BY <1>3 DEF Removes
    <3>2. Cardinality(Spared(p, a)) >= Keep
      BY <1>1, <3>1 DEF Knows
    <3> QED BY <1>1, <2>3, <3>1, <3>2, SparedGrows
  <2>5. \A a \in proc'[p].whole : \E f \in Usable' : f.id = a
    BY <1>1, <1>3, <2>2 DEF Removes, Knows
  <2>6. \A a \in proc'[p].bad : \E f \in files' : f.id = a /\ f.kind # "intact"
    BY <1>1, <1>3, <2>1 DEF Removes, Knows
  <2> QED BY <1>3, <2>4, <2>5, <2>6 DEF Knows, Removes
<1> QED BY <1>1, <1>2, <1>3, PruneRemoves

LEMMA BeginKnows ==
  ASSUME IInv, NEW p \in Pruners, Begin(p, "prune")
  PROVE  Knows(p)'
<1>1. PICK s \in Local : /\ Loc(p, s) /\ s.at = "reading" /\ s.unseen = Listing
                         /\ s.whole = {} /\ s.bad = {} /\ s.upto = made
  BY BeginIsLocal DEF IInv
<1>2. proc'[p] = s /\ files' = files
  BY <1>1 DEF Loc, IInv, ProcsOK, Begin
<1> QED BY <1>1, <1>2 DEF Knows, Listing

LEMMA EndKnows ==
  ASSUME IInv, NEW p \in Pruners, PruneNothing(p) \/ PruneStops(p)
  PROVE  Knows(p)'
<1>1. proc'[p].at = "idle"
  BY DEF PruneNothing, PruneStops, Loc, IInv, ProcsOK, Idle
<1> QED BY <1>1 DEF Knows

AllKnow == KindsOK /\ \A p \in Pruners : Knows(p)

LEMMA AllKnowStep ==
  ASSUME OnePruner, IInv, IInv', AllKnow, KindsOK', [Next]_vars
  PROVE  AllKnow'
<1> SUFFICES ASSUME NEW p \in Pruners PROVE Knows(p)'
  BY DEF AllKnow
<1>1. Knows(p) /\ FilesOK /\ FilesOK' /\ p \in Procs /\ ProcsOK
  BY DEF AllKnow, IInv
<1>2. CASE Creator \/ ClockTicks \/ ClockSteps \/ UNCHANGED vars
  <2>1. proc'[p] = proc[p] /\ files \subseteq files'
    BY <1>2 DEF Creator, Create, CreatorRestarts, ClockTicks, ClockSteps, vars
  <2> QED BY <1>1, <2>1, OthersKnow
<1>3. CASE Harm
  <2>1. proc'[p] = proc[p] /\ proc[p].at = "idle"
    BY <1>1, <1>3 DEF Harm, Quiet
  <2> QED BY <1>1, <2>1, OthersKnow
<1>4. ASSUME NEW r \in Readers, Read(r) PROVE Knows(p)'
  <2>1. r \in Procs /\ r # p
    BY StoreAssumption
  <2>2. proc'[p] = proc[p]
    BY <1>1, <1>4, <2>1, OthersSteps DEF Read
  <2>3. files' = files
    BY <1>4 DEF Read, Begin, ReadLatest, ReadVerify
  <2> QED BY <1>1, <2>2, <2>3, OthersKnow
<1>5. ASSUME NEW q \in Pruners, Prune(q) PROVE Knows(p)'
  <2>1. q = p
    BY DEF OnePruner
  <2> QED BY <1>1, <1>5, <2>1, BeginKnows, EndKnows, PruneReadKnows, PruneRemoveKnows DEF Prune, AllKnow
<1> QED BY <1>2, <1>3, <1>4, <1>5 DEF Next, Outside

LEMMA PrunedIsSurplus ==
  ASSUME OnePruner, IInv, IInv', AllKnow, Next, InOrder, NEW f \in Pruned
  PROVE  Cardinality({g \in Usable \ Pruned : g.birth > f.birth}) >= Keep
<1>1. f \in Usable /\ f \in files /\ \A g \in files' : g.id # f.id
  BY DEF Pruned, Usable, Intact
<1>2. f \notin files'
  BY <1>1
<1>3. PICK p \in Pruners : PruneRemove(p)
  <2>1. ~Creator /\ ~Outside
    <3>1. ~Harm
      <4> SUFFICES ASSUME Harm PROVE FALSE
        OBVIOUS
      <4>1. PICK h \in Usable, k \in Damage : files' = (files \ {h}) \cup {[h EXCEPT !.kind = k]}
        BY DEF Harm
      <4>2. [h EXCEPT !.kind = k].id = h.id
        BY DEF IInv, FilesOK, File, Usable, Intact
      <4> QED BY <1>1, <4>1, <4>2
    <3> QED BY <1>1, <3>1 DEF Creator, Create, CreatorRestarts, Outside, ClockTicks, ClockSteps
  <2>2. \A r \in Readers : ~Read(r)
    BY <1>1, <1>2 DEF Read, Begin, ReadLatest, ReadVerify
  <2>3. PICK p \in Pruners : Prune(p)
    BY <2>1, <2>2 DEF Next
  <2>4. ~(Begin(p, "prune") \/ PruneNothing(p) \/ PruneRead(p) \/ PruneStops(p))
    BY <1>1, <1>2 DEF Begin, PruneNothing, PruneRead, PruneStops
  <2> QED BY <2>3, <2>4 DEF Prune
<1>4. Knows(p) /\ FilesOK /\ ProcsOK /\ p \in Procs /\ proc[p].at = "removing"
  BY <1>3 DEF AllKnow, IInv, PruneRemove
<1>5. PICK id \in Ids : Removes(p, id)
  BY <1>1, <1>2, <1>3, <1>4, PruneRemoves
<1>6. f.id = id /\ \A g \in files : g.id # id => g \in files'
  BY <1>1, <1>2, <1>5 DEF Removes, Named
<1>7. id \in proc[p].whole
  <2>1. CASE proc[p].bad # {}
    <3>1. PICK g \in files : g.id = id /\ g.kind # "intact"
      BY <1>4, <1>5, <2>1 DEF Removes, Knows
    <3> QED BY <1>1, <1>4, <1>6, <3>1 DEF FilesOK, Usable, Intact
  <2>2. CASE proc[p].bad = {}
    BY <1>5, <2>2 DEF Removes
  <2> QED BY <2>1, <2>2
<1> DEFINE G == {g \in Usable \ Pruned : g.birth > f.birth}
<1>8. Cardinality(Spared(p, id)) >= Keep
  BY <1>4, <1>7 DEF Knows
<1>9. ASSUME NEW g \in Spared(p, id) PROVE g \in G
  <2>1. g \in Usable /\ g \in files /\ g.id # id /\ Later(g.id, f.id)
    BY <1>6, <1>7 DEF Spared, Usable, Intact
  <2>2. g \notin Pruned
    BY <1>6, <2>1 DEF Pruned
  <2>3. f.id \in Ids /\ g.id \in Ids /\ f.birth \in Nat /\ g.birth \in Nat
    BY <1>1, <1>4, <2>1 DEF FilesOK, File
  <2>4. f.birth # g.birth
    BY <1>1, <1>4, <1>6, <2>1 DEF FilesOK
  <2>5. ~(g.birth < f.birth)
    BY <1>1, <2>1, <2>3, LaterIsOrder DEF InOrder
  <2> QED BY <2>1, <2>2, <2>3, <2>4, <2>5
<1>10. IsFiniteSet(G) /\ Cardinality(G) \in Nat
  <2>1. G \in SUBSET files
    BY DEF Usable, Intact
  <2>2. IsFiniteSet(G)
    BY <1>4, <2>1, FS_Subset DEF FilesOK
  <2> QED BY <2>2, FS_CardinalityType
<1> HIDE DEF G
<1>11. Cardinality(Spared(p, id)) <= Cardinality(G)
  BY <1>9, <1>10, FS_Subset
<1>12. Cardinality(Spared(p, id)) \in Nat /\ Keep \in Nat
  BY <1>4, SparedIsFinite, StoreAssumption
<1>13. Cardinality(G) >= Keep
  BY <1>8, <1>10, <1>11, <1>12
<1> QED BY <1>13 DEF G

\* PruneOldCheckpoints: retention never trades a usable checkpoint for a damaged one. What
\* it removes is older than Keep usable ones that stay, wherever it is interrupted, where
\* prunes run one at a time and names tell the order.
THEOREM RetentionKeepsUsable == OnlyCorrupt /\ OnePruner => (Spec => PruneKeepsUsable)
<1> SUFFICES ASSUME OnlyCorrupt, OnePruner PROVE Spec => PruneKeepsUsable
  OBVIOUS
<1>1. Init => AllKnow
  BY DEF Init, AllKnow, KindsOK, Knows, Idle
<1>2. IInv /\ IInv' /\ AllKnow /\ KindsOK' /\ [Next]_vars => AllKnow'
  BY AllKnowStep
<1>3. IInv /\ IInv' /\ AllKnow /\ [Next]_vars =>
        [InOrder => \A f \in Pruned :
           Cardinality({g \in Usable \ Pruned : g.birth > f.birth}) >= Keep]_vars
  BY PrunedIsSurplus
<1>4. Spec => []KindsOK
  BY KindsInvariant
<1> QED BY <1>1, <1>2, <1>3, <1>4, Invariance, PTL DEF Spec, PruneKeepsUsable
=============================================================================

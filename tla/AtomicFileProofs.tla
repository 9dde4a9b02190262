-------------------------- MODULE AtomicFileProofs --------------------------
(***************************************************************************)
(* Proofs about AtomicFile, for any number of calls of Write, failing      *)
(* system calls, kills and power losses.                                   *)
(***************************************************************************)
EXTENDS AtomicFile, TLAPS, WellFoundedInduction

USE DEF Files, Points, Running, Step, disk

\* Whatever the path has named is complete and flushed, and came from a call that
\* reached its rename.
NamedIsSafe == \A i \in DOMAIN names :
  /\ names[i] \in flushed /\ holds[names[i]] = "whole"
  /\ names[i] = Old \/ at[names[i]] \in {"renamed", "ok", "dead"}

\* How far a call got says what is known of its file.
ProgressIsSafe == \A w \in Writers :
  /\ at[w] \in {"written", "flushed", "closed", "ready"} => holds[w] = "whole"
  /\ at[w] \in {"flushed", "closed", "ready"} => w \in flushed
  /\ at[w] = "renamed" => \E i \in DOMAIN names : names[i] = w

\* An acknowledged name is one that the directory on the disk has recorded.
AcknowledgedSettled ==
  DirSyncs => \A w \in Acknowledged : \E i \in 1..settled : names[i] = w

\* A call renames once, so the path has named each file once.
NamedOnce == \A i, j \in DOMAIN names : names[i] = names[j] => i = j

IInv == TypeOK /\ NamedIsSafe /\ ProgressIsSafe /\ AcknowledgedSettled /\ NamedOnce

LEMMA InitIInv == Init => IInv
<1> SUFFICES ASSUME Init PROVE IInv
  OBVIOUS
<1> USE AtomicFileAssumption DEF Init
<1>1. Len(names) = 1 /\ names[1] = Old /\ names \in Seq(Files) /\ DOMAIN names = {1}
  OBVIOUS
<1>2. TypeOK
  <2>1. holds \in [Files -> {"nothing", "part", "whole"}]
    OBVIOUS
  <2>2. at \in [Writers -> Points] /\ env \in [failures : Nat, losses : Nat]
    OBVIOUS
  <2> QED BY <1>1, <2>1, <2>2 DEF TypeOK
<1>3. NamedIsSafe
  BY <1>1 DEF NamedIsSafe
<1>4. ProgressIsSafe /\ AcknowledgedSettled
  BY DEF ProgressIsSafe, AcknowledgedSettled, Acknowledged
<1>5. NamedOnce
  BY <1>1 DEF NamedOnce
<1> QED BY <1>2, <1>3, <1>4, <1>5 DEF IInv

\* Steps that leave the names alone.
LEMMA QuietSteps ==
  ASSUME IInv, NEW w \in Writers,
         Create(w) \/ WriteData(w) \/ Flush(w) \/ Close(w) \/ Chmod(w) \/ Fail(w) \/ Killed(w)
  PROVE  IInv'
<1> USE AtomicFileAssumption
<1>1. TypeOK'
  BY DEF IInv, TypeOK, Create, WriteData, Flush, Close, Chmod, Fail, Killed
<1>2. UNCHANGED <<names, settled>>
  BY DEF Create, WriteData, Flush, Close, Chmod, Fail, Killed
<1>3. NamedIsSafe'
  <2>1. CASE Create(w) \/ Flush(w) \/ Close(w) \/ Chmod(w)
    BY <2>1, <1>2 DEF IInv, TypeOK, NamedIsSafe, Create, Flush, Close, Chmod
  <2>2. CASE WriteData(w)
    BY <2>2, <1>2 DEF IInv, TypeOK, NamedIsSafe, WriteData
  <2>3. CASE Fail(w)
    BY <2>3, <1>2 DEF IInv, TypeOK, NamedIsSafe, Fail
  <2>4. CASE Killed(w)
    BY <2>4, <1>2 DEF IInv, TypeOK, NamedIsSafe, Killed
  <2> QED BY <2>1, <2>2, <2>3, <2>4
<1>4. ProgressIsSafe'
  <2>1. CASE Create(w) \/ WriteData(w) \/ Flush(w) \/ Close(w) \/ Chmod(w)
    BY <2>1, <1>2 DEF IInv, TypeOK, ProgressIsSafe, Create, WriteData, Flush, Close, Chmod
  <2>2. CASE Fail(w) \/ Killed(w)
    BY <2>2, <1>2 DEF IInv, TypeOK, ProgressIsSafe, Fail, Killed
  <2> QED BY <2>1, <2>2
<1>5. AcknowledgedSettled'
  BY <1>2 DEF IInv, TypeOK, AcknowledgedSettled, Acknowledged, Create, WriteData, Flush, Close,
                  Chmod, Fail, Killed
<1>6. NamedOnce'
  BY <1>2 DEF IInv, NamedOnce
<1> QED BY <1>1, <1>3, <1>4, <1>5, <1>6 DEF IInv

LEMMA RenameStep == ASSUME IInv, NEW w \in Writers, Rename(w) PROVE IInv'
<1> USE AtomicFileAssumption DEF Rename
<1>1. TypeOK'
  BY DEF IInv, TypeOK
<1>2. /\ names \in Seq(Files) /\ Len(names') = Len(names) + 1 /\ names'[Len(names) + 1] = w
      /\ \A i \in DOMAIN names : names'[i] = names[i]
      /\ DOMAIN names' = DOMAIN names \cup {Len(names) + 1}
  BY DEF IInv, TypeOK
<1>3. holds[w] = "whole" /\ w \in flushed
  BY DEF IInv, ProgressIsSafe
<1>4. NamedIsSafe'
  BY <1>2, <1>3 DEF IInv, TypeOK, NamedIsSafe
<1>5. ProgressIsSafe'
  BY <1>2 DEF IInv, TypeOK, ProgressIsSafe
<1>6. AcknowledgedSettled'
  BY <1>2 DEF IInv, TypeOK, AcknowledgedSettled, Acknowledged
<1>7. \A i \in DOMAIN names : names[i] # w
  BY DEF IInv, NamedIsSafe
<1>8. NamedOnce'
  BY <1>2, <1>7 DEF IInv, NamedOnce
<1> QED BY <1>1, <1>4, <1>5, <1>6, <1>8 DEF IInv

LEMMA SyncDirStep == ASSUME IInv, NEW w \in Writers, SyncDir(w) PROVE IInv'
<1> USE AtomicFileAssumption DEF SyncDir
<1>1. TypeOK'
  BY DEF IInv, TypeOK
<1>2. NamedIsSafe' /\ ProgressIsSafe'
  BY DEF IInv, TypeOK, NamedIsSafe, ProgressIsSafe
<1>3. AcknowledgedSettled'
  BY DEF IInv, TypeOK, AcknowledgedSettled, Acknowledged, ProgressIsSafe
<1>4. NamedOnce'
  BY DEF IInv, NamedOnce
<1> QED BY <1>1, <1>2, <1>3, <1>4 DEF IInv

\* Losing power takes names off the end, and data that no name refers to.
LEMMA LosePowerStep == ASSUME IInv, LosePower PROVE IInv'
<1> USE AtomicFileAssumption
<1>1. PICK k \in settled..Len(names) : names' = SubSeq(names, 1, k) /\ settled' = k
  BY DEF LosePower
<1>2. /\ k \in Nat /\ k >= 1 /\ settled <= k /\ k <= Len(names)
      /\ names' \in Seq(Files) /\ Len(names') = k /\ \A i \in 1..k : names'[i] = names[i]
  BY <1>1 DEF IInv, TypeOK
<1>3. /\ at' \in [Writers -> Points]
      /\ \A w \in Writers : at'[w] = IF at[w] \in Running THEN "dead" ELSE at[w]
  BY DEF LosePower, IInv, TypeOK
<1>4. PICK lost \in SUBSET (Files \ flushed), left \in {"nothing", "part"} :
             holds' = [f \in Files |-> IF f \in lost THEN left ELSE holds[f]]
  BY DEF LosePower
<1>5. /\ holds' \in [Files -> {"nothing", "part", "whole"}]
      /\ \A f \in flushed \cap Files : holds'[f] = holds[f]
  BY <1>4 DEF IInv, TypeOK
<1>6. flushed' = Files /\ temps' \subseteq temps /\ env' \in [failures : Nat, losses : Nat]
  BY DEF LosePower, IInv, TypeOK
<1>7. TypeOK'
  BY <1>1, <1>2, <1>3, <1>5, <1>6 DEF IInv, TypeOK
<1>8. NamedIsSafe'
  <2> SUFFICES ASSUME NEW i \in 1..k
               PROVE  /\ names[i] \in flushed' /\ holds'[names[i]] = "whole"
                      /\ names[i] = Old \/ at'[names[i]] \in {"renamed", "ok", "dead"}
    BY <1>2 DEF NamedIsSafe
  <2>1. names[i] \in Files /\ i \in DOMAIN names
    BY <1>2 DEF IInv, TypeOK
  <2>2. /\ names[i] \in flushed /\ holds[names[i]] = "whole"
        /\ names[i] = Old \/ at[names[i]] \in {"renamed", "ok", "dead"}
    BY <2>1 DEF IInv, NamedIsSafe
  <2> QED BY <1>3, <1>5, <1>6, <2>1, <2>2
<1>9. ProgressIsSafe'
  BY <1>3 DEF ProgressIsSafe
<1>10. AcknowledgedSettled'
  <2> SUFFICES ASSUME DirSyncs, NEW w \in Writers, at'[w] = "ok"
               PROVE  \E i \in 1..settled' : names'[i] = w
    BY DEF AcknowledgedSettled, Acknowledged
  <2>1. PICK i \in 1..settled : names[i] = w
    BY <1>3 DEF IInv, AcknowledgedSettled, Acknowledged
  <2>2. i \in 1..k
    BY <1>2 DEF IInv, TypeOK
  <2> QED BY <1>1, <1>2, <2>1, <2>2
<1>11. NamedOnce'
  <2>1. DOMAIN names' = 1..k /\ DOMAIN names = 1..Len(names) /\ 1..k \subseteq 1..Len(names)
    BY <1>2 DEF IInv, TypeOK
  <2> QED BY <1>2, <2>1 DEF IInv, NamedOnce
<1> QED BY <1>7, <1>8, <1>9, <1>10, <1>11 DEF IInv

\* IInv is an invariant of every instance.
THEOREM Invariance == Spec => []IInv
<1>1. ASSUME IInv, [Next]_vars PROVE IInv'
  <2>1. CASE \E w \in Writers : \/ Create(w) \/ WriteData(w) \/ Flush(w) \/ Close(w)
                               \/ Chmod(w) \/ Fail(w) \/ Killed(w)
    BY <2>1, <1>1, QuietSteps
  <2>2. CASE \E w \in Writers : Rename(w)
    BY <2>2, <1>1, RenameStep
  <2>3. CASE \E w \in Writers : SyncDir(w)
    BY <2>3, <1>1, SyncDirStep
  <2>4. CASE LosePower
    BY <2>4, <1>1, LosePowerStep
  <2>5. CASE UNCHANGED vars
    BY <2>5, <1>1 DEF vars, IInv, TypeOK, NamedIsSafe, ProgressIsSafe, AcknowledgedSettled, Acknowledged,
                      NamedOnce
  <2> QED BY <2>1, <2>2, <2>3, <2>4, <2>5, <1>1 DEF Next
<1> QED BY <1>1, InitIInv, PTL DEF Spec

\* A reader of the file sees complete contents, whatever was killed and whenever
\* power was lost: the data is flushed before the name can refer to it.
THEOREM ReadersSeeWhole == Spec => []NeverTorn
<1>1. IInv => NeverTorn
  BY DEF IInv, TypeOK, NamedIsSafe, NeverTorn, Visible
<1> QED BY <1>1, Invariance, PTL

\* Once Write returned nil its contents are never lost to an older file, where
\* directories can be flushed.
THEOREM AcknowledgedIsDurable == Spec => []AcknowledgedSurvives
<1>1. IInv => AcknowledgedSurvives
  BY DEF IInv, TypeOK, AcknowledgedSettled, AcknowledgedSurvives
<1> QED BY <1>1, Invariance, PTL
-----------------------------------------------------------------------------
\* The register's log: what the path has named, as a reader would have found it.
Log == [i \in DOMAIN names |-> Contents(names[i])]

\* Everything the path has named is complete, so the log is the names themselves.
LEMMA LogIsNames == ASSUME IInv PROVE Log = names
<1>1. names \in Seq(Files)
  BY DEF IInv, TypeOK
<1>2. \A i \in DOMAIN names : Contents(names[i]) = names[i]
  BY DEF IInv, NamedIsSafe, Contents
<1>3. names = [i \in DOMAIN names |-> names[i]]
  BY <1>1
<1> QED BY <1>2, <1>3 DEF Log

LEMMA LogIsNamesNext == ASSUME IInv' PROVE Log' = names'
<1>1. names' \in Seq(Files)
  BY DEF IInv, TypeOK
<1>2. \A i \in DOMAIN names' : Contents(names[i])' = names'[i]
  BY DEF IInv, NamedIsSafe, Contents
<1>3. names' = [i \in DOMAIN names' |-> names'[i]]
  BY <1>1
<1> QED BY <1>2, <1>3 DEF Log, Contents

\* A set of places in a sequence that is not empty has a last one.
LEMMA LastPlace ==
  ASSUME NEW n \in Nat, NEW S \in SUBSET (1..n), S # {}
  PROVE  \E i \in S : \A j \in S : j <= i
<1> DEFINE T == {n - i : i \in S}
<1>1. T \subseteq Nat /\ T # {}
  <2>1. \A i \in S : n - i \in Nat
    OBVIOUS
  <2> QED BY <2>1
<1>2. PICK x \in T : \A y \in T : ~(<<y, x>> \in OpToRel(<, Nat))
  <2> HIDE DEF T
  <2> QED BY <1>1, NatLessThanWellFounded, WFMin
<1>3. \A y \in T : ~(y < x)
  BY <1>1, <1>2 DEF OpToRel
<1>4. PICK i \in S : x = n - i
  BY <1>2
<1>5. ASSUME NEW j \in S PROVE j <= i
  <2>1. n - j \in T
    OBVIOUS
  <2>2. ~(n - j < n - i)
    BY <2>1, <1>3, <1>4
  <2> QED BY <2>2
<1> QED BY <1>5

\* What is promised: the first name, and where directories can be flushed the last
\* acknowledged one, which the directory on the disk has recorded.
LEMMA PromisedIsLast ==
  ASSUME IInv
  PROVE  /\ Promised \in 1..Len(names)
         /\ Ackd = {} \/ ~DirSyncs => Promised = 1
         /\ Ackd # {} /\ DirSyncs => Promised \in Ackd /\ \A j \in Ackd : j <= Promised
         /\ DirSyncs => \A j \in Ackd : j <= settled
<1>1. /\ names \in Seq(Files) /\ Len(names) \in Nat /\ DOMAIN names = 1..Len(names)
      /\ settled \in 1..Len(names)
  BY DEF IInv, TypeOK
<1>2. Ackd \in SUBSET (1..Len(names))
  BY <1>1 DEF Ackd
<1>3. Ackd # {} => \E i \in Ackd : \A j \in Ackd : j <= i
  BY <1>1, <1>2, LastPlace
<1>4. ASSUME Ackd # {}, DirSyncs PROVE Promised \in Ackd /\ \A j \in Ackd : j <= Promised
  BY <1>3, <1>4 DEF Promised
<1>5. Ackd = {} \/ ~DirSyncs => Promised = 1
  BY DEF Promised
<1>6. ASSUME DirSyncs, NEW j \in Ackd PROVE j <= settled
  <2>1. j \in DOMAIN names /\ names[j] \in Acknowledged
    BY DEF Ackd
  <2>2. PICK i \in 1..settled : names[i] = names[j]
    BY <2>1, <1>6 DEF IInv, AcknowledgedSettled, Acknowledged
  <2>3. i \in DOMAIN names
    BY <1>1
  <2>4. i = j
    BY <2>1, <2>2, <2>3 DEF IInv, NamedOnce
  <2> QED BY <2>2, <2>4
<1>7. 1 \in 1..Len(names)
  BY <1>1
<1> QED BY <1>2, <1>4, <1>5, <1>6, <1>7

LEMMA PromisedIsLastNext ==
  ASSUME IInv'
  PROVE  /\ Promised' \in 1..Len(names')
         /\ Ackd' = {} \/ ~DirSyncs => Promised' = 1
         /\ Ackd' # {} /\ DirSyncs => \A j \in Ackd' : j <= Promised'
<1>1. names' \in Seq(Files) /\ Len(names') \in Nat /\ DOMAIN names' = 1..Len(names') /\ Len(names') >= 1
  BY DEF IInv, TypeOK
<1>2. Ackd' \in SUBSET (1..Len(names'))
  BY <1>1 DEF Ackd
<1>3. Ackd' # {} => \E i \in Ackd' : \A j \in Ackd' : j <= i
  BY <1>1, <1>2, LastPlace
<1>4. ASSUME Ackd' # {}, DirSyncs PROVE Promised' \in Ackd' /\ \A j \in Ackd' : j <= Promised'
  BY <1>3, <1>4 DEF Promised
<1>5. Ackd' = {} \/ ~DirSyncs => Promised' = 1
  BY DEF Promised
<1>6. 1 \in 1..Len(names')
  BY <1>1
<1> QED BY <1>2, <1>4, <1>5, <1>6

\* What is promised is a matter of which places are acknowledged.
LEMMA SamePromise == Ackd' = Ackd => Promised' = Promised
  BY DEF Promised

\* The file starts as a register that holds the old file.
LEMMA InitImplements == Init => Abstract!Init
<1> SUFFICES ASSUME Init PROVE Abstract!Init
  OBVIOUS
<1>1. names = <<Old>> /\ IInv
  BY InitIInv DEF Init
<1>2. Log = <<Old>>
  BY <1>1, LogIsNames
<1>3. Ackd = {}
  BY DEF Init, Ackd, Acknowledged
<1>4. Promised = 1
  BY <1>3 DEF Promised
<1> QED BY <1>2, <1>4 DEF Abstract!Init, Log

\* A step of Write publishes, promises, takes back or is invisible.
LEMMA QuietImplements ==
  ASSUME names' = names, Acknowledged' = Acknowledged, IInv, IInv'
  PROVE  UNCHANGED Abstract!vars
<1>1. Log' = Log
  BY LogIsNames, LogIsNamesNext
<1>2. Promised' = Promised
  BY SamePromise DEF Ackd
<1> QED BY <1>1, <1>2 DEF Abstract!vars, Log

LEMMA RenameImplements ==
  ASSUME IInv, IInv', NEW w \in Writers, Rename(w)
  PROVE  Abstract!Publish
<1>1. Log = names /\ Log' = names' /\ names' = Append(names, w)
  BY LogIsNames, LogIsNamesNext DEF Rename
<1>2. Acknowledged' = Acknowledged /\ w \notin Acknowledged
  BY DEF Rename, Acknowledged, IInv, TypeOK
<1>3. /\ names'[Len(names) + 1] = w /\ \A i \in DOMAIN names : names'[i] = names[i]
      /\ DOMAIN names' = DOMAIN names \cup {Len(names) + 1}
  <2>1. names \in Seq(Files) /\ w \in Files
    BY DEF IInv, TypeOK
  <2> QED BY <1>1, <2>1
<1>4. Ackd' = Ackd
  BY <1>2, <1>3 DEF Ackd
<1>5. Promised' = Promised
  BY <1>4, SamePromise
<1> QED BY <1>1, <1>5 DEF Abstract!Publish, Log

\* Write returns nil: more may be promised, and never more than is there.
LEMMA SyncDirImplements ==
  ASSUME IInv, IInv', NEW w \in Writers, SyncDir(w)
  PROVE  Abstract!Promise
<1>1. Log = names /\ Log' = names /\ names' = names
  BY LogIsNames, LogIsNamesNext DEF SyncDir
<1>2. Acknowledged \subseteq Acknowledged'
  BY DEF SyncDir, Acknowledged, IInv, TypeOK
<1>3. Ackd \subseteq Ackd'
  BY <1>1, <1>2 DEF Ackd
<1>4. /\ Promised' \in 1..Len(names')
      /\ Ackd' = {} \/ ~DirSyncs => Promised' = 1
      /\ Ackd' # {} /\ DirSyncs => \A j \in Ackd' : j <= Promised'
  BY PromisedIsLastNext
<1>5. Promised \in 1..Len(names) /\ (Ackd = {} \/ ~DirSyncs => Promised = 1)
  BY PromisedIsLast
<1>6. Ackd # {} /\ DirSyncs => Promised \in Ackd
  BY PromisedIsLast
<1>7. Promised <= Promised'
  BY <1>1, <1>3, <1>4, <1>5, <1>6
<1>8. Promised' \in Promised..Len(names)
  BY <1>1, <1>4, <1>5, <1>7 DEF IInv, TypeOK
<1> QED BY <1>1, <1>8 DEF Abstract!Promise, Log

\* Power is lost: names are taken back, and none that is promised.
LEMMA LosePowerImplements ==
  ASSUME IInv, IInv', LosePower
  PROVE  Abstract!LosePower
<1>1. PICK k \in settled..Len(names) : names' = SubSeq(names, 1, k) /\ settled' = k
  BY DEF LosePower
<1>2. /\ k \in Nat /\ k >= 1 /\ settled <= k /\ k <= Len(names) /\ settled \in 1..Len(names)
      /\ DOMAIN names' = 1..k /\ \A i \in 1..k : names'[i] = names[i]
      /\ DOMAIN names = 1..Len(names)
  BY <1>1 DEF IInv, TypeOK
<1>3. Log = names /\ Log' = SubSeq(names, 1, k)
  BY <1>1, LogIsNames, LogIsNamesNext
<1>4. Acknowledged' = Acknowledged
  BY DEF LosePower, Acknowledged, IInv, TypeOK
<1>5. ASSUME DirSyncs PROVE Promised' = Promised /\ Promised <= k
  <2>1. \A j \in Ackd : j <= settled /\ j \in 1..Len(names)
    BY <1>5, <1>2, PromisedIsLast DEF Ackd
  <2>2. Ackd' = Ackd
    BY <1>2, <1>4, <2>1 DEF Ackd
  <2>3. Promised' = Promised
    BY <2>2, SamePromise
  <2>4. Promised = 1 \/ Promised \in Ackd
    BY <1>5, PromisedIsLast
  <2> QED BY <1>2, <2>1, <2>3, <2>4
<1>6. ASSUME ~DirSyncs PROVE Promised' = Promised /\ Promised <= k
  BY <1>2, <1>6 DEF Promised
<1>7. Promised \in 1..Len(names)
  BY PromisedIsLast
<1>8. k \in Promised..Len(names) /\ Promised' = Promised
  BY <1>2, <1>5, <1>6, <1>7
<1> QED BY <1>3, <1>8 DEF Abstract!LosePower, Log

\* Write implements Register, with any number of calls at once and through any system
\* calls that fail, kills and losses of power: the file always holds one complete value
\* that somebody wrote, and no value that was acknowledged is taken back.
THEOREM WriteImplementsRegister == Spec => ImplementsRegister
<1>1. Init => Abstract!Init
  BY InitImplements
<1>2. ASSUME IInv, IInv', [Next]_vars PROVE [Abstract!Next]_(Abstract!vars)
  <2>1. CASE \E w \in Writers : \/ Create(w) \/ WriteData(w) \/ Flush(w) \/ Close(w) \/ Chmod(w)
                                \/ Fail(w) \/ Killed(w)
    <3>1. names' = names
      BY <2>1 DEF Create, WriteData, Flush, Close, Chmod, Fail, Killed
    <3>2. Acknowledged' = Acknowledged
      BY <1>2, <2>1
         DEF Acknowledged, IInv, TypeOK, Create, WriteData, Flush, Close, Chmod, Fail, Killed
    <3> QED BY <1>2, <3>1, <3>2, QuietImplements
  <2>2. CASE \E w \in Writers : Rename(w)
    BY <1>2, <2>2, RenameImplements DEF Abstract!Next
  <2>3. CASE \E w \in Writers : SyncDir(w)
    BY <1>2, <2>3, SyncDirImplements DEF Abstract!Next
  <2>4. CASE LosePower
    BY <1>2, <2>4, LosePowerImplements DEF Abstract!Next
  <2>5. CASE UNCHANGED vars
    BY <1>2, <2>5, QuietImplements DEF vars, Acknowledged
  <2> QED BY <1>2, <2>1, <2>2, <2>3, <2>4, <2>5 DEF Next
<1> QED BY <1>1, <1>2, Invariance, PTL DEF Spec, ImplementsRegister, Abstract!Spec
=============================================================================

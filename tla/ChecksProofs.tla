---------------------------- MODULE ChecksProofs ----------------------------
(***************************************************************************)
(* What is proved of the checks a change passes before it is committed:    *)
(* the quality gates, the detection of what gates there are, and the       *)
(* self-review.  The gates come first, the self-review after them.         *)
(*                                                                         *)
(* What makes the gates' reports inductive: for every project, declaration, *)
(* reply of Claude's, set of tools and order of events, whether a task     *)
(* begins with the declaration that is there (Spec) or after it was        *)
(* detected or written anew (DetectionSpec), the set is the one gateSet    *)
(* chooses, in which a gate that can end in a skip at will is never        *)
(* required, the scan and the tests always are, and the tests are run      *)
(* once; each result so far is sound, for a credential the session left    *)
(* out does not appear later; and a run ends with every gate reported on   *)
(* or with a failure.                                                      *)
(*                                                                         *)
(* What makes the self-review's scan inductive: along an object's text     *)
(* there is a path of depths and modes that never leaves the object, by    *)
(* induction over the grammar of what a string literal and an object may   *)
(* hold (Inside, Items), and the scan is always somewhere on that path.    *)
(***************************************************************************)
EXTENDS Detection, Review, TLAPS, SequenceTheorems, FiniteSetTheorems, WellFoundedInduction

\* A sequence, of whatever there is in it.
IsSeq(s) == s \in Seq({s[k] : k \in DOMAIN s})

InRun == at \in {"between", "building", "installing"}
Tests == {"gotest", "nodetest"}

\* A set that gateSet may choose: only optional gates skip at will, the scan and the tests
\* are required, there is a scan, and the tests are run once, with the project's own tool.
SetOK(p, s) ==
  /\ IsSeq(s)
  /\ \A k \in DOMAIN s : /\ s[k].kind = "script" => ~s[k].required
                         /\ s[k].kind \in Tests \cup {"secrets"} => s[k].required
                         /\ s[k].kind = "nodetest" => p.type = "node"
  /\ \A j, k \in DOMAIN s : s[j].kind \in Tests /\ s[k].kind \in Tests => j = k
  /\ s # <<>> => \E k \in DOMAIN s : s[k].kind = "secrets"

\* The set is the one that the project's configuration and declaration lead to.
Chosen ==
  /\ at \in {"idle", "choosing"} => set = <<>> /\ results = <<>>
  /\ at \notin {"idle", "choosing"} => set = GateSet(project)
  /\ at \in {"idle", "choosing", "refused"} <=> set = <<>>

\* No credential in the part of the session's work that the scan gets to read; and what
\* the tests have to measure.
Unleaked == \A f \in files : f.by = "session" /\ f.name = "plain" => ~f.leaks
FloorMet(kind) ==
  project.floor > 0 => /\ \A c \in measured : c >= project.floor \/ (kind = "nodetest" /\ c = 0)
                       /\ kind = "gotest" => measured # {}

\* What a result that lets a gate through says.
Vouches(g, r) ==
  r.status # "failed" => /\ g.required => r.ran
                         /\ g.kind = "secrets" => Unleaked
                         /\ g.kind \in Tests => FloorMet(g.kind)

Sound == \A k \in DOMAIN results : results[k].gate = set[k].name /\ Vouches(set[k], results[k])

\* How far the report has got.
Progress == /\ IsSeq(results) /\ Len(results) <= Len(set)
            /\ InRun => Len(results) < Len(set)
            /\ at = "done" => \/ Len(results) = Len(set)
                              \/ \E k \in DOMAIN results : results[k].status = "failed"

\* The gates that are entered and left in two steps.
Midway == /\ at = "building" => Turn.kind = "build"
          /\ at = "installing" => Turn.kind = "install"

\* The tree is typed, and only a build remembers the directory.
TreeOK == /\ files \subseteq Files /\ seen \subseteq files
          /\ at # "building" => seen = {}
          /\ lock \in {"none", "current", "behind"} /\ summary \in Coverage
          /\ measured \subseteq Coverage \ {Unmeasured}

\* What `detect` recorded is the part of its reply that can run, and makes a set.
Recorded == project.doc = "detected" =>
              project.specs = Runnable(project.reported) /\ Acceptable(project.specs)

Places == {"idle", "choosing", "between", "building", "installing", "done", "refused"}

IInv == /\ IsProject(project) /\ Recorded /\ at \in Places /\ cancelled \in BOOLEAN
        /\ SetOK(project, set) /\ Chosen /\ TreeOK /\ Progress /\ Midway /\ Sound
-----------------------------------------------------------------------------
\* Sequences: how they are recognised, and how they grow at either end.
LEMMA FunctionIsSeq ==
  ASSUME NEW n \in Nat, NEW s, DOMAIN s = 1..n, s \in [1..n -> {s[k] : k \in 1..n}]
  PROVE  IsSeq(s)
<1>1. s \in UNION {[1..m -> {s[k] : k \in 1..n}] : m \in Nat} OBVIOUS
<1> QED BY <1>1, SeqDef, Zenon DEF IsSeq

LEMMA SeqIsSeq == ASSUME NEW T, NEW s \in Seq(T) PROVE IsSeq(s)
<1>1. Len(s) \in Nat /\ DOMAIN s = 1..Len(s) /\ s \in [1..Len(s) -> T] OBVIOUS
<1>2. s \in [1..Len(s) -> {s[k] : k \in 1..Len(s)}] BY <1>1
<1> QED BY <1>1, <1>2, FunctionIsSeq

LEMMA LengthIsNat == ASSUME NEW s, IsSeq(s) PROVE Len(s) \in Nat /\ DOMAIN s = 1..Len(s)
BY DEF IsSeq

LEMMA Widened == ASSUME NEW S, NEW T, S \subseteq T, NEW s \in Seq(S) PROVE s \in Seq(T)
OBVIOUS

LEMMA Appended ==
  ASSUME NEW s, IsSeq(s), NEW r
  PROVE  /\ IsSeq(Append(s, r)) /\ Len(Append(s, r)) = Len(s) + 1
         /\ DOMAIN Append(s, r) = 1..(Len(s) + 1)
         /\ Append(s, r)[Len(s) + 1] = r /\ \A k \in DOMAIN s : Append(s, r)[k] = s[k]
<1> DEFINE T == {s[k] : k \in DOMAIN s} \cup {r}
<1>1. s \in Seq(T) BY Widened DEF IsSeq
<1>2. /\ Append(s, r) \in Seq(T) /\ Len(Append(s, r)) = Len(s) + 1
      /\ Len(s) \in Nat /\ DOMAIN s = 1..Len(s) /\ DOMAIN Append(s, r) = 1..(Len(s) + 1)
      /\ Append(s, r)[Len(s) + 1] = r /\ \A k \in DOMAIN s : Append(s, r)[k] = s[k]
  BY <1>1
<1>3. IsSeq(Append(s, r)) BY <1>2 DEF IsSeq
<1> QED BY <1>2, <1>3

LEMMA Prepended ==
  ASSUME NEW x, NEW s, IsSeq(s)
  PROVE  /\ IsSeq(<<x>> \o s) /\ DOMAIN (<<x>> \o s) = 1..(Len(s) + 1)
         /\ (<<x>> \o s)[1] = x
         /\ \A k \in DOMAIN (<<x>> \o s) :
              k # 1 => k - 1 \in DOMAIN s /\ (<<x>> \o s)[k] = s[k - 1]
         /\ \A j \in DOMAIN s :
              j + 1 \in DOMAIN (<<x>> \o s) /\ j + 1 # 1 /\ (<<x>> \o s)[j + 1] = s[j]
<1> DEFINE T == {s[k] : k \in DOMAIN s} \cup {x}
<1>1. s \in Seq(T) /\ <<x>> \in Seq(T) BY Widened DEF IsSeq
<1>2. <<x>> \o s \in Seq(T) BY <1>1
<1>3. Len(s) \in Nat /\ Len(<<x>> \o s) = Len(s) + 1 /\ DOMAIN s = 1..Len(s) BY <1>1
<1>4. DOMAIN (<<x>> \o s) = 1..(Len(s) + 1) BY <1>2, <1>3
<1>5. \A k \in DOMAIN (<<x>> \o s) :
        (<<x>> \o s)[k] = IF k = 1 THEN x ELSE s[k - 1]
  BY <1>1, <1>3, <1>4
<1>6. /\ 1 \in 1..(Len(s) + 1)
      /\ \A k \in 1..(Len(s) + 1) : k # 1 => k - 1 \in 1..Len(s)
      /\ \A j \in 1..Len(s) : j + 1 \in 1..(Len(s) + 1) /\ j + 1 # 1 /\ (j + 1) - 1 = j
  BY <1>3
<1>7. IsSeq(<<x>> \o s) BY <1>2, SeqIsSeq
<1> HIDE DEF T
<1> QED BY <1>3, <1>4, <1>5, <1>6, <1>7
-----------------------------------------------------------------------------
\* Declared gates are commands, in the order they were declared.
LEMMA DeclaredAreCommands ==
  ASSUME NEW s, IsSeq(s)
  PROVE  /\ IsSeq(DeclaredGates(s)) /\ DOMAIN DeclaredGates(s) = DOMAIN s
         /\ \A k \in DOMAIN s : /\ DeclaredGates(s)[k].kind = "command"
                                /\ DeclaredGates(s)[k].name = s[k].name
                                /\ DeclaredGates(s)[k].required = s[k].required
<1>1. Len(s) \in Nat /\ DOMAIN s = 1..Len(s) BY LengthIsNat
<1>2. \A k \in DOMAIN s : /\ DeclaredGates(s)[k].kind = "command"
                          /\ DeclaredGates(s)[k].name = s[k].name
                          /\ DeclaredGates(s)[k].required = s[k].required
  BY DEF DeclaredGates, Gate
<1>3. DeclaredGates(s) \in [1..Len(s) -> {DeclaredGates(s)[k] : k \in DOMAIN DeclaredGates(s)}]
  BY <1>1 DEF DeclaredGates
<1>4. DOMAIN DeclaredGates(s) = 1..Len(s) BY <1>1 DEF DeclaredGates
<1> QED BY <1>1, <1>2, <1>3, <1>4, FunctionIsSeq

\* A declared set is the scan and the declared gates, none of them under another's name.
LEMMA DeclaredSet ==
  ASSUME NEW specs, IsSeq(specs), FromSpecs(specs) # Refused
  PROVE  /\ FromSpecs(specs) = <<SecretScan>> \o DeclaredGates(specs)
         /\ \A k \in DOMAIN specs : Validate(specs[k])
         /\ \A j, k \in DOMAIN FromSpecs(specs) :
              FromSpecs(specs)[j].name = FromSpecs(specs)[k].name => j = k
<1> DEFINE d == DeclaredGates(specs)
           n == [k \in DOMAIN specs |-> specs[k].name]
           names == <<"secrets">> \o n
<1>1. /\ FromSpecs(specs) = <<SecretScan>> \o d
      /\ \A k \in DOMAIN specs : Validate(specs[k])
      /\ IsInjective(names)
  BY DEF FromSpecs
<1>2. /\ IsSeq(d) /\ DOMAIN d = DOMAIN specs
      /\ \A k \in DOMAIN specs : d[k].name = specs[k].name
  BY DeclaredAreCommands
<1>3. IsSeq(n) /\ DOMAIN n = DOMAIN specs
  <2>1. Len(specs) \in Nat /\ DOMAIN specs = 1..Len(specs) BY LengthIsNat
  <2>2. n \in [1..Len(specs) -> {n[k] : k \in 1..Len(specs)}] BY <2>1
  <2> QED BY <2>1, <2>2, FunctionIsSeq
<1>4. Len(d) = Len(n) BY <1>2, <1>3, LengthIsNat
<1> HIDE DEF d, n
<1>5. /\ DOMAIN (<<SecretScan>> \o d) = 1..(Len(d) + 1)
      /\ (<<SecretScan>> \o d)[1] = SecretScan
      /\ \A k \in DOMAIN (<<SecretScan>> \o d) :
           k # 1 => k - 1 \in DOMAIN d /\ (<<SecretScan>> \o d)[k] = d[k - 1]
  BY <1>2, Prepended
<1>6. /\ DOMAIN names = 1..(Len(n) + 1) /\ names[1] = "secrets"
      /\ \A k \in DOMAIN names : k # 1 => k - 1 \in DOMAIN n /\ names[k] = n[k - 1]
  BY <1>3, Prepended
<1> HIDE DEF names
<1>7. \A k \in DOMAIN specs : d[k].name = n[k] BY <1>2 DEF n
<1>8. \A k \in DOMAIN names : (<<SecretScan>> \o d)[k].name = names[k]
  BY <1>2, <1>3, <1>4, <1>5, <1>6, <1>7 DEF SecretScan, Gate
<1>9. \A j, k \in DOMAIN names : names[j] = names[k] => j = k
  BY <1>1 DEF IsInjective
<1>10. DOMAIN (<<SecretScan>> \o d) = DOMAIN names BY <1>4, <1>5, <1>6
<1>11. \A j, k \in DOMAIN (<<SecretScan>> \o d) :
         (<<SecretScan>> \o d)[j].name = (<<SecretScan>> \o d)[k].name => j = k
  BY ONLY <1>8, <1>9, <1>10
<1> QED BY <1>1, <1>11 DEF d

\* What gateSet returns can be run.
LEMMA ChosenSet == ASSUME NEW p, IsProject(p) PROVE SetOK(p, GateSet(p))
<1> USE DEF Tests
<1>1. p.type \in {"go", "node", "other"} /\ IsSeq(p.specs)
  BY SeqIsSeq DEF IsProject
<1>2. SecretScan.kind = "secrets" /\ SecretScan.required BY DEF SecretScan, Gate
<1>3. SetOK(p, <<SecretScan>>) BY <1>2 DEF SetOK, IsSeq
<1>4. SetOK(p, GoGates)
  <2>1. IsSeq(GoGates)
    <3>1. \A a, b, c, d, e, f, g : IsSeq(<<a, b, c, d, e, f, g>>) BY DEF IsSeq
    <3> QED BY <3>1 DEF GoGates
  <2>2. \A k \in DOMAIN GoGates :
          /\ GoGates[k].kind \notin {"script", "nodetest"}
          /\ GoGates[k].kind \in Tests \cup {"secrets"} => GoGates[k].required
          /\ GoGates[k].kind \in Tests <=> k = 5
    BY DEF GoGates, SecretScan, Gate
  <2>3. 2 \in DOMAIN GoGates /\ GoGates[2].kind = "secrets" BY DEF GoGates, SecretScan, Gate
  <2> QED BY <2>1, <2>2, <2>3 DEF SetOK
<1>5. p.type = "node" => SetOK(p, NodeGates(p.pm))
  <2> DEFINE g == NodeGates(p.pm)
  <2>1. IsSeq(g)
    <3>1. \A a, b, c, d, e, f, h : IsSeq(<<a, b, c, d, e, f, h>>) BY DEF IsSeq
    <3> QED BY <3>1 DEF NodeGates
  <2>2. \A k \in DOMAIN g : /\ g[k].kind = "script" => ~g[k].required
                            /\ g[k].kind \in Tests \cup {"secrets"} => g[k].required
                            /\ g[k].kind \in Tests <=> k = 6
    BY DEF NodeGates, SecretScan, Gate
  <2>3. 1 \in DOMAIN g /\ g[1].kind = "secrets" BY DEF NodeGates, SecretScan, Gate
  <2> HIDE DEF g
  <2>4. p.type = "node" => SetOK(p, g) BY <2>1, <2>2, <2>3 DEF SetOK
  <2> QED BY <2>4 DEF g
<1>6. SetOK(p, Refused) BY DEF SetOK, Refused, IsSeq
<1>7. SetOK(p, FromSpecs(p.specs))
  <2>1. CASE FromSpecs(p.specs) = Refused BY <2>1, <1>6
  <2>2. CASE FromSpecs(p.specs) # Refused
    <3> DEFINE d == DeclaredGates(p.specs)
               s == <<SecretScan>> \o d
    <3>1. IsSeq(d) /\ \A k \in DOMAIN d : d[k].kind = "command" BY <1>1, DeclaredAreCommands
    <3>2. FromSpecs(p.specs) = s BY <1>1, <2>2, DeclaredSet
    <3> HIDE DEF d
    <3>3. /\ IsSeq(s) /\ DOMAIN s = 1..(Len(d) + 1) /\ s[1] = SecretScan
          /\ \A k \in DOMAIN s : k # 1 => k - 1 \in DOMAIN d /\ s[k] = d[k - 1]
      BY <3>1, Prepended
    <3>4. 1 \in DOMAIN s BY <3>1, <3>3, LengthIsNat
    <3> HIDE DEF s
    <3>5. \A k \in DOMAIN s : IF k = 1 THEN s[k].kind = "secrets" /\ s[k].required
                                       ELSE s[k].kind = "command"
      BY <1>2, <3>1, <3>3
    <3> QED BY <3>2, <3>3, <3>4, <3>5 DEF SetOK
  <2> QED BY <2>1, <2>2
<1> QED BY <1>1, <1>3, <1>4, <1>5, <1>6, <1>7 DEF GateSet, BuiltIn
-----------------------------------------------------------------------------
\* The places of a reply that are kept, counted from the front, are numbered through.
LEMMA Ranks ==
  ASSUME NEW r, IsSeq(r)
  PROVE  /\ Cardinality(Kept(r)) \in Nat
         /\ \A h \in Kept(r) : Rank(r, h) \in 1..Cardinality(Kept(r))
         /\ \A h, j \in Kept(r) : Rank(r, h) = Rank(r, j) => h = j
         /\ \A n \in 1..Cardinality(Kept(r)) : \E h \in Kept(r) : Rank(r, h) = n
<1> DEFINE K == Kept(r)
           N == Cardinality(K)
           rank == [h \in K |-> Rank(r, h)]
<1>1. /\ Len(r) \in Nat /\ DOMAIN r = 1..Len(r)
      /\ K \in SUBSET (1..Len(r)) /\ \A h \in K : h \in Nat /\ h >= 1
  BY LengthIsNat DEF Kept
<1> HIDE DEF K
<1>2. IsFiniteSet(K) /\ N \in Nat
  <2>1. IsFiniteSet(1..Len(r)) BY <1>1, FS_Interval
  <2>2. IsFiniteSet(K) BY <2>1, <1>1, FS_Subset
  <2> QED BY <2>2, FS_CardinalityType
<1>3. \A S \in SUBSET K : /\ IsFiniteSet(S) /\ Cardinality(S) \in Nat /\ Cardinality(S) <= N
  BY <1>2, FS_Subset, FS_CardinalityType
<1>4. \A h \in K : Rank(r, h) \in 1..N
  <2> SUFFICES ASSUME NEW h \in K PROVE Rank(r, h) \in 1..N OBVIOUS
  <2>1. K \cap 1..h \in SUBSET K /\ K \cap 1..h # {} BY <1>1
  <2>2. Cardinality(K \cap 1..h) # 0 BY <2>1, <1>3, FS_EmptySet
  <2>3. Cardinality(K \cap 1..h) \in 1..N BY <2>1, <2>2, <1>2, <1>3
  <2> QED BY <2>3 DEF Rank, K
<1>5. \A h, j \in K : h < j => Rank(r, h) < Rank(r, j)
  <2> SUFFICES ASSUME NEW h \in K, NEW j \in K, h < j PROVE Rank(r, h) < Rank(r, j) OBVIOUS
  <2> DEFINE A == K \cap 1..h
             B == K \cap 1..j
  <2>1. A \in SUBSET B /\ B \in SUBSET K /\ A \in SUBSET K /\ j \in B /\ j \notin A BY <1>1
  <2>2. IsFiniteSet(B) /\ Cardinality(A) \in Nat /\ Cardinality(B) \in Nat BY <2>1, <1>3
  <2> HIDE DEF A, B
  <2>3. Cardinality(A) <= Cardinality(B) /\ (Cardinality(B) = Cardinality(A) => B = A)
    BY <2>1, <2>2, FS_Subset
  <2>4. Cardinality(A) < Cardinality(B) BY <2>1, <2>2, <2>3
  <2> QED BY <2>4 DEF Rank, A, B, K
<1>6. \A h, j \in K : Rank(r, h) = Rank(r, j) => h = j
  <2> SUFFICES ASSUME NEW h \in K, NEW j \in K, Rank(r, h) = Rank(r, j) PROVE h = j OBVIOUS
  <2>1. Rank(r, h) \in Nat /\ Rank(r, j) \in Nat /\ h \in Nat /\ j \in Nat BY <1>1, <1>2, <1>4
  <2> QED BY <2>1, <1>5
<1>7. \A n \in 1..N : \E h \in K : Rank(r, h) = n
  <2>1. rank \in Injection(K, 1..N) BY <1>4, <1>6 DEF Injection, IsInjective
  <2>2. IsFiniteSet(1..N) /\ Cardinality(1..N) = N BY <1>2, FS_Interval
  <2>3. rank \in Surjection(K, 1..N) BY <2>1, <2>2, FS_Injection
  <2> QED BY <2>3 DEF Surjection
<1> QED BY <1>2, <1>4, <1>6, <1>7 DEF K

\* ParseToolchain yields gates, and drops none that can run.
LEMMA RunnableKeeps ==
  ASSUME NEW answer \in Seq(Declaration)
  PROVE  /\ Runnable(answer) \in Seq(Declaration)
         /\ \A h \in DOMAIN answer :
              CanRun(answer[h]) => \E n \in DOMAIN Runnable(answer) : Runnable(answer)[n] = answer[h]
<1> DEFINE K == Kept(answer)
           N == Cardinality(K)
           place(n) == CHOOSE h \in K : Rank(answer, h) = n
<1>1. /\ N \in Nat /\ \A h \in K : Rank(answer, h) \in 1..N
      /\ \A h, j \in K : Rank(answer, h) = Rank(answer, j) => h = j
      /\ \A n \in 1..N : \E h \in K : Rank(answer, h) = n
  BY Ranks, SeqIsSeq
<1>2. Runnable(answer) = [n \in 1..N |-> answer[place(n)]] BY DEF Runnable
<1>3. K \subseteq DOMAIN answer /\ \A h \in DOMAIN answer : CanRun(answer[h]) => h \in K BY DEF Kept
<1>4. \A n \in 1..N : place(n) \in K /\ Rank(answer, place(n)) = n
  <2> HIDE DEF K
  <2> QED BY <1>1
<1> HIDE DEF place, K
<1>5. Runnable(answer) \in Seq(Declaration)
  <2>1. \A n \in 1..N : answer[place(n)] \in Declaration BY <1>3, <1>4
  <2>2. [n \in 1..N |-> answer[place(n)]] \in Seq(Declaration) BY <1>1, <2>1
  <2> QED BY <1>2, <2>2
<1>6. ASSUME NEW h \in DOMAIN answer, CanRun(answer[h])
      PROVE  \E n \in DOMAIN Runnable(answer) : Runnable(answer)[n] = answer[h]
  <2>1. h \in K /\ Rank(answer, h) \in 1..N BY <1>1, <1>3, <1>6
  <2>2. place(Rank(answer, h)) = h BY <2>1, <1>1, <1>4
  <2>3. Runnable(answer)[Rank(answer, h)] = answer[h] /\ Rank(answer, h) \in DOMAIN Runnable(answer)
    BY <1>2, <2>1, <2>2
  <2> QED BY <2>3
<1> QED BY <1>5, <1>6

\* A project that declares something else is a project.
LEMMA Redeclared ==
  ASSUME NEW p, IsProject(p), NEW specs \in Seq(Declaration)
  PROVE  /\ \A reported \in Seq(Declaration) :
              IsProject([p EXCEPT !.doc = "detected", !.specs = specs, !.reported = reported])
         /\ IsProject([p EXCEPT !.doc = "declared", !.specs = specs])
         /\ IsProject([p EXCEPT !.doc = "absent", !.specs = specs])
<1>1. ASSUME NEW reported \in Seq(Declaration)
      PROVE  IsProject([p EXCEPT !.doc = "detected", !.specs = specs, !.reported = reported])
  BY DEF IsProject
<1>2. IsProject([p EXCEPT !.doc = "declared", !.specs = specs]) BY DEF IsProject
<1>3. IsProject([p EXCEPT !.doc = "absent", !.specs = specs]) BY DEF IsProject
<1> QED BY <1>1, <1>2, <1>3
-----------------------------------------------------------------------------
\* No step puts a credential where the session's work had none.
LEMMA TreeStep ==
  ASSUME IInv, [DetectionNext]_vars
  PROVE  TreeOK' /\ (Unleaked => Unleaked') /\ cancelled' \in BOOLEAN
<1> USE DEF IInv, TreeOK, Unleaked, tree, Verdict, Missing, Finish
<1>1. ASSUME files' \in Leaves
      PROVE  files' \subseteq Files /\ files \subseteq files' /\ (Unleaked => Unleaked')
  BY <1>1, GatesAssumption DEF Leaves, Files, File
<1>2. ASSUME NEW kind, RunTool(kind)
      PROVE  TreeOK' /\ (Unleaked => Unleaked') /\ cancelled' \in BOOLEAN
  BY <1>1, <1>2 DEF RunTool, Running
<1>3. CASE StartBuild BY <1>3 DEF StartBuild, Running
<1>4. CASE EndBuild
  <2>1. PICK made : /\ made \in SUBSET {File("compiler", FALSE, "plain", "root")}
                    /\ files' = {f \in files \cup made : f.place = "below" \/ f \in seen}
    BY <1>4 DEF EndBuild
  <2>2. \A f \in made : f \in Files /\ f.by = "compiler"
    <3>1. File("compiler", FALSE, "plain", "root") \in Files BY DEF Files, File
    <3>2. File("compiler", FALSE, "plain", "root").by = "compiler" BY DEF File
    <3> QED BY <2>1, <3>1, <3>2
  <2>3. files' \subseteq Files /\ (Unleaked => Unleaked') BY <2>1, <2>2
  <2>4. UNCHANGED <<cancelled, lock, summary, measured>> /\ seen' = {} BY <1>4 DEF EndBuild
  <2> QED BY <2>3, <2>4
<1>5. CASE RunGoTest
  <2>1. files' \in Leaves \/ files' = files BY <1>5 DEF RunGoTest
  <2>2. measured' = measured \/ \E lines \in SUBSET CoverageLines : measured' = Figures(lines)
    BY <1>5, Zenon DEF RunGoTest
  <2>3. \A lines \in SUBSET CoverageLines : Figures(lines) \subseteq 0..2
    BY DEF Figures, CoverageLines
  <2>4. 0..2 \subseteq Coverage \ {Unmeasured} BY DEF Coverage, Unmeasured
  <2>5. measured' \subseteq Coverage \ {Unmeasured} BY <2>2, <2>3, <2>4
  <2>6. UNCHANGED <<cancelled, seen, lock, summary>> /\ at = "between" /\ at' # "building"
    BY <1>5 DEF RunGoTest, Running
  <2> QED BY <1>1, <2>1, <2>5, <2>6
<1>6. CASE StartInstall \/ EndInstall
  BY <1>6 DEF StartInstall, EndInstall, Running
<1>7. CASE RunScript BY <1>1, <1>7 DEF RunScript, Running
<1>8. CASE RunNodeTest
  <2>1. files' \in Leaves \/ files' = files BY <1>8 DEF RunNodeTest
  <2>2. \/ UNCHANGED <<summary, measured>>
        \/ measured' \in {{}, {0}, {1}, {2}} /\ (summary' = summary \/ summary' \in measured')
    BY <1>8 DEF RunNodeTest
  <2>3. {0, 1, 2} \subseteq Coverage \ {Unmeasured} BY DEF Coverage, Unmeasured
  <2>4. measured' \subseteq Coverage \ {Unmeasured} /\ summary' \in Coverage
    BY <2>2, <2>3
  <2>5. UNCHANGED <<cancelled, seen, lock>> /\ at = "between" /\ at' # "building"
    BY <1>8 DEF RunNodeTest, Running
  <2> QED BY <1>1, <2>1, <2>4, <2>5
<1>9. CASE PersonAdds
  <2>1. PICK place \in PeopleWrite : files' = files \cup {File("person", FALSE, "plain", place)}
    BY <1>9 DEF PersonAdds
  <2>2. File("person", FALSE, "plain", place) \in Files BY GatesAssumption DEF Files, File
  <2>3. File("person", FALSE, "plain", place).by = "person" BY DEF File
  <2> QED BY <1>9, <2>1, <2>2, <2>3 DEF PersonAdds
<1>10. CASE ChooseGates \/ NotRun \/ RunScan \/ Cancel
  BY <1>10 DEF ChooseGates, NotRun, RunScan, Running, Cancel
<1>11. CASE Detect \/ PersonDeclares \/ Begin
  BY <1>11 DEF Detect, PersonDeclares, Begin
<1>12. CASE UNCHANGED vars BY <1>12 DEF vars
<1> QED BY <1>2, <1>3, <1>4, <1>5, <1>6, <1>7, <1>8, <1>9, <1>10, <1>11, <1>12
   DEF DetectionNext, Next, RunFormat, RunVet, RunLint, RunSecurity, RunCommand
\* A new result keeps the report sound, if it lets its gate through only when that ran,
\* found no credential, and met the floor.
LEMMA ReportGrows ==
  ASSUME IInv, InRun, TreeOK', Unleaked => Unleaked', NEW status, NEW ran, NEW kind,
         results' = Append(results, Result(status, ran)), UNCHANGED <<project, set, cancelled>>,
         kind = Turn.kind,
         kind \in Tests \/ measured' = measured,
         status # "failed" => /\ Turn.required => ran
                              /\ kind = "secrets" => Unleaked'
                              /\ kind \in Tests => FloorMet(kind)',
         \/ at' = IF Len(results') = Len(set) THEN "done" ELSE "between"
         \/ at' = "done" /\ status = "failed"
  PROVE  IInv'
<1>0. PICK r, here : r = Result(status, ran) /\ here = Len(results) + 1 OBVIOUS
<1>1. /\ IsSeq(results) /\ IsSeq(set) /\ Len(results) < Len(set)
      /\ Len(results) \in Nat /\ DOMAIN results = 1..Len(results)
      /\ Len(set) \in Nat /\ DOMAIN set = 1..Len(set)
  BY LengthIsNat DEF IInv, Progress, SetOK
<1>2. /\ r.gate = Turn.name /\ r.status = status /\ r.ran = ran
      /\ results' = Append(results, r) /\ Turn = set[here]
  BY <1>0 DEF Result, Turn
<1>3. here \in DOMAIN set BY ONLY <1>0, <1>1
<1>4. /\ IsSeq(results') /\ Len(results') = here
      /\ DOMAIN results' = 1..here
      /\ results'[here] = r /\ \A k \in DOMAIN results : results'[k] = results[k]
  BY ONLY <1>0, <1>1, <1>2, Appended
<1>5. \A k \in DOMAIN results' : k = here \/ (k \in DOMAIN results /\ k # here)
  BY ONLY <1>0, <1>1, <1>4
<1>6. ASSUME NEW k \in DOMAIN results, k # here PROVE Vouches(set[k], results[k])'
  <2>1. Vouches(set[k], results[k]) BY <1>6 DEF IInv, Sound
  <2>2. set[k].kind \in Tests => kind \notin Tests
    <3>1. k \in DOMAIN set BY ONLY <1>1, k \in DOMAIN results
    <3> QED BY <1>2, <1>3, <1>6, <3>1 DEF IInv, SetOK
  <2>3. set[k].kind \in Tests => measured' = measured BY <2>2
  <2>4. results'[k] = results[k] /\ set'[k] = set[k] BY <1>4, <1>6
  <2>5. FloorMet(set[k].kind) /\ set[k].kind \in Tests => FloorMet(set[k].kind)'
    BY <2>3, <2>4 DEF FloorMet
  <2> QED BY <2>1, <2>4, <2>5 DEF Vouches
<1>7. Vouches(set[here], results[here])' BY <1>2, <1>4 DEF Vouches
<1>8. Sound'
  <2> SUFFICES ASSUME NEW k \in DOMAIN results'
               PROVE  results'[k].gate = set[k].name /\ Vouches(set[k], results[k])'
    BY DEF Sound
  <2>1. CASE k = here BY <2>1, <1>2, <1>4, <1>7
  <2>2. CASE k \in DOMAIN results /\ k # here BY <2>2, <1>4, <1>6 DEF IInv, Sound
  <2> QED BY <1>5, <2>1, <2>2
<1>9. Progress' /\ at' \in {"between", "done"}
  <2>1. /\ Len(results) \in Nat /\ Len(set) \in Nat /\ Len(results) < Len(set)
        /\ Len(results') = Len(results) + 1
    BY ONLY <1>0, <1>1, <1>4
  <2>2. CASE at' = IF Len(results') = Len(set) THEN "done" ELSE "between"
    <3>1. Len(results') <= Len(set) /\ (Len(results') # Len(set) => Len(results') < Len(set))
      BY ONLY <2>1
    <3>2. \/ at' = "done" /\ Len(results') = Len(set)
          \/ at' = "between" /\ Len(results') < Len(set)
      BY ONLY <2>2, <3>1
    <3> QED BY ONLY <3>1, <3>2, <1>4, set' = set DEF Progress, InRun
  <2>3. CASE at' = "done" /\ status = "failed"
    <3>1. here \in DOMAIN results' BY ONLY <1>0, <1>1, <1>4
    <3>2. \E k \in DOMAIN results' : results'[k].status = "failed" BY <2>3, <3>1, <1>2, <1>4
    <3>3. Len(results') <= Len(set) BY ONLY <2>1
    <3> QED BY ONLY <2>3, <3>2, <3>3, <1>4, set' = set DEF Progress, InRun
  <2> QED BY <2>2, <2>3
<1>10. /\ IsProject(project)' /\ Recorded' /\ at' \in Places /\ cancelled' \in BOOLEAN
       /\ SetOK(project, set)'
  BY <1>9 DEF IInv, Recorded, Places
<1>11. Chosen' /\ Midway' BY <1>9 DEF IInv, Chosen, Midway, InRun
<1> QED BY <1>8, <1>9, <1>10, <1>11 DEF IInv

\* Finish, Verdict and Missing are such results.
LEMMA FinishKeeps ==
  ASSUME IInv, InRun, TreeOK', Unleaked => Unleaked', NEW status, NEW ran, NEW kind,
         kind = Turn.kind, Finish(status, ran),
         kind \in Tests \/ measured' = measured,
         status # "failed" => /\ Turn.required => ran
                              /\ kind = "secrets" => Unleaked'
                              /\ kind \in Tests => FloorMet(kind)'
  PROVE  IInv'
BY ReportGrows DEF Finish

LEMMA VerdictKeeps ==
  ASSUME IInv, InRun, TreeOK', Unleaked => Unleaked', NEW ok \in BOOLEAN, NEW kind,
         kind = Turn.kind, Verdict(ok), kind \in Tests => ~ok, kind = "secrets" /\ ok => Unleaked,
         kind \in Tests \/ measured' = measured
  PROVE  IInv'
<1>1. CASE ok
  <2>1. Finish("passed", TRUE) BY <1>1 DEF Verdict, Finish, Result
  <2> QED BY <1>1, <2>1, FinishKeeps
<1>2. CASE ~ok
  <2>1. Finish("failed", FALSE) BY <1>2 DEF Verdict, Finish, Result
  <2> QED BY <2>1, FinishKeeps
<1> QED BY <1>1, <1>2

\* A gate without its tool is never required when it is skipped; the scan and the tests are.
LEMMA MissingKeeps ==
  ASSUME IInv, InRun, TreeOK', Unleaked => Unleaked', measured' = measured, Missing
  PROVE  IInv'
<1>1. CASE Turn.required
  <2>1. Finish("failed", FALSE) BY <1>1 DEF Missing
  <2> QED BY <2>1, FinishKeeps
<1>2. CASE ~Turn.required
  <2>1. Finish("skipped", FALSE) BY <1>2 DEF Missing
  <2>2. Len(results) + 1 \in DOMAIN set BY LengthIsNat DEF IInv, SetOK, Progress
  <2>3. Turn.kind \notin Tests \cup {"secrets"} BY <1>2, <2>2 DEF IInv, SetOK, Turn
  <2> QED BY <1>2, <2>1, <2>3, FinishKeeps
<1> QED BY <1>1, <1>2

\* Steps that leave the report alone.
LEMMA ReportUntouched ==
  ASSUME IInv, UNCHANGED <<project, set, results, measured>>, TreeOK', Unleaked => Unleaked',
         cancelled' \in BOOLEAN, at' = at \/ (InRun /\ InRun' /\ Midway')
  PROVE  IInv'
<1>1. IsProject(project)' /\ Recorded' /\ SetOK(project, set)' BY DEF IInv, Recorded
<1>2. Sound' BY DEF IInv, Sound, Vouches, FloorMet
<1>3. Chosen' /\ Progress' /\ Midway' /\ at' \in Places
  BY DEF IInv, Chosen, Progress, Midway, Turn, InRun, Places
<1> QED BY <1>1, <1>2, <1>3 DEF IInv
-----------------------------------------------------------------------------
LEMMA InitIInv == Init \/ DetectionInit => IInv
<1> SUFFICES ASSUME Init \/ DetectionInit PROVE IInv OBVIOUS
<1>1. /\ project \in Projects /\ IsProject(project) /\ project.doc # "detected"
      /\ at \in {"idle", "choosing"} /\ set = <<>> /\ results = <<>> /\ cancelled = FALSE
      /\ \/ files = {File("session", FALSE, "plain", "below")}
         \/ \E name \in {"plain", "quoted"} : files = {File("session", TRUE, name, "below")}
      /\ seen = {}
      /\ lock = project.lock /\ summary = project.summary /\ measured = {}
  BY GatesAssumption, DetectionAssumption DEF Init, DetectionInit, Untouched
<1>2. TreeOK
  <2>1. /\ File("session", FALSE, "plain", "below") \in Files
        /\ \A name \in {"plain", "quoted"} : File("session", TRUE, name, "below") \in Files
    BY DEF Files, File
  <2>2. files \subseteq Files
    <3>1. CASE files = {File("session", FALSE, "plain", "below")} BY <2>1, <3>1
    <3>2. ASSUME NEW name \in {"plain", "quoted"}, files = {File("session", TRUE, name, "below")}
          PROVE  files \subseteq Files
      BY <2>1, <3>2
    <3> QED BY <1>1, <3>1, <3>2
  <2>3. project.lock \in {"none", "current", "behind"} /\ project.summary \in Coverage
    BY <1>1 DEF IsProject
  <2> QED BY <1>1, <2>2, <2>3 DEF TreeOK
<1>3. SetOK(project, <<>>) /\ IsSeq(<<>>) BY DEF SetOK, IsSeq
<1>4. Progress BY <1>1, <1>3 DEF Progress, InRun
<1>5. Chosen /\ Midway /\ Sound BY <1>1 DEF Chosen, Midway, Sound
<1> QED BY <1>1, <1>2, <1>3, <1>4, <1>5 DEF IInv, Recorded, Places

\* The declaration may change before a task is started.
LEMMA DeclarationStep ==
  ASSUME IInv, TreeOK', Detect \/ PersonDeclares \/ Begin
  PROVE  IInv'
<1>1. /\ at = "idle" /\ set = <<>> /\ results = <<>> /\ set' = <<>> /\ results' = <<>>
      /\ at' \in {"idle", "choosing"} /\ cancelled' = cancelled
  BY DEF Detect, PersonDeclares, Begin, IInv, Chosen
<1>2. IsProject(project)' /\ Recorded'
  <2>1. CASE Detect
    <3>1. PICK answer \in Replies :
            /\ Acceptable(Runnable(answer))
            /\ project' = [project EXCEPT !.doc = "detected", !.specs = Runnable(answer),
                                          !.reported = answer]
      BY <2>1 DEF Detect
    <3>2. answer \in Seq(Declaration) /\ Runnable(answer) \in Seq(Declaration)
      BY DetectionAssumption, RunnableKeeps
    <3>3. IsProject(project') BY <3>1, <3>2, Redeclared DEF IInv
    <3>4. project'.specs = Runnable(answer) /\ project'.reported = answer
      BY <3>1 DEF IInv, IsProject
    <3> QED BY <3>1, <3>3, <3>4 DEF Recorded
  <2>2. CASE PersonDeclares
    <3>1. <<>> \in Seq(Declaration) /\ Written \subseteq Seq(Declaration) BY DetectionAssumption
    <3>2. \E specs \in Seq(Declaration) :
            \/ project' = [project EXCEPT !.doc = "declared", !.specs = specs]
            \/ project' = [project EXCEPT !.doc = "absent", !.specs = specs]
      <4>1. CASE \E specs \in Written :
                   project' = [project EXCEPT !.doc = "declared", !.specs = specs]
        BY <3>1, <4>1
      <4>2. CASE project' = [project EXCEPT !.doc = "absent", !.specs = <<>>]
        BY <3>1, <4>2
      <4> QED BY <2>2, <4>1, <4>2 DEF PersonDeclares
    <3>3. IsProject(project')
      <4>1. PICK specs \in Seq(Declaration) :
              \/ project' = [project EXCEPT !.doc = "declared", !.specs = specs]
              \/ project' = [project EXCEPT !.doc = "absent", !.specs = specs]
        BY <3>2
      <4>2. /\ IsProject([project EXCEPT !.doc = "declared", !.specs = specs])
            /\ IsProject([project EXCEPT !.doc = "absent", !.specs = specs])
        BY Redeclared DEF IInv
      <4> QED BY <4>1, <4>2
    <3>4. project'.doc # "detected" BY <3>2 DEF IInv, IsProject
    <3> QED BY <3>3, <3>4 DEF Recorded
  <2>3. CASE Begin BY <2>3 DEF Begin, IInv, Recorded
  <2> QED BY <2>1, <2>2, <2>3
<1>3. SetOK(project', <<>>) /\ IsSeq(<<>>) BY DEF SetOK, IsSeq
<1>4. Progress' BY <1>1, <1>3 DEF Progress, InRun
<1>5. Chosen' /\ Midway' /\ Sound' BY <1>1 DEF Chosen, Midway, Sound
<1> QED BY <1>1, <1>2, <1>3, <1>4, <1>5 DEF IInv, Places

\* The set is chosen once.
LEMMA ChooseStep == ASSUME IInv, TreeOK', ChooseGates PROVE IInv'
<1>1. /\ SetOK(project, set') /\ project' = project /\ results' = results /\ results = <<>>
      /\ set' = GateSet(project) /\ cancelled' = cancelled
  BY ChosenSet DEF ChooseGates, IInv, Chosen
<1>2. Len(set') \in Nat /\ (set' # <<>> => Len(set') > 0) BY <1>1 DEF SetOK, IsSeq
<1>3. (at' = "refused" /\ set' = <<>>) \/ (at' = "between" /\ set' # <<>>)
  BY DEF ChooseGates, Refused
<1>4. Progress' BY <1>1, <1>2, <1>3 DEF Progress, InRun, IsSeq
<1>5. Sound' /\ Chosen' /\ Midway' BY <1>1, <1>3 DEF Sound, Chosen, Midway
<1>6. Recorded' /\ IsProject(project)' BY <1>1 DEF Recorded, IInv
<1> QED BY <1>1, <1>3, <1>4, <1>5, <1>6 DEF IInv, Places

\* What the lowest figure is above, every figure is above.
LEMMA LowestFigure ==
  ASSUME NEW lines \in SUBSET CoverageLines, NEW n \in Nat,
         ParseCoverage(lines) # Unmeasured, ParseCoverage(lines) >= n
  PROVE  Figures(lines) # {} /\ \A c \in Figures(lines) : c >= n
<1>1. Figures(lines) \subseteq 0..2 BY DEF Figures, CoverageLines
<1>2. PICK S, low : S = Figures(lines) /\ low = Min(S) OBVIOUS
<1>3. S \subseteq 0..2 /\ S # {} /\ low >= n BY <1>1, <1>2 DEF ParseCoverage
<1>4. \E x \in S : \A y \in S : x <= y
  <2>1. CASE 0 \in S BY <1>3, <2>1
  <2>2. CASE 0 \notin S /\ 1 \in S BY <1>3, <2>2
  <2>3. CASE 0 \notin S /\ 1 \notin S
    <3>1. 0..2 = {0, 1, 2} OBVIOUS
    <3>2. S = {2} BY ONLY <1>3, <2>3, <3>1
    <3> QED BY <3>2
  <2> QED BY <2>1, <2>2, <2>3
<1>5. low \in S /\ \A y \in S : low <= y BY <1>2, <1>4 DEF Min
<1>6. \A y \in S : y >= n
  <2> SUFFICES ASSUME NEW y \in S PROVE y >= n OBVIOUS
  <2>1. y \in Nat /\ low \in Nat BY <1>3, <1>5
  <2> QED BY <2>1, <1>3, <1>5
<1> QED BY <1>2, <1>3, <1>6

LEMMA NextIInv == IInv /\ [DetectionNext]_vars => IInv'
<1> SUFFICES ASSUME IInv, [DetectionNext]_vars PROVE IInv' OBVIOUS
<1>0. TreeOK' /\ (Unleaked => Unleaked') /\ cancelled' \in BOOLEAN BY TreeStep
<1>1. CASE ChooseGates BY <1>0, <1>1, ChooseStep
<1>2. CASE NotRun BY <1>0, <1>2, ReportGrows DEF NotRun, InRun, tree
<1>3. CASE RunScan
  <2>1. InRun /\ measured' = measured /\ Turn.kind = "secrets"
    BY <1>3 DEF RunScan, Running, InRun, tree
  <2>2. CASE Missing BY <1>0, <2>1, <2>2, MissingKeeps
  <2>3. CASE \E listed \in BOOLEAN : Verdict(listed /\ \A f \in Scanned : ~f.leaks)
    <3>1. PICK listed \in BOOLEAN : Verdict(listed /\ \A f \in Scanned : ~f.leaks) BY <2>3
    <3> DEFINE ok == listed /\ \A f \in Scanned : ~f.leaks
    <3>2. ok \in BOOLEAN /\ Verdict(ok) /\ (ok => Unleaked) BY <3>1 DEF Unleaked, Scanned
    <3> HIDE DEF ok
    <3> QED BY <1>0, <2>1, <3>2, VerdictKeeps DEF Tests
  <2> QED BY <1>3, <2>2, <2>3 DEF RunScan
<1>4. ASSUME NEW kind, kind \notin Tests \cup {"secrets"}, RunTool(kind) PROVE IInv'
  <2>1. InRun /\ measured' = measured /\ Turn.kind = kind
    BY <1>4 DEF RunTool, Running, InRun
  <2>2. Missing \/ \E ok \in BOOLEAN : Verdict(ok) BY <1>4 DEF RunTool
  <2> QED BY <1>0, <1>4, <2>1, <2>2, MissingKeeps, VerdictKeeps
<1>5. CASE StartBuild
  <2>1. InRun /\ measured' = measured BY <1>5 DEF StartBuild, Running, InRun, tree
  <2>2. CASE Missing BY <1>0, <2>1, <2>2, MissingKeeps
  <2>3. CASE at' = "building" /\ UNCHANGED <<project, set, results, cancelled>>
           /\ UNCHANGED <<files, lock, summary, measured>>
    <3>1. Midway' BY <1>5, <2>3 DEF StartBuild, Running, Midway, Turn
    <3> QED BY <1>0, <2>1, <2>3, <3>1, ReportUntouched DEF InRun
  <2> QED BY <1>5, <2>2, <2>3 DEF StartBuild
<1>6. CASE EndBuild
  <2>1. InRun /\ measured' = measured /\ \E ok \in BOOLEAN : Verdict(ok)
    BY <1>6 DEF EndBuild, InRun
  <2>2. Turn.kind = "build" BY <1>6 DEF EndBuild, IInv, Midway
  <2> QED BY <1>0, <2>1, <2>2, VerdictKeeps DEF Tests
<1>7. CASE RunGoTest
  <2>1. InRun /\ Turn.kind = "gotest" BY <1>7 DEF RunGoTest, Running, InRun
  <2>2. CASE Missing /\ measured' = measured BY <1>0, <2>1, <2>2, MissingKeeps
  <2>3. CASE Verdict(FALSE) BY <1>0, <2>1, <2>3, VerdictKeeps DEF Tests
  <2>4. ASSUME NEW lines \in SUBSET CoverageLines, measured' = Figures(lines),
               project.floor = 0 \/ (ParseCoverage(lines) # Unmeasured
                                     /\ ParseCoverage(lines) >= project.floor),
               Finish("passed", TRUE)
        PROVE  IInv'
    <3>1. project.floor \in Nat BY DEF IInv, IsProject, Floors
    <3>2. project' = project BY <2>4 DEF Finish
    <3>3. FloorMet("gotest")' BY <2>4, <3>1, <3>2, LowestFigure DEF FloorMet
    <3> QED BY <1>0, <2>1, <2>4, <3>3, FinishKeeps DEF Tests
  <2> QED BY <1>7, <2>2, <2>3, <2>4, Zenon DEF RunGoTest
<1>8. CASE StartInstall
  <2>1. InRun /\ measured' = measured /\ Turn.kind = "install"
    BY <1>8 DEF StartInstall, Running, InRun, tree
  <2>2. CASE at' = "installing" /\ UNCHANGED <<project, set, results, cancelled>>
    <3>1. Midway' BY <2>1, <2>2 DEF Midway, Turn
    <3> QED BY <1>0, <2>1, <2>2, <3>1, ReportUntouched DEF InRun
  <2>3. CASE Missing \/ Verdict(TRUE) \/ Verdict(FALSE)
    BY <1>0, <2>1, <2>3, MissingKeeps, VerdictKeeps DEF Tests
  <2> QED BY <1>8, <2>2, <2>3 DEF StartInstall
<1>9. CASE EndInstall
  <2>1. InRun /\ measured' = measured /\ \E ok \in BOOLEAN : Verdict(ok)
    BY <1>9 DEF EndInstall, InRun
  <2>2. Turn.kind = "install" BY <1>9 DEF EndInstall, IInv, Midway
  <2> QED BY <1>0, <2>1, <2>2, VerdictKeeps DEF Tests
<1>10. CASE RunScript
  <2>1. InRun /\ Turn.kind = "script" /\ measured' = measured
    BY <1>10 DEF RunScript, Running, InRun
  <2>2. CASE Missing BY <1>0, <2>1, <2>2, MissingKeeps
  <2>3. CASE Verdict(FALSE) \/ \E ok \in BOOLEAN : Verdict(ok)
    BY <1>0, <2>1, <2>3, VerdictKeeps DEF Tests
  <2>4. CASE Finish("skipped", FALSE)
    <3>1. Len(results) + 1 \in DOMAIN set BY <2>1, LengthIsNat DEF IInv, SetOK, Progress
    <3>2. ~Turn.required BY <2>1, <3>1 DEF IInv, SetOK, Turn
    <3> QED BY <1>0, <2>1, <2>4, <3>2, FinishKeeps DEF Tests
  <2> QED BY <1>10, <2>2, <2>3, <2>4 DEF RunScript
<1>11. CASE RunNodeTest
  <2>1. InRun /\ Turn.kind = "nodetest" BY <1>11 DEF RunNodeTest, Running, InRun
  <2>2. CASE Missing /\ measured' = measured BY <1>0, <2>1, <2>2, MissingKeeps
  <2>3. CASE Verdict(FALSE) BY <1>0, <2>1, <2>3, VerdictKeeps DEF Tests
  <2>4. ASSUME measured' \in {{}, {0}, {1}, {2}},
               \/ measured' = {} /\ summary' = summary
               \/ summary' \in measured',
               project.floor = 0 \/ Read(summary') = Unmeasured \/ Read(summary') >= project.floor,
               Finish("passed", TRUE)
        PROVE  IInv'
    <3>1. project.floor \in Floors BY DEF IInv, IsProject
    <3>2. project' = project BY <2>4 DEF Finish
    <3>3. \A c \in measured' : c = summary' /\ c \in 0..2 BY <2>4
    <3>4. \A c \in measured' : project.floor > 0 => c >= project.floor \/ c = 0
      BY <2>4, <3>1, <3>3 DEF Read, Unmeasured, Floors
    <3>5. FloorMet("nodetest")' BY <3>2, <3>4 DEF FloorMet
    <3> QED BY <1>0, <2>1, <2>4, <3>5, FinishKeeps DEF Tests
  <2> QED BY <1>11, <2>2, <2>3, <2>4, Zenon DEF RunNodeTest
<1>12. CASE Cancel \/ PersonAdds
  BY <1>0, <1>12, ReportUntouched DEF Cancel, PersonAdds, tree
<1>13. CASE Detect \/ PersonDeclares \/ Begin BY <1>0, <1>13, DeclarationStep
<1>14. CASE UNCHANGED vars BY <1>0, <1>14, ReportUntouched DEF vars
<1>15. CASE RunFormat \/ RunVet \/ RunLint \/ RunSecurity \/ RunCommand
  BY <1>4, <1>15 DEF RunFormat, RunVet, RunLint, RunSecurity, RunCommand, Tests
<1> QED BY <1>1, <1>2, <1>3, <1>5, <1>6, <1>7, <1>8, <1>9, <1>10, <1>11, <1>12, <1>13, <1>14, <1>15
   DEF DetectionNext, Next

\* IInv is an invariant for every project and every choice of the other constants, whether
\* or not the declaration changes before the task is started.
THEOREM Invariance == Spec \/ DetectionSpec => []IInv
<1>1. IInv /\ [Next]_vars => IInv' BY NextIInv DEF DetectionNext
<1> QED BY <1>1, InitIInv, NextIInv, PTL DEF Spec, DetectionSpec

\* A report that passes comes of a run in which every required gate was carried out and
\* found nothing (Runner.Run, missing, and the Run of every gate).
THEOREM PassedMeansChecked == Spec \/ DetectionSpec => []PassMeansRan
<1>1. IInv => PassMeansRan
  <2> SUFFICES ASSUME IInv, Passed, NEW k \in DOMAIN set, set[k].required
               PROVE k \in DOMAIN results /\ results[k].ran
    BY DEF PassMeansRan
  <2>1. Len(results) = Len(set) BY DEF IInv, Progress, Passed
  <2>2. k \in DOMAIN results BY <2>1, LengthIsNat DEF IInv, SetOK, Progress
  <2> QED BY <2>2 DEF IInv, Sound, Vouches, Passed
<1> QED BY <1>1, Invariance, PTL

\* Every file, gate, result and figure is of its type, and the results go by the gates' names.
THEOREM Typed == Spec \/ DetectionSpec => []TypeOK
<1>1. IInv => TypeOK
  <2> SUFFICES ASSUME IInv PROVE TypeOK OBVIOUS
  <2>1. Len(results) <= Len(set) /\ \A k \in DOMAIN results : results[k].gate = set[k].name
    BY DEF IInv, Progress, Sound
  <2> QED BY <2>1 DEF IInv, TreeOK, Places, TypeOK
<1> QED BY <1>1, Invariance, PTL

\* A set that was chosen is the one declared, if one is, and has a scan in it.
LEMMA RunHasSet ==
  ASSUME IInv, at \notin {"idle", "choosing", "refused"}
  PROVE  /\ set = GateSet(project) /\ set # <<>>
         /\ \E k \in DOMAIN set : set[k].kind = "secrets"
BY DEF IInv, Chosen, SetOK

\* A credential in the session's work stops the commit: no set does without the scan, and
\* no gate after it puts the credential there (FromSpecs, gateSet).
THEOREM CredentialsStop == Spec \/ DetectionSpec => []SecretsStop
<1>1. IInv => SecretsStop
  <2> SUFFICES ASSUME IInv, Passed PROVE Unleaked BY DEF SecretsStop, Unleaked
  <2>1. PICK k \in DOMAIN set : set[k].kind = "secrets" BY RunHasSet DEF Passed
  <2>2. Len(results) = Len(set) BY DEF IInv, Progress, Passed
  <2>3. k \in DOMAIN results BY <2>2, LengthIsNat DEF IInv, SetOK, Progress
  <2> QED BY <2>1, <2>3 DEF IInv, Sound, Vouches, Passed
<1> QED BY <1>1, Invariance, PTL

\* The tests are run once, so that what they measured last is what the floor was held
\* against (GoTest.Run, NodeTest.Run).
THEOREM FloorIsHeld == Spec \/ DetectionSpec => []FloorHolds
<1>1. IInv => FloorHolds
  <2> SUFFICES ASSUME IInv, Passed, project.floor > 0,
                      NEW k \in DOMAIN set, set[k].kind \in {"gotest", "nodetest"}
               PROVE  /\ \A c \in measured : c >= project.floor \/ (project.type = "node" /\ c = 0)
                      /\ project.type = "go" => measured # {}
    BY DEF FloorHolds
  <2>1. Len(results) = Len(set) BY DEF IInv, Progress, Passed
  <2>2. k \in DOMAIN results BY <2>1, LengthIsNat DEF IInv, SetOK, Progress
  <2>3. FloorMet(set[k].kind) BY <2>2 DEF IInv, Sound, Vouches, Passed, Tests
  <2>4. set[k].kind = "nodetest" => project.type = "node" BY DEF IInv, SetOK
  <2> QED BY <2>3, <2>4 DEF FloorMet
<1> QED BY <1>1, Invariance, PTL

\* A declaration with a gate in it that cannot be used is refused rather than replaced, and
\* no two gates of a set go by one name (gateSet, FromSpecs).
THEOREM UnusableIsRefused == Spec \/ DetectionSpec => []UnusableReported
<1>1. \A j, k \in DOMAIN GoGates : GoGates[j].name = GoGates[k].name => j = k
  BY DEF GoGates, SecretScan, Gate
<1>2. \A pm : \A j, k \in DOMAIN NodeGates(pm) :
        NodeGates(pm)[j].name = NodeGates(pm)[k].name => j = k
  BY DEF NodeGates, SecretScan, Gate
<1>3. IInv => UnusableReported
  <2> SUFFICES ASSUME IInv, ~project.inspection, at \notin {"idle", "choosing", "refused"}
               PROVE  /\ \A j, k \in DOMAIN set : set[j].name = set[k].name => j = k
                      /\ Declares(project) => \A k \in DOMAIN project.specs : Validate(project.specs[k])
    BY DEF UnusableReported
  <2>1. /\ set # Refused
        /\ set = IF Declares(project) THEN FromSpecs(project.specs) ELSE BuiltIn(project)
    BY RunHasSet DEF GateSet, Refused
  <2>2. IsSeq(project.specs) BY SeqIsSeq DEF IInv, IsProject
  <2>3. CASE Declares(project) BY <2>1, <2>2, <2>3, DeclaredSet
  <2>4. CASE ~Declares(project)
    <3>1. set = GoGates \/ set = NodeGates(project.pm)
      BY <2>1, <2>4 DEF BuiltIn, IInv, IsProject
    <3> QED BY <1>1, <1>2, <2>4, <3>1
  <2> QED BY <2>3, <2>4
<1> QED BY <1>3, Invariance, PTL

\* What `detect` recorded is what the next task is checked by: no gate that can run is
\* lost or made optional on the way (ParseToolchain, App.DetectToolchain, gateSet).
THEOREM DetectionIsUsed == Spec \/ DetectionSpec => []DetectedIsUsed
<1>1. IInv => DetectedIsUsed
  <2> SUFFICES ASSUME IInv, project.doc = "detected", ~project.inspection,
                      at \notin {"idle", "choosing"}
               PROVE  /\ at # "refused"
                      /\ \A g \in Range(project.reported) : CanRun(g) =>
                           \E k \in DOMAIN set : /\ set[k].name = g.name
                                                 /\ set[k].required = g.required
                                                 /\ set[k].kind = "command"
    BY DEF DetectedIsUsed
  <2> DEFINE specs == project.specs
             d == DeclaredGates(specs)
  <2>1. /\ specs = Runnable(project.reported) /\ specs # <<>> /\ FromSpecs(specs) # Refused
        /\ IsSeq(specs) /\ project.reported \in Seq(Declaration)
    BY SeqIsSeq DEF IInv, Recorded, Acceptable, IsProject
  <2>2. set = FromSpecs(specs) /\ set # Refused
    BY <2>1 DEF IInv, Chosen, GateSet, Declares
  <2>3. at # "refused" BY <2>2 DEF IInv, Chosen, Refused
  <2>4. set = <<SecretScan>> \o d BY <2>1, <2>2, DeclaredSet
  <2>5. ASSUME NEW g \in Range(project.reported), CanRun(g)
        PROVE  \E k \in DOMAIN set : /\ set[k].name = g.name /\ set[k].required = g.required
                                     /\ set[k].kind = "command"
    <3>1. PICK h \in DOMAIN project.reported : project.reported[h] = g BY DEF Range
    <3>2. PICK n \in DOMAIN specs : specs[n] = g
      BY <2>1, <2>5, <3>1, RunnableKeeps
    <3>3. /\ IsSeq(d) /\ n \in DOMAIN d /\ d[n].kind = "command"
          /\ d[n].name = g.name /\ d[n].required = g.required
      BY <2>1, <3>2, DeclaredAreCommands
    <3> HIDE DEF d
    <3>4. n + 1 \in DOMAIN set /\ set[n + 1] = d[n] BY <2>4, <3>3, Prepended
    <3> QED BY <3>3, <3>4
  <2> QED BY <2>3, <2>5
<1> QED BY <1>1, Invariance, PTL
-----------------------------------------------------------------------------
Depths == Nat \ {0}
Modes  == {"outside", "literal", "escape"}

\* What one character does to the scan, at depth d in mode m.
Moves(d, m, c, e, n) ==
  IF m = "outside"
  THEN /\ e = d + (CASE c = "open" -> 1 [] c = "close" -> -1 [] OTHER -> 0)
       /\ n = IF c = "quote" THEN "literal" ELSE "outside"
  ELSE /\ e = d
       /\ n = IF m = "escape" THEN "literal"
              ELSE CASE c = "quote" -> "outside" [] c = "slash" -> "escape" [] OTHER -> "literal"

\* The scan of s goes from depth d and mode m to depth e and mode n without leaving the object.
IsPath(s, D, M, d, m, e, n) ==
  /\ D \in [0..Len(s) -> Depths] /\ M \in [0..Len(s) -> Modes]
  /\ D[0] = d /\ M[0] = m /\ D[Len(s)] = e /\ M[Len(s)] = n
  /\ \A k \in 1..Len(s) : Moves(D[k - 1], M[k - 1], s[k], D[k], M[k])
Passes(s, d, m, e, n) == \E D, M : IsPath(s, D, M, d, m, e, n)

\* Nothing is passed over without a move.
LEMMA PassesNothing ==
  ASSUME NEW d \in Depths, NEW m \in Modes
  PROVE  Passes(<<>>, d, m, d, m)
<1>1. IsPath(<<>>, [k \in 0..0 |-> d], [k \in 0..0 |-> m], d, m, d, m)
  BY DEF IsPath
<1> QED BY <1>1 DEF Passes

\* One character is passed over in one move.
LEMMA PassesOne ==
  ASSUME NEW c \in Chars, NEW d \in Depths, NEW m \in Modes, NEW e \in Depths, NEW n \in Modes,
         Moves(d, m, c, e, n)
  PROVE  Passes(<<c>>, d, m, e, n)
<1> DEFINE D == [k \in 0..1 |-> IF k = 0 THEN d ELSE e]
           M == [k \in 0..1 |-> IF k = 0 THEN m ELSE n]
<1>1. D[0] = d /\ D[1] = e /\ M[0] = m /\ M[1] = n
  OBVIOUS
<1>2. D \in [0..1 -> Depths] /\ M \in [0..1 -> Modes]
  OBVIOUS
<1> HIDE DEF D, M
<1>3. Len(<<c>>) = 1 /\ <<c>>[1] = c
  OBVIOUS
<1>4. \A k \in 1..1 : k = 1 /\ k - 1 = 0
  OBVIOUS
<1>5. IsPath(<<c>>, D, M, d, m, e, n)
  BY <1>1, <1>2, <1>3, <1>4 DEF IsPath
<1> QED BY <1>5 DEF Passes

\* A scan of one text after another.
LEMMA PassesBoth ==
  ASSUME NEW s \in Seq(Chars), NEW t \in Seq(Chars), NEW d, NEW m, NEW e, NEW n, NEW f, NEW o,
         Passes(s, d, m, e, n), Passes(t, e, n, f, o)
  PROVE  Passes(s \o t, d, m, f, o)
<1>1. PICK D1, M1 : IsPath(s, D1, M1, d, m, e, n)
  BY DEF Passes
<1>2. PICK D2, M2 : IsPath(t, D2, M2, e, n, f, o)
  BY DEF Passes
<1> DEFINE a == Len(s)
           b == Len(t)
           D == [k \in 0..(a + b) |-> IF k <= a THEN D1[k] ELSE D2[k - a]]
           M == [k \in 0..(a + b) |-> IF k <= a THEN M1[k] ELSE M2[k - a]]
<1>3. a \in Nat /\ b \in Nat /\ Len(s \o t) = a + b
  BY ConcatProperties
<1>4. \A k \in 1..(a + b) : (s \o t)[k] = IF k <= a THEN s[k] ELSE t[k - a]
  BY ConcatProperties
<1> HIDE DEF a, b
<1>5. \A k \in 0..a : D1[k] \in Depths /\ M1[k] \in Modes
  BY <1>1 DEF IsPath, a
<1>6. \A k \in 0..b : D2[k] \in Depths /\ M2[k] \in Modes
  BY <1>2 DEF IsPath, b
<1>7. D \in [0..(a + b) -> Depths] /\ M \in [0..(a + b) -> Modes]
  <2>1. \A k \in 0..(a + b) : k <= a => k \in 0..a
    BY <1>3
  <2>2. \A k \in 0..(a + b) : ~(k <= a) => k - a \in 0..b
    BY <1>3
  <2> QED BY <1>5, <1>6, <2>1, <2>2
<1>8. \A k \in 0..a : D[k] = D1[k] /\ M[k] = M1[k]
  BY <1>3
<1>9. \A k \in 0..b : D[a + k] = D2[k] /\ M[a + k] = M2[k]
  <2>1. D1[a] = D2[0] /\ M1[a] = M2[0]
    BY <1>1, <1>2 DEF IsPath, a
  <2>2. \A k \in 0..b : k = 0 => D[a + k] = D2[k] /\ M[a + k] = M2[k]
    BY <1>3, <2>1
  <2>3. \A k \in 0..b : k # 0 => D[a + k] = D2[k] /\ M[a + k] = M2[k]
    BY <1>3
  <2> QED BY <2>2, <2>3
<1> HIDE DEF D, M
<1>10. ASSUME NEW k \in 1..(a + b) PROVE Moves(D[k - 1], M[k - 1], (s \o t)[k], D[k], M[k])
  <2>1. CASE k <= a
    <3>1. k \in 1..a /\ k \in 0..a /\ k - 1 \in 0..a
      BY <1>3, <2>1
    <3>2. Moves(D1[k - 1], M1[k - 1], s[k], D1[k], M1[k])
      BY <1>1, <3>1 DEF IsPath, a
    <3> QED BY <1>4, <1>8, <2>1, <3>1, <3>2
  <2>2. CASE ~(k <= a)
    <3> DEFINE j == k - a
    <3>1. j \in 1..b /\ j \in 0..b /\ j - 1 \in 0..b /\ a + j = k /\ a + (j - 1) = k - 1
      BY <1>3, <2>2
    <3>2. Moves(D2[j - 1], M2[j - 1], t[j], D2[j], M2[j])
      BY <1>2, <3>1 DEF IsPath, b
    <3>3. (s \o t)[k] = t[j]
      BY <1>4, <2>2
    <3> HIDE DEF j
    <3>4. D[k] = D2[j] /\ M[k] = M2[j]
      BY <1>9, <3>1
    <3>5. D[k - 1] = D2[j - 1] /\ M[k - 1] = M2[j - 1]
      BY <1>9, <3>1
    <3> QED BY <3>2, <3>3, <3>4, <3>5
  <2> QED BY <2>1, <2>2
<1>11. D[0] = d /\ M[0] = m
  BY <1>1, <1>3, <1>8 DEF IsPath
<1>12. D[a + b] = f /\ M[a + b] = o
  BY <1>2, <1>3, <1>9 DEF IsPath, b
<1>13. IsPath(s \o t, D, M, d, m, f, o)
  BY <1>3, <1>7, <1>10, <1>11, <1>12 DEF IsPath
<1> QED BY <1>13 DEF Passes
-----------------------------------------------------------------------------
\* From wherever it is entered in that mode, the scan comes out of s as it went in.
Fits(s, m) == s \in Seq(Chars) /\ \A d \in Depths : Passes(s, d, m, d, m)

\* Nothing fits anywhere.
LEMMA NothingFits == ASSUME NEW m \in Modes PROVE Fits(<<>>, m)
  BY PassesNothing, EmptySeq DEF Fits

\* What fits and what fits make something that fits.
LEMMA BothFit ==
  ASSUME NEW m, NEW s, NEW t, Fits(s, m), Fits(t, m)
  PROVE  Fits(s \o t, m)
<1>1. s \in Seq(Chars) /\ t \in Seq(Chars) /\ s \o t \in Seq(Chars)
  BY ConcatProperties DEF Fits
<1> QED BY <1>1, PassesBoth DEF Fits

\* A character by itself is a text.
LEMMA OneIsSeq == \A c \in Chars : <<c>> \in Seq(Chars)
  OBVIOUS

\* A character that the scan passes over.
LEMMA OneFits ==
  /\ Fits(<<"x">>, "outside")
  /\ \A c \in {"x"} \cup Brace : Fits(<<c>>, "literal")
<1>1. \A d \in Depths : Moves(d, "outside", "x", d, "outside")
  BY DEF Moves, Depths
<1>2. \A d \in Depths, c \in {"x"} \cup Brace : Moves(d, "literal", c, d, "literal")
  BY DEF Moves, Depths, Brace
<1> QED BY <1>1, <1>2, PassesOne, OneIsSeq DEF Fits, Modes, Chars, Brace

\* A slash in a string literal, and what it hides.
LEMMA EscapeFits == ASSUME NEW c \in Chars PROVE Fits(<<"slash", c>>, "literal")
<1>1. <<"slash", c>> = <<"slash">> \o <<c>>
  OBVIOUS
<1>2. <<"slash">> \in Seq(Chars) /\ <<c>> \in Seq(Chars)
  BY OneIsSeq DEF Chars
<1>3. ASSUME NEW d \in Depths PROVE Passes(<<"slash", c>>, d, "literal", d, "literal")
  <2>1. Moves(d, "literal", "slash", d, "escape") /\ Moves(d, "escape", c, d, "literal")
    BY DEF Moves
  <2>2. Passes(<<"slash">>, d, "literal", d, "escape") /\ Passes(<<c>>, d, "escape", d, "literal")
    BY <2>1, PassesOne DEF Modes, Chars
  <2> QED BY <1>1, <1>2, <2>2, PassesBoth
<1>4. <<"slash", c>> \in Seq(Chars)
  BY <1>1, <1>2, ConcatProperties
<1> QED BY <1>3, <1>4 DEF Fits

\* A string literal in quotes, and an object in braces.
LEMMA EnclosedFits ==
  /\ \A s : Fits(s, "literal") => Fits(<<"quote">> \o s \o <<"quote">>, "outside")
  /\ \A s : Fits(s, "outside") => Fits(<<"open">> \o s \o <<"close">>, "outside")
<1>1. <<"quote">> \in Seq(Chars) /\ <<"open">> \in Seq(Chars) /\ <<"close">> \in Seq(Chars)
  BY OneIsSeq DEF Chars
<1>2. ASSUME NEW s, Fits(s, "literal") PROVE Fits(<<"quote">> \o s \o <<"quote">>, "outside")
  <2>1. /\ s \in Seq(Chars) /\ <<"quote">> \o s \in Seq(Chars)
        /\ <<"quote">> \o s \o <<"quote">> \in Seq(Chars)
    BY <1>1, <1>2, ConcatProperties DEF Fits
  <2>2. ASSUME NEW d \in Depths
             PROVE  Passes(<<"quote">> \o s \o <<"quote">>, d, "outside", d, "outside")
    <3>1. Moves(d, "outside", "quote", d, "literal") /\ Moves(d, "literal", "quote", d, "outside")
      BY DEF Moves, Depths
    <3>2. /\ Passes(<<"quote">>, d, "outside", d, "literal")
          /\ Passes(<<"quote">>, d, "literal", d, "outside")
      BY <3>1, PassesOne DEF Modes, Chars
    <3>3. Passes(s, d, "literal", d, "literal")
      BY <1>2 DEF Fits
    <3>4. Passes(<<"quote">> \o s, d, "outside", d, "literal")
      BY <1>1, <2>1, <3>2, <3>3, PassesBoth
    <3> QED BY <1>1, <2>1, <3>2, <3>4, PassesBoth
  <2> QED BY <2>1, <2>2 DEF Fits
<1>3. ASSUME NEW s, Fits(s, "outside") PROVE Fits(<<"open">> \o s \o <<"close">>, "outside")
  <2>1. /\ s \in Seq(Chars) /\ <<"open">> \o s \in Seq(Chars)
        /\ <<"open">> \o s \o <<"close">> \in Seq(Chars)
    BY <1>1, <1>3, ConcatProperties DEF Fits
  <2>2. ASSUME NEW d \in Depths
             PROVE  Passes(<<"open">> \o s \o <<"close">>, d, "outside", d, "outside")
    <3>1. d + 1 \in Depths
      BY DEF Depths
    <3>2. /\ Moves(d, "outside", "open", d + 1, "outside")
          /\ Moves(d + 1, "outside", "close", d, "outside")
      BY DEF Moves, Depths
    <3>3. /\ Passes(<<"open">>, d, "outside", d + 1, "outside")
          /\ Passes(<<"close">>, d + 1, "outside", d, "outside")
      BY <3>1, <3>2, PassesOne DEF Modes, Chars
    <3>4. Passes(s, d + 1, "outside", d + 1, "outside")
      BY <1>3, <3>1 DEF Fits
    <3>5. Passes(<<"open">> \o s, d, "outside", d + 1, "outside")
      BY <1>1, <2>1, <3>3, <3>4, PassesBoth
    <3> QED BY <1>1, <2>1, <3>3, <3>5, PassesBoth
  <2> QED BY <2>1, <2>2 DEF Fits
<1> QED BY <1>2, <1>3
-----------------------------------------------------------------------------
\* What holds of a number if it holds of all below it holds of all.
LEMMA FromBelow ==
  ASSUME NEW N \in Nat, NEW S,
         \A n \in 0..N : (\A k \in 0..(n - 1) : k \in S) => n \in S
  PROVE  0..N \subseteq S
<1> DEFINE T == (0..N) \ S
<1> SUFFICES ASSUME T # {} PROVE FALSE
  OBVIOUS
<1>1. T \subseteq Nat
  OBVIOUS
<1>2. PICK x \in T : \A y \in T : ~(<<y, x>> \in OpToRel(<, Nat))
  <2> HIDE DEF T
  <2> QED BY <1>1, NatLessThanWellFounded, WFMin
<1>3. \A y \in T : ~(y < x)
  BY <1>1, <1>2 DEF OpToRel
<1>4. \A k \in 0..(x - 1) : k \in S
  BY <1>3
<1> QED BY <1>4

\* The texts of a length in terms of shorter ones, as Inside and Items have it.
InsideFrom(n, A, B) ==
  IF n = 0 THEN {<<>>}
  ELSE Joined(Plain, A) \cup IF n = 1 THEN {} ELSE Joined(Escapes, B)
ItemsFrom(n, A, P) ==
  IF n = 0 THEN {<<>>} ELSE Joined({<<"x">>}, A) \cup UNION P

InsideOf(f, n) == InsideFrom(n, f[n - 1], f[n - 2])
ItemsOf(f, n)  ==
  ItemsFrom(n, f[n - 1], {Joined(Nested(Inside[k - 2], f[k - 2]), f[n - k]) : k \in 2..n})

\* They can be worked out up to any length.
LEMMA InsideExists == \A N \in Nat : \E f : f = [n \in 0..N |-> InsideOf(f, n)]
<1> DEFINE S == {n \in Nat : \E f : f = [m \in 0..n |-> InsideOf(f, m)]}
<1>1. \A a, b, c, d : InsideFrom(0, a, b) = InsideFrom(0, c, d)
  BY DEF InsideFrom
<1>2. \A a, b, d : InsideFrom(1, a, b) = InsideFrom(1, a, d)
  BY DEF InsideFrom
<1>3. 0 \in S
  <2> DEFINE f == [m \in 0..0 |-> InsideFrom(0, {}, {})]
  <2>1. \A m \in 0..0 : f[m] = InsideOf(f, m)
    <3>1. \A m \in 0..0 : m = 0 /\ f[m] = InsideFrom(0, {}, {})
      OBVIOUS
    <3> HIDE DEF f
    <3> QED BY <3>1, <1>1 DEF InsideOf
  <2>2. f = [m \in 0..0 |-> f[m]]
    OBVIOUS
  <2> HIDE DEF f
  <2>3. f = [m \in 0..0 |-> InsideOf(f, m)]
    BY <2>1, <2>2
  <2> QED BY <2>3
<1>4. ASSUME NEW n \in Nat, n \in S PROVE n + 1 \in S
  <2>1. PICK f : f = [m \in 0..n |-> InsideOf(f, m)]
    BY <1>4
  <2> DEFINE g == [m \in 0..(n + 1) |-> IF m <= n THEN f[m] ELSE InsideOf(f, n + 1)]
  <2>2. \A m \in 0..n : g[m] = f[m]
    OBVIOUS
  <2>3. g[n + 1] = InsideOf(f, n + 1)
    OBVIOUS
  <2>4. g = [m \in 0..(n + 1) |-> g[m]]
    OBVIOUS
  <2>5. \A m \in 0..n : f[m] = InsideOf(f, m)
    BY <2>1
  <2> HIDE DEF g
  <2>6. ASSUME NEW m \in 0..(n + 1) PROVE InsideOf(g, m) = InsideOf(f, m)
    <3>1. CASE m = 0
      BY <3>1, <1>1 DEF InsideOf
    <3>2. CASE m = 1
      <4>1. g[1 - 1] = f[1 - 1]
        BY <2>2
      <4> QED BY <3>2, <4>1, <1>2 DEF InsideOf
    <3>3. CASE m # 0 /\ m # 1
      <4>1. m - 1 \in 0..n /\ m - 2 \in 0..n
        BY <3>3
      <4> QED BY <4>1, <2>2 DEF InsideOf
    <3> QED BY <3>1, <3>2, <3>3
  <2>7. \A m \in 0..(n + 1) : g[m] = InsideOf(g, m)
    <3>1. \A m \in 0..(n + 1) : m \in 0..n \/ m = n + 1
      OBVIOUS
    <3> QED BY <3>1, <2>2, <2>3, <2>5, <2>6
  <2>8. g = [m \in 0..(n + 1) |-> InsideOf(g, m)]
    BY <2>4, <2>7
  <2> QED BY <2>8
<1>5. \A n \in Nat : n \in S
  <2> HIDE DEF S
  <2> SUFFICES ASSUME NEW n \in Nat PROVE n \in S
    OBVIOUS
  <2>1. ASSUME NEW m \in 0..n, \A k \in 0..(m - 1) : k \in S PROVE m \in S
    <3>1. CASE m = 0
      BY <3>1, <1>3
    <3>2. CASE m # 0
      <4>1. m - 1 \in Nat /\ m - 1 \in 0..(m - 1) /\ (m - 1) + 1 = m
        BY <3>2
      <4>2. m - 1 \in S
        BY <2>1, <4>1
      <4> QED BY <4>1, <4>2, <1>4
    <3> QED BY <3>1, <3>2
  <2> QED BY <2>1, FromBelow
<1> QED BY <1>5

\* So Inside goes by its equation.
LEMMA InsideEquation == \A n \in 0..MaxObject : Inside[n] = InsideOf(Inside, n)
<1>1. \E f : f = [n \in 0..MaxObject |-> InsideOf(f, n)]
  BY InsideExists, ReviewAssumption
<1>2. Inside = [n \in 0..MaxObject |-> InsideOf(Inside, n)]
  BY <1>1, Zenon DEF Inside, InsideOf, InsideFrom
<1> QED BY <1>2

\* The same of what may stand in an object.
LEMMA ItemsExist == \A N \in Nat : \E f : f = [n \in 0..N |-> ItemsOf(f, n)]
<1> DEFINE S == {n \in Nat : \E f : f = [m \in 0..n |-> ItemsOf(f, m)]}
<1>1. \A a, b, c, d : ItemsFrom(0, a, b) = ItemsFrom(0, c, d)
  BY DEF ItemsFrom
<1>3. 0 \in S
  <2> DEFINE f == [m \in 0..0 |-> ItemsFrom(0, {}, {})]
  <2>1. \A m \in 0..0 : f[m] = ItemsOf(f, m)
    <3>1. \A m \in 0..0 : m = 0 /\ f[m] = ItemsFrom(0, {}, {})
      OBVIOUS
    <3> HIDE DEF f
    <3> QED BY <3>1, <1>1 DEF ItemsOf
  <2>2. f = [m \in 0..0 |-> f[m]]
    OBVIOUS
  <2> HIDE DEF f
  <2>3. f = [m \in 0..0 |-> ItemsOf(f, m)]
    BY <2>1, <2>2
  <2> QED BY <2>3
<1>4. ASSUME NEW n \in Nat, n \in S PROVE n + 1 \in S
  <2>1. PICK f : f = [m \in 0..n |-> ItemsOf(f, m)]
    BY <1>4
  <2> DEFINE g == [m \in 0..(n + 1) |-> IF m <= n THEN f[m] ELSE ItemsOf(f, n + 1)]
  <2>2. \A m \in 0..n : g[m] = f[m]
    OBVIOUS
  <2>3. g[n + 1] = ItemsOf(f, n + 1)
    OBVIOUS
  <2>4. g = [m \in 0..(n + 1) |-> g[m]]
    OBVIOUS
  <2>5. \A m \in 0..n : f[m] = ItemsOf(f, m)
    BY <2>1
  <2> HIDE DEF g
  <2>6. ASSUME NEW m \in 0..(n + 1) PROVE ItemsOf(g, m) = ItemsOf(f, m)
    <3>1. CASE m = 0
      BY <3>1, <1>1 DEF ItemsOf
    <3>2. CASE m # 0
      <4>1. m - 1 \in 0..n /\ \A k \in 2..m : k - 2 \in 0..n /\ m - k \in 0..n
        BY <3>2
      <4>2. g[m - 1] = f[m - 1] /\ \A k \in 2..m : g[k - 2] = f[k - 2] /\ g[m - k] = f[m - k]
        BY <4>1, <2>2
      <4>3.   {Joined(Nested(Inside[k - 2], g[k - 2]), g[m - k]) : k \in 2..m}
            = {Joined(Nested(Inside[k - 2], f[k - 2]), f[m - k]) : k \in 2..m}
        BY <4>2
      <4> QED BY <4>2, <4>3 DEF ItemsOf
    <3> QED BY <3>1, <3>2
  <2>7. \A m \in 0..(n + 1) : g[m] = ItemsOf(g, m)
    <3>1. \A m \in 0..(n + 1) : m \in 0..n \/ m = n + 1
      OBVIOUS
    <3> QED BY <3>1, <2>2, <2>3, <2>5, <2>6
  <2>8. g = [m \in 0..(n + 1) |-> ItemsOf(g, m)]
    BY <2>4, <2>7
  <2> QED BY <2>8
<1>5. \A n \in Nat : n \in S
  <2> HIDE DEF S
  <2> SUFFICES ASSUME NEW n \in Nat PROVE n \in S
    OBVIOUS
  <2>1. ASSUME NEW m \in 0..n, \A k \in 0..(m - 1) : k \in S PROVE m \in S
    <3>1. CASE m = 0
      BY <3>1, <1>3
    <3>2. CASE m # 0
      <4>1. m - 1 \in Nat /\ m - 1 \in 0..(m - 1) /\ (m - 1) + 1 = m
        BY <3>2
      <4>2. m - 1 \in S
        BY <2>1, <4>1
      <4> QED BY <4>1, <4>2, <1>4
    <3> QED BY <3>1, <3>2
  <2> QED BY <2>1, FromBelow
<1> QED BY <1>5

\* So Items goes by its equation.
LEMMA ItemsEquation == \A n \in 0..MaxObject : Items[n] = ItemsOf(Items, n)
<1>1. \E f : f = [n \in 0..MaxObject |-> ItemsOf(f, n)]
  BY ItemsExist, ReviewAssumption
<1>2. Items = [n \in 0..MaxObject |-> ItemsOf(Items, n)]
  BY <1>1, Zenon DEF Items, ItemsOf, ItemsFrom
<1> QED BY <1>2
-----------------------------------------------------------------------------
\* String literals and items, of every length, let the scan out as it came in.
LEMMA InsideFits == \A n \in 0..MaxObject : \A s \in Inside[n] : Fits(s, "literal")
<1> DEFINE S == {n \in Nat : \A s \in Inside[n] : Fits(s, "literal")}
<1>1. ASSUME NEW n \in 0..MaxObject, \A k \in 0..(n - 1) : k \in S PROVE n \in S
  <2> SUFFICES ASSUME NEW s \in Inside[n] PROVE Fits(s, "literal")
    OBVIOUS
  <2>1. s \in InsideFrom(n, Inside[n - 1], Inside[n - 2])
    BY InsideEquation DEF InsideOf
  <2>2. CASE s = <<>>
    BY <2>2, NothingFits DEF Modes
  <2>3. CASE n # 0 /\ s \in Joined(Plain, Inside[n - 1])
    <3>1. n - 1 \in 0..(n - 1)
      BY <2>3
    <3>2. PICK a \in Plain, t \in Inside[n - 1] : s = a \o t
      BY <2>3 DEF Joined
    <3>3. Fits(a, "literal")
      BY <3>2, OneFits DEF Plain
    <3>4. Fits(t, "literal")
      BY <1>1, <3>1
    <3> QED BY <3>2, <3>3, <3>4, BothFit DEF Modes
  <2>4. CASE n # 0 /\ n # 1 /\ s \in Joined(Escapes, Inside[n - 2])
    <3>1. n - 2 \in 0..(n - 1)
      BY <2>4
    <3>2. PICK a \in Escapes, t \in Inside[n - 2] : s = a \o t
      BY <2>4 DEF Joined
    <3>3. Fits(a, "literal")
      BY <3>2, EscapeFits DEF Escapes
    <3>4. Fits(t, "literal")
      BY <1>1, <3>1
    <3> QED BY <3>2, <3>3, <3>4, BothFit DEF Modes
  <2> QED BY <2>1, <2>2, <2>3, <2>4 DEF InsideFrom
<1>2. 0..MaxObject \subseteq S
  <2> HIDE DEF S
  <2> QED BY <1>1, FromBelow, ReviewAssumption
<1> QED BY <1>2

\* What may stand in an object leaves the scan at the depth, and outside of a literal,
\* as it was.
LEMMA ItemsFit == \A n \in 0..MaxObject : \A s \in Items[n] : Fits(s, "outside")
<1> DEFINE S == {n \in Nat : \A s \in Items[n] : Fits(s, "outside")}
<1>1. ASSUME NEW n \in 0..MaxObject, \A k \in 0..(n - 1) : k \in S PROVE n \in S
  <2> SUFFICES ASSUME NEW s \in Items[n] PROVE Fits(s, "outside")
    OBVIOUS
  <2>1. s \in ItemsFrom(n, Items[n - 1],
                        {Joined(Nested(Inside[k - 2], Items[k - 2]), Items[n - k]) : k \in 2..n})
    BY ItemsEquation DEF ItemsOf
  <2>2. CASE s = <<>>
    BY <2>2, NothingFits DEF Modes
  <2>3. CASE n # 0 /\ s \in Joined({<<"x">>}, Items[n - 1])
    <3>1. n - 1 \in 0..(n - 1)
      BY <2>3
    <3>2. PICK a \in {<<"x">>}, t \in Items[n - 1] : s = a \o t
      BY <2>3 DEF Joined
    <3>3. Fits(a, "outside")
      BY <3>2, OneFits
    <3>4. Fits(t, "outside")
      BY <1>1, <3>1
    <3> QED BY <3>2, <3>3, <3>4, BothFit DEF Modes
  <2>4. ASSUME NEW k \in 2..n, s \in Joined(Nested(Inside[k - 2], Items[k - 2]), Items[n - k])
        PROVE  Fits(s, "outside")
    <3>1. k - 2 \in 0..(n - 1) /\ n - k \in 0..(n - 1) /\ k - 2 \in 0..MaxObject
      BY ReviewAssumption
    <3>2. PICK q \in Nested(Inside[k - 2], Items[k - 2]), t \in Items[n - k] : s = q \o t
      BY <2>4 DEF Joined
    <3>3. Fits(t, "outside")
      BY <1>1, <3>1
    <3>4. \A o \in Inside[k - 2] : Fits(o, "literal")
      BY <3>1, InsideFits
    <3>5. \A o \in Items[k - 2] : Fits(o, "outside")
      BY <1>1, <3>1
    <3>6. Fits(q, "outside")
      BY <3>2, <3>4, <3>5, EnclosedFits DEF Nested, Enclosed
    <3> QED BY <3>2, <3>3, <3>6, BothFit DEF Modes
  <2> QED BY <2>1, <2>2, <2>3, <2>4 DEF ItemsFrom
<1>2. 0..MaxObject \subseteq S
  <2> HIDE DEF S
  <2> QED BY <1>1, FromBelow, ReviewAssumption
<1> QED BY <1>2

\* So what stands in the braces of an object fits.
LEMMA ObjectsAreEnclosed ==
  \A o \in Objects : \E s : Fits(s, "outside") /\ o = <<"open">> \o s \o <<"close">>
<1> SUFFICES ASSUME NEW o \in Objects
             PROVE  \E s : Fits(s, "outside") /\ o = <<"open">> \o s \o <<"close">>
  OBVIOUS
<1>1. PICK n \in 2..MaxObject : o \in Enclosed("open", Items[n - 2], "close")
  BY DEF Objects
<1>2. n - 2 \in 0..MaxObject
  BY ReviewAssumption
<1> QED BY <1>1, <1>2, ItemsFit DEF Enclosed
-----------------------------------------------------------------------------
\* One text and then another.
Follows(w, s, t) ==
  /\ w \in Seq(Chars) /\ Len(w) = Len(s) + Len(t)
  /\ \A k \in 1..Len(s) : w[k] = s[k]
  /\ \A k \in 1..Len(t) : w[Len(s) + k] = t[k]

\* Joining two texts puts one after the other.
LEMMA OneAfterAnother ==
  ASSUME NEW s \in Seq(Chars), NEW t \in Seq(Chars)
  PROVE  Follows(s \o t, s, t)
<1>1. s \o t \in Seq(Chars) /\ Len(s \o t) = Len(s) + Len(t)
  BY ConcatProperties
<1>2. ASSUME NEW k \in 1..Len(s) PROVE (s \o t)[k] = s[k]
  BY ConcatProperties
<1>3. ASSUME NEW k \in 1..Len(t) PROVE (s \o t)[Len(s) + k] = t[k]
  BY ConcatProperties
<1> QED BY <1>1, <1>2, <1>3 DEF Follows

\* Where the object stands in the text of a reply.
PlacedAt(w, a, s) ==
  /\ w \in Seq(Chars) /\ Len(w) >= a + Len(s) + 2
  /\ w[a + 1] = "open" /\ w[a + Len(s) + 2] = "close"
  /\ \A k \in 1..Len(s) : w[a + 1 + k] = s[k]

Composed(w, p, o, s, t) == o = <<"open">> \o s \o <<"close">> /\ w = p \o o \o t

\* The object of a reply stands right after the prose, braces and all (extractJSON returns
\* the text between those two places).
LEMMA TextOfReply ==
  ASSUME NEW p \in Seq(Chars), NEW s \in Seq(Chars), NEW t \in Seq(Chars), NEW o, NEW w,
         Composed(w, p, o, s, t)
  PROVE  /\ \A k \in 1..Len(p) : w[k] = p[k]
         /\ PlacedAt(w, Len(p), s)
         /\ SubSeq(w, Len(p) + 1, Len(p) + Len(s) + 2) = o
<1> USE DEF Composed
<1>1. PICK l, r : l = <<"open">> /\ r = <<"close">>
  OBVIOUS
<1>2. /\ l \in Seq(Chars) /\ Len(l) = 1 /\ l[1] = "open"
      /\ r \in Seq(Chars) /\ Len(r) = 1 /\ r[1] = "close"
  BY <1>1, OneIsSeq DEF Chars
<1>3. PICK u : u = l \o s /\ Follows(u, l, s)
  BY <1>2, OneAfterAnother
<1>4. Follows(o, u, r)
  BY <1>1, <1>2, <1>3, OneAfterAnother DEF Follows
<1>5. PICK v : v = p \o o /\ Follows(v, p, o)
  <2>1. o \in Seq(Chars)
    BY ONLY <1>4 DEF Follows
  <2> QED BY <2>1, OneAfterAnother
<1>6. Follows(w, v, t)
  BY <1>5, OneAfterAnother DEF Follows
<1>7. PICK a, b, c : a = Len(p) /\ b = Len(s) /\ c = Len(t) /\ a \in Nat /\ b \in Nat /\ c \in Nat
  <2>1. Len(p) \in Nat /\ Len(s) \in Nat /\ Len(t) \in Nat
    OBVIOUS
  <2> QED BY ONLY <2>1
<1>8. /\ Len(u) = b + 1 /\ u[1] = "open" /\ \A k \in 1..b : u[k + 1] = s[k]
  BY ONLY <1>2, <1>3, <1>7 DEF Follows
<1>9. /\ Len(o) = b + 2 /\ o[1] = "open" /\ o[b + 2] = "close"
      /\ \A k \in 1..b : o[k + 1] = s[k]
  BY ONLY <1>2, <1>4, <1>7, <1>8 DEF Follows
<1>10. Len(v) = a + b + 2 /\ \A k \in 1..(b + 2) : v[a + k] = o[k]
  BY ONLY <1>5, <1>7, <1>9 DEF Follows
<1>11. \A k \in 1..a : w[k] = p[k]
  <2>1. \A k \in 1..a : v[k] = p[k]
    BY ONLY <1>5, <1>7 DEF Follows
  <2>2. \A k \in 1..(a + b + 2) : w[k] = v[k]
    BY ONLY <1>6, <1>10 DEF Follows
  <2>3. \A k \in 1..a : k \in 1..(a + b + 2)
    BY ONLY <1>7
  <2> QED BY ONLY <2>1, <2>2, <2>3
<1>12. /\ w \in Seq(Chars) /\ Len(w) = a + b + 2 + c /\ \A k \in 1..(b + 2) : w[a + k] = o[k]
  BY ONLY <1>6, <1>7, <1>10 DEF Follows
<1>13. w[a + 1] = "open" /\ w[a + b + 2] = "close"
  BY ONLY <1>7, <1>9, <1>12
<1>14. ASSUME NEW k \in 1..b PROVE w[a + 1 + k] = s[k]
  <2>1. k + 1 \in 1..(b + 2) /\ a + (k + 1) = a + 1 + k
    BY ONLY <1>7, k \in 1..b
  <2> QED BY ONLY <1>9, <1>12, <2>1, k \in 1..b
<1>15. PICK z : z = SubSeq(w, a + 1, a + b + 2)
  OBVIOUS
<1>16. z = o
  <2>1. \A k \in (a + 1)..(a + b + 2) : w[k] \in Chars
    BY ONLY <1>7, <1>12
  <2>2. z \in Seq(Chars) /\ Len(z) = b + 2 /\ \A k \in 1..(b + 2) : z[k] = w[a + k]
    <3>1. /\ z \in Seq(Chars)
          /\ Len(z) = IF a + 1 <= a + b + 2 THEN (a + b + 2) - (a + 1) + 1 ELSE 0
          /\ \A k \in 1..((a + b + 2) - (a + 1) + 1) : z[k] = w[(a + 1) + k - 1]
      BY ONLY <1>7, <1>15, <2>1, SubSeqProperties
    <3> QED BY ONLY <1>7, <3>1
  <2>3. o \in Seq(Chars)
    BY <1>4 DEF Follows
  <2>4. \A k \in 1..Len(z) : z[k] = o[k]
    BY ONLY <1>7, <1>12, <2>2
  <2> QED BY ONLY <1>9, <2>2, <2>3, <2>4, SeqEqual
<1>17. PlacedAt(w, a, s)
  BY ONLY <1>7, <1>12, <1>13, <1>14 DEF PlacedAt
<1> QED BY <1>7, <1>11, <1>15, <1>16, <1>17

\* The first open brace of a text.
LEMMA FirstOpen ==
  ASSUME NEW w \in Seq(Chars), NEW a \in Nat, a < Len(w), w[a + 1] = "open",
         \A k \in 1..a : w[k] # "open"
  PROVE  SelectInSeq(w, LAMBDA c : c = "open") = a + 1
<1> DEFINE I == {k \in 1..Len(w) : w[k] = "open"}
<1>1. a + 1 \in I /\ \A k \in I : k \in Int /\ a + 1 <= k
  OBVIOUS
<1>2. SelectInSeq(w, LAMBDA c : c = "open") = IF I # {} THEN Min(I) ELSE 0
  BY DEF SelectInSeq
<1> HIDE DEF I
<1>3. Min(I) = a + 1
  BY <1>1 DEF Min
<1> QED BY <1>1, <1>2, <1>3
-----------------------------------------------------------------------------
ReviewTypes ==
  /\ stage \in {"asking", "seeking", "scanning", "reading", "done"}
  /\ inString \in BOOLEAN /\ escaped \in BOOLEAN

\* Nothing has been scanned, and nothing received before that.
Fresh ==
  /\ stage \in {"asking", "seeking"}
       => depth = 0 /\ ~inString /\ ~escaped /\ piece = <<>> /\ outcome = "none"
  /\ stage = "asking" => reply = NoReply
  /\ stage \in {"scanning", "reading"} => outcome = "none"

\* A reply is prose, perhaps an object, and more prose.
Arrived ==
  \/ reply = NoReply
  \/ \E p \in Prose, o \in Objects \cup {<<>>}, t \in Trailers :
       reply = [text |-> p \o o \o t, before |-> p, object |-> o]

InMode(m) == (inString <=> m # "outside") /\ (escaped <=> m = "escape")

\* The scan of an object with s in its braces has passed over its open brace and k characters.
Reached(k, D, M) == i = start + 1 + k /\ depth = D[k] /\ InMode(M[k])

\* The scan is at the object's open brace, or somewhere in the object.
Within(s) ==
  /\ s \in Seq(Chars) /\ reply.object = <<"open">> \o s \o <<"close">>
  /\ start = Len(reply.before) + 1
  /\ \E D, M : /\ IsPath(s, D, M, 1, "outside", 1, "outside")
               /\ \/ i = start /\ depth = 0 /\ InMode("outside")
                  \/ \E k \in 0..Len(s) : Reached(k, D, M)
Underway == \E s : Within(s)

Meant == outcome = "approved"
           => /\ says.approved = "yes"
              /\ \A k \in DOMAIN says.findings :
                   says.findings[k].described => says.findings[k].severity = "minor"

ReviewInv ==
  /\ ReviewTypes /\ Fresh /\ Arrived
  /\ Legible => /\ stage = "scanning" => Underway
                /\ stage \in {"reading", "done"} => piece = reply.object
                /\ Meant
-----------------------------------------------------------------------------
\* In a legible reply the object is the first thing with an open brace.
LEMMA LegibleText ==
  ASSUME Arrived, Legible
  PROVE  \E s : /\ Fits(s, "outside") /\ reply.object = <<"open">> \o s \o <<"close">>
                /\ PlacedAt(reply.text, Len(reply.before), s)
                /\ Len(reply.before) \in Nat
                /\ \A k \in 1..Len(reply.before) : reply.text[k] # "open"
                /\ SubSeq(reply.text, Len(reply.before) + 1, Len(reply.before) + Len(s) + 2)
                     = reply.object
<1>1. PICK p \in Prose, o \in Objects \cup {<<>>}, t \in Trailers :
        reply = [text |-> p \o o \o t, before |-> p, object |-> o]
  <2>1. reply # NoReply
    BY DEF Legible, NoReply
  <2> QED BY <2>1 DEF Arrived
<1>2. reply.text = p \o o \o t /\ reply.before = p /\ reply.object = o
  BY <1>1
<1>3. o \in Objects
  BY <1>2 DEF Legible
<1>4. PICK s : Fits(s, "outside") /\ o = <<"open">> \o s \o <<"close">>
  BY <1>3, ObjectsAreEnclosed
<1>5. p \in Seq(Chars) /\ s \in Seq(Chars) /\ t \in Seq(Chars)
  BY <1>4, ReviewAssumption DEF Fits
<1>6. PICK w : w = p \o o \o t
  OBVIOUS
<1>7. /\ \A k \in 1..Len(p) : w[k] = p[k]
      /\ PlacedAt(w, Len(p), s)
      /\ SubSeq(w, Len(p) + 1, Len(p) + Len(s) + 2) = o
  <2>1. Composed(w, p, o, s, t)
    BY <1>4, <1>6 DEF Composed
  <2> QED BY ONLY <1>5, <2>1, TextOfReply
<1>8. \A k \in 1..Len(p) : p[k] # "open"
  BY <1>2, <1>5 DEF Legible, Range
<1>9. Len(p) \in Nat
  BY <1>5
<1>10. \A k \in 1..Len(p) : w[k] # "open"
  BY ONLY <1>7, <1>8
<1> QED BY ONLY <1>2, <1>4, <1>6, <1>7, <1>9, <1>10

\* What stands in the braces of an object is determined by the object.
LEMMA EnclosedOnce ==
  ASSUME NEW s \in Seq(Chars), NEW u \in Seq(Chars),
         <<"open">> \o s \o <<"close">> = <<"open">> \o u \o <<"close">>
  PROVE  s = u
<1>1. PICK l, r : l = <<"open">> /\ r = <<"close">>
  OBVIOUS
<1>2. l \in Seq(Chars) /\ r \in Seq(Chars) /\ Len(l) = 1 /\ Len(r) = 1
  BY <1>1, OneIsSeq DEF Chars
<1>3. PICK ls : ls = l \o s /\ Follows(ls, l, s)
  BY <1>2, OneAfterAnother
<1>4. PICK lu : lu = l \o u /\ Follows(lu, l, u)
  BY <1>2, OneAfterAnother
<1>5. ls \in Seq(Chars) /\ lu \in Seq(Chars)
  BY ONLY <1>3, <1>4 DEF Follows
<1>6. PICK w : w = ls \o r /\ Follows(w, ls, r) /\ Follows(w, lu, r)
  <2>1. ls \o r = lu \o r
    BY <1>1, <1>3, <1>4
  <2>2. Follows(ls \o r, ls, r) /\ Follows(lu \o r, lu, r)
    BY <1>2, <1>5, OneAfterAnother
  <2> QED BY <2>1, <2>2
<1>7. PICK a, b : a = Len(s) /\ b = Len(u) /\ a \in Nat /\ b \in Nat
  <2>1. Len(s) \in Nat /\ Len(u) \in Nat
    OBVIOUS
  <2> QED BY ONLY <2>1
<1>8. Len(ls) = 1 + a /\ \A k \in 1..a : ls[1 + k] = s[k]
  BY ONLY <1>2, <1>3, <1>7 DEF Follows
<1>9. Len(lu) = 1 + b /\ \A k \in 1..b : lu[1 + k] = u[k]
  BY ONLY <1>2, <1>4, <1>7 DEF Follows
<1>10. a = b
  BY ONLY <1>2, <1>6, <1>7, <1>8, <1>9 DEF Follows
<1>11. ASSUME NEW k \in 1..a PROVE s[k] = u[k]
  <2>1. 1 + k \in 1..(1 + a)
    BY ONLY <1>7, k \in 1..a
  <2>2. w[1 + k] = ls[1 + k]
    BY ONLY <1>6, <1>8, <2>1 DEF Follows
  <2>3. w[1 + k] = lu[1 + k]
    BY ONLY <1>6, <1>9, <1>10, <2>1 DEF Follows
  <2> QED BY ONLY <1>8, <1>9, <1>10, <2>2, <2>3, k \in 1..a
<1> QED BY <1>7, <1>10, <1>11, SeqEqual

\* So the scan of a legible reply is within that very object.
LEMMA WithinTheObject ==
  ASSUME Arrived, Legible, NEW s, Within(s)
  PROVE  /\ s \in Seq(Chars) /\ Len(s) \in Nat /\ Len(reply.before) \in Nat
         /\ PlacedAt(reply.text, Len(reply.before), s)
         /\ SubSeq(reply.text, Len(reply.before) + 1, Len(reply.before) + Len(s) + 2)
              = reply.object
<1>1. PICK u : /\ Fits(u, "outside") /\ reply.object = <<"open">> \o u \o <<"close">>
               /\ PlacedAt(reply.text, Len(reply.before), u)
               /\ Len(reply.before) \in Nat
               /\ SubSeq(reply.text, Len(reply.before) + 1, Len(reply.before) + Len(u) + 2)
                    = reply.object
  BY LegibleText
<1>2. s \in Seq(Chars) /\ u \in Seq(Chars) /\ Len(s) \in Nat
  BY <1>1 DEF Fits, Within
<1>3. <<"open">> \o s \o <<"close">> = <<"open">> \o u \o <<"close">>
  BY <1>1 DEF Within
<1>4. s = u
  BY ONLY <1>2, <1>3, EnclosedOnce
<1> QED BY ONLY <1>1, <1>2, <1>4

\* The invariant holds at first ...
LEMMA ReviewStarts == ReviewInit => ReviewInv
<1> SUFFICES ASSUME ReviewInit PROVE ReviewInv
  OBVIOUS
<1>1. reply.object = <<>>
  BY DEF ReviewInit, NoReply
<1>2. ~Legible
  BY <1>1 DEF Legible
<1>3. ReviewTypes /\ Fresh /\ Arrived
  BY DEF ReviewInit, ReviewTypes, Fresh, Arrived
<1> QED BY <1>2, <1>3 DEF ReviewInv

\* ... and every step keeps it: nothing is asked, ...
LEMMA AskNothingKeeps == ASSUME ReviewInv, AskNothing PROVE ReviewInv'
<1>1. reply = NoReply /\ reply' = NoReply
  BY DEF ReviewInv, Fresh, AskNothing
<1>2. ~Legible'
  BY <1>1 DEF Legible, NoReply
<1>3. ReviewTypes' /\ Fresh' /\ Arrived'
  BY <1>1 DEF ReviewInv, ReviewTypes, Fresh, Arrived, AskNothing, Return, scan
<1> QED BY <1>2, <1>3 DEF ReviewInv

\* ... a reply is received, ...
LEMMA ReceiveKeeps == ASSUME ReviewInv, Receive PROVE ReviewInv'
<1>1. /\ stage' = "seeking" /\ outcome' = "none" /\ depth' = 0
      /\ ~inString' /\ ~escaped' /\ piece' = <<>>
  BY DEF ReviewInv, Fresh, Receive, scan
<1>2. Arrived'
  BY DEF Receive, Arrived
<1>3. ReviewTypes'
  BY <1>1 DEF ReviewInv, ReviewTypes, Receive, scan
<1>4. Fresh' /\ Meant'
  BY <1>1 DEF Fresh, Meant
<1> QED BY <1>1, <1>2, <1>3, <1>4 DEF ReviewInv

\* ... its first open brace is found, which is the object's, ...
LEMMA SeekKeeps == ASSUME ReviewInv, Seek PROVE ReviewInv'
<1>1. /\ depth = 0 /\ ~inString /\ ~escaped /\ piece = <<>> /\ outcome = "none"
      /\ UNCHANGED <<reply, says, depth, inString, escaped, piece>>
  BY DEF ReviewInv, Fresh, Seek
<1>2. stage' \in {"scanning", "done"} /\ (stage' = "scanning" => outcome' = "none")
  BY <1>1 DEF Seek, Return
<1>3. ReviewTypes' /\ Fresh' /\ Arrived'
  BY <1>1, <1>2 DEF ReviewInv, ReviewTypes, Fresh, Arrived
<1>4. outcome' # "approved"
  BY <1>1 DEF Seek, Return
<1>5. ASSUME Legible' PROVE stage' = "scanning" /\ Underway'
  <2>1. Legible /\ Arrived
    BY <1>1, <1>5 DEF Legible, ReviewInv
  <2>2. PICK s : /\ Fits(s, "outside") /\ reply.object = <<"open">> \o s \o <<"close">>
                 /\ PlacedAt(reply.text, Len(reply.before), s)
                 /\ Len(reply.before) \in Nat
                 /\ \A k \in 1..Len(reply.before) : reply.text[k] # "open"
    BY <2>1, LegibleText
  <2>3. PICK w, a : w = reply.text /\ a = Len(reply.before)
    OBVIOUS
  <2>4. s \in Seq(Chars) /\ Len(s) \in Nat /\ Passes(s, 1, "outside", 1, "outside")
    BY <2>2 DEF Fits, Depths
  <2>5. /\ w \in Seq(Chars) /\ a \in Nat /\ a < Len(w) /\ w[a + 1] = "open"
        /\ \A k \in 1..a : w[k] # "open"
    BY <2>2, <2>3, <2>4 DEF PlacedAt
  <2>6. SelectInSeq(w, LAMBDA c : c = "open") = a + 1
    BY <2>5, FirstOpen
  <2>7. a + 1 \in DOMAIN w
    BY <2>5
  <2>8. start' = a + 1 /\ i' = start' /\ stage' = "scanning"
    BY <2>3, <2>5, <2>6, <2>7 DEF Seek
  <2>9. InMode("outside")'
    BY <1>1 DEF InMode
  <2>10. PICK D, M : IsPath(s, D, M, 1, "outside", 1, "outside")
    BY <2>4 DEF Passes
  <2>11. Within(s)'
    BY <1>1, <2>2, <2>3, <2>4, <2>8, <2>9, <2>10 DEF Within
  <2> QED BY <2>8, <2>11 DEF Underway
<1> QED BY <1>3, <1>4, <1>5 DEF ReviewInv, Meant

\* ... the text runs out, which a legible one does not, ...
LEMMA RunOutKeeps == ASSUME ReviewInv, RunOut PROVE ReviewInv'
<1>1. stage = "scanning" /\ i > Len(reply.text) /\ UNCHANGED <<reply, says, scan>>
      /\ stage' = "done" /\ outcome' = "error"
  BY DEF RunOut, Return
<1>2. ReviewTypes' /\ Fresh' /\ Arrived'
  BY <1>1 DEF ReviewInv, ReviewTypes, Fresh, Arrived, scan
<1>3. ~Legible
  <2> SUFFICES ASSUME Legible PROVE FALSE
    OBVIOUS
  <2>1. PICK s : Within(s)
    BY <1>1 DEF ReviewInv, Underway
  <2>2. /\ Len(s) \in Nat /\ Len(reply.before) \in Nat
        /\ PlacedAt(reply.text, Len(reply.before), s)
    BY <2>1, WithinTheObject DEF ReviewInv
  <2>5. PICK n, a, b : n = Len(reply.text) /\ a = Len(reply.before) /\ b = Len(s)
    OBVIOUS
  <2>6. n >= a + b + 2 /\ a \in Nat /\ b \in Nat
    BY <2>2, <2>5 DEF PlacedAt
  <2>7. i = a + 1 \/ \E k \in 0..b : i = a + 1 + 1 + k
    BY <2>1, <2>5 DEF Within, Reached
  <2> QED BY ONLY <1>1, <2>5, <2>6, <2>7
<1>4. ~Legible'
  BY <1>1, <1>3 DEF Legible
<1> QED BY <1>2, <1>4 DEF ReviewInv

\* One character in an object, short of its closing brace.
LEMMA OneCharacter ==
  ASSUME InLiteral \/ Outside, inString => InLiteral, ~inString => Outside,
         NEW d \in Depths, NEW m \in Modes, NEW e \in Depths, NEW n \in Modes,
         Moves(d, m, Char, e, n), depth = d, InMode(m), inString \in BOOLEAN, escaped \in BOOLEAN
  PROVE  depth' = e /\ InMode(n)' /\ UNCHANGED <<piece, stage>>
<1>1. PICK c : c = Char
  OBVIOUS
<1>2. CASE m = "outside"
  <2>1. ~inString /\ ~escaped /\ Outside
    BY <1>2 DEF InMode
  <2>2. /\ inString' = (c = "quote") /\ escaped' = escaped
        /\ depth' = d + (CASE c = "open" -> 1 [] c = "close" -> -1 [] OTHER -> 0)
        /\ \/ c = "close" /\ depth' = 0
           \/ UNCHANGED <<piece, stage>>
    BY <1>1, <2>1 DEF Outside
  <2>3. e = d + (CASE c = "open" -> 1 [] c = "close" -> -1 [] OTHER -> 0)
        /\ n = IF c = "quote" THEN "literal" ELSE "outside"
    BY <1>1, <1>2 DEF Moves
  <2>4. depth' = e /\ depth' # 0
    BY <2>2, <2>3 DEF Depths
  <2>5. InMode(n)'
    BY <2>1, <2>2, <2>3 DEF InMode
  <2> QED BY <2>2, <2>4, <2>5
<1>3. CASE m # "outside"
  <2>1. inString /\ InLiteral /\ (escaped <=> m = "escape")
    BY <1>3 DEF InMode
  <2>2. /\ (escaped' <=> ~escaped /\ c = "slash") /\ (inString' <=> escaped \/ c # "quote")
        /\ UNCHANGED <<depth, piece, stage>>
    BY <1>1, <2>1 DEF InLiteral
  <2>3. e = d /\ n = IF m = "escape" THEN "literal"
                     ELSE CASE c = "quote" -> "outside" [] c = "slash" -> "escape"
                            [] OTHER -> "literal"
    BY <1>1, <1>3 DEF Moves
  <2>4. (inString' <=> n # "outside") /\ (escaped' <=> n = "escape")
    <3>1. CASE m = "escape"
      BY <2>1, <2>2, <2>3, <3>1
    <3>2. CASE m # "escape"
      <4>1. CASE c = "quote"
        BY <2>1, <2>2, <2>3, <3>2, <4>1
      <4>2. CASE c = "slash"
        BY <2>1, <2>2, <2>3, <3>2, <4>2
      <4>3. CASE c # "quote" /\ c # "slash"
        BY <2>1, <2>2, <2>3, <3>2, <4>3
      <4> QED BY <4>1, <4>2, <4>3
    <3> QED BY <3>1, <3>2
  <2>5. InMode(n)'
    BY <2>4 DEF InMode
  <2> QED BY <2>2, <2>3, <2>5
<1> QED BY <1>2, <1>3

\* ... a character is looked at, along the object, ...
LEMMA StepKeeps == ASSUME ReviewInv, Step PROVE ReviewInv'
<1>1. /\ stage = "scanning" /\ i' = i + 1 /\ UNCHANGED <<reply, says, start, outcome>>
      /\ outcome = "none" /\ inString \in BOOLEAN /\ escaped \in BOOLEAN
      /\ (inString => InLiteral) /\ (~inString => Outside)
  BY DEF Step, ReviewInv, Fresh, ReviewTypes
<1>2. stage' \in {"scanning", "reading"} /\ inString' \in BOOLEAN /\ escaped' \in BOOLEAN
  <2>1. CASE inString
    BY <1>1, <2>1 DEF InLiteral
  <2>2. CASE ~inString
    BY <1>1, <2>2 DEF Outside
  <2> QED BY <2>1, <2>2
<1>3. ReviewTypes' /\ Fresh'
  BY <1>1, <1>2 DEF ReviewTypes, Fresh
<1>4. Arrived'
  BY <1>1 DEF ReviewInv, Arrived
<1>5. ASSUME Legible'
      PROVE  (stage' = "scanning" => Underway') /\ (stage' = "reading" => piece' = reply'.object)
  <2>1. Legible /\ Arrived /\ Underway
    BY <1>1, <1>5 DEF Legible, ReviewInv
  <2>2. PICK s : Within(s)
    BY <2>1 DEF Underway
  <2>3. /\ s \in Seq(Chars) /\ Len(s) \in Nat /\ Len(reply.before) \in Nat
        /\ PlacedAt(reply.text, Len(reply.before), s)
        /\ SubSeq(reply.text, Len(reply.before) + 1, Len(reply.before) + Len(s) + 2)
              = reply.object
    BY <2>1, <2>2, WithinTheObject
  <2>4. PICK a, b, w : a = Len(reply.before) /\ b = Len(s) /\ w = reply.text
    OBVIOUS
  <2>5. /\ a \in Nat /\ b \in Nat /\ start = a + 1 /\ start' = start
        /\ w[a + 1] = "open" /\ w[a + b + 2] = "close" /\ \A k \in 1..b : w[a + 1 + k] = s[k]
        /\ SubSeq(w, a + 1, a + b + 2) = reply.object
    BY <1>1, <2>2, <2>3, <2>4 DEF PlacedAt, Within
  <2>6. PICK D, M : /\ IsPath(s, D, M, 1, "outside", 1, "outside")
                    /\ \/ i = start /\ depth = 0 /\ InMode("outside")
                       \/ \E k \in 0..b : Reached(k, D, M)
    BY <2>2, <2>4 DEF Within
  <2>7. /\ D[0] = 1 /\ M[0] = "outside" /\ D[b] = 1 /\ M[b] = "outside"
        /\ \A k \in 0..b : D[k] \in Depths /\ M[k] \in Modes
        /\ \A k \in 1..b : Moves(D[k - 1], M[k - 1], s[k], D[k], M[k])
    BY <2>4, <2>6 DEF IsPath
  <2>8. ASSUME NEW k \in 0..b, Reached(k, D, M)', stage' = stage
        PROVE  (stage' = "scanning" => Underway') /\ (stage' = "reading" => piece' = reply'.object)
    <3>1. Within(s)'
      BY <1>1, <2>2, <2>4, <2>6, <2>8 DEF Within
    <3> QED BY <1>1, <2>8, <3>1 DEF Underway
  <2>9. CASE i = start /\ depth = 0 /\ InMode("outside")
    <3>1. Char = "open" /\ Outside /\ ~inString /\ ~escaped
      BY <1>1, <2>4, <2>5, <2>9 DEF Char, InMode
    <3>2. depth' = 1 /\ stage' = stage
      BY <2>9, <3>1 DEF Outside
    <3>3. ~inString' /\ ~escaped'
      BY <3>1 DEF Outside
    <3>4. InMode("outside")'
      BY <3>3 DEF InMode
    <3>5. i' = start' + 1 + 0 /\ 0 \in 0..b
      BY <1>1, <2>5, <2>9
    <3>6. Reached(0, D, M)'
      BY <2>7, <3>2, <3>4, <3>5 DEF Reached
    <3> QED BY <2>8, <3>2, <3>5, <3>6
  <2>10. ASSUME NEW k \in 0..b, Reached(k, D, M)
         PROVE  (stage' = "scanning" => Underway') /\ (stage' = "reading" => piece' = reply'.object)
    <3>1. i = a + 1 + 1 + k /\ depth = D[k] /\ InMode(M[k]) /\ D[k] \in Depths /\ M[k] \in Modes
      BY <2>5, <2>7, <2>10 DEF Reached
    <3>2. CASE k = b
      <4>1. i = a + b + 2 /\ Char = "close" /\ depth = 1 /\ ~inString
        BY <2>4, <2>5, <2>7, <3>1, <3>2 DEF Char, InMode
      <4>2. depth' = 0
        BY <1>1, <4>1 DEF Outside
      <4>3. piece' = SubSeq(w, start, i) /\ stage' = "reading"
        BY <1>1, <2>4, <4>1, <4>2 DEF Outside
      <4> QED BY <1>1, <2>5, <4>1, <4>3
    <3>3. CASE k # b
      <4>1. k + 1 \in 1..b /\ k + 1 \in 0..b /\ (k + 1) - 1 = k /\ a + 1 + (k + 1) = i
        BY <2>5, <3>1, <3>3
      <4>2. Char = s[k + 1]
        BY <2>4, <2>5, <4>1 DEF Char
      <4>3. Moves(D[k], M[k], Char, D[k + 1], M[k + 1]) /\ D[k + 1] \in Depths /\ M[k + 1] \in Modes
        BY <2>7, <4>1, <4>2
      <4>4. depth' = D[k + 1] /\ InMode(M[k + 1])' /\ UNCHANGED <<piece, stage>>
        BY <1>1, <3>1, <4>3, OneCharacter
      <4>5. i' = start' + 1 + (k + 1)
        BY <1>1, <2>5, <3>1
      <4>6. Reached(k + 1, D, M)'
        BY <4>4, <4>5 DEF Reached
      <4> QED BY <2>8, <4>1, <4>4, <4>6
    <3> QED BY <3>2, <3>3
  <2> QED BY <2>6, <2>9, <2>10
<1>6. Meant'
  BY <1>1 DEF Meant
<1> QED BY <1>2, <1>3, <1>4, <1>5, <1>6 DEF ReviewInv

\* ... the verdict is read, ...
LEMMA ParseKeeps == ASSUME ReviewInv, Parse PROVE ReviewInv'
<1>1. stage = "reading" /\ stage' = "done" /\ UNCHANGED <<reply, scan>>
  BY DEF Parse, Return
<1>2. ReviewTypes' /\ Fresh' /\ Arrived'
  BY <1>1 DEF ReviewInv, ReviewTypes, Fresh, Arrived, scan
<1>3. ASSUME Legible' PROVE piece' = reply'.object /\ Meant'
  <2>1. Legible /\ piece = reply.object
    BY <1>1, <1>3 DEF Legible, ReviewInv
  <2>2. says' \in Says /\ outcome' = ParseReview(says')
    BY <2>1 DEF Parse, Return
  <2>3. PICK v : v = says' /\ v \in Says
    BY <2>2
  <2>4. ASSUME NEW k \in DOMAIN v.findings PROVE v.findings[k].severity \in Severities
    BY <2>3, <2>4, ReviewAssumption DEF Says, Finding
  <2>5. ParseReview(v) = "approved"
          => v.approved = "yes" /\ \A k \in DOMAIN v.findings : ~Blocking(v.findings[k])
    BY DEF ParseReview
  <2>6. Meant'
    BY <2>2, <2>3, <2>5 DEF Meant, Blocking
  <2> QED BY <1>1, <2>1, <2>6 DEF scan
<1> QED BY <1>1, <1>2, <1>3 DEF ReviewInv

\* ... or nothing happens.
LEMMA ReviewStutters == ASSUME ReviewInv, UNCHANGED reviewVars PROVE ReviewInv'
<1>1. UNCHANGED <<stage, reply, says, i, depth, inString, escaped, start, piece, outcome>>
  BY DEF reviewVars
<1>2. ReviewTypes' /\ Fresh' /\ Arrived' /\ (Legible' => Legible)
  BY <1>1 DEF ReviewInv, ReviewTypes, Fresh, Arrived, Legible
<1>3. \A m : InMode(m) => InMode(m)'
  BY <1>1 DEF InMode
<1>4. \A s : Within(s) => Within(s)'
  BY <1>1, <1>3 DEF Within, Reached
<1>5. (Underway => Underway') /\ (Meant => Meant')
  BY <1>1, <1>4 DEF Underway, Meant
<1> QED BY <1>1, <1>2, <1>5 DEF ReviewInv

\* ReviewInv is an invariant for any length of objects, any prose and any number of findings.
THEOREM ReviewInvariance == ReviewSpec => []ReviewInv
<1>1. ReviewInv /\ [ReviewNext]_reviewVars => ReviewInv'
  BY AskNothingKeeps, ReceiveKeeps, SeekKeeps, StepKeeps, RunOutKeeps, ParseKeeps, ReviewStutters
     DEF ReviewNext
<1> QED BY ReviewStarts, <1>1, PTL DEF ReviewSpec

\* The object a reviewer wrote is what is read, however deep it nests, whatever braces and
\* escaped quotes its string literals hold, and whatever follows it (extractJSON).
THEOREM ObjectIsFound == ReviewSpec => []ObjectFound
<1>1. ReviewInv => ObjectFound
  BY DEF ReviewInv, ObjectFound, Legible
<1> QED BY ReviewInvariance, <1>1, PTL

\* Only what a reviewer approved of, with no finding that blocks, is approved (ParseReview,
\* normalizeSeverity).
THEOREM ApprovalsAreMeant == ReviewSpec => []ApprovalIsMeant
<1>1. ReviewInv => ApprovalIsMeant
  BY DEF ReviewInv, ApprovalIsMeant, Meant
<1> QED BY ReviewInvariance, <1>1, PTL
=============================================================================

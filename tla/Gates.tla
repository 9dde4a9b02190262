-------------------------------- MODULE Gates --------------------------------
(***************************************************************************)
(* The quality gates: how App.gateSet picks the checks a change must pass, *)
(* and how gates.Runner.Run runs them.  A gate is a step, except the two   *)
(* that run a tool and then do more: GoBuild, which compiles and removes   *)
(* what appeared meanwhile, and NodeInstall, which tries npm a second time.*)
(* A cancellation may fall between any two steps, and people may write     *)
(* files all along.                                                        *)
(*                                                                         *)
(* The tools answer anything.  What they print but for coverage, the       *)
(* elapsed times and the wording of a result are left out.  The project    *)
(* directory can be listed.                                                *)
(***************************************************************************)
EXTENDS Integers, Sequences, SequencesExt

CONSTANTS
  Projects,     \* the projects considered, see IsProject
  Output,       \* what the project's own commands may leave in the tree: a set of files
  PeopleWrite   \* where people add files while the gates run: a set of places

Floors   == {0, 2}       \* quality.minimumCoverage, as a place in the order of coverages
Coverage == -1..2        \* -1: not measured; 0: nothing covered; 1: below the floor
Unmeasured == -1

\* What one gate is declared to be, in TOOLCHAIN.md or in a reply of Claude's.
Declaration == [name : STRING, command : STRING, required : BOOLEAN, skipIfMissing : STRING]

\* A project: its configuration, TOOLCHAIN.md (doc says who wrote it, specs what it
\* declares, reported what `detect` was told), its tools and its files.
IsProject(p) ==
  p \in [type : {"go", "node", "other"}, inspection : BOOLEAN, floor : Floors,
         doc : {"absent", "malformed", "declared", "detected"},
         specs : Seq(Declaration), reported : Seq(Declaration),
         installed : SUBSET STRING, manifest : BOOLEAN, scripts : SUBSET STRING,
         pm : {"npm", "pnpm"}, lock : {"none", "current", "behind"}, summary : Coverage]

ASSUME GatesAssumption ==
  /\ PeopleWrite \subseteq {"root", "below"}
  /\ Output \subseteq [by : {"project"}, leaks : BOOLEAN, name : {"plain", "quoted"},
                     place : {"root", "below"}]
  /\ \A p \in Projects : IsProject(p)

VARIABLES
  project,            \* the project, its configuration and the tools installed
  at,                 \* where the run is
  set, results,       \* the gates chosen, and the report so far
  cancelled,
  files,              \* what a commit could include
  seen,               \* GoBuild's snapshot of the directory
  lock, summary,      \* the npm lockfile, and the coverage in coverage-summary.json
  measured            \* history: the coverages this run of the tests measured

vars == <<project, at, set, results, cancelled, files, seen, lock, summary, measured>>
tree == <<files, seen, lock, summary, measured>>

\* A file a commit could include, by its maker; whether it holds a credential of the
\* kind the scan recognises (text, at most 2 MiB, a known format, not marked to be
\* ignored); whether git lists it under its own name and it can be read ("plain"), or
\* quotes the name, which then names no file, or it cannot be read; and where it is.
File(by, leaks, name, place) == [by |-> by, leaks |-> leaks, name |-> name, place |-> place]
Files == [by : {"session", "compiler", "person", "project"}, leaks : BOOLEAN,
          name : {"plain", "quoted"}, place : {"root", "below"}]
-----------------------------------------------------------------------------
\* A gate: what kind of check it is, whether it must be able to run, the tool it needs,
\* and whether what it runs is the project's own code.
Gate(kind, name, required, tool, own) ==
  [kind |-> kind, name |-> name, required |-> required, tool |-> tool, own |-> own]

SecretScan == Gate("secrets", "secrets", TRUE, "git", FALSE)

GoGates == <<Gate("format", "format", TRUE, "gofmt", FALSE), SecretScan,
             Gate("build", "build", TRUE, "go", FALSE), Gate("vet", "vet", TRUE, "go", FALSE),
             Gate("gotest", "test", TRUE, "go", TRUE),
             Gate("lint", "lint", FALSE, "golangci-lint", FALSE),
             Gate("security", "security", FALSE, "gosec", FALSE)>>

NodeGates(pm) == <<SecretScan, Gate("install", "install", TRUE, pm, FALSE),
                   Gate("script", "format", FALSE, pm, TRUE), Gate("script", "typecheck", FALSE, pm, TRUE),
                   Gate("script", "build", FALSE, pm, TRUE), Gate("nodetest", "test", TRUE, pm, TRUE),
                   Gate("script", "lint", FALSE, pm, TRUE)>>

\* Spec.Validate: a name may be blank (""), a command missing ("") or blank.
Validate(s) == s.name # "" /\ s.command \notin {"", "blank"}

Tool(s) == IF s.skipIfMissing # "" THEN s.skipIfMissing ELSE s.command

Refused == <<>>

DeclaredGates(specs) == [i \in DOMAIN specs |->
  Gate("command", specs[i].name, specs[i].required, Tool(specs[i]), TRUE)]

\* Mutant: the scan is the project's to declare.
FromSpecsAsDeclared(specs) == DeclaredGates(specs)

FromSpecs(specs) ==
  LET names == <<"secrets">> \o [i \in DOMAIN specs |-> specs[i].name]
  IN  IF (\A i \in DOMAIN specs : Validate(specs[i])) /\ IsInjective(names)
      THEN <<SecretScan>> \o DeclaredGates(specs)
      ELSE Refused

BuiltIn(p) == CASE p.type = "go"    -> GoGates
                [] p.type = "node"  -> NodeGates(p.pm)
                [] p.type = "other" -> Refused

\* TOOLCHAIN.md can be read and has a gate in it.
Declares(p) == p.doc \in {"declared", "detected"} /\ p.specs # <<>>

\* Mutant: a declaration that cannot be used is replaced by the built-in set.
GateSetReplacing(p) ==
  IF p.inspection THEN <<SecretScan>>
  ELSE IF Declares(p) /\ FromSpecs(p.specs) # Refused THEN FromSpecs(p.specs) ELSE BuiltIn(p)

\* App.gateSet.  Any error reading TOOLCHAIN.md leads on to the built-in set, as does a
\* declaration of no gates.
GateSet(p) ==
  IF p.inspection THEN <<SecretScan>>
  ELSE IF Declares(p) THEN FromSpecs(p.specs) ELSE BuiltIn(p)
-----------------------------------------------------------------------------
Untouched ==
  /\ project \in Projects
  /\ set = <<>> /\ results = <<>> /\ cancelled = FALSE
  /\ \/ files = {File("session", FALSE, "plain", "below")}
     \/ \E name \in {"plain", "quoted"} : files = {File("session", TRUE, name, "below")}
  /\ seen = {}
  /\ lock = project.lock /\ summary = project.summary /\ measured = {}

Init == Untouched /\ at = "choosing"

ChooseGates ==
  /\ at = "choosing"
  /\ set' = GateSet(project)
  /\ at' = IF set' = Refused THEN "refused" ELSE "between"
  /\ UNCHANGED <<project, results, cancelled, tree>>

Turn == set[Len(results) + 1]
Has(tool) == tool \in project.installed

\* The gate whose turn it is, about to run.
Running(kind) == at = "between" /\ ~cancelled /\ Turn.kind = kind

\* A result.  ran: the check itself was carried out, and found nothing.
Result(status, ran) == [gate |-> Turn.name, status |-> status, ran |-> ran]

\* The gate is done with; the next one has its turn.
Finish(status, ran) ==
  /\ results' = Append(results, Result(status, ran))
  /\ at' = IF Len(results') = Len(set) THEN "done" ELSE "between"
  /\ UNCHANGED <<project, set, cancelled>>

Verdict(ok) == Finish(IF ok THEN "passed" ELSE "failed", ok)

Missing == Finish(IF Turn.required THEN "failed" ELSE "skipped", FALSE)

\* What a command may leave behind: the project's own may write files.
Leaves == IF Turn.own THEN {files} \cup {files \cup {f} : f \in Output} ELSE {files}

\* Mutant: the loop is left without a word.
NotRunSilently ==
  /\ at = "between" /\ cancelled
  /\ at' = "done"
  /\ UNCHANGED <<project, set, results, cancelled, tree>>

\* Runner.Run, its context cancelled: the gate is recorded as failed and the loop is left.
NotRun ==
  /\ at = "between" /\ cancelled
  /\ results' = Append(results, Result("failed", FALSE)) /\ at' = "done"
  /\ UNCHANGED <<project, set, cancelled, tree>>

\* What the scan gets to read: a listed path that names no file, or one that cannot be
\* read, is passed over without a word.
Scanned == {f \in files : f.name = "plain"}

\* SecretScan.Run; git may fail to list the files.
RunScan ==
  /\ Running("secrets")
  /\ IF ~Has("git") THEN Missing
     ELSE \E listed \in BOOLEAN : Verdict(listed /\ \A f \in Scanned : ~f.leaks)
  /\ UNCHANGED tree

\* A gate that is one command: what it finds is its exit status, or what it prints.
RunTool(kind) ==
  /\ Running(kind)
  /\ IF ~Has(Turn.tool) THEN Missing /\ UNCHANGED files
     ELSE \E ok \in BOOLEAN : Verdict(ok) /\ files' \in Leaves
  /\ UNCHANGED <<seen, lock, summary, measured>>

RunFormat   == RunTool("format")
RunVet      == RunTool("vet")
RunLint     == RunTool("lint")
RunSecurity == RunTool("security")
RunCommand  == RunTool("command")

\* GoBuild.Run: the files in the project's root are remembered and the compiler started.
StartBuild ==
  /\ Running("build")
  /\ \/ ~Has("go") /\ Missing /\ UNCHANGED tree
     \/ /\ Has("go") /\ at' = "building" /\ seen' = {f \in files : f.place = "root"}
        /\ UNCHANGED <<project, set, results, cancelled, files, lock, summary, measured>>

\* cleanupBuildArtifacts, whatever became of the build: a file in the root that was not
\* there goes.
EndBuild ==
  /\ at = "building"
  /\ \E ok \in BOOLEAN, made \in SUBSET {File("compiler", FALSE, "plain", "root")} :
       files' = {f \in files \cup made : f.place = "below" \/ f \in seen} /\ Verdict(ok)
  /\ seen' = {} /\ UNCHANGED <<lock, summary, measured>>

\* The lines of `go test -cover` with a figure in them: "ok" for a package whose tests
\* ran; one without tests has a figure as well, which measures nothing.
CoverageLines == [ok : BOOLEAN, figure : 0..2]
Figures(lines) == {l.figure : l \in {k \in lines : k.ok}}

\* Mutant: the best covered package speaks for the others.
ParseCoverageHighest(lines) == IF Figures(lines) = {} THEN Unmeasured ELSE Max(Figures(lines))

\* parseCoverage: the lowest figure of a package that ran tests.
ParseCoverage(lines) == IF Figures(lines) = {} THEN Unmeasured ELSE Min(Figures(lines))

\* GoTest.Run: with a floor, no measurement is a failure.
RunGoTest ==
  /\ Running("gotest")
  /\ \/ ~Has("go") /\ Missing /\ UNCHANGED <<files, measured>>
     \/ /\ Has("go") /\ files' \in Leaves
        /\ \E ok \in BOOLEAN, lines \in SUBSET CoverageLines :
             LET cov == ParseCoverage(lines)
             IN  /\ measured' = Figures(lines)
                 /\ IF ok /\ (project.floor = 0 \/ (cov # Unmeasured /\ cov >= project.floor))
                    THEN Finish("passed", TRUE)
                    ELSE Verdict(FALSE)
  /\ UNCHANGED <<seen, lock, summary>>

\* NodeInstall.Run: the frozen form.  It fails unless the lockfile fits the manifest.
StartInstall ==
  /\ Running("install")
  /\ \/ ~Has(project.pm) /\ Missing
     \/ Has(project.pm) /\ ~project.manifest /\ Verdict(FALSE)
     \/ Has(project.pm) /\ project.manifest /\ lock = "current" /\ Verdict(TRUE)
     \/ Has(project.pm) /\ project.manifest /\ project.pm # "npm" /\ Verdict(FALSE)
     \/ /\ Has(project.pm) /\ project.manifest /\ project.pm = "npm"
        /\ at' = "installing" /\ UNCHANGED <<project, set, results, cancelled>>
  /\ UNCHANGED tree

\* Mutant: the failure of `npm ci` is reported as well.
EndInstallTwice ==
  /\ at = "installing" /\ at' = "between"
  /\ results' = Append(Append(results, Result("failed", FALSE)), Result("passed", TRUE))
  /\ lock' = "current"
  /\ UNCHANGED <<project, set, cancelled, files, seen, summary, measured>>

\* After `npm ci` failed, whatever the reason: `npm install`, which brings the lockfile
\* into line with the manifest.  A cancellation may come too late to stop it.
EndInstall ==
  /\ at = "installing"
  /\ \E ok \in BOOLEAN : lock' = (IF ok THEN "current" ELSE lock) /\ Verdict(ok)
  /\ UNCHANGED <<files, seen, summary, measured>>

\* NodeScript.Run.
RunScript ==
  /\ Running("script")
  /\ \/ ~Has(project.pm) /\ Missing /\ UNCHANGED files
     \/ Has(project.pm) /\ ~project.manifest /\ Verdict(FALSE) /\ UNCHANGED files
     \/ /\ Has(project.pm) /\ project.manifest /\ Turn.name \notin project.scripts
        /\ Finish("skipped", FALSE) /\ UNCHANGED files
     \/ /\ Has(project.pm) /\ project.manifest /\ Turn.name \in project.scripts
        /\ files' \in Leaves /\ \E ok \in BOOLEAN : Verdict(ok)
  /\ UNCHANGED <<seen, lock, summary, measured>>

\* readCoverageSummary: a figure of zero counts as none.
Read(s) == IF s > 0 THEN s ELSE Unmeasured

\* NodeTest.Run.  The tests may write the summary or leave the one that is there.
RunNodeTest ==
  /\ Running("nodetest")
  /\ \/ ~Has(project.pm) /\ Missing /\ UNCHANGED <<files, summary, measured>>
     \/ /\ Has(project.pm) /\ ~(project.manifest /\ "test" \in project.scripts)
        /\ Verdict(FALSE) /\ UNCHANGED <<files, summary, measured>>
     \/ /\ Has(project.pm) /\ project.manifest /\ "test" \in project.scripts
        /\ files' \in Leaves /\ measured' \in {{}, {0}, {1}, {2}}
        /\ \/ measured' = {} /\ summary' = summary
           \/ summary' \in measured'
        /\ \E ok \in BOOLEAN :
             IF ok /\ (project.floor = 0 \/ Read(summary') = Unmeasured \/ Read(summary') >= project.floor)
             THEN Finish("passed", TRUE)
             ELSE Verdict(FALSE)
  /\ UNCHANGED <<seen, lock>>

Cancel == /\ ~cancelled /\ cancelled' = TRUE /\ at \in {"between", "building", "installing"}
          /\ UNCHANGED <<project, at, set, results, tree>>

PersonAdds == /\ at \in {"between", "building", "installing"}
              /\ \E place \in PeopleWrite :
                   files' = files \cup {File("person", FALSE, "plain", place)}
              /\ files' # files
              /\ UNCHANGED <<project, at, set, results, cancelled, seen, lock, summary, measured>>

Next == \/ ChooseGates \/ NotRun \/ RunScan \/ RunFormat \/ RunVet \/ RunLint \/ RunSecurity \/ RunCommand
        \/ StartBuild \/ EndBuild \/ RunGoTest
        \/ StartInstall \/ EndInstall \/ RunScript \/ RunNodeTest \/ Cancel \/ PersonAdds

Spec == Init /\ [][Next]_vars
-----------------------------------------------------------------------------
\* Report.Passed, once the run is over.
Passed == at = "done" /\ \A i \in DOMAIN results : results[i].status # "failed"

\* Types.
TypeOK ==
  /\ IsProject(project) /\ cancelled \in BOOLEAN
  /\ at \in {"idle", "choosing", "between", "building", "installing", "done", "refused"}
  /\ Len(results) <= Len(set)
  /\ \A i \in DOMAIN results : results[i].gate = set[i].name
  /\ files \subseteq Files /\ seen \subseteq files
  /\ lock \in {"none", "current", "behind"} /\ summary \in Coverage /\ measured \subseteq Coverage \ {Unmeasured}

\* A report that lets a commit through comes of a run in which every required gate was
\* carried out and found nothing, wherever a cancellation fell and whatever was missing
\* (gates.go, Runner.Run and missing).
PassMeansRan ==
  Passed => \A i \in DOMAIN set : set[i].required => i \in DOMAIN results /\ results[i].ran

\* A credential in the session's work stops the commit, whichever set was chosen and
\* whatever it declares, if it is in a file that git lists under its own name and that
\* can be read: any other file is passed over (FromSpecs, gateSet; SecretScan.Run).
SecretsStop == Passed => \A f \in files : f.by = "session" /\ f.name = "plain" => ~f.leaks

\* A declaration with a gate in it that cannot be used is reported, and no other set is
\* run in its place; no two checks of a report go by one name (gateSet, execute.go:101;
\* FromSpecs).
UnusableReported ==
  ~project.inspection /\ at \notin {"idle", "choosing", "refused"}
     => /\ \A i, j \in DOMAIN set : set[i].name = set[j].name => i = j
        /\ Declares(project) => \A i \in DOMAIN project.specs : Validate(project.specs[i])

\* With a floor, no package of a Go project whose tests ran is below it when the report
\* passes, and one at least was measured; a Node project as a whole is not below it
\* (GoTest.Run; NodeTest.Run, for which a coverage of exactly zero counts as none).
FloorHolds ==
  Passed /\ project.floor > 0 /\ (\E i \in DOMAIN set : set[i].kind \in {"gotest", "nodetest"}) =>
    /\ \A c \in measured : c >= project.floor \/ (project.type = "node" /\ c = 0)
    /\ project.type = "go" => measured # {}
=============================================================================

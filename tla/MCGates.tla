------------------------------ MODULE MCGates ------------------------------
(***************************************************************************)
(* Small projects: Go and Node ones with every tool, or short of one;      *)
(* declarations that are usable, unusable, or empty.                       *)
(***************************************************************************)
EXTENDS Detection

Base == [type |-> "other", inspection |-> FALSE, doc |-> "absent", specs |-> <<>>, reported |-> <<>>, floor |-> 0,
         installed |-> {"git"}, manifest |-> FALSE, scripts |-> {}, pm |-> "npm", lock |-> "none",
         summary |-> Unmeasured]
Decl(n, c, r, s) == [name |-> n, command |-> c, required |-> r, skipIfMissing |-> s]

GoTools == {"git", "gofmt", "go", "golangci-lint", "gosec"}
GoProjects ==
  {[Base EXCEPT !.type = "go", !.floor = f, !.installed = t] :
     f \in Floors, t \in {GoTools} \cup {GoTools \ {x} : x \in GoTools}}

NodeShapes ==
  {[Base EXCEPT !.type = "node", !.floor = 2, !.installed = t, !.manifest = m, !.scripts = s, !.pm = p,
                !.lock = l, !.summary = c] :
     t \in {{"git", "npm", "pnpm"}, {"git"}}, m \in BOOLEAN, s \in {{"test", "build"}, {"lint"}},
     p \in {"npm", "pnpm"}, l \in {"none", "current", "behind"}, c \in {Unmeasured, 2}}
\* Without a lockfile the package manager is npm.
NodeProjects == {p \in NodeShapes : p.lock = "none" => p.pm = "npm"}

Declarations ==
  {<<>>, <<Decl("check", "make", TRUE, "")>>, <<Decl("check", "make", FALSE, "cc")>>,
   <<Decl("check", "make", TRUE, ""), Decl("docs", "mdbook", FALSE, "")>>,
   <<Decl("check", "make", TRUE, ""), Decl("", "mdbook", FALSE, "")>>,
   <<Decl("check", "", TRUE, "")>>, <<Decl("check", "make", TRUE, ""), Decl("check", "ninja", TRUE, "")>>,
   <<Decl("secrets", "true", TRUE, "")>>}
\* Projects for which something is declared by hand or detected, before or after.
BareProjects ==
  {[Base EXCEPT !.type = ty, !.inspection = i, !.installed = t \cup {"go"}] :
     ty \in {"go", "other"}, i \in BOOLEAN, t \in {{"git", "make"}, {"git", "make", "mdbook"}, {"make"}, {"git"}}}
\* What Claude reports: sets that can be used, and sets with gates that can not.
Reports == Declarations \cup
  {<<Decl("check", "make", TRUE, ""), Decl("docs", "", TRUE, "")>>,
   <<Decl("check", "make", TRUE, "cc"), Decl("docs", "blank", FALSE, "")>>}
MalformedProjects == {[Base EXCEPT !.type = "go", !.doc = "malformed", !.installed = GoTools]}

AllProjects == GoProjects \cup NodeProjects \cup BareProjects \cup MalformedProjects
\* Runnable is the library's selection.
ASSUME RunnableSelects == \A r \in Reports : Runnable(r) = SelectSeq(r, CanRun)

Recording == {File("project", l, "plain", "below") : l \in BOOLEAN}
=============================================================================

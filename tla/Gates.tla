------------------------------- MODULE Gates --------------------------------
(***************************************************************************)
(* What a verification round concludes: gate/select.go and importgraph.go  *)
(* choose the tests, the gates of gate/ report, gate/attribute.go says     *)
(* whose a failure is, and app/verifier.go makes the verdict of it.        *)
(*                                                                         *)
(* The world of a round is its change set, what the coverage map and the   *)
(* import graph know, and what is wrong with the tree.  Tool output is the *)
(* set of files it names; a test prints base names only, and a file is     *)
(* here what its base name tells, so two files may share one (Base).       *)
(***************************************************************************)
EXTENDS Integers, Sequences, FiniteSets, FiniteSetsExt

CONSTANTS Files, Packages, Tests,
          Kind,        \* per file: "code", "test" or "other" (not Go)
          Pkg, Base,   \* per file: its package and base name
          Imports,     \* per package: the packages it imports
          TestPkg, Covers,   \* per test: its package and the files it executes
          Changesets   \* the change sets considered

VARIABLES world, selection, step, verdict

vars == <<world, selection, step, verdict>>

None == "none"
IsGo(f) == Kind[f] # "other"
GoFiles(fs) == {f \in fs : IsGo(f)}

-----------------------------------------------------------------------------
\* The import graph.  Its edges are of the packages; a file made since it was built is not in
\* FilePackage (known).
TransitiveImporters(p) ==
    LET direct == [q \in Packages |-> {r \in Packages : q \in Imports[r]}]
        reach[n \in 0..Cardinality(Packages)] ==
            IF n = 0 THEN direct[p] ELSE reach[n-1] \cup UNION {direct[q] : q \in reach[n-1]}
    IN reach[Cardinality(Packages)]
Reaches(ps) == ps \cup UNION {TransitiveImporters(p) : p \in ps}

\* A world: changes, those still on disk, those with line ranges, the files FilePackage
\* knows (graph = FALSE: no graph), the coverage map, the tests the change broke, whether the
\* module builds, and whether it is a Go module.
Worlds ==
    {w \in [changes : Changesets, present : SUBSET Files, ranged : SUBSET Files,
            graph : BOOLEAN, known : SUBSET Files, cov : {"absent", "building", "ready", "error"},
            broken : SUBSET Tests, builds : BOOLEAN, module : BOOLEAN] :
        /\ w.present \subseteq w.changes /\ w.ranged \subseteq w.present
        /\ GoFiles(Files) \ w.known \subseteq w.changes /\ w.known \subseteq GoFiles(Files)
        /\ (~w.graph => w.known = GoFiles(Files))
        /\ \A t \in w.broken : Covers[t] \cap w.changes # {}
        /\ (~w.module => ~w.builds /\ w.broken = {})}

Init ==
    /\ world \in Worlds
    /\ selection = [level |-> None, tests |-> {}, packages |-> {}]
    /\ step = 0 /\ verdict = None

-----------------------------------------------------------------------------
\* select.go.
CoveringTests(f) == {t \in Tests : f \in Covers[t]}
CoverageUsable == world.cov \in {"ready", "error"}

\* Every changed range of every changed file has a covering test, or the tier says nothing.
SelectByLineSkipping ==
    [ok |-> CoverageUsable /\ world.ranged # {} /\ UNION {CoveringTests(f) : f \in world.ranged} # {},
     tests |-> UNION {CoveringTests(f) : f \in world.ranged}]
SelectByLine ==
    [ok |-> /\ CoverageUsable /\ world.changes # {} /\ world.changes = world.ranged
            /\ \A f \in world.changes : CoveringTests(f) # {},
     tests |-> UNION {CoveringTests(f) : f \in world.changes}]

SelectByImporters ==
    [ok |-> world.graph /\ world.changes \subseteq world.known,
     packages |-> Reaches({Pkg[f] : f \in world.changes})]

\* The directory of a file names its package whether or not the graph knows it.
FallbackPackages == {Pkg[f] : f \in GoFiles(world.changes)}

Select ==
    IF SelectByLine.ok THEN [level |-> "line", tests |-> SelectByLine.tests, packages |-> {}]
    ELSE IF SelectByImporters.ok
         THEN [level |-> "importer", tests |-> {}, packages |-> SelectByImporters.packages]
    ELSE [level |-> "package", tests |-> {}, packages |-> FallbackPackages]

\* Select fails with the store, unless a change without ranges comes before the first query;
\* Verify then runs with no package at all, where the change gate falls back to the packages.
FirstStep ==
    /\ step = 0 /\ verdict = None
    /\ \E err \in BOOLEAN :
         /\ err => world.cov = "error" /\ world.ranged # {}
         /\ ~err => world.cov # "error" \/ world.changes # world.ranged
         /\ selection' = IF err THEN [level |-> "package", tests |-> {}, packages |-> {}] ELSE Select
    /\ step' = 1 /\ UNCHANGED <<world, verdict>>

\* buildTestArgs, and what go test then runs.
Selected ==
    IF selection.level = "line" THEN selection.tests
    ELSE {t \in Tests : TestPkg[t] \in selection.packages}
NoArgs ==
    IF selection.level = "line" THEN selection.tests = {} ELSE selection.packages = {}

-----------------------------------------------------------------------------
\* Results of a gate.  frames and context are sets of base names; an error text or a reason
\* is a frame that names no file.
Text == "text"
Passed == [pass |-> TRUE, frames |-> {}, context |-> {}]
Abstained == Passed
Failed(frames, context) == [pass |-> FALSE, frames |-> frames, context |-> context]
ExaminedNothing == Failed({Text}, {})
Error == Failed({Text}, {})

\* TrimFailure: the lines that name a changed file, or else the head of the output.
TrimFailure(names) ==
    LET frames == names \cap {Base[f] : f \in world.changes}
    IN IF frames # {} THEN Failed(frames, {}) ELSE Failed({}, names)

\* What a failing test prints: its own test file, and perhaps a file it executes.
Prints(t) == {Base[f] : f \in {g \in Files : Kind[g] = "test" /\ Pkg[g] = TestPkg[t]}}

FormatGate(r) ==
    IF GoFiles(world.present) = {} THEN r = Passed ELSE r \in {Passed, Error}
ConventionGate(r) ==
    r \in {Passed, Abstained, Error, Failed({Base[f] : f \in world.changes}, {})}
BuildGate(r) ==
    IF ~world.module THEN r = Abstained
    ELSE IF world.builds THEN r = Passed
    ELSE \E names \in SUBSET {Base[f] : f \in Files} : r = TrimFailure(names)
\* The server is not installed, does not start, does not answer in time, or answers.
LSPGate(r) ==
    IF GoFiles(world.present) = {} THEN r = Abstained
    ELSE r \in {Failed({}, {}), ExaminedNothing, Passed,
                Failed({Base[f] : f \in GoFiles(world.present)}, {})}
GoTestGate(r) ==
    IF GoFiles(world.changes) = {} THEN r = Abstained
    ELSE IF NoArgs THEN r = ExaminedNothing
    ELSE IF ~world.module THEN r = ExaminedNothing
    ELSE IF Selected = {} THEN r \in {Abstained, ExaminedNothing}
    ELSE IF Selected \cap world.broken = {} THEN r = Passed
    ELSE \E more \in {{}} \cup {{Base[f]} : f \in UNION {Covers[t] : t \in Selected \cap world.broken}} :
            r = TrimFailure(more \cup UNION {Prints(t) : t \in Selected \cap world.broken})
\* Its verdicts are advisories; what fails is a revert that reached nothing, or jj.
FailToPassGate(r) ==
    LET code == {f \in world.changes : Kind[f] = "code"}
        tests == {f \in world.changes : Kind[f] = "test"}
    IN IF code = {} \/ tests = {} THEN r = Abstained
       ELSE r \in {Passed, Abstained, ExaminedNothing, Error}
CommandGate(r) ==
    r \in {Passed, Abstained, Error} \cup {TrimFailure(names) : names \in SUBSET {Base[f] : f \in Files}}

Steps == <<"format", "convention", "build", "lsp", "go-test", "fail-to-pass", "check">>
Reports(g, r) ==
    \/ g = "format" /\ FormatGate(r)
    \/ g = "convention" /\ ConventionGate(r)
    \/ g = "build" /\ BuildGate(r)
    \/ g = "lsp" /\ LSPGate(r)
    \/ g = "go-test" /\ GoTestGate(r)
    \/ g = "fail-to-pass" /\ FailToPassGate(r)
    \/ g = "check" /\ CommandGate(r)
Results == {Passed} \cup {Failed(f, {}) : f \in SUBSET ({Text} \cup {Base[g] : g \in Files})}
                    \cup {Failed({}, c) : c \in SUBSET {Base[g] : g \in Files}}

-----------------------------------------------------------------------------
\* attribute.go.
ReachablePackagesDirect == {Pkg[f] : f \in world.changes \cap world.known}
ReachablePackages == Reaches({Pkg[f] : f \in world.changes \cap world.known})
NamesReachableFile(name) ==
    \E f \in world.known : Pkg[f] \in ReachablePackages /\ Base[f] = name
Attributable(r) ==
    \/ r.frames # {} \/ ~world.graph \/ ReachablePackages = {}
    \/ \E name \in r.context : NamesReachableFile(name)

\* GateVerifier.Verify: the gates in order, up to the first that does not pass.
RunStep ==
    /\ step \in 1..Len(Steps) /\ verdict = None
    /\ \E r \in Results :
         /\ Reports(Steps[step], r)
         /\ IF ~r.pass
            THEN verdict' = (IF Attributable(r) THEN "failed" ELSE "unattributed") /\ UNCHANGED step
            ELSE IF step < Len(Steps) THEN step' = step + 1 /\ UNCHANGED verdict
            ELSE verdict' = "pass" /\ UNCHANGED step
    /\ UNCHANGED <<world, selection>>

Next == FirstStep \/ RunStep

-----------------------------------------------------------------------------
\* A round passes a change only if the module builds and no test the change broke was within
\* reach of the selection: at line level the whole map answers for every changed range, at
\* importer level every package that can see the change is run.
PassIsEarned ==
    verdict = "pass" /\ GoFiles(world.changes) # {} /\ world.module =>
        /\ world.builds
        /\ selection.level \in {"line", "importer"} => world.broken = {}

\* A test the change broke is the run's to answer for: when the graph knows every changed Go
\* file, its failure never stops the run as somebody else's tree (attribute.go:8).
BrokenIsOwned ==
    verdict = "unattributed" /\ Steps[step] = "go-test" /\ world.builds
      => ~(GoFiles(world.changes) \subseteq world.known)

\* Not so: the same for a change set that also holds a file made since the graph was built.
BrokenAlwaysOwned == ~(verdict = "unattributed" /\ Steps[step] = "go-test" /\ world.builds)
\* Not so: lsp.go:90 says of a server that is not installed that it is "not a failure the
\* model sees, because installing a language server is not work a run can do".
MissingServerSpared ==
    ~(verdict = "unattributed" /\ Steps[step] = "lsp")
=============================================================================

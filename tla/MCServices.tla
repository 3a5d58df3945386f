----------------------------- MODULE MCServices -----------------------------
(***************************************************************************)
(* Seven components that a run relies on: its undo, the gates' judgement   *)
(* (lint baselines, the coverage map, verdicts), the code index, the       *)
(* daemon and its projects, and a language server.  They share no state: a *)
(* behaviour is of one of them and `part' says which.  Each keeps its own  *)
(* names for its variables; two of them may share one.                     *)
(***************************************************************************)
EXTENDS Undo

CONSTANTS
    MaxChanges, MaxFaults, MaxCalls,   \* bounds of several parts
    PerFile, MaxLints,                 \* LintBaseline: findings of a file
    Sources, Packages, Tests,          \* Gates and Coverage: a Go module
    Kind, Pkg, Base, Imports, TestPkg, Covers, Changesets, MaxBuilds,
    Texts, Size, MaxFileBytes, MaxIndexBytesPerPass, MaxContentIndexBytes,   \* CodeIndex,
    QueryFiles, QueryTree, MaxEdited,                       \* under queries
    Starters, StartFiles, StartTree,                        \* and its first build
    Daemons, Pids, MaxSockets, MaxBorn, MaxCrashes,         \* Daemon
    Requests, RootOf, Roots, States, MaxUser, MaxTurns,     \* Projects
    Documents, MaxClients              \* Lsp

\* A Go module: files of packages, tests that execute files, of whose packages each has a test
\* file.  A test whose profile names no file has no rows to keep and is left out.
ASSUME ModuleAssumption ==
    /\ Pkg \in [Sources -> Packages] /\ TestPkg \in [Tests -> Packages]
    /\ Covers \in [Tests -> (SUBSET Sources) \ {{}}]
    /\ \A t \in Tests : \A f \in Covers[t] : Kind[f] # "other"
    /\ \A t \in Tests : \E f \in Sources : Kind[f] = "test" /\ Pkg[f] = TestPkg[t]

\* A pass of the index may write something; Start's goroutine and nobody are no client.
ASSUME IndexAssumption ==
    /\ MaxIndexBytesPerPass \in Nat \ {0}
    /\ (Threads \cup Starters) \cap {"start", "nobody"} = {}

\* A lock of the pool that is held by nobody.
ASSUME LspAssumption == MaxClients \in Nat /\ "nobody" \notin Threads

\* Names that are nobody's: of a process that is no daemon's.
ASSUME DaemonAssumption == Daemons \cap {"none", "stranger"} = {}

\* Every command names one root.
ASSUME ProjectsAssumption == RootOf \in [Requests -> Roots] /\ "none" \notin Requests

VARIABLES
    part,
    pc, calls, faults, changes, disk, proc,   \* shared names
    ids, begun, findings, compiles, batch, known, owner, since, firstLint, failed, lints,
    content, live, removed, store, mem, build, builds,
    world, selection, step, verdict,
    texts, rows, graph, edges, copied, building, initializing, mu, edgesMu, pass, query,
    file, files, listens, sockID, looked, born, record, ptyCall, sweep, crashes, displaced, missed,
    excused, struck,
    got, cache, index, sup, app, port, ready, threadLog, turn, down, closing, users, turns, lost,
    manifest, current, entry, client, started, job, closed, overlap

lintVars == <<ids, begun, findings, compiles, batch, known, owner, since, firstLint, failed, lints>>
coverageVars == <<content, live, removed, store, mem, build, builds>>
gatesVars == <<world, selection, step, verdict>>
indexVars == <<texts, rows, graph, edges, copied, building, initializing, mu, edgesMu, pass, query>>
daemonVars == <<file, files, listens, sockID, looked, born, record, ptyCall, sweep, crashes,
                displaced, missed, excused, struck>>
projectsVars == <<got, cache, index, sup, app, port, ready, threadLog, turn, down, closing, users,
                  turns, lost>>
lspVars == <<manifest, current, entry, client, started, job, closed, overlap>>
servicesVars ==
    <<part, vars, lintVars, coverageVars, gatesVars, indexVars, daemonVars, projectsVars, lspVars,
      pc, calls, faults, changes, disk, proc>>

-----------------------------------------------------------------------------
(* The values of the configuration *)

\* Gates: package q imports p; a test that reaches only p's file and one that reaches both;
\* test files, and a file that is not Go.
KindOf == [a |-> "code", at |-> "test", b |-> "code", bt |-> "test", n |-> "other"]
PkgOf == [a |-> "p", at |-> "p", b |-> "q", bt |-> "q", n |-> "p"]
BaseOf == [a |-> "a.go", at |-> "a_test.go", b |-> "b.go", bt |-> "b_test.go", n |-> "n.txt"]
ImportsOf == [p |-> {}, q |-> {"p"}]
TestPkgOf == [T1 |-> "p", T2 |-> "q"]
CoversOf == [T1 |-> {"a"}, T2 |-> {"a", "b"}]

\* CodeIndex: files of which a pass takes one, and a text too big to be read.
SizeOf == [a |-> 2, b |-> 2, big |-> 5]
TwoFiles == <<"a", "b">>
ThreeFiles == <<"a", "b", "a">>

\* Projects: three commands that open two projects.
RootsOf == [q1 |-> "a", q2 |-> "a", q3 |-> "b"]

-----------------------------------------------------------------------------
(* The components *)

\* Threads whose runs lint the same packages.
Lint == INSTANCE LintBaseline WITH
    Writers <- Threads, MaxEdits <- MaxChanges, runs <- begun, tree <- findings,
    baseline <- known, first <- firstLint, edits <- changes

\* Builds of the coverage map, with edits between their tests and faults.
Cov == INSTANCE Coverage WITH
    Files <- UNION {Covers[t] : t \in Tests}, MaxEdits <- MaxChanges, edits <- changes

\* Every state of a tree of packages, and the gates over it.
Gate == INSTANCE Gates WITH Files <- Sources

\* The code index, with edits and faults at any point: under the queries of the threads, and
\* in its first build, of several passes.
Index(Clients, Indexed, InitialTree) == INSTANCE CodeIndex WITH
    Files <- Indexed, Coarse <- FALSE, MaxEdits <- MaxEdited, tree <- texts, call <- query,
    edits <- changes

\* Daemons on one socket, some of which may be killed.
Dmn == INSTANCE Daemon WITH MaxFiles <- MaxSockets, call <- ptyCall

\* Commands that open projects over one model server.
Prj == INSTANCE Projects WITH log <- threadLog

\* Threads that use a language server, which crashes and is started again.
Srv == INSTANCE Lsp WITH
    Users <- Threads, Files <- Documents, Versioned <- TRUE

-----------------------------------------------------------------------------
NoLint == ids = 0 /\ begun = 0 /\ findings = 0 /\ compiles = 0 /\ batch = 0 /\ known = 0
    /\ owner = 0 /\ since = 0 /\ firstLint = 0 /\ failed = 0 /\ lints = 0
NoCoverage == content = 0 /\ live = 0 /\ removed = 0 /\ store = 0 /\ mem = 0 /\ build = 0
        /\ builds = 0
NoGates == world = 0 /\ selection = 0 /\ step = 0 /\ verdict = 0
NoIndex == texts = 0 /\ rows = 0 /\ graph = 0 /\ edges = 0 /\ copied = 0 /\ building = 0
     /\ initializing = 0 /\ mu = 0 /\ edgesMu = 0 /\ pass = 0 /\ query = 0
NoDaemon == file = 0 /\ files = 0 /\ listens = 0 /\ sockID = 0 /\ looked = 0 /\ born = 0
      /\ record = 0 /\ ptyCall = 0 /\ sweep = 0 /\ crashes = 0 /\ displaced = 0 /\ missed = 0
      /\ excused = 0 /\ struck = 0
NoProjects == got = 0 /\ cache = 0 /\ index = 0 /\ sup = 0 /\ app = 0 /\ port = 0 /\ ready = 0
        /\ threadLog = 0 /\ turn = 0 /\ down = 0 /\ closing = 0 /\ users = 0 /\ turns = 0
        /\ lost = 0
NoLsp == manifest = 0 /\ current = 0 /\ entry = 0 /\ client = 0 /\ started = 0 /\ job = 0
   /\ closed = 0 /\ overlap = 0

PartInit ==
    \/ part = "undo"
       /\ NoLint /\ NoCoverage /\ NoGates /\ NoIndex /\ NoDaemon /\ NoProjects /\ NoLsp
       /\ pc = 0 /\ calls = 0 /\ faults = 0 /\ changes = 0 /\ disk = 0 /\ proc = 0
    \/ part = "lint" /\ Lint!Init
       /\ NoCoverage /\ NoGates /\ NoIndex /\ NoDaemon /\ NoProjects /\ NoLsp /\ pc = 0
       /\ calls = 0 /\ faults = 0 /\ disk = 0 /\ proc = 0
    \/ part = "coverage" /\ Cov!Init
       /\ NoLint /\ NoGates /\ NoIndex /\ NoDaemon /\ NoProjects /\ NoLsp /\ pc = 0
       /\ calls = 0 /\ proc = 0
    \/ part = "verdict" /\ Gate!Init
       /\ NoLint /\ NoCoverage /\ NoIndex /\ NoDaemon /\ NoProjects /\ NoLsp /\ pc = 0
       /\ calls = 0 /\ faults = 0 /\ changes = 0 /\ disk = 0 /\ proc = 0
    \/ part = "index" /\ Index(Threads, QueryFiles, QueryTree)!Init
       /\ NoLint /\ NoCoverage /\ NoGates /\ NoDaemon /\ NoProjects /\ NoLsp /\ disk = 0
       /\ proc = 0
    \/ part = "build" /\ Index(Starters, StartFiles, StartTree)!Init
       /\ NoLint /\ NoCoverage /\ NoGates /\ NoDaemon /\ NoProjects /\ NoLsp /\ disk = 0
       /\ proc = 0
    \/ part = "daemon" /\ Dmn!Init
       /\ NoLint /\ NoCoverage /\ NoGates /\ NoIndex /\ NoProjects /\ NoLsp /\ calls = 0
       /\ faults = 0 /\ changes = 0 /\ disk = 0
    \/ part = "projects" /\ Prj!Init
       /\ NoLint /\ NoCoverage /\ NoGates /\ NoIndex /\ NoDaemon /\ NoLsp /\ calls = 0
       /\ faults = 0 /\ changes = 0 /\ disk = 0
    \/ part = "lsp" /\ Srv!Init
       /\ NoLint /\ NoCoverage /\ NoGates /\ NoIndex /\ NoDaemon /\ NoProjects /\ faults = 0
       /\ changes = 0 /\ proc = 0

PartNext ==
    \/ part = "lint" /\ Lint!Next
       /\ UNCHANGED <<part, coverageVars, gatesVars, indexVars, daemonVars, projectsVars, lspVars,
                    pc, calls, faults, disk, proc>>
    \/ part = "coverage" /\ Cov!Next
       /\ UNCHANGED <<part, lintVars, gatesVars, indexVars, daemonVars, projectsVars, lspVars, pc,
                    calls, proc>>
    \/ part = "verdict" /\ Gate!Next
       /\ UNCHANGED <<part, lintVars, coverageVars, indexVars, daemonVars, projectsVars, lspVars,
                    pc, calls, faults, changes, disk, proc>>
    \/ part = "index" /\ Index(Threads, QueryFiles, QueryTree)!Next
       /\ UNCHANGED <<part, lintVars, coverageVars, gatesVars, daemonVars, projectsVars, lspVars,
                    disk, proc>>
    \/ part = "build" /\ Index(Starters, StartFiles, StartTree)!Next
       /\ UNCHANGED <<part, lintVars, coverageVars, gatesVars, daemonVars, projectsVars, lspVars,
                    disk, proc>>
    \/ part = "daemon" /\ Dmn!Next
       /\ UNCHANGED <<part, lintVars, coverageVars, gatesVars, indexVars, projectsVars, lspVars,
                    calls, faults, changes, disk>>
    \/ part = "projects" /\ Prj!Next
       /\ UNCHANGED <<part, lintVars, coverageVars, gatesVars, indexVars, daemonVars, lspVars,
                    calls, faults, changes, disk>>
    \/ part = "lsp" /\ Srv!Next
       /\ UNCHANGED <<part, lintVars, coverageVars, gatesVars, indexVars, daemonVars,
                    projectsVars, faults, changes, proc>>

ServicesInit == Init /\ PartInit
ServicesNext ==
    \/ /\ part = "undo" /\ Next
       /\ UNCHANGED <<part, lintVars, coverageVars, gatesVars, indexVars, daemonVars,
                      projectsVars, lspVars, pc, calls, faults, changes, disk, proc>>
    \/ PartNext /\ UNCHANGED vars

ServicesSpec == ServicesInit /\ [][ServicesNext]_servicesVars

-----------------------------------------------------------------------------
\* Gate verdicts are about the run: what the run found already there is not held against it
\* (LintBaseline!InheritedSpared), an index called ready covers the tests it claims
\* (Coverage!ReadyBacked), a pass is of the tests the change can reach (Gates!PassIsEarned)
\* and a broken package is put down to the run only when its change reaches it
\* (Gates!BrokenIsOwned).
VerdictsEarned ==
    /\ part = "lint" => Lint!InheritedSpared
    /\ part = "coverage" => Cov!ReadyBacked
    /\ part = "verdict" => Gate!PassIsEarned /\ Gate!BrokenIsOwned

\* A query of the code index that does not say it is incomplete answers from the tree as it
\* is, the first build reaches every file, and no query waits for the graph to be built
\* (CodeIndex!SearchCurrent, StartCovers, NoQueryBehindInit).
IndexCurrent ==
    /\ part = "index" => Index(Threads, QueryFiles, QueryTree)!IndexSound
    /\ part = "build" => Index(Starters, StartFiles, StartTree)!IndexSound

\* One of each server and none left behind: a daemon that is served keeps its socket and a
\* sweep kills nobody else's program (Daemon!SocketKept, SweepSound); a root has one instance
\* and no model server outlives its supervisor (Projects!OneInstance, NoServerLeft); a
\* workspace has one language server at a time (Lsp!OneServer).
ServersSound ==
    /\ part = "daemon" => Dmn!SocketKept /\ Dmn!SweepSound
    /\ part = "projects" => Prj!OneInstance /\ Prj!NoServerLeft
    /\ part = "lsp" => Srv!OneServer

\* The diagnostics a caller is given are of the text it asked about
\* (Lsp!DiagnosticsCurrent).
DiagnosticsCurrent == part = "lsp" => Srv!DiagnosticsCurrent
=============================================================================

------------------------------ MODULE Coverage ------------------------------
(***************************************************************************)
(* The coverage map that test selection reads: gate/coverage_adapter.go.   *)
(* A build lists the module's tests, measures those whose covered files    *)
(* changed since they were measured, writes their rows to the code index   *)
(* and keeps the hashes of the covered files in a manifest on disk.        *)
(*                                                                         *)
(* The content of a file is a version; a hash of it is that version.  The  *)
(* rows of a test are the versions of its files when it ran.               *)
(***************************************************************************)
EXTENDS Integers, FiniteSets, Functions

CONSTANTS Tests, Files,
          Covers,             \* per test: the files its profile names
          MaxEdits, MaxBuilds, MaxFaults   \* bounds

None == <<>>   \* no rows

VARIABLES
    content,  \* per file: its version
    live,     \* the tests the module has
    removed,  \* tests it once had and then had not
    store,    \* the index: per test, the versions its rows were measured at
    disk,     \* the manifest on file
    mem,      \* CoverageAdapter.complete and loaded
    build,    \* Refresh in progress: its manifest, its jobs and where it is
    builds, edits, faults

vars == <<content, live, removed, store, disk, mem, build, builds, edits, faults>>

\* Tests: per measured test, the hashes of its files; of: the listing Complete speaks of.
NoManifest == [tests |-> <<>>, complete |-> FALSE, of |-> {}]
Idle == [at |-> "idle", man |-> NoManifest, jobs |-> {}, todo |-> {}, results |-> <<>>,
         failed |-> FALSE, wrote |-> FALSE]
Unloaded == [loaded |-> FALSE, complete |-> FALSE, of |-> {}]
Now(t) == [f \in Covers[t] |-> content[f]]
With(of, t, its) == [u \in DOMAIN of \cup {t} |-> IF u = t THEN its ELSE of[u]]

Init ==
    /\ content = [f \in Files |-> 1] /\ live \in SUBSET Tests /\ removed = {}
    /\ store = [t \in Tests |-> None] /\ disk = NoManifest /\ mem = Unloaded
    /\ build = Idle /\ builds = 0 /\ edits = 0 /\ faults = 0

-----------------------------------------------------------------------------
\* The tree moves under the map: at any time, a build included.
EditFile(f) ==
    /\ edits < MaxEdits /\ edits' = edits + 1
    /\ content' = [content EXCEPT ![f] = IF @ = 1 THEN 2 ELSE 1]
    /\ UNCHANGED <<live, removed, store, disk, mem, build, builds, faults>>
EditTests(t) ==
    /\ edits < MaxEdits /\ edits' = edits + 1
    /\ live' = IF t \in live THEN live \ {t} ELSE live \cup {t}
    /\ removed' = removed \cup (live \ live')
    /\ UNCHANGED <<content, store, disk, mem, build, builds, faults>>

\* CoverageReady: what this process knows, or the manifest an earlier one left.
Loaded == IF mem.loaded THEN mem ELSE [loaded |-> TRUE, complete |-> disk.complete, of |-> disk.of]
Ready == Loaded.complete
CoverageReady ==
    /\ ~mem.loaded /\ mem' = Loaded
    /\ UNCHANGED <<content, live, removed, store, disk, build, builds, edits, faults>>

TestNeedsRerun(man, t) == t \notin DOMAIN man.tests \/ man.tests[t] # Now(t)

\* Refresh up to the first test: load, list, plan.
BeginRefresh ==
    /\ build.at = "idle" /\ builds < MaxBuilds /\ builds' = builds + 1
    /\ build' = [Idle EXCEPT !.at = "prune", !.man = disk, !.jobs = live,
                             !.todo = {t \in live : TestNeedsRerun(disk, t)}]
    /\ UNCHANGED <<content, live, removed, store, disk, mem, edits, faults>>

\* prune: the rows of a test the module no longer has, then its entry in the manifest.
Prune(t) ==
    /\ build.at = "prune" /\ t \in DOMAIN build.man.tests \ build.jobs
    /\ store' = [store EXCEPT ![t] = None]
    /\ build' = [build EXCEPT !.man.tests = Restrict(@, DOMAIN @ \ {t}), !.wrote = TRUE]
    /\ UNCHANGED <<content, live, removed, disk, mem, builds, edits, faults>>
Pruned ==
    /\ build.at = "prune" /\ DOMAIN build.man.tests \subseteq build.jobs
    /\ build' = [build EXCEPT !.at = "run"]
    /\ UNCHANGED <<content, live, removed, store, disk, mem, builds, edits, faults>>

\* A worker runs one test: it passes and its profile is parsed, or it does not run.
RunCoverageJob(t, ok) ==
    /\ build.at = "run" /\ t \in build.todo
    /\ build' = [build EXCEPT !.todo = @ \ {t},
                              !.results = IF ok THEN With(@, t, Now(t)) ELSE @,
                              !.failed = @ \/ ~ok]
    /\ UNCHANGED <<content, live, removed, store, disk, mem, builds, edits, faults>>
\* The feeder is done or out of budget.  The tests it leaves are deferred, not failed.
FeedingEnds ==
    /\ build.at = "run" /\ build' = [build EXCEPT !.at = "record", !.todo = {}]
    /\ UNCHANGED <<content, live, removed, store, disk, mem, builds, edits, faults>>

\* recordResults, one test: the files are hashed now, and the rows are of the run.
RecordResult(t) ==
    /\ build.at = "record" /\ t \in DOMAIN build.results
    /\ store' = [store EXCEPT ![t] = build.results[t]]
    /\ build' = [build EXCEPT !.results = Restrict(@, DOMAIN @ \ {t}), !.wrote = TRUE,
                              !.man.tests = With(@, t, Now(t))]
    /\ UNCHANGED <<content, live, removed, disk, mem, builds, edits, faults>>

CompleteOfAll(b) == b.jobs # {} /\ ~b.failed
Complete(b) == b.jobs # {} /\ ~b.failed /\ b.jobs \subseteq DOMAIN b.man.tests

\* finish: the flag in memory first, then the manifest if anything changed.
Finish ==
    /\ build.at = "record" /\ build.results = <<>>
    /\ LET complete == Complete(build) IN
       /\ mem' = [loaded |-> TRUE, complete |-> complete, of |-> build.jobs]
       /\ disk' = IF build.wrote \/ build.man.complete # complete
                  THEN [build.man EXCEPT !.complete = complete, !.of = build.jobs] ELSE disk
    /\ build' = Idle
    /\ UNCHANGED <<content, live, removed, store, builds, edits, faults>>

\* The index refuses a write or a tool fails (Refresh returns), or the process ends.
RefreshFails ==
    /\ build.at # "idle" /\ faults < MaxFaults /\ faults' = faults + 1
    /\ build' = Idle
    /\ UNCHANGED <<content, live, removed, store, disk, mem, builds, edits>>
Restart ==
    /\ faults < MaxFaults /\ faults' = faults + 1
    /\ build' = Idle /\ mem' = Unloaded
    /\ UNCHANGED <<content, live, removed, store, disk, builds, edits>>

Next ==
    \/ \E f \in Files : EditFile(f)
    \/ CoverageReady \/ BeginRefresh \/ Pruned \/ FeedingEnds \/ Finish \/ RefreshFails \/ Restart
    \/ \E t \in Tests : EditTests(t) \/ Prune(t) \/ RecordResult(t)
                          \/ \E ok \in BOOLEAN : RunCoverageJob(t, ok)

-----------------------------------------------------------------------------
\* A map that calls itself ready has rows for every test of the listing it was completed
\* over, through edits during a build, a spent budget, failed writes and restarts
\* (coverage_adapter.go:57); a test that was removed and came back is the exception below.
ReadyBacked == Ready => \A t \in Loaded.of \ removed : store[t] # None

\* Not so, each by a few steps: the exception (prune clears the rows, the build then fails,
\* and the manifest on file still vouches for them) ...
ReadyBackedAlways == Ready => \A t \in Loaded.of : store[t] # None
\* ... "Refresh only re-runs a test whose covered files actually changed": the hash is taken
\* after the run, so an edit between the two is never measured ...
MeasuredAsHashed ==
    build.at = "idle" => \A t \in DOMAIN disk.tests : store[t] # None => store[t] = disk.tests[t]
\* ... and "CoverageReady is false until every test in the module has been measured".
ReadyForAll == Ready => \A t \in live : store[t] # None
=============================================================================

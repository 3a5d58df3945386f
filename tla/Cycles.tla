------------------------------- MODULE Cycles -------------------------------
(***************************************************************************)
(* A cycle run on a thread: the phases of the built-in fix cycle           *)
(* (cycle/fix.go), the runner that drives each up to its attempts and      *)
(* judges it (cycle/run.go), the exit conditions read from the tree        *)
(* (cycle/conditions.go, probe.go), the ledger the tools of a phase write  *)
(* (ledger.go, tools/hypothesis.go, tools/sweep.go), the driver that gives *)
(* each attempt a thread (app/cycle.go) and the manager around it          *)
(* (driveCycle).  A test is absent, fails or passes; a change set names,   *)
(* per file, the tests its changed lines declare; a sweep has sites.       *)
(***************************************************************************)
EXTENDS Naturals, Sequences, FiniteSets, TLC

CONSTANTS
    Tests,        \* test functions
    FileOf,       \* the test file of each
    Sites,        \* places the cause reaches
    MaxAttempts,  \* Phase.MaxAttempts
    MaxRuns,      \* bound: prompts the thread runs as a cycle
    MaxRows       \* bound: ledger rows a run records

Files == {FileOf[t] : t \in Tests}
Phases == <<"reproduce", "fix", "generalize">>
MustBeComplete(i) == Phases[i] \in {"fix", "generalize"}

VARIABLES
    pc,         \* "idle", "driving", "judging": where the runner is
    phase, attempt,
    state,      \* the thread's state as its log has it
    canceled,   \* the run's context has ended
    tree,       \* each test on the tree: "absent", "fails" or "passes"
    left,       \* sites the sweep still matches
    changes,    \* out.Changes: files changed, and the tests on their changed lines
    logs,       \* per phase and attempt: the change set its thread's log folds to
    ledger,     \* hypotheses, sweep recorded, sites dismissed, artifact named and in the change set
    complete,   \* the attempt's loop ended on its own completion
    spent, counted,   \* spend of the attempts, and what the manager added up
    runs,
    seen        \* ghost: what the exit conditions of this run read

vars == <<pc, phase, attempt, state, canceled, tree, left, changes, logs, ledger, complete,
          spent, counted, runs, seen>>

NoChanges == [f \in {} |-> {}]
NoRows == [rows |-> {}, swept |-> FALSE, dismissed |-> {}, artifact |-> FALSE]
Unread == [reproduced |-> {}, fixed |-> {}, green |-> FALSE, untriaged |-> {}]

Init ==
    /\ pc = "idle" /\ phase = 1 /\ attempt = 1 /\ state = "idle" /\ canceled = FALSE
    /\ tree = [t \in Tests |-> "absent"] /\ left = Sites
    /\ changes = NoChanges /\ ledger = NoRows
    /\ logs = [i \in 1..Len(Phases) |-> [n \in 1..MaxAttempts |-> NoChanges]]
    /\ complete = FALSE /\ spent = 0 /\ counted = 0 /\ runs = 0 /\ seen = Unread

\* driveCycle and Run: the ledger and the change set begin empty
Begin ==
    /\ pc = "idle" /\ runs < MaxRuns
    /\ runs' = runs + 1 /\ canceled' = FALSE
    /\ state' = "working"
    /\ pc' = "driving" /\ phase' = 1 /\ attempt' = 1
    /\ changes' = NoChanges /\ ledger' = NoRows /\ complete' = FALSE /\ seen' = Unread
    /\ spent' = 0 /\ counted' = 0
    /\ UNCHANGED <<tree, left, logs>>

-----------------------------------------------------------------------------
(* What the phase's model does with the tools it was given *)

\* a new entry of a path replaces the one before it (mergeChanges, ChangeSet)
mergeChanges(into, from) ==
    [f \in DOMAIN into \cup DOMAIN from |-> IF f \in DOMAIN from THEN from[f] ELSE into[f]]

Log == logs[phase][attempt]

\* an edit of a test file, which reads as the tests on the lines it changed
EditTest ==
    /\ pc = "driving" /\ ~canceled
    /\ \E t \in Tests, outcome \in {"fails", "passes"} :
        /\ tree[t] # outcome
        /\ tree' = [tree EXCEPT ![t] = outcome]
        /\ logs' = [logs EXCEPT ![phase][attempt] = mergeChanges(Log, FileOf[t] :> {t})]
    /\ UNCHANGED <<pc, phase, attempt, state, canceled, left, changes, ledger, complete,
                   spent, counted, runs, seen>>

\* an edit of the code: any test may turn, and sites may be fixed
EditCode ==
    /\ pc = "driving" /\ ~canceled
    /\ \/ \E t \in Tests : tree[t] = "fails" /\ tree' = [tree EXCEPT ![t] = "passes"] /\ UNCHANGED left
       \/ \E s \in left : left' = left \ {s} /\ UNCHANGED tree
    /\ UNCHANGED <<pc, phase, attempt, state, canceled, changes, logs, ledger, complete,
                   spent, counted, runs, seen>>

\* RecordHypothesis refuses a row the ledger holds; a row is its cause and verdict
Hypothesize ==
    /\ pc = "driving" /\ ~canceled
    /\ \E row \in 1..MaxRows : row \notin ledger.rows /\ ledger' = [ledger EXCEPT !.rows = @ \cup {row}]
    /\ UNCHANGED <<pc, phase, attempt, state, canceled, tree, left, changes, logs, complete,
                   spent, counted, runs, seen>>

\* RecordSweep: what an earlier call of the pattern dismissed or named stays
MergeReplacing(rows, sites, artifact) == [rows EXCEPT !.swept = TRUE, !.dismissed = sites, !.artifact = artifact]
RecordSweep(rows, sites, artifact) ==
    [rows EXCEPT !.swept = TRUE, !.dismissed = @ \cup sites, !.artifact = @ \/ artifact]

Sweep ==
    /\ pc = "driving" /\ ~canceled /\ Phases[phase] = "generalize"
    /\ \E sites \in {{}} \cup {{s} : s \in Sites}, artifact \in BOOLEAN :
        ledger' = RecordSweep(ledger, sites, artifact)
    /\ ledger' # ledger
    /\ UNCHANGED <<pc, phase, attempt, state, canceled, tree, left, changes, logs, complete,
                   spent, counted, runs, seen>>

\* Drive returns: a gated loop completes only with the tests it touched passing
DriveEnds ==
    /\ pc = "driving" /\ ~canceled
    /\ complete' \in BOOLEAN
    /\ complete' /\ MustBeComplete(phase) =>
         \A f \in DOMAIN Log : \A t \in Log[f] : tree[t] # "fails"
    \* the change set is folded from the whole log of the attempt's thread
    /\ changes' = mergeChanges(changes, Log)
    /\ spent' = spent + 1
    /\ pc' = "judging"
    /\ UNCHANGED <<phase, attempt, state, canceled, tree, left, logs, ledger, counted, runs, seen>>

-----------------------------------------------------------------------------
(* The exit conditions *)

ChangedTests == UNION {changes[f] : f \in DOMAIN changes}
Failing == {t \in ChangedTests : tree[t] # "passes"}

ArtifactFails == ChangedTests # {} /\ Failing # {}
ArtifactPasses == ChangedTests # {} /\ Failing = {}
GatesGreen == complete

untriaged == left \ ledger.dismissed
\* the artifact has to be a file of the change set
durableArtifact == ledger.artifact /\ DOMAIN changes # {}
SweepAccounted == ledger.swept /\ (untriaged = {} \/ durableArtifact)

HoldsUngated(i) ==
    CASE Phases[i] = "reproduce" -> ArtifactFails
      [] Phases[i] = "fix" -> ArtifactPasses
      [] OTHER -> SweepAccounted
Holds(i) ==
    CASE Phases[i] = "reproduce" -> ArtifactFails
      [] Phases[i] = "fix" -> ArtifactPasses /\ GatesGreen
      [] OTHER -> SweepAccounted

Reading ==
    CASE Phases[phase] = "reproduce" -> [seen EXCEPT !.reproduced = Failing]
      [] Phases[phase] = "fix" -> [seen EXCEPT !.fixed = ChangedTests \ Failing, !.green = complete]
      [] OTHER -> [seen EXCEPT !.untriaged = IF durableArtifact THEN {} ELSE untriaged]

\* finishCycle: the run's last state, and what it cost
Finish(s) ==
    /\ pc' = "idle" /\ state' = s /\ counted' = spent
    /\ UNCHANGED <<phase, attempt>>

Judge ==
    /\ pc = "judging" /\ ~canceled
    /\ seen' = IF Holds(phase) THEN Reading ELSE seen
    /\ \/ Holds(phase) /\ phase = Len(Phases) /\ Finish("done")
       \/ /\ Holds(phase) /\ phase < Len(Phases)
          /\ phase' = phase + 1 /\ attempt' = 1 /\ pc' = "driving" /\ UNCHANGED <<state, counted>>
       \/ /\ ~Holds(phase) /\ attempt < MaxAttempts
          /\ attempt' = attempt + 1 /\ pc' = "driving" /\ UNCHANGED <<phase, state, counted>>
       \/ ~Holds(phase) /\ attempt = MaxAttempts /\ Finish("failed")
    /\ UNCHANGED <<canceled, tree, left, changes, logs, ledger, complete, spent, runs>>

\* a loop, a probe or a sweep cannot run: Run returns no outcome, and failCycle sets the
\* state, which a canceled context refuses
Broken ==
    /\ pc # "idle"
    /\ pc' = "idle"
    /\ state' = IF canceled THEN state ELSE "failed"
    /\ UNCHANGED <<phase, attempt, canceled, tree, left, changes, logs, ledger, complete,
                   spent, counted, runs, seen>>

Cancel ==
    /\ pc # "idle" /\ ~canceled /\ canceled' = TRUE
    /\ UNCHANGED <<pc, phase, attempt, state, tree, left, changes, logs, ledger, complete,
                   spent, counted, runs, seen>>

Next ==
    \/ Begin \/ EditTest \/ EditCode \/ Hypothesize \/ Sweep \/ DriveEnds
    \/ Judge \/ Broken \/ Cancel

Spec == Init /\ [][Next]_vars

-----------------------------------------------------------------------------
(***************************************************************************)
(* A cycle is done only on what the harness read: a test its changes       *)
(* declare failed first, later the tests its changes declare passed with   *)
(* the fix phase's gates green, and at the end every site of the recorded  *)
(* sweep was fixed, dismissed or answered by an artifact (finishCycle:     *)
(* never the model's account of itself).                                   *)
(***************************************************************************)
DoneEarned ==
    state = "done" =>
        seen.reproduced # {} /\ seen.fixed # {} /\ seen.green /\ seen.untriaged = {} /\ ledger.swept

(***************************************************************************)
(* Within a run the ledger only grows: a site once dismissed is not asked  *)
(* about again, whatever sweep calls follow (RecordSweep).                 *)
(***************************************************************************)
LedgerKept ==
    runs' = runs => /\ ledger.rows \subseteq ledger'.rows
                    /\ ledger.dismissed \subseteq ledger'.dismissed
                    /\ (ledger.artifact => ledger'.artifact)
LedgerGrows == [][LedgerKept]_vars

\* fix.go: the failing test the reproduce phase wrote is the one that passes
ReproducedPasses == state = "done" => \A t \in seen.reproduced : tree[t] = "passes"

\* a thread that runs nothing is not left reading "working"
NoStaleWorking == pc = "idle" => state # "working"

\* the manager counts what every attempt spent
SpendCounted == pc = "idle" => counted = spent

\* CycleDriver: every phase runs in its own thread, which keeps earlier transcripts out
PhaseThreadFresh == [][Begin => \A i \in 1..Len(Phases) : logs[i][1] = NoChanges]_vars
=============================================================================

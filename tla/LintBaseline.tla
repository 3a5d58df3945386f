---------------------------- MODULE LintBaseline ----------------------------
(***************************************************************************)
(* Which findings of the linter are a run's own: gate/lint.go over the run *)
(* identities of gate/runscope.go.  The gate lints whole packages, so it   *)
(* reports on files the run never wrote, and one baseline, kept under the  *)
(* identity of the run that was linted last, tells what was there before   *)
(* from what the run did.                                                  *)
(*                                                                         *)
(* A finding is a pair of its file and a number.  The change-gate runner   *)
(* lints one batch at a time and reads the identity before it lints.       *)
(***************************************************************************)
EXTENDS Integers, FiniteSets

CONSTANTS Writers, Files, PerFile,
          MaxRuns, MaxEdits, MaxLints   \* bounds

Findings == Files \X (1..PerFile)
On(files) == files \X (1..PerFile)
NoRun == 0

VARIABLES
    ids,       \* RunScope.ids; NoRun for a writer that has begun none
    runs,      \* run identities handed out
    tree,      \* what the linter would find now
    compiles,  \* the packages type-check
    batch,     \* the batch at the gate: its writer's run and changed files
    baseline,  \* LintGate.baseline
    owner,     \* LintGate.baselineRun
    since,     \* per run: neighbor findings present at every lint of it so far
    first,     \* per run: what its first lint found
    failed,    \* per run: the findings its last lint failed on
    lints, edits

vars == <<ids, runs, tree, compiles, batch, baseline, owner, since, first, failed, lints, edits>>

NoBatch == [run |-> NoRun, changed |-> {}, open |-> FALSE]
Unlinted == [seen |-> FALSE, found |-> {}]

Init ==
    /\ ids = [w \in Writers |-> NoRun] /\ runs = 0
    /\ tree \in SUBSET Findings /\ compiles = TRUE
    /\ batch = NoBatch /\ baseline = {} /\ owner = NoRun
    /\ since = [r \in 1..MaxRuns |-> {}] /\ first = [r \in 1..MaxRuns |-> Unlinted]
    /\ failed = [r \in 1..MaxRuns |-> {}]
    /\ lints = 0 /\ edits = 0

\* RunScope.Begin, when a thread starts a run.
Begin(w) ==
    /\ runs < MaxRuns
    /\ runs' = runs + 1
    /\ ids' = [ids EXCEPT ![w] = runs + 1]
    /\ UNCHANGED <<tree, compiles, batch, baseline, owner, since, first, failed, lints, edits>>

\* Somebody writes a file: findings come and go anywhere in the package.
Edit ==
    /\ edits < MaxEdits
    /\ edits' = edits + 1
    /\ tree' \in {tree \cup {f} : f \in Findings} \cup {tree \ {f} : f \in Findings}
    /\ compiles' \in BOOLEAN
    /\ UNCHANGED <<ids, runs, batch, baseline, owner, since, first, failed, lints>>

\* BuildRunFunc: RunScope.Current of the batch's writer, then the gates.
OpenBatch(w, files) ==
    /\ ~batch.open /\ lints < MaxLints /\ lints' = lints + 1
    /\ batch' = [run |-> ids[w], changed |-> files, open |-> TRUE]
    /\ UNCHANGED <<ids, runs, tree, compiles, baseline, owner, since, first, failed, edits>>

HasBaseline(run) == owner = run
InBaseline(run, f) == HasBaseline(run) /\ f \in baseline

\* The findings that fail the gate: those on the changed files, and the neighbors' that are
\* neither in the baseline nor part of the run's first look.
FailuresNoFirstLook(run, changed) ==
    (tree \cap On(changed)) \cup {f \in tree \ On(changed) : run # NoRun /\ ~InBaseline(run, f)}
Failures(run, changed) ==
    LET firstLint == run # NoRun /\ ~HasBaseline(run)
    IN (tree \cap On(changed))
          \cup {f \in tree \ On(changed) : run # NoRun /\ ~firstLint /\ ~InBaseline(run, f)}

RecordBaseline(run) ==
    IF run = NoRun THEN UNCHANGED <<baseline, owner>>
    ELSE /\ owner' = run
         /\ baseline' = IF owner = run THEN baseline \cup tree ELSE tree

\* LintGate.Run and lintFailures.  A package that does not type-check is not read at all.
Lint ==
    /\ batch.open /\ batch' = NoBatch
    /\ LET r == batch.run IN
       IF ~compiles
       THEN UNCHANGED <<baseline, owner, since, first, failed>>
       ELSE /\ RecordBaseline(r)
            /\ IF r = NoRun THEN UNCHANGED <<since, first, failed>>
               ELSE LET there == tree \ On(batch.changed) IN
                    /\ since' = [since EXCEPT ![r] = IF first[r].seen THEN @ \cap there ELSE there]
                    /\ first' = [first EXCEPT ![r] = IF @.seen THEN @ ELSE [seen |-> TRUE, found |-> tree]]
                    /\ failed' = [failed EXCEPT ![r] = Failures(r, batch.changed)]
    /\ UNCHANGED <<ids, runs, tree, compiles, lints, edits>>

Next ==
    \/ \E w \in Writers : Begin(w) \/ \E files \in (SUBSET Files) \ {{}} : OpenBatch(w, files)
    \/ Edit \/ Lint

-----------------------------------------------------------------------------
\* A neighbor's finding that has been there at every lint of a run, the first one included,
\* never fails that run, however the lints of other runs come between (lint.go:215).
InheritedSpared == \A r \in 1..MaxRuns : since[r] \cap failed[r] = {}

\* Not so: lint.go:215 calls a finding absent from the run's starting point "the run's own
\* work", which "reaches the run as a failure".  Every lint adds what it found to the baseline,
\* so the second lint that sees it passes, and a lint of another run in between empties it.
CausedFails ==
    [][\A r \in 1..MaxRuns :
          batch.open /\ ~batch'.open /\ batch.run = r /\ first[r].seen /\ compiles
             => tree \ first[r].found \subseteq failed'[r]]_vars
=============================================================================

-------------------------------- MODULE Undo --------------------------------
(***************************************************************************)
(* Checkpoints and undo: the jj operations a run captures before its first *)
(* turn and after each edit (internal/agent/loop.go), the edit points the  *)
(* daemon folds out of the thread's log (internal/daemon/thread.go), and   *)
(* the restore that rewinds repositories to them while other threads write *)
(* (internal/daemon/manager.go).                                           *)
(*                                                                         *)
(* A file's content is the number of the write that made it.  An operation *)
(* is a snapshot of one repository.  Every jj command is one action, as    *)
(* withRepoLock makes it; restore is a sequence of them.                   *)
(***************************************************************************)
EXTENDS Integers, FiniteSets, Sequences

CONSTANTS
    Threads,
    Repos,      \* the repositories, 1..n: 1 is the project's own, the rest in name order
    Files,
    Stray,      \* whether a write may go unrecorded, as a shell command's does
    MaxRuns,    \* bound: runs of all threads
    MaxWrites   \* bound: writes to the trees

ASSUME UndoAssumption ==
    /\ IsFiniteSet(Threads) /\ IsFiniteSet(Files) /\ IsFiniteSet(Repos)
    /\ Repos # {} /\ Repos = 1..Cardinality(Repos)
    /\ Stray \in BOOLEAN /\ MaxRuns \in Nat /\ MaxWrites \in Nat

Home == 1
NoOp == 0

VARIABLES
    tree,       \* [Repos -> [Files -> content]], the working copies
    ops,        \* the operations captured, in order: [repo, tree]
    writes,     \* writes so far
    runs,       \* runs so far
    running, first, baseline,   \* per thread: mt.running, checkpoint, mt.baseline
    log, edits, \* per thread: edit points in the log since the last prompt; mt.edits
    call,       \* per thread: the tool call under way
    undo        \* the restore under way; since is history, the writes as it was confirmed

vars == <<tree, ops, writes, runs, running, first, baseline, log, edits, call, undo>>
threadVars == <<runs, running, first, baseline, log>>

NoCall == [at |-> "none", repo |-> Home, file |-> CHOOSE f \in Files : TRUE]
NoUndo == [at |-> "none", thread |-> CHOOSE t \in Threads : TRUE, want |-> NoOp, edits |-> <<>>,
           targets |-> <<>>, dirty |-> FALSE, scoped |-> FALSE, left |-> {}, since |-> 0]

Init ==
    /\ tree = [r \in Repos |-> [f \in Files |-> 0]]
    /\ ops = <<>> /\ writes = 0
    /\ runs = 0 /\ running = [t \in Threads |-> FALSE]
    /\ first = [t \in Threads |-> NoOp] /\ baseline = [t \in Threads |-> NoOp]
    /\ log = [t \in Threads |-> <<>>] /\ edits = [t \in Threads |-> <<>>]
    /\ call = [t \in Threads |-> NoCall]
    /\ undo = NoUndo

-----------------------------------------------------------------------------
(* Runs and their edits *)

\* Capture: the operation's id is its place in the operation log.
Capture(r) == ops' = Append(ops, [repo |-> r, tree |-> tree[r]])

\* startTurn and Loop.Run up to its first turn: a checkpoint of the project's
\* repository, then the prompt, which clears the edit points.
StartRun(t) ==
    /\ ~running[t] /\ runs < MaxRuns
    /\ runs' = runs + 1
    /\ running' = [running EXCEPT ![t] = TRUE]
    /\ Capture(Home)
    /\ first' = [first EXCEPT ![t] = Len(ops) + 1]
    /\ log' = [log EXCEPT ![t] = <<>>]
    /\ UNCHANGED <<tree, writes, baseline, edits, call, undo>>

\* A tool call claims its path,
Claim(t, r, f) ==
    /\ running[t] /\ call[t].at = "none" /\ writes < MaxWrites
    /\ \A u \in Threads : call[u].at \in {"claimed", "written"} => <<call[u].repo, call[u].file>> # <<r, f>>
    /\ call' = [call EXCEPT ![t] = [at |-> "claimed", repo |-> r, file |-> f]]
    /\ UNCHANGED <<tree, ops, writes, threadVars, edits, undo>>

\* writes it under the lease,
Write(t) ==
    /\ call[t].at = "claimed" /\ writes < MaxWrites
    /\ writes' = writes + 1
    /\ tree' = [tree EXCEPT ![call[t].repo][call[t].file] = writes + 1]
    /\ call' = [call EXCEPT ![t].at = "written"]
    /\ UNCHANGED <<ops, threadVars, edits, undo>>

\* lets the lease go,
Free(t) ==
    /\ call[t].at \in {"claimed", "written"}
    /\ call' = [call EXCEPT ![t] = IF @.at = "written" THEN [@ EXCEPT !.at = "freed"] ELSE NoCall]
    /\ UNCHANGED <<tree, ops, writes, threadVars, edits, undo>>

\* and checkpointEdit captures the repository; the result goes to the log.
Record(t) ==
    /\ call[t].at = "freed"
    /\ Capture(call[t].repo)
    /\ log' = [log EXCEPT ![t] =
            Append(@, [repo |-> call[t].repo, op |-> Len(ops) + 1, file |-> call[t].file])]
    /\ call' = [call EXCEPT ![t] = NoCall]
    /\ UNCHANGED <<tree, writes, runs, running, first, baseline, edits, undo>>

\* A write no tool reports.
StrayWrite(r, f) ==
    /\ Stray /\ writes < MaxWrites
    /\ writes' = writes + 1
    /\ tree' = [tree EXCEPT ![r][f] = writes + 1]
    /\ UNCHANGED <<ops, threadVars, edits, call, undo>>

\* runTurn's end: the first run's checkpoint becomes the baseline.
EndRun(t) ==
    /\ running[t] /\ call[t].at = "none"
    /\ running' = [running EXCEPT ![t] = FALSE]
    /\ baseline' = [baseline EXCEPT ![t] = IF @ = NoOp THEN first[t] ELSE @]
    /\ UNCHANGED <<tree, ops, writes, runs, first, log, edits, call, undo>>

\* sync, which listing the threads calls: the cache catches up with the log.
Sync(t) ==
    /\ edits[t] # log[t]
    /\ edits' = [edits EXCEPT ![t] = log[t]]
    /\ UNCHANGED <<tree, ops, writes, threadVars, call, undo>>

-----------------------------------------------------------------------------
(* restore *)

Differs(r, op) == tree[r] # ops[op].tree
EditedFiles(es, r) == {es[i].file : i \in {j \in DOMAIN es : es[j].repo = r}}
OtherWriters(t, r) == \E u \in Threads \ {t} : call[u].at \in {"claimed", "written"} /\ call[u].repo = r

\* restoreTargets with no operation named: each edited repository goes to the
\* thread's last edit point in it, the project's own to the baseline if none.
WholeTargets(t, es) ==
    LET edited == {es[i].repo : i \in DOMAIN es}
        LastOp(r) == es[CHOOSE i \in DOMAIN es : es[i].repo = r /\ \A j \in DOMAIN es : es[j].repo = r => j <= i].op
    IN  [r \in edited \cup {Home} |-> IF r \in edited THEN LastOp(r) ELSE baseline[t]]

RestoreAnyOp(t, want) ==
    /\ undo.at = "none" /\ ~running[t] /\ baseline[t] # NoOp
    /\ LET targets == IF want = NoOp THEN WholeTargets(t, edits[t]) ELSE [r \in {ops[want].repo} |-> want]
       IN  undo' = [at |-> "survey", thread |-> t, want |-> want, edits |-> edits[t],
                    targets |-> targets, dirty |-> FALSE, scoped |-> FALSE, left |-> DOMAIN targets,
                    since |-> 0]
    /\ UNCHANGED <<tree, ops, writes, threadVars, edits, call>>

\* restore's critical section: refused while running, without a baseline, or
\* for an operation the run did not record.
Restore(t, want) ==
    /\ undo.at = "none" /\ ~running[t] /\ baseline[t] # NoOp
    /\ want # NoOp => \E i \in DOMAIN edits[t] : edits[t][i].op = want
    /\ LET targets == IF want = NoOp THEN WholeTargets(t, edits[t]) ELSE [r \in {ops[want].repo} |-> want]
       IN  undo' = [at |-> "survey", thread |-> t, want |-> want, edits |-> edits[t],
                    targets |-> targets, dirty |-> FALSE, scoped |-> FALSE, left |-> DOMAIN targets,
                    since |-> 0]
    /\ UNCHANGED <<tree, ops, writes, threadVars, edits, call>>

InOrder(r) == r \in undo.left /\ \A q \in undo.left : r <= q

\* discardable, for the next repository: what would go, and who else writes.
Survey(r) ==
    /\ undo.at = "survey" /\ InOrder(r)
    /\ undo' = [undo EXCEPT !.dirty = @ \/ Differs(r, undo.targets[r]),
                            !.scoped = @ \/ OtherWriters(undo.thread, r),
                            !.left = @ \ {r}]
    /\ UNCHANGED <<tree, ops, writes, threadVars, edits, call>>

DecideEverywhere(confirm) ==
    /\ undo.at = "survey" /\ undo.left = {}
    /\ undo' = [undo EXCEPT !.at = IF undo.dirty /\ confirm THEN "perform" ELSE "preview",
                            !.left = Repos]
    /\ UNCHANGED <<tree, ops, writes, threadVars, edits, call>>

\* Nothing differs, or the client only previews, or it confirms.
Decide(confirm) ==
    /\ undo.at = "survey" /\ undo.left = {}
    /\ undo' = [undo EXCEPT !.at = CASE ~undo.dirty -> "nothing" [] confirm -> "perform" [] OTHER -> "preview",
                            !.left = DOMAIN undo.targets, !.since = writes]
    /\ UNCHANGED <<tree, ops, writes, threadVars, edits, call>>

PerformAll(r) ==
    LET target == ops[undo.targets[r]].tree
    IN  /\ undo.at = "perform" /\ InOrder(r)
        /\ tree' = [tree EXCEPT ![r] = target]
        /\ undo' = [undo EXCEPT !.at = "verify"]
        /\ UNCHANGED <<ops, writes, threadVars, edits, call>>

PerformNothing(r) ==
    /\ undo.at = "perform" /\ InOrder(r)
    /\ undo' = [undo EXCEPT !.at = IF undo.left = {r} THEN "restored" ELSE "perform", !.left = @ \ {r}]
    /\ UNCHANGED <<tree, ops, writes, threadVars, edits, call>>

\* performRestore: the whole repository, or the thread's own paths when another
\* thread was writing as the survey looked.
Perform(r) ==
    LET target == ops[undo.targets[r]].tree
        own == EditedFiles(undo.edits, r)
    IN  /\ undo.at = "perform" /\ InOrder(r)
        /\ IF ~undo.scoped
           THEN tree' = [tree EXCEPT ![r] = target] /\ undo' = [undo EXCEPT !.at = "verify"]
           ELSE IF own = {}
           THEN UNCHANGED tree /\ undo' = [undo EXCEPT !.at = "failed"]
           ELSE /\ tree' = [tree EXCEPT ![r] = [f \in Files |-> IF f \in own THEN target[f] ELSE @[f]]]
                /\ undo' = [undo EXCEPT !.at = "verify"]
        /\ UNCHANGED <<ops, writes, threadVars, edits, call>>

\* A jj command fails: what was restored so far stays restored.
PerformFails ==
    /\ undo.at \in {"survey", "perform", "verify"}
    /\ undo' = [undo EXCEPT !.at = "failed"]
    /\ UNCHANGED <<tree, ops, writes, threadVars, edits, call>>

\* verifyRestored: what was to be reverted no longer differs, or it is an error.
Verify(r) ==
    LET target == ops[undo.targets[r]].tree
        checked == IF undo.scoped THEN EditedFiles(undo.edits, r) ELSE Files
    IN  /\ undo.at = "verify" /\ InOrder(r)
        /\ undo' = IF \E f \in checked : tree[r][f] # target[f]
                   THEN [undo EXCEPT !.at = "failed"]
                   ELSE [undo EXCEPT !.at = IF undo.left = {r} THEN "restored" ELSE "perform",
                                     !.left = @ \ {r}]
        /\ UNCHANGED <<tree, ops, writes, threadVars, edits, call>>

Reply ==
    /\ undo.at \in {"nothing", "preview", "restored", "failed"}
    /\ undo' = NoUndo
    /\ UNCHANGED <<tree, ops, writes, threadVars, edits, call>>

-----------------------------------------------------------------------------
Work(t) ==
    \/ StartRun(t) \/ Write(t) \/ Free(t) \/ Record(t) \/ EndRun(t) \/ Sync(t)
    \/ \E r \in Repos, f \in Files : Claim(t, r, f)

Undoing ==
    \/ \E t \in Threads, want \in {NoOp} \cup DOMAIN ops : Restore(t, want)
    \/ \E r \in Repos : Survey(r) \/ Perform(r) \/ Verify(r)
    \/ \E confirm \in BOOLEAN : Decide(confirm)
    \/ PerformFails \/ Reply

Next ==
    \/ \E t \in Threads : Work(t)
    \/ \E r \in Repos, f \in Files : StrayWrite(r, f)
    \/ Undoing

Spec == Init /\ [][Next]_vars

-----------------------------------------------------------------------------
(* Properties *)

\* Every variable has its type, and a restore under way has only repositories
\* left that it has a target for.
TypeOK ==
    /\ tree \in [Repos -> [Files -> 0..MaxWrites]]
    /\ \A i \in DOMAIN ops : ops[i].repo \in Repos /\ ops[i].tree \in [Files -> 0..MaxWrites]
    /\ \A t \in Threads : first[t] \in 0..Len(ops) /\ baseline[t] \in 0..Len(ops)
    /\ DOMAIN undo.targets \subseteq Repos /\ undo.left \subseteq DOMAIN undo.targets

\* A restore rewinds a repository only to an operation captured in that
\* repository, and one of the thread's own: its baseline or an edit point.
OwnTargets ==
    \A r \in DOMAIN undo.targets :
        LET op == undo.targets[r]
        IN  /\ ops[op].repo = r
            /\ op = baseline[undo.thread] \/ \E i \in DOMAIN undo.edits : undo.edits[i].op = op

\* An undo reported as done left every file it was to revert, in every
\* repository it was for, as the target has it, but for writes made since the
\* client's confirmation.
RestoredAll ==
    undo.at = "restored" =>
        \A r \in DOMAIN undo.targets :
            \A f \in IF undo.scoped THEN EditedFiles(undo.edits, r) ELSE Files :
                tree[r][f] = ops[undo.targets[r]].tree[f] \/ tree[r][f] > undo.since

\* A restore goes to the thread's own operations and does what it reports.
RestoreSound == TypeOK /\ OwnTargets /\ RestoredAll

\* While another thread was seen writing, an undo changes only files the
\* asking thread recorded an edit to.
SparesOthers ==
    undo.at = "perform" /\ undo.scoped /\ undo'.at = "verify" =>
        \A r \in Repos : \A f \in Files :
            tree'[r][f] # tree[r][f] => f \in EditedFiles(undo.edits, r)
ScopedSpares == [][SparesOthers]_vars

-----------------------------------------------------------------------------
(* What comments in the code say and TLC refutes: README, "Disagreements" *)

\* The undo of a whole run ends, reported done or with nothing to do, with the
\* project's repository as it was before the thread's first turn.
WholeUndo ==
    undo.at \in {"restored", "nothing"} /\ undo.want = NoOp => ~Differs(Home, baseline[undo.thread])

\* An undo takes no write another thread holds the lease for, outside the
\* files the asking thread edited.
SparesWriters ==
    [][\A t \in Threads \ {undo.thread} :
        undo.at = "perform" /\ undo'.at = "verify" /\ call[t].at = "written"
            /\ call[t].file \notin EditedFiles(undo.edits, call[t].repo) =>
                tree'[call[t].repo][call[t].file] = tree[call[t].repo][call[t].file]]_vars

\* A thread is not undone under its own running turn.
NoUndoDuringTurn == undo.at \in {"perform", "verify"} => ~running[undo.thread]

\* A scoped undo reverts every file the thread's log has an edit to.
ScopedComplete ==
    undo.at = "restored" /\ undo.scoped =>
        \A r \in DOMAIN undo.targets : EditedFiles(log[undo.thread], r) \subseteq EditedFiles(undo.edits, r)
=============================================================================

----------------------------- MODULE GateSched ------------------------------
(***************************************************************************)
(* Who runs gates at the same time: gate/scheduler.go (ResourceSet,        *)
(* RunGates), gate/coordinator.go and gate/cadence.go (one batch of the    *)
(* change-gate runner), app/verifier.go (a verification round of a         *)
(* thread) and the workers of gate/coverage_adapter.go, all over one       *)
(* ResourceSet.                                                            *)
(*                                                                         *)
(* A job is a goroutine that takes the keys of one gate: a gate of the     *)
(* runner's batch, the gate a verification round has reached, or a         *)
(* coverage worker, which takes its key shared.  Keys are numbers, so that *)
(* sort.Strings is their order.                                            *)
(***************************************************************************)
EXTENDS Integers, Sequences, FiniteSets, FiniteSetsExt

CONSTANTS Batch,       \* the gates of the runner's batch
          Rounds,      \* threads that verify; each has one round at a time
          Steps,       \* the gates of a round, in order
          Workers,     \* coverage workers
          Resources,   \* Gate.Resources(): the keys of a gate
          Worktree,    \* WorktreeResource
          GoTest,      \* goTestResource
          MaxPasses,   \* CadenceConfig.MaxSelectivePasses
          MaxBatches, MaxRounds, MaxTests   \* bounds

Jobs == Batch \cup Rounds \cup Workers
Keys == {Worktree, GoTest} \cup UNION {Resources[g] : g \in DOMAIN Resources}
None == "none"

\* A goroutine is of one kind, every gate has its keys, and a round has a gate to run.
ASSUME GatesAssumption ==
    /\ Batch \cap Rounds = {} /\ Batch \cap Workers = {} /\ Rounds \cap Workers = {}
    /\ None \notin Jobs
    /\ Batch \subseteq DOMAIN Resources /\ Steps \in Seq(DOMAIN Resources) /\ Steps # <<>>
    /\ Keys \subseteq Nat /\ MaxPasses \in Nat

VARIABLES
    owner,    \* per key: the job that locks it exclusively, from its claim to its release
    queue,    \* per key: jobs waiting to lock it exclusively
    readers,  \* per key: jobs that hold it shared
    parked,   \* per key: jobs waiting to hold it shared
    pc,       \* per job: "idle", "locking", "running" or "done"
    want,     \* per job: the keys it has still to take
    wave,     \* the runner's batch: "idle", "write" or "read"
    batches,  \* batches begun
    narrow,   \* batches since the last sweep that ran a narrowed selection
    passes,   \* fullRunCadence.passes
    step,     \* per round: the gate it has reached
    rounds,   \* rounds begun, per thread
    tests     \* tests the coverage feeder has still to hand out

lockVars == <<owner, queue, readers, parked>>
vars == <<lockVars, pc, want, wave, batches, narrow, passes, step, rounds, tests>>

Init ==
    /\ owner = [k \in Keys |-> None] /\ queue = [k \in Keys |-> {}]
    /\ readers = [k \in Keys |-> {}] /\ parked = [k \in Keys |-> {}]
    /\ pc = [j \in Jobs |-> "idle"] /\ want = [j \in Jobs |-> {}]
    /\ wave = "idle" /\ batches = 0 /\ narrow = 0 /\ passes = 0
    /\ step = [r \in Rounds |-> 0] /\ rounds = [r \in Rounds |-> 0]
    /\ tests = MaxTests

Shared(j) == j \in Workers
Needs(j) ==
    IF j \in Batch THEN Resources[j]
    ELSE IF j \in Rounds THEN Resources[Steps[step[j]]]
    ELSE {GoTest}
Held(j) == {k \in Keys : (owner[k] = j /\ readers[k] = {}) \/ j \in readers[k]}


-----------------------------------------------------------------------------
\* The resource set, over Go's sync.RWMutex: a writer that has claimed the lock keeps new
\* readers out while it waits for the old ones, and its release lets in every reader that
\* waited before the next writer.
\* acquire takes the keys in sorted order.
NextKeyUnsorted(j) == IF j \in Rounds THEN Max(want[j]) ELSE Min(want[j])
NextKey(j) == Min(want[j])

Arrive(j) ==
    /\ pc[j] = "locking" /\ want[j] # {}
    /\ LET k == NextKey(j) IN
       /\ j \notin queue[k] \cup parked[k] /\ owner[k] # j /\ j \notin readers[k]
       /\ IF ~Shared(j)
          THEN queue' = [queue EXCEPT ![k] = @ \cup {j}] /\ UNCHANGED <<readers, parked>>
          ELSE IF owner[k] = None
               THEN readers' = [readers EXCEPT ![k] = @ \cup {j}] /\ UNCHANGED <<queue, parked>>
               ELSE parked' = [parked EXCEPT ![k] = @ \cup {j}] /\ UNCHANGED <<queue, readers>>
    /\ UNCHANGED <<owner, pc, want, wave, batches, narrow, passes, step, rounds, tests>>

Claim(j, k) ==
    /\ j \in queue[k] /\ owner[k] = None
    /\ owner' = [owner EXCEPT ![k] = j]
    /\ queue' = [queue EXCEPT ![k] = @ \ {j}]
    /\ UNCHANGED <<readers, parked, pc, want, wave, batches, narrow, passes, step, rounds, tests>>

\* m.Lock or m.RLock returns: on to the next key.
Taken(j) ==
    /\ pc[j] = "locking" /\ want[j] \cap Held(j) # {}
    /\ want' = [want EXCEPT ![j] = @ \ Held(j)]
    /\ UNCHANGED <<lockVars, pc, wave, batches, narrow, passes, step, rounds, tests>>

RunOne(j) ==
    /\ pc[j] = "locking" /\ want[j] = {}
    /\ pc' = [pc EXCEPT ![j] = "running"]
    /\ UNCHANGED <<lockVars, want, wave, batches, narrow, passes, step, rounds, tests>>

Release(j) ==
    /\ owner' = [k \in Keys |-> IF owner[k] = j THEN None ELSE owner[k]]
    /\ readers' = [k \in Keys |-> IF owner[k] = j THEN parked[k] ELSE readers[k] \ {j}]
    /\ parked' = [k \in Keys |-> IF owner[k] = j THEN {} ELSE parked[k]]
    /\ UNCHANGED queue

Start(js, needs) ==
    /\ pc' = [j \in Jobs |-> IF j \in js THEN "locking" ELSE pc[j]]
    /\ want' = [j \in Jobs |-> IF j \in js THEN needs[j] ELSE want[j]]

-----------------------------------------------------------------------------
\* A batch of the change-gate runner: selection, the cadence, then the gates in two waves.
Writers == {g \in Batch : Worktree \in Resources[g]}

\* fullRunCadence.apply: a batch is swept when enough narrowed ones have passed or the
\* interval has (long).
CadenceForgetful(level, long) ==
    IF passes >= MaxPasses \/ long
    THEN passes' = 0 /\ narrow' = 0
    ELSE IF level = "importer" THEN passes' = 0 /\ narrow' = narrow + 1
         ELSE LET more == IF level = "package" THEN 0 ELSE 1
              IN passes' = passes + more /\ narrow' = narrow + more
Cadence(level, long) ==
    IF passes >= MaxPasses \/ long
    THEN passes' = 0 /\ narrow' = 0
    ELSE LET more == IF level = "package" THEN 0 ELSE 1
         IN passes' = passes + more /\ narrow' = narrow + more

BeginBatchTogether(level, long) ==
    /\ wave = "idle" /\ batches < MaxBatches
    /\ batches' = batches + 1 /\ Cadence(level, long)
    /\ wave' = "write" /\ Start(Batch, Resources)
    /\ UNCHANGED <<lockVars, step, rounds, tests>>
BeginBatch(level, long) ==
    /\ wave = "idle" /\ batches < MaxBatches
    /\ batches' = batches + 1 /\ Cadence(level, long)
    /\ wave' = "write" /\ Start(Writers, Resources)
    /\ UNCHANGED <<lockVars, step, rounds, tests>>

BatchGateEnds(g) ==
    /\ g \in Batch /\ pc[g] = "running"
    /\ Release(g) /\ pc' = [pc EXCEPT ![g] = "done"]
    /\ UNCHANGED <<want, wave, batches, narrow, passes, step, rounds, tests>>

\* wg.Wait of the first runWave, and the start of the second.
SecondWave ==
    /\ wave = "write" /\ \A g \in Writers : pc[g] = "done"
    /\ wave' = "read" /\ Start(Batch \ Writers, Resources)
    /\ UNCHANGED <<lockVars, batches, narrow, passes, step, rounds, tests>>

\* RunGates has returned and its results are in the gate log.
EndBatch ==
    /\ wave = "read" /\ \A g \in Batch : pc[g] = "done"
    /\ wave' = "idle" /\ pc' = [j \in Jobs |-> IF j \in Batch THEN "idle" ELSE pc[j]]
    /\ UNCHANGED <<lockVars, want, batches, narrow, passes, step, rounds, tests>>

-----------------------------------------------------------------------------
\* GateVerifier.Verify of a thread: one gate after the other, up to the first failure.
BeginRound(r) ==
    /\ step[r] = 0 /\ rounds[r] < MaxRounds
    /\ rounds' = [rounds EXCEPT ![r] = @ + 1]
    /\ step' = [step EXCEPT ![r] = 1]
    /\ Start({r}, [j \in {r} |-> Resources[Steps[1]]])
    /\ UNCHANGED <<lockVars, wave, batches, narrow, passes, tests>>

RunStep(r, pass) ==
    /\ r \in Rounds /\ pc[r] = "running" /\ Release(r)
    /\ IF pass /\ step[r] < Len(Steps)
       THEN /\ step' = [step EXCEPT ![r] = @ + 1]
            /\ Start({r}, [j \in {r} |-> Resources[Steps[step[r] + 1]]])
       ELSE /\ step' = [step EXCEPT ![r] = 0]
            /\ pc' = [pc EXCEPT ![r] = "idle"] /\ UNCHANGED want
    /\ UNCHANGED <<wave, batches, narrow, passes, rounds, tests>>

-----------------------------------------------------------------------------
\* The coverage build: the feeder hands tests to the workers until it has no more or the
\* budget is spent, and each worker holds go-test shared for one test at a time.
RunCoverageJob(w) ==
    /\ w \in Workers /\ pc[w] = "idle" /\ tests > 0
    /\ tests' = tests - 1
    /\ Start({w}, [j \in {w} |-> {GoTest}])
    /\ UNCHANGED <<lockVars, wave, batches, narrow, passes, step, rounds>>

CoverageJobEnds(w) ==
    /\ w \in Workers /\ pc[w] = "running"
    /\ Release(w) /\ pc' = [pc EXCEPT ![w] = "idle"]
    /\ UNCHANGED <<want, wave, batches, narrow, passes, step, rounds, tests>>

BudgetSpent ==
    /\ tests > 0 /\ tests' = 0
    /\ UNCHANGED <<lockVars, pc, want, wave, batches, narrow, passes, step, rounds>>

-----------------------------------------------------------------------------
JobStep(j) ==
    \/ Arrive(j) \/ (\E k \in Keys : Claim(j, k)) \/ Taken(j) \/ RunOne(j)
    \/ BatchGateEnds(j) \/ (\E pass \in BOOLEAN : RunStep(j, pass)) \/ CoverageJobEnds(j)
Next ==
    \/ \E j \in Jobs : JobStep(j)
    \/ \E level \in {"line", "importer", "package"}, long \in BOOLEAN : BeginBatch(level, long)
    \/ SecondWave \/ EndBatch
    \/ \E r \in Rounds : BeginRound(r)
    \/ \E w \in Workers : RunCoverageJob(w)
    \/ BudgetSpent

\* Goroutines are scheduled and a running gate ends; nothing makes a batch, a round or a
\* coverage test begin.
Progress == (\E j \in Jobs : JobStep(j)) \/ SecondWave \/ EndBatch
Fairness == WF_vars(Progress)
Spec == Init /\ [][Next]_vars

-----------------------------------------------------------------------------
\* Two jobs whose gates share a key never run together (scheduler.go:94), a formatter of a
\* batch never runs beside a gate of the batch that reads the tree, and no more than
\* MaxSelectivePasses narrowed batches go by without a sweep of the module.
Runs(j) == pc[j] = "running"
Serialized ==
    \A i, j \in Jobs : i # j /\ Runs(i) /\ Runs(j) /\ ~(Shared(i) /\ Shared(j))
                          => Needs(i) \cap Needs(j) = {}
WavesApart == \A g \in Writers, h \in Batch \ Writers : ~(Runs(g) /\ Runs(h))
SweptInTime == narrow <= MaxPasses
GatesApart == Serialized /\ WavesApart /\ SweptInTime

\* Every gate, round and coverage test that waits for its keys gets them, whatever order the
\* jobs arrive in and however the key sets overlap: no deadlock, and neither gates nor the
\* background build starve the other.
EveryJobServed == \A j \in Jobs : pc[j] = "locking" ~> pc[j] = "running"

\* Not so: a formatter never rewrites the tree while a gate of another batch or round, or a
\* coverage test, reads it; the worktree key and the two waves only order one batch.
TreeStill ==
    \A i, j \in Jobs : Runs(i) /\ Runs(j) /\ i # j => Worktree \notin Needs(i)
=============================================================================

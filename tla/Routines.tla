------------------------------ MODULE Routines ------------------------------
(***************************************************************************)
(* Routines and services (src/internal/routine): the definitions a project *)
(* declares compile into waves of steps, a run takes its routine's         *)
(* concurrency key, its steps take their resource keys, and a service is   *)
(* counted by who holds it.  Callers are the goroutines that run routines: *)
(* a client's connection, a turn, the gate pipeline and the timekeeper.    *)
(* What a step computes is abstracted to its outcome.                      *)
(***************************************************************************)
EXTENDS Integers, Sequences, FiniteSets, SequencesExt, FiniteSetsExt

CONSTANTS
    Callers,     \* goroutines that run routines
    Timekeeper,  \* the caller that runs scheduled ones
    Turn,        \* the caller that runs what a thread or a change triggers
    Routines,    \* the routines' names
    Projects,    \* what a config file may declare: functions from Routines to definitions
    Services,    \* the services a project declares
    Interval,    \* ticks between two runs of a scheduled routine
    MaxCalls,    \* bound: calls all callers make
    MaxTicks,    \* bound: how far the clock runs
    MaxCancels   \* bound: callers whose own context ends

VARIABLES
    phase,    \* "new", "loaded" or "failed"
    set,      \* the compiled routines, by name
    group,    \* one per concurrency key: held, cancelHeld, lastServed, waiters, rotate
    call,     \* each caller: pc, the routines still to run, the one it runs, its steps
    ctx,      \* each caller: is its own context live, and the context of its run
    res,      \* the resource keys: who holds each
    held,     \* Services.held
    up,       \* is the service really running
    due,      \* the timekeeper's ticks left per routine, -1 for one not seen
    ticks, calls, cancels,
    lost,     \* ghost: the keys handed to a waiter that had left
    passed    \* ghost: per caller, admissions that passed it over at the head

vars == <<phase, set, group, call, ctx, res, held, up, due, ticks, calls, cancels, lost, passed>>

None == "none"
Refused == <<>>
Statuses == {"pass", "abstained", "fail", "error", "skipped", "canceled"}

-----------------------------------------------------------------------------
(* Compiling. A definition: enabled, key, concurrency, scheduled, and steps, *)
(* a function from step names to their action, service and parents.         *)

\* topoWaves: wave n holds the steps all of whose parents are in earlier waves
TopoWaves(steps) ==
    LET names == DOMAIN steps
        wave[n \in 1..Cardinality(names)] ==
            LET placed == UNION {wave[k] : k \in 1..(n - 1)}
            IN  {s \in names \ placed : steps[s].parents \subseteq placed}
    IN  wave

Waves(steps) ==
    LET w == TopoWaves(steps) IN SelectSeq([n \in DOMAIN w |-> w[n]], LAMBDA x : x # {})

Cyclic(steps) == UNION Range(Waves(steps)) # DOMAIN steps

Compiles(def) ==
    /\ def.enabled => DOMAIN def.steps # {}
    /\ \A s \in DOMAIN def.steps : def.steps[s].parents \subseteq DOMAIN def.steps
    /\ ~Cyclic(def.steps)

Compile(def) == [def EXCEPT !.order = Waves(def.steps)]

CompileSet(defs) ==
    IF \A r \in Routines : Compiles(defs[r])
    THEN [r \in Routines |-> Compile(defs[r])] ELSE Refused

-----------------------------------------------------------------------------
Free == [held |-> FALSE, cancelHeld |-> None, lastServed |-> None,
         waiters |-> <<>>, rotate |-> FALSE]
Idle == [pc |-> "idle", list |-> <<>>, rt |-> None, wave |-> 0, step |-> <<>>]
Locked == Services \cup {"worktree"}

Init ==
    /\ phase = "new" /\ set = Refused
    /\ group = <<>>
    /\ call = [c \in Callers |-> Idle]
    /\ ctx = [c \in Callers |-> [own |-> TRUE, run |-> TRUE]]
    /\ res = [k \in Locked |-> None]
    /\ held = [s \in Services |-> 0]
    /\ up = [s \in Services |-> FALSE]
    /\ due = [r \in Routines |-> -1]
    /\ ticks = 0 /\ calls = 0 /\ cancels = 0
    /\ lost = {} /\ passed = [c \in Callers |-> 0]

\* buildRoutines: a routine that will not compile fails the app's construction
Load ==
    /\ phase = "new"
    /\ \E p \in Projects :
        /\ set' = CompileSet(p)
        /\ phase' = IF set' = Refused THEN "failed" ELSE "loaded"
        /\ group' = [k \in {p[r].key : r \in Routines} |-> Free]
    /\ UNCHANGED <<call, ctx, res, held, up, due, ticks, calls, cancels, lost, passed>>

Loaded == phase = "loaded"
Key(c) == set[call[c].rt].key
StepsOf(c) == set[call[c].rt].steps

-----------------------------------------------------------------------------
(* Who runs what *)

Scheduled == SetToSeq({r \in Routines : set[r].enabled /\ set[r].scheduled})

Calls(c, rs) ==
    /\ Loaded /\ call[c].pc = "idle" /\ ctx[c].own /\ calls < MaxCalls
    /\ call' = [call EXCEPT ![c] = [Idle EXCEPT !.pc = "next", !.list = rs]]
    /\ calls' = calls + 1
    /\ UNCHANGED <<phase, set, group, ctx, res, held, up, due, ticks, cancels, lost, passed>>

\* Service.Run: a client runs one routine by name
RunRoutine(c) == c \notin {Timekeeper, Turn} /\ \E r \in Routines : Calls(c, <<r>>)

\* Service.Fire and ChangeRunFunc: the enabled routines a trigger names, one after another
Fire == Calls(Turn, SetToSeq({r \in Routines : set[r].enabled}))

\* Timekeeper.Run: the timer fires and fireDue walks the scheduled routines
Wake == Loaded /\ Scheduled # <<>> /\ Calls(Timekeeper, Scheduled)

\* fireDue: a routine not seen before is only dated, one not due is passed over
NotDue ==
    /\ call[Timekeeper].pc = "next" /\ call[Timekeeper].list # <<>>
    /\ LET r == Head(call[Timekeeper].list) IN
        /\ due[r] # 0
        /\ due' = [due EXCEPT ![r] = IF @ = -1 THEN Interval ELSE @]
    /\ call' = [call EXCEPT ![Timekeeper].list = Tail(@)]
    /\ UNCHANGED <<phase, set, group, ctx, res, held, up, ticks, calls, cancels, lost, passed>>

Tick ==
    /\ ticks < MaxTicks /\ ticks' = ticks + 1
    /\ \E r \in Routines : due[r] > 0
    /\ due' = [r \in Routines |-> IF due[r] > 0 THEN due[r] - 1 ELSE due[r]]
    /\ UNCHANGED <<phase, set, group, call, ctx, res, held, up, calls, cancels, lost, passed>>

Finished(c) ==
    /\ call[c].pc = "next" /\ call[c].list = <<>>
    /\ call' = [call EXCEPT ![c] = Idle]
    /\ UNCHANGED <<phase, set, group, ctx, res, held, up, due, ticks, calls, cancels, lost, passed>>

\* the client hangs up, the turn is canceled, the app closes
CallerCanceled(c) ==
    /\ Loaded /\ ctx[c].own /\ cancels < MaxCancels
    /\ ctx' = [ctx EXCEPT ![c] = [own |-> FALSE, run |-> FALSE]]
    /\ cancels' = cancels + 1
    /\ UNCHANGED <<phase, set, group, call, res, held, up, due, ticks, calls, lost, passed>>

-----------------------------------------------------------------------------
(* The concurrency key *)

\* what a caller does once Run returned: on with its list, and the timekeeper dates the routine
Returned(c, k) == [k EXCEPT ![c] = [Idle EXCEPT !.pc = "next", !.list = call[c].list]]
Redated(c, r) == IF c = Timekeeper THEN [due EXCEPT ![r] = Interval] ELSE due

Begun(c, r, k) ==
    [k EXCEPT ![c] = [@ EXCEPT !.pc = "run", !.rt = r, !.wave = 0,
                                !.step = [s \in DOMAIN set[r].steps |-> "todo"]]]

\* the run's context is a child of the caller's
RunCtx(c) == [ctx EXCEPT ![c].run = ctx[c].own]

\* acquire: enter takes a free key, and otherwise queues
Run(c) ==
    /\ call[c].pc = "next" /\ call[c].list # <<>>
    /\ LET r == Head(call[c].list)
           k == set[r].key
           g == group[k]
           next == [call EXCEPT ![c].list = Tail(@)]
       IN
        /\ c = Timekeeper => due[r] = 0
        /\ \/ /\ ~set[r].enabled
              /\ call' = next
              /\ due' = Redated(c, r)
              /\ UNCHANGED <<group, ctx, passed>>
           \/ /\ set[r].enabled /\ ~g.held
              /\ group' = [group EXCEPT ![k] = [@ EXCEPT !.held = TRUE, !.cancelHeld = c,
                                                          !.lastServed = r]]
              /\ call' = Begun(c, r, next) /\ ctx' = RunCtx(c)
              /\ UNCHANGED <<due, passed>>
           \/ /\ set[r].enabled /\ g.held
              /\ group' = [group EXCEPT ![k].waiters = Append(@, c),
                                        ![k].rotate = @ \/ set[r].concurrency = "round-robin"]
              /\ call' = [next EXCEPT ![c].pc = "wait", ![c].rt = r]
              /\ ctx' = IF set[r].concurrency = "cancel-in-progress" /\ g.cancelHeld # None
                        THEN [ctx EXCEPT ![g.cancelHeld].run = FALSE] ELSE ctx
              /\ passed' = [passed EXCEPT ![c] = 0]
              /\ UNCHANGED due
    /\ UNCHANGED <<phase, set, res, held, up, ticks, calls, cancels, lost>>

\* a take that does not note the routine it serves
TakeSilently(c) ==
    /\ call[c].pc = "ready"
    /\ group' = [group EXCEPT ![Key(c)].cancelHeld = c]
    /\ call' = Begun(c, call[c].rt, call) /\ ctx' = RunCtx(c)
    /\ UNCHANGED <<phase, set, res, held, up, due, ticks, calls, cancels, lost, passed>>

\* a caller handed the key picks its ready channel and becomes the holder
Take(c) ==
    /\ call[c].pc = "ready"
    /\ group' = [group EXCEPT ![Key(c)].cancelHeld = c, ![Key(c)].lastServed = call[c].rt]
    /\ call' = Begun(c, call[c].rt, call) /\ ctx' = RunCtx(c)
    /\ UNCHANGED <<phase, set, res, held, up, due, ticks, calls, cancels, lost, passed>>

\* a waiter whose context ended leaves the queue; when the key had just been
\* handed to it, select may still choose this branch, and drop finds nothing
Drop(c) ==
    /\ call[c].pc \in {"wait", "ready"} /\ ~ctx[c].own
    /\ group' = [group EXCEPT ![Key(c)].waiters = Remove(@, c)]
    /\ lost' = IF call[c].pc = "ready" THEN lost \cup {Key(c)} ELSE lost
    /\ call' = Returned(c, call) /\ due' = Redated(c, call[c].rt)
    /\ UNCHANGED <<phase, set, ctx, res, held, up, ticks, calls, cancels, passed>>

\* next: FIFO, or the first waiter of a routine other than the one last served
NextWaiter(g) ==
    LET other == {i \in DOMAIN g.waiters : call[g.waiters[i]].rt # g.lastServed}
    IN  IF g.rotate /\ other # {} THEN Min(other) ELSE 1

\* a leave that frees the key it hands over
LeaveTwice(c) ==
    LET k == Key(c)
        g == group[k]
    IN  IF g.waiters = <<>>
        THEN /\ group' = [group EXCEPT ![k].cancelHeld = None, ![k].held = FALSE]
             /\ call' = Returned(c, call) /\ UNCHANGED passed
        ELSE LET w == g.waiters[NextWaiter(g)]
                 n == [call EXCEPT ![w].pc = "ready"]
             IN  /\ group' = [group EXCEPT ![k].cancelHeld = None, ![k].held = FALSE,
                                           ![k].waiters = Remove(@, w)]
                 /\ call' = Returned(c, n) /\ UNCHANGED passed

\* a leave that frees the key and wakes nobody
LeaveForgetful(c) ==
    /\ group' = [group EXCEPT ![Key(c)].cancelHeld = None, ![Key(c)].held = FALSE]
    /\ call' = Returned(c, call) /\ UNCHANGED passed

\* leave: cancel the run's context, hand the key to the next waiter or free it
Leave(c) ==
    LET k == Key(c)
        g == group[k]
    IN  IF g.waiters = <<>>
        THEN /\ group' = [group EXCEPT ![k].cancelHeld = None, ![k].held = FALSE]
             /\ call' = Returned(c, call) /\ UNCHANGED passed
        ELSE LET w == g.waiters[NextWaiter(g)]
                 h == Head(g.waiters)
                 n == [call EXCEPT ![w].pc = "ready"]
             IN  /\ group' = [group EXCEPT ![k].cancelHeld = None, ![k].waiters = Remove(@, w)]
                 /\ call' = Returned(c, n)
                 /\ passed' = IF w = h THEN passed ELSE [passed EXCEPT ![h] = @ + 1]

-----------------------------------------------------------------------------
(* Running the steps *)

Ended(c, s) == call[c].step[s] \in Statuses
WaveOf(c) == IF call[c].wave = 0 THEN {} ELSE set[call[c].rt].order[call[c].wave]
WaveDone(c) == \A s \in WaveOf(c) : Ended(c, s)
ParentFailed(c, s) ==
    \E p \in StepsOf(c)[s].parents : call[c].step[p] \notin {"pass", "abstained"}

\* execute: the next wave, its steps started together, those with a failed parent skipped
NextWave(c) ==
    /\ call[c].pc = "run" /\ WaveDone(c) /\ call[c].wave < Len(set[call[c].rt].order)
    /\ LET wave == set[call[c].rt].order[call[c].wave + 1] IN
        call' = [call EXCEPT ![c].wave = @ + 1,
            ![c].step = [s \in DOMAIN @ |-> IF s \notin wave THEN @[s]
                                            ELSE IF ParentFailed(c, s) THEN "skipped" ELSE "queued"]]
    /\ UNCHANGED <<phase, set, group, ctx, res, held, up, due, ticks, calls, cancels, lost, passed>>

\* the run ends: its record goes to the history, its key to the next waiter
EndRun(c) ==
    /\ call[c].pc = "run" /\ WaveDone(c) /\ call[c].wave = Len(set[call[c].rt].order)
    /\ Leave(c)
    /\ due' = Redated(c, call[c].rt)
    /\ UNCHANGED <<phase, set, ctx, res, held, up, ticks, calls, cancels, lost>>

\* bindService and bindRun: the key a step holds while its handler runs
Resource(st) == IF st.action = "work" THEN "worktree" ELSE st.service

\* a Down that stops the service without looking at the holds that are left
ClaimedUncounted(st) ==
    CASE st.action = "work" -> [count |-> held, at |-> "working"]
      [] st.action = "up" ->
            [count |-> [held EXCEPT ![st.service] = @ + 1],
             at |-> IF held[st.service] = 0 THEN "starting" ELSE "shared"]
      [] OTHER ->
            [count |-> [held EXCEPT ![st.service] = IF @ = 0 THEN 0 ELSE @ - 1], at |-> "stopping"]

\* what Up's claim and Down's releaseHeld leave of the count, and what the handler goes on with
Claimed(st) ==
    CASE st.action = "work" -> [count |-> held, at |-> "working"]
      [] st.action = "up" ->
            [count |-> [held EXCEPT ![st.service] = @ + 1],
             at |-> IF held[st.service] = 0 THEN "starting" ELSE "shared"]
      [] OTHER ->
            [count |-> [held EXCEPT ![st.service] = IF @ = 0 THEN 0 ELSE @ - 1],
             at |-> IF held[st.service] = 1 THEN "stopping" ELSE "shared"]

BeginStep(c, s) ==
    /\ call[c].pc = "run" /\ call[c].step[s] = "queued"
    /\ LET st == StepsOf(c)[s] IN
        /\ res[Resource(st)] = None
        /\ res' = [res EXCEPT ![Resource(st)] = c]
        /\ held' = Claimed(st).count
        /\ call' = [call EXCEPT ![c].step[s] = Claimed(st).at]
    /\ UNCHANGED <<phase, set, group, ctx, up, due, ticks, calls, cancels, lost, passed>>

\* runStep: how a handler's outcome becomes the step's status
Status(c, outcome) == IF ctx[c].run THEN outcome ELSE "canceled"

\* a gate, a command or a scan may end in any way; a service step only passes or fails,
\* and a hold that starts and stops nothing passes
StepOutcomes(at) ==
    CASE at = "working" -> {"pass", "abstained", "fail", "error"}
      [] at = "shared" -> {"pass"}
      [] OTHER -> {"pass", "fail"}

\* serviceOutcome: Up that failed gives its hold back; whether the command left the
\* service running is not known to it, and the same goes for a Down that failed
Settled(at, sv, outcome, count, running) ==
    CASE at = "starting" /\ outcome = "pass" -> count = held[sv] /\ running
      [] at = "starting" /\ outcome = "fail" -> count = held[sv] - 1
      [] at = "stopping" /\ outcome = "pass" -> count = held[sv] /\ ~running
      [] at = "stopping" /\ outcome = "fail" -> count = held[sv]
      [] OTHER -> count = held[sv] /\ running = up[sv]

EndStep(c, s) ==
    /\ call[c].pc = "run"
    /\ call[c].step[s] \in {"working", "starting", "shared", "stopping"}
    /\ LET st == StepsOf(c)[s]
           at == call[c].step[s]
       IN
        /\ res' = [res EXCEPT ![Resource(st)] = None]
        /\ \E outcome \in StepOutcomes(at), n \in {held[st.service], held[st.service] - 1},
              running \in BOOLEAN :
            /\ Settled(at, st.service, outcome, n, running)
            /\ held' = [held EXCEPT ![st.service] = n]
            /\ up' = [up EXCEPT ![st.service] = running]
            /\ call' = [call EXCEPT ![c].step[s] = Status(c, outcome)]
    /\ UNCHANGED <<phase, set, group, ctx, due, ticks, calls, cancels, lost, passed>>

StepNames == UNION {DOMAIN p[r].steps : p \in Projects, r \in Routines}

CallStep(c) ==
    \/ NotDue /\ c = Timekeeper
    \/ Finished(c) \/ Run(c) \/ Take(c) \/ Drop(c) \/ NextWave(c) \/ EndRun(c)
    \/ \E s \in StepNames : s \in DOMAIN call[c].step /\ (BeginStep(c, s) \/ EndStep(c, s))

Next ==
    \/ Load \/ Wake \/ Fire \/ Tick
    \/ \E c \in Callers : RunRoutine(c) \/ CallerCanceled(c) \/ CallStep(c)

\* the goroutines of the code run on: a step ends, a closed channel is seen
Progress == \E c \in Callers : CallStep(c)
Fairness == WF_vars(Progress)
Spec == Init /\ [][Next]_vars
FairSpec == Spec /\ Fairness

-----------------------------------------------------------------------------
Using(k) == {c \in Callers : call[c].pc \in {"run", "ready"} /\ Key(c) = k}

(***************************************************************************)
(* One run per concurrency key: whatever order runs arrive, are canceled,  *)
(* are handed the key and leave, at most one of them is running or about   *)
(* to, and the waiter at the head of the queue is passed over at most once *)
(* for a routine that is not its own (concurrency.go enter, take, leave    *)
(* and next).                                                              *)
(***************************************************************************)
OneRunPerKey == \A k \in DOMAIN group : Cardinality(Using(k)) <= 1
HeadPassedOnce == \A c \in Callers : passed[c] <= 1
KeyDiscipline == OneRunPerKey /\ HeadPassedOnce

\* a run that holds a service: its up step passed and its down step has not begun
Holds(c, sv) ==
    /\ call[c].pc = "run"
    /\ \E s \in DOMAIN call[c].step : /\ StepsOf(c)[s].action = "up" /\ StepsOf(c)[s].service = sv
                                      /\ call[c].step[s] = "pass"
    /\ \E s \in DOMAIN call[c].step : /\ StepsOf(c)[s].action = "down" /\ StepsOf(c)[s].service = sv
                                      /\ call[c].step[s] \in {"todo", "queued"}

(***************************************************************************)
(* A service is not taken away from a run that holds it: from the step     *)
(* that brought it up to the one that takes it down the service runs, and  *)
(* the count is at least the number of runs that hold it, whoever else     *)
(* starts, fails to start or stops it (services.go Up and Down).           *)
(***************************************************************************)
ServiceUpWhileHeld ==
    \A sv \in Services :
        /\ (\E c \in Callers : Holds(c, sv)) => up[sv]
        /\ held[sv] >= Cardinality({c \in Callers : Holds(c, sv)})

(***************************************************************************)
(* A run waiting for a key is admitted or its context ended, except behind *)
(* a key handed to a waiter that left at that moment (concurrency.go       *)
(* acquire).                                                               *)
(***************************************************************************)
WaiterServedUnlessLost ==
    \A c \in Callers : call[c].pc = "wait" ~> (call[c].pc # "wait" \/ lost # {})

(***************************************************************************)
(* What concurrency.go says of the key, "The release func hands the key to *)
(* the next waiter": every run that waits is admitted or leaves.           *)
(***************************************************************************)
EveryWaiterServed == \A c \in Callers : call[c].pc = "wait" ~> call[c].pc # "wait"

(***************************************************************************)
(* services.go: a service should be up only while something needs it: with *)
(* every caller idle no hold is left.                                      *)
(***************************************************************************)
HoldsReturned == (\A c \in Callers : call[c].pc = "idle") => \A s \in Services : held[s] = 0

\* schedule.go: a run that overruns its interval delays only itself
DelaysOnlyItself ==
    \A r \in Routines :
        Loaded /\ set[r].scheduled /\ due[r] = 0 /\ call[Timekeeper].pc = "wait"
            => call[Timekeeper].rt = r
=============================================================================

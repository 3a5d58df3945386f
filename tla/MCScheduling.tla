---------------------------- MODULE MCScheduling ----------------------------
(***************************************************************************)
(* The two components that hand exclusive keys to those who wait for them: *)
(* the gate scheduler and the routines.  They share no state: a behaviour  *)
(* is of one of them, and `part' says which; the other stands at its       *)
(* initial state.  The gates are GateSched's own, with the constants of    *)
(* the configuration and below; the routines are an instance.              *)
(***************************************************************************)
EXTENDS GateSched

VARIABLES part,
          r_phase, r_set, r_group, r_call, r_ctx, r_res, r_held, r_up, r_due, r_ticks, r_calls,
          r_cancels, r_lost, r_passed

r_vars == <<r_phase, r_set, r_group, r_call, r_ctx, r_res, r_held, r_up, r_due, r_ticks, r_calls,
           r_cancels, r_lost, r_passed>>
allVars == <<part, vars, r_vars>>

\* Routines: two that share a service, two that share a key under different disciplines, one
\* that supersedes itself beside a disabled one, and one whose steps need each other.
Step(action, parents) == [action |-> action, service |-> "db", parents |-> parents]
Served == [u |-> Step("up", {}), w |-> Step("work", {"u"}), d |-> Step("down", {"w"})]
Brief == [u |-> Step("up", {}), d |-> Step("down", {"u"})]
One == [w |-> Step("work", {})]
Two == [w |-> Step("work", {}), x |-> Step("work", {"w"})]
Loop == [w |-> Step("work", {"x"}), x |-> Step("work", {"w"})]
Routine(key, discipline, steps, scheduled, enabled) ==
    [enabled |-> enabled, key |-> key, concurrency |-> discipline, scheduled |-> scheduled,
     steps |-> steps, order |-> << >>]
RoutineFiles ==
    {[A |-> Routine("a", "queue", Served, FALSE, TRUE), B |-> Routine("b", "queue", Brief, FALSE, TRUE)],
     [A |-> Routine("k", "queue", One, TRUE, TRUE), B |-> Routine("k", "round-robin", One, TRUE, TRUE)],
     [A |-> Routine("k", "cancel-in-progress", One, FALSE, TRUE), B |-> Routine("k", "queue", Two, TRUE, FALSE)],
     [A |-> Routine("k", "queue", Loop, FALSE, TRUE), B |-> Routine("k", "queue", One, FALSE, TRUE)]}

\* Gates: a formatter and two that read the tree, beside a verification round and a coverage job.
GateResources == [fmt |-> {1}, lint |-> {2}, chk |-> {2, 3}, vfmt |-> {1}, vtest |-> {2, 3}, lsp |-> {}]

GateSteps == <<"vfmt", "vtest">>

\* The timekeeper, a user and a turn's hook, which may be canceled.
R == INSTANCE Routines WITH
    Callers <- {"tk", "u1", "u2"}, Timekeeper <- "tk", Turn <- "u2", Routines <- {"A", "B"},
    Services <- {"db"}, Projects <- RoutineFiles, Interval <- 1, MaxCalls <- 4, MaxTicks <- 1,
    MaxCancels <- 1, phase <- r_phase, set <- r_set, group <- r_group, call <- r_call,
    ctx <- r_ctx, res <- r_res, held <- r_held, up <- r_up, due <- r_due, ticks <- r_ticks,
    calls <- r_calls, cancels <- r_cancels, lost <- r_lost, passed <- r_passed

AllInit ==
    /\ part \in {"gates", "routines"}
    /\ Init
    /\ R!Init

AllNext ==
    \/ part = "gates" /\ Next /\ UNCHANGED <<part, r_vars>>
    \/ part = "routines" /\ R!Next /\ UNCHANGED <<part, vars>>

\* The fairness of each component: goroutines that can run do.
AllProgress ==
    \/ part = "gates" /\ Progress /\ UNCHANGED <<part, r_vars>>
    \/ part = "routines" /\ R!Progress /\ UNCHANGED <<part, vars>>

AllSpec == AllInit /\ [][AllNext]_allVars /\ WF_allVars(AllProgress)

-----------------------------------------------------------------------------
(* Of the gates: GateSched's GatesApart. *)

\* Every gate that asked for its keys runs (GateSched!EveryJobServed).  One routine runs per
\* concurrency key and passes no waiter twice, a service is up while anyone holds it, and every
\* routine that waits for its key gets it or is canceled, short of the hand-over a canceled
\* waiter loses (Routines!KeyDiscipline, ServiceUpWhileHeld, WaiterServedUnlessLost).
WaitersServed ==
    /\ EveryJobServed
    /\ [](part = "routines" => R!KeyDiscipline /\ R!ServiceUpWhileHeld)
    /\ part = "routines" => R!WaiterServedUnlessLost
=============================================================================

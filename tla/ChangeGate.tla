----------------------------- MODULE ChangeGate -----------------------------
(***************************************************************************)
(* The way of an edit from the tool that made it to the gates and of what  *)
(* the gates found back to the run (internal/app/changegate.go,            *)
(* internal/gate/runner.go, internal/agent/loop.go).                       *)
(*                                                                         *)
(*   Enqueue -> inbox -> pump -> Runner's batch per writer -> gate run,    *)
(*   admitted beside the local turns -> results -> Collect -> TakeFeedback *)
(*                                                                         *)
(* A writer is a thread's run.  Enqueue is two steps, since it sends on    *)
(* the inbox outside the lock.  The gates are one gate with an outcome:    *)
(* pass, fixed (a pass whose fixer rewrote a file), fail, or alien (a      *)
(* failure that names no file the run changed).                            *)
(***************************************************************************)
EXTENDS Integers, FiniteSets, FiniteSetsExt, Sequences

CONSTANTS
    Writers,        \* the threads whose runs edit
    LocalWriters,   \* those whose turns hold an admission for the local model
    Paths,          \* the files they edit
    Outcomes,       \* what a gate run may find
    InboxCap,       \* changeInbox
    StuckAfter,     \* stuckAfter
    MaxRuns,        \* bound: runs of one writer
    MaxEdits,       \* bound: edits of one run
    None            \* no change in hand

ASSUME GateAssumption ==
    /\ IsFiniteSet(Writers) /\ LocalWriters \subseteq Writers
    /\ Outcomes \subseteq {"pass", "fixed", "fail", "alien"}
    /\ InboxCap \in Nat \ {0} /\ StuckAfter \in Nat \ {0}
    /\ MaxRuns \in Nat /\ MaxEdits \in Nat

Changes == [writer : Writers, path : Paths, run : 1..MaxRuns, n : 1..MaxEdits]

ASSUME NoneAssumption == None \notin Changes

VARIABLES
    run, working,       \* per writer: its latest run, and whether a turn is in flight
    edits,              \* per writer: edits of the current run
    queued, changed, latest, pending, verdict, alarms,      \* runState
    told, escalated,    \* per writer: failures delivered; how it was escalated
    sending, inbox, pump,       \* the change Enqueue holds, the channel, the pump's hand
    batches, armed,             \* Runner: pending changes per writer, debounce timer
    phase, todo, batch, result, \* Runner: where it stands in a firing
    results,                    \* Runner.results, of capacity 1
    made, covered               \* history: changes recorded, changes collected

runVars == <<run, working, edits, told, escalated>>
stateVars == <<queued, changed, latest, pending, verdict, alarms>>
feedVars == <<sending, inbox, pump>>
runnerVars == <<batches, armed, phase, todo, batch, result, results>>
vars == <<runVars, stateVars, feedVars, runnerVars, made, covered>>

NoResult == [writer |-> None, covers |-> {}, outcome |-> "none", tree |-> 0]
NoVerdict == [outcome |-> "none", changes |-> 0, repeats |-> 0, tree |-> 0]

Init ==
    /\ run = [w \in Writers |-> 0] /\ working = [w \in Writers |-> FALSE]
    /\ edits = [w \in Writers |-> 0]
    /\ queued = [w \in Writers |-> 0] /\ changed = [w \in Writers |-> 0]
    /\ latest = [w \in Writers |-> NoResult] /\ pending = [w \in Writers |-> {}]
    /\ verdict = [w \in Writers |-> NoVerdict] /\ alarms = [w \in Writers |-> {}]
    /\ told = [w \in Writers |-> 0] /\ escalated = [w \in Writers |-> "no"]
    /\ sending = [w \in Writers |-> None] /\ inbox = <<>> /\ pump = None
    /\ batches = [w \in Writers |-> {}] /\ armed = FALSE
    /\ phase = "idle" /\ todo = {} /\ batch = None /\ result = NoResult /\ results = <<>>
    /\ made = {} /\ covered = {}

Passes(outcome) == outcome \in {"pass", "fixed"}
Fails(outcome) == outcome \in {"fail", "alien"}

-----------------------------------------------------------------------------
(* The run *)

\* Loop.Run's call of ChangeGate.Begin, the turn being admitted: the previous
\* run is forgotten, what is under way for it is not.
Begin(w) ==
    /\ ~working[w] /\ run[w] < MaxRuns
    /\ run' = [run EXCEPT ![w] = @ + 1]
    /\ working' = [working EXCEPT ![w] = TRUE]
    /\ edits' = [edits EXCEPT ![w] = 0]
    /\ told' = [told EXCEPT ![w] = 0]
    /\ escalated' = [escalated EXCEPT ![w] = "no"]
    /\ queued' = [queued EXCEPT ![w] = 0]
    /\ changed' = [changed EXCEPT ![w] = 0]
    /\ latest' = [latest EXCEPT ![w] = NoResult]
    /\ pending' = [pending EXCEPT ![w] = {}]
    /\ verdict' = [verdict EXCEPT ![w] = NoVerdict]
    /\ alarms' = [alarms EXCEPT ![w] = {}]
    /\ UNCHANGED <<feedVars, runnerVars, made, covered>>

\* gateChanges and Enqueue's critical section: the edit is counted.
Enqueue(w, p) ==
    LET c == [writer |-> w, path |-> p, run |-> run[w], n |-> edits[w] + 1]
    IN  /\ working[w] /\ sending[w] = None /\ edits[w] < MaxEdits
        /\ edits' = [edits EXCEPT ![w] = @ + 1]
        /\ queued' = [queued EXCEPT ![w] = @ + 1]
        /\ changed' = [changed EXCEPT ![w] = @ + 1]
        /\ sending' = [sending EXCEPT ![w] = c]
        /\ made' = made \cup {c}
        /\ UNCHANGED <<run, working, told, escalated, latest, pending, verdict, alarms,
                       inbox, pump, runnerVars, covered>>

SentUnbounded(w) ==
    /\ sending[w] # None
    /\ inbox' = Append(inbox, sending[w])
    /\ sending' = [sending EXCEPT ![w] = None]
    /\ UNCHANGED <<runVars, stateVars, pump, runnerVars, made, covered>>

\* Enqueue's send, which blocks the turn while the inbox is full.
Sent(w) ==
    /\ sending[w] # None /\ Len(inbox) < InboxCap
    /\ inbox' = Append(inbox, sending[w])
    /\ sending' = [sending EXCEPT ![w] = None]
    /\ UNCHANGED <<runVars, stateVars, pump, runnerVars, made, covered>>

SoleWriter == Cardinality({w \in Writers : changed[w] > 0}) <= 1

\* collectGateFeedback between two turns of the model: FalseAlarms, then
\* escalateIfStuck, then TakeFeedback, which beside another writer drops the
\* failures that name nothing of this run.
Feedback(w) ==
    LET heard == {r \in pending[w] : Fails(r.outcome) /\ (SoleWriter \/ r.outcome # "alien")}
    IN  /\ working[w] /\ sending[w] = None
        /\ alarms' = [alarms EXCEPT ![w] = {}]
        /\ escalated' = [escalated EXCEPT ![w] =
                IF verdict[w].repeats >= StuckAfter - 1 /\ @ = "no"
                THEN (IF told[w] > 0 THEN "told" ELSE "untold") ELSE @]
        /\ told' = [told EXCEPT ![w] = IF heard # {} THEN @ + 1 ELSE @]
        /\ pending' = [pending EXCEPT ![w] = {}]
        /\ UNCHANGED <<run, working, edits, queued, changed, latest, verdict,
                       feedVars, runnerVars, made, covered>>

EndRunSilently(w) ==
    /\ working[w] /\ sending[w] = None
    /\ working' = [working EXCEPT ![w] = FALSE]
    /\ UNCHANGED <<run, edits, told, escalated, stateVars, feedVars, runnerVars, made, covered>>

\* The turn is over.  A local one leaves the scheduler and wakes the gate run.
EndRun(w) ==
    /\ working[w] /\ sending[w] = None
    /\ working' = [working EXCEPT ![w] = FALSE]
    /\ phase' = IF phase = "held" /\ w \in LocalWriters THEN "ask" ELSE phase
    /\ UNCHANGED <<run, edits, told, escalated, stateVars, feedVars,
                   batches, armed, todo, batch, result, results, made, covered>>

-----------------------------------------------------------------------------
(* The pumps and the Runner *)

PumpTakes ==
    /\ pump = None /\ inbox # <<>>
    /\ pump' = Head(inbox)
    /\ inbox' = Tail(inbox)
    /\ UNCHANGED <<runVars, stateVars, sending, runnerVars, made, covered>>

AcceptReplaces ==
    /\ pump # None /\ phase = "idle"
    /\ batches' = [batches EXCEPT ![pump.writer] = {pump}]
    /\ armed' = TRUE
    /\ pump' = None
    /\ UNCHANGED <<runVars, stateVars, sending, inbox, phase, todo, batch, result, results,
                   made, covered>>

AcceptForAnyone ==
    /\ pump # None /\ phase = "idle"
    /\ \E w \in Writers : batches' = [batches EXCEPT ![w] = @ \cup {pump}]
    /\ armed' = TRUE
    /\ pump' = None
    /\ UNCHANGED <<runVars, stateVars, sending, inbox, phase, todo, batch, result, results,
                   made, covered>>

\* Runner.Enqueue meets Start's select: the change joins its writer's batch and
\* the debounce starts again.
Accept ==
    /\ pump # None /\ phase = "idle"
    /\ batches' = [batches EXCEPT ![pump.writer] = @ \cup {pump}]
    /\ armed' = TRUE
    /\ pump' = None
    /\ UNCHANGED <<runVars, stateVars, sending, inbox, phase, todo, batch, result, results,
                   made, covered>>

\* The debounce ran out: every writer's batch is run in turn, in map order.
Fire ==
    /\ phase = "idle" /\ armed
    /\ armed' = FALSE
    /\ todo' = {w \in Writers : batches[w] # {}}
    /\ phase' = "fire"
    /\ UNCHANGED <<runVars, stateVars, feedVars, batches, batch, result, results, made, covered>>

Pick(w) ==
    /\ phase = "fire" /\ w \in todo
    /\ batch' = w
    /\ todo' = todo \ {w}
    /\ phase' = "ask"
    /\ UNCHANGED <<runVars, stateVars, feedVars, batches, armed, result, results, made, covered>>

\* admitted's AdmitGate: held while memory is tight and a local turn is in
\* flight, on the Runner's own goroutine.
AdmitGate(tight) ==
    /\ phase = "ask"
    /\ phase' = IF tight /\ \E w \in LocalWriters : working[w] THEN "held" ELSE "run"
    /\ UNCHANGED <<runVars, stateVars, feedVars, batches, armed, todo, batch, result, results,
                   made, covered>>

\* The gates run over the tree as it stands and over the batch's changes.
RunBatch(outcome) ==
    /\ phase = "run"
    /\ result' = [writer |-> batch, covers |-> batches[batch], outcome |-> outcome,
                  tree |-> edits[batch]]
    /\ batches' = [batches EXCEPT ![batch] = {}]
    /\ phase' = "deliver"
    /\ UNCHANGED <<runVars, stateVars, feedVars, armed, todo, batch, results, made, covered>>

Deliver ==
    /\ phase = "deliver" /\ results = <<>>
    /\ results' = <<result>>
    /\ result' = NoResult
    /\ batch' = None
    /\ phase' = IF todo = {} THEN "idle" ELSE "fire"
    /\ UNCHANGED <<runVars, stateVars, feedVars, batches, armed, todo, made, covered>>

\* noteFalseAlarms for one gate: a pass over as many changes as it last failed
\* over retracts the failure; the same failure over more changes is a repeat.
NextVerdict(w, r) ==
    [outcome |-> r.outcome, changes |-> changed[w], tree |-> r.tree,
     repeats |-> IF Fails(r.outcome) /\ verdict[w].outcome = r.outcome
                 THEN verdict[w].repeats + (IF changed[w] > verdict[w].changes THEN 1 ELSE 0)
                 ELSE 0]

CollectClearsQueue ==
    /\ results # <<>>
    /\ LET r == Head(results)
           w == r.writer
       IN  /\ pending' = [pending EXCEPT ![w] = @ \cup {r}]
           /\ latest' = [latest EXCEPT ![w] = r]
           /\ verdict' = [verdict EXCEPT ![w] = NextVerdict(w, r)]
           /\ queued' = [queued EXCEPT ![w] = 0]
           /\ covered' = covered \cup r.covers
    /\ results' = <<>>
    /\ UNCHANGED <<runVars, changed, alarms, feedVars, batches, armed, phase, todo, batch, result, made>>

\* Collect: the batch's writer is told at its next turn, and its count of
\* uncovered changes goes down by the files of the batch, not below zero.
Collect ==
    /\ results # <<>>
    /\ LET r == Head(results)
           w == r.writer
           v == verdict[w]
       IN  /\ pending' = [pending EXCEPT ![w] = @ \cup {r}]
           /\ latest' = [latest EXCEPT ![w] = r]
           /\ alarms' = IF Fails(v.outcome) /\ Passes(r.outcome) /\ v.changes = changed[w]
                        THEN [alarms EXCEPT ![w] = @ \cup {<<v.tree, r.tree>>}] ELSE alarms
           /\ verdict' = [verdict EXCEPT ![w] = NextVerdict(w, r)]
           /\ changed' = [changed EXCEPT ![w] = IF r.outcome = "fixed" THEN @ + 1 ELSE @]
           /\ queued' = [queued EXCEPT ![w] = Max({@ - Cardinality({c.path : c \in r.covers}), 0})]
           /\ covered' = covered \cup r.covers
    /\ results' = <<>>
    /\ UNCHANGED <<runVars, feedVars, batches, armed, phase, todo, batch, result, made>>

-----------------------------------------------------------------------------
Run(w) == Begin(w) \/ Sent(w) \/ Feedback(w) \/ EndRun(w) \/ \E p \in Paths : Enqueue(w, p)
Gates ==
    \/ PumpTakes \/ Accept \/ Fire \/ Deliver \/ Collect
    \/ \E w \in Writers : Pick(w)
    \/ \E tight \in BOOLEAN : AdmitGate(tight)
    \/ \E outcome \in Outcomes : RunBatch(outcome)

Next == Gates \/ \E w \in Writers : Run(w)

Spec == Init /\ [][Next]_vars

\* The goroutines of ChangeGate.Start run, a gate run ends, and a turn that is
\* not blocked in Enqueue ends by the loop's own bounds.
Fairness ==
    /\ WF_vars(PumpTakes) /\ WF_vars(Accept) /\ WF_vars(Fire) /\ WF_vars(Deliver) /\ WF_vars(Collect)
    /\ WF_vars(\E w \in Writers : Pick(w))
    /\ WF_vars(\E tight \in BOOLEAN : AdmitGate(tight))
    /\ WF_vars(\E outcome \in Outcomes : RunBatch(outcome))
    /\ \A w \in Writers : WF_vars(Sent(w)) /\ WF_vars(EndRun(w))

FairSpec == Spec /\ Fairness

-----------------------------------------------------------------------------
(* Properties *)

InFlight ==
    {c \in {sending[w] : w \in Writers} \cup {inbox[i] : i \in DOMAIN inbox} \cup {pump} : c # None}
    \cup (UNION {batches[w] : w \in Writers})
    \cup result.covers \cup (UNION {results[i].covers : i \in DOMAIN results})

\* Every variable has its type, the inbox and the results channel keep their
\* capacities, and only recorded changes are collected.
TypeOK ==
    /\ run \in [Writers -> 0..MaxRuns] /\ working \in [Writers -> BOOLEAN]
    /\ edits \in [Writers -> 0..MaxEdits] /\ queued \in [Writers -> Nat]
    /\ sending \in [Writers -> Changes \cup {None}] /\ pump \in Changes \cup {None}
    /\ inbox \in Seq(Changes) /\ Len(inbox) <= InboxCap /\ Len(results) <= 1
    /\ batches \in [Writers -> SUBSET Changes] /\ todo \subseteq Writers
    /\ phase \in {"idle", "fire", "ask", "held", "run", "deliver"}
    /\ made \subseteq Changes /\ covered \subseteq made

\* No edit slips past the gates: one that Enqueue counted is on its way to a
\* gate run or a gate run over it has been collected, never both.
NoChangeLost == made = InFlight \cup covered /\ InFlight \cap covered = {}

\* A run is told of gate runs over its own edits, never over a neighbour's:
\* the batches are per writer, so SoleWriter names one.
FeedbackOwn ==
    \A w \in Writers : \A r \in pending[w] \cup {latest[w]} : \A c \in r.covers : c.writer = w

\* Status answers "passed" or "failed" only when every edit of the run has been
\* through the gates: queued is what tells a stale answer from a current one.
StatusCurrent ==
    \A w \in Writers :
        queued[w] = 0 /\ latest[w] # NoResult =>
            \A c \in made : c.writer = w /\ c.run = run[w] => c \in covered

\* A gate run held for memory waits for a local turn that is in flight.
HeldForTurn == phase = "held" => \E w \in LocalWriters : working[w]

\* What a run hears of the gates is its own and current, and the gates wait for no idle turn.
StatusSound == TypeOK /\ FeedbackOwn /\ StatusCurrent /\ HeldForTurn

\* Every edit is gated in the end.
EveryChangeGated == \A c \in Changes : c \in made ~> c \in covered

-----------------------------------------------------------------------------
(* What comments in the code say and TLC refutes: README, "Disagreements" *)

\* After Begin a run hears of no gate run over its predecessor's edits.
NoOldReport ==
    \A w \in Writers : \A r \in pending[w] \cup {latest[w]} : \A c \in r.covers : c.run = run[w]

\* A retracted failure is one over the tree the pass was over.
FalseAlarmReal == \A w \in Writers : \A a \in alarms[w] : a[1] = a[2]

\* A run moved up a tier for repeating a failure has been told of the failure.
StuckAfterTold == \A w \in Writers : escalated[w] # "untold"

\* "They are running on your latest changes now" stops being the answer.
QueuedSettles == \A w \in Writers : queued[w] > 0 ~> queued[w] = 0
=============================================================================

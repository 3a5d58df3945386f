------------------------------- MODULE Turns -------------------------------
(***************************************************************************)
(* The life of a turn in the daemon: prompts sent to threads and queued    *)
(* behind a running turn (internal/daemon/manager.go), the admission of a  *)
(* turn beside gate runs (internal/sched/sched.go), the permission prompts *)
(* that park it (internal/daemon/pending.go) and the shutdown that waits   *)
(* for it (internal/daemon/daemon.go).                                     *)
(*                                                                         *)
(* A turn is a goroutine; turns are numbered in the order they start, so   *)
(* two turns of one thread can be alive at once, as runTurn's deferred     *)
(* calls make possible.  Each critical section of managedThread.mu,        *)
(* Scheduler.mu or Broker.mu is an action.  A memory reading is a choice:  *)
(* tight or not.                                                           *)
(***************************************************************************)
EXTENDS Integers, FiniteSets, Sequences

CONSTANTS
    Threads,        \* the threads of the manager
    Nobody,         \* the owner of a turn not yet started
    CycleThreads,   \* those that run a cycle instead of one loop
    Tiers,          \* the tiers a thread may be pinned to: local, hosted
    Gated,          \* whether a gate runner competes for the machine
    MaxPrompts,     \* bound: prompts sent to one thread
    MaxAsks         \* bound: permission prompts of one turn

ASSUME TurnsAssumption ==
    /\ IsFiniteSet(Threads) /\ Nobody \notin Threads /\ CycleThreads \subseteq Threads
    /\ Tiers \subseteq {"local", "hosted"} /\ Tiers # {}
    /\ Gated \in BOOLEAN /\ MaxPrompts \in Nat /\ MaxAsks \in Nat

Turns == 1..(Cardinality(Threads) * MaxPrompts)

VARIABLES
    running, current, pending, release, override,   \* managedThread, per thread
    sent, ran,                      \* history: prompts sent, prompts started
    owner, pc, parked, asks, got,   \* per turn: its thread and where it stands
    canceled,                       \* turns whose context is done
    turns, gates, woken,            \* Scheduler, and the turns its wake reached
    gate,                           \* the gate runner: idle, enter, held, run
    items, answers,                 \* Broker.items, answered prompts not yet read
    server, awaiting, visited       \* Shutdown and waitIdle

threadVars == <<running, current, pending, release, override, sent, ran>>
turnVars == <<owner, pc, parked, asks, got, canceled>>
schedVars == <<turns, gates, woken, gate>>
brokerVars == <<items, answers>>
serverVars == <<server, awaiting, visited>>
vars == <<threadVars, turnVars, schedVars, brokerVars, serverVars>>

NoTurn == 0

Init ==
    /\ running = [t \in Threads |-> FALSE]
    /\ current = [t \in Threads |-> NoTurn]
    /\ pending = [t \in Threads |-> <<>>]
    /\ release = [t \in Threads |-> "nil"]
    /\ override \in [Threads -> Tiers]
    /\ sent = [t \in Threads |-> 0]
    /\ ran = [t \in Threads |-> <<>>]
    /\ owner = [n \in Turns |-> Nobody]
    /\ pc = [n \in Turns |-> "unborn"]
    /\ parked = [n \in Turns |-> FALSE]
    /\ asks = [n \in Turns |-> 0]
    /\ got = [n \in Turns |-> "nil"]
    /\ canceled = {}
    /\ turns = 0 /\ gates = 0 /\ woken = {} /\ gate = "idle"
    /\ items = {} /\ answers = {}
    /\ server = "up" /\ awaiting = NoTurn /\ visited = {}

-----------------------------------------------------------------------------
(* Starting turns *)

Born == {n \in Turns : pc[n] # "unborn"}
NextTurn == Cardinality(Born) + 1

\* startTurn, inside the caller's critical section, which leaves the turns there
\* are at the steps at.
StartTurn(t, prompt, at) ==
    /\ running' = [running EXCEPT ![t] = TRUE]
    /\ current' = [current EXCEPT ![t] = NextTurn]
    /\ ran' = [ran EXCEPT ![t] = Append(@, prompt)]
    /\ owner' = [owner EXCEPT ![NextTurn] = t]
    /\ pc' = [at EXCEPT ![NextTurn] = "begin"]

SendAlwaysStarts(t, interrupt) ==
    /\ server = "up" /\ sent[t] < MaxPrompts
    /\ sent' = [sent EXCEPT ![t] = @ + 1]
    /\ StartTurn(t, sent[t] + 1, pc)
    /\ UNCHANGED <<pending, canceled, release, override, parked, asks, got,
                   schedVars, brokerVars, serverVars>>

\* send: queue behind the running turn, ending it on an interrupt, or start.
Send(t, interrupt) ==
    /\ server = "up" /\ sent[t] < MaxPrompts
    /\ sent' = [sent EXCEPT ![t] = @ + 1]
    /\ IF running[t]
       THEN /\ pending' = [pending EXCEPT ![t] = Append(@, sent[t] + 1)]
            /\ canceled' = IF interrupt THEN canceled \cup {current[t]} ELSE canceled
            /\ UNCHANGED <<running, current, ran, owner, pc>>
       ELSE /\ ~interrupt
            /\ StartTurn(t, sent[t] + 1, pc)
            /\ UNCHANGED <<pending, canceled>>
    /\ UNCHANGED <<release, override, parked, asks, got, schedVars, brokerVars, serverVars>>

\* cancel, from any client: it ends the turn in flight.
Cancel(t) ==
    /\ running[t] /\ server = "up"
    /\ canceled' = canceled \cup {current[t]}
    /\ UNCHANGED <<threadVars, owner, pc, parked, asks, got, schedVars, brokerVars, serverVars>>

SetOverride(t) ==
    /\ server = "up"
    /\ \E tier \in Tiers \ {override[t]} : override' = [override EXCEPT ![t] = tier]
    /\ UNCHANGED <<running, current, pending, release, sent, ran,
                   turnVars, schedVars, brokerVars, serverVars>>

-----------------------------------------------------------------------------
(* Admission *)

Goto(n, l) == pc' = [pc EXCEPT ![n] = l]

\* Where an admission that was granted or failed leads: the turn's first, or
\* the one after a prompt that parked it.
Begin(n) ==
    /\ pc[n] \in {"begin", "unpark"}
    /\ parked' = [parked EXCEPT ![n] = pc[n] = "unpark"]
    /\ IF override[owner[n]] = "hosted"
       THEN Goto(n, "set") /\ got' = [got EXCEPT ![n] = "noop"]
       ELSE Goto(n, "enter") /\ UNCHANGED got
    /\ UNCHANGED <<threadVars, owner, asks, canceled, schedVars, brokerVars, serverVars>>

\* enter: a turn waits for the gate run in flight when memory is tight.
Enter(n, tight) ==
    /\ pc[n] = "enter"
    /\ IF tight /\ gates > 0
       THEN Goto(n, "held") /\ UNCHANGED <<got, turns>>
       ELSE /\ Goto(n, "set")
            /\ got' = [got EXCEPT ![n] = "leave"]
            /\ turns' = turns + 1
    /\ UNCHANGED <<threadVars, owner, parked, asks, canceled, gates, woken, gate,
                   brokerVars, serverVars>>

Woken(n) ==
    /\ pc[n] = "held" /\ n \in woken
    /\ Goto(n, "enter")
    /\ woken' = woken \ {n}
    /\ UNCHANGED <<threadVars, owner, parked, asks, got, canceled, turns, gates, gate,
                   brokerVars, serverVars>>

\* The wait is canceled.  A first admission ends the turn on the spot, without
\* a look at the queued prompts; a later one fails the prompt that asked.
AdmitFails(n) ==
    /\ pc[n] = "held" /\ n \in canceled
    /\ woken' = woken \ {n}
    /\ IF parked[n]
       THEN Goto(n, "run") /\ UNCHANGED running
       ELSE Goto(n, "closed") /\ running' = [running EXCEPT ![owner[n]] = FALSE]
    /\ UNCHANGED <<current, pending, release, override, sent, ran,
                   owner, parked, asks, got, canceled, turns, gates, gate, brokerVars, serverVars>>

SetRelease(n) ==
    /\ pc[n] = "set"
    /\ release' = [release EXCEPT ![owner[n]] = got[n]]
    /\ Goto(n, "run")
    /\ UNCHANGED <<running, current, pending, override, sent, ran, owner, parked, asks, got,
                   canceled, schedVars, brokerVars, serverVars>>

\* leave closes the wake channel: every held turn tries again, and the gate.
WakeAll ==
    /\ woken' = {n \in Turns : pc[n] = "held"}
    /\ gate' = IF gate = "held" THEN "enter" ELSE gate

WakeNobody == UNCHANGED <<woken, gate>>

ReleaseKeepsFunc(t) ==
    /\ UNCHANGED release
    /\ IF release[t] = "leave"
       THEN turns' = turns - 1 /\ WakeAll
       ELSE UNCHANGED turns /\ WakeNobody

\* releaseAdmission: take whatever release func the thread holds and call it.
ReleaseAdmission(t) ==
    /\ release' = [release EXCEPT ![t] = "nil"]
    /\ IF release[t] = "leave"
       THEN turns' = turns - 1 /\ WakeAll
       ELSE UNCHANGED turns /\ WakeNobody

-----------------------------------------------------------------------------
(* A turn at work, and its prompts *)

\* Broker.wait registers the prompt, then parks the thread.
Ask(n) ==
    /\ pc[n] = "run" /\ asks[n] < MaxAsks
    /\ asks' = [asks EXCEPT ![n] = @ + 1]
    /\ items' = items \cup {n}
    /\ Goto(n, "park")
    /\ UNCHANGED <<threadVars, owner, parked, got, canceled, schedVars, answers, serverVars>>

ParkKeeps(n) ==
    /\ pc[n] = "park"
    /\ Goto(n, "ask")
    /\ UNCHANGED <<threadVars, owner, parked, asks, got, canceled, schedVars, brokerVars, serverVars>>

Park(n) ==
    /\ pc[n] = "park"
    /\ ReleaseAdmission(owner[n])
    /\ Goto(n, "ask")
    /\ UNCHANGED <<running, current, pending, override, sent, ran, owner, parked, asks, got,
                   canceled, gates, brokerVars, serverVars>>

AnswerDropped(n) ==
    /\ n \in items /\ server = "up"
    /\ items' = items \ {n}
    /\ UNCHANGED <<threadVars, turnVars, schedVars, answers, serverVars>>

\* Answer: whoever deletes the item settles it.
Answer(n) ==
    /\ n \in items /\ server = "up"
    /\ items' = items \ {n}
    /\ answers' = answers \cup {n}
    /\ UNCHANGED <<threadVars, turnVars, schedVars, serverVars>>

Answered(n) ==
    /\ pc[n] = "ask" /\ n \in answers
    /\ answers' = answers \ {n}
    /\ Goto(n, "unpark")
    /\ UNCHANGED <<threadVars, owner, parked, asks, got, canceled, schedVars, items, serverVars>>

AskNeverFails(n) == FALSE /\ UNCHANGED vars

AskFailsLeavesItem(n) ==
    /\ pc[n] = "ask" /\ n \in canceled
    /\ Goto(n, "run")
    /\ UNCHANGED <<threadVars, owner, parked, asks, got, canceled, schedVars, brokerVars, serverVars>>

\* The wait is canceled: the prompt goes, and an answer that raced it is lost
\* with the channel.  The thread stays parked.
AskFails(n) ==
    /\ pc[n] = "ask" /\ n \in canceled
    /\ items' = items \ {n}
    /\ answers' = answers \ {n}
    /\ Goto(n, "run")
    /\ UNCHANGED <<threadVars, owner, parked, asks, got, canceled, schedVars, serverVars>>

\* loop.Run (or the cycle) returns and the finish routines have run.
Finish(n) ==
    /\ pc[n] = "run"
    /\ Goto(n, "end")
    /\ UNCHANGED <<threadVars, owner, parked, asks, got, canceled, schedVars, brokerVars, serverVars>>

EndNewestFirst(n) ==
    LET t == owner[n]
    IN  /\ pc[n] = "end"
        /\ IF pending[t] # <<>> /\ t \notin CycleThreads
           THEN /\ StartTurn(t, pending[t][Len(pending[t])], [pc EXCEPT ![n] = "release"])
                /\ pending' = [pending EXCEPT ![t] = SubSeq(@, 1, Len(@) - 1)]
           ELSE /\ running' = [running EXCEPT ![t] = FALSE]
                /\ Goto(n, "release")
                /\ UNCHANGED <<current, ran, owner, pending>>
        /\ UNCHANGED <<release, override, sent, parked, asks, got, canceled,
                       schedVars, brokerVars, serverVars>>

EndWithoutDrain(n) ==
    /\ pc[n] = "end"
    /\ running' = [running EXCEPT ![owner[n]] = FALSE]
    /\ Goto(n, "release")
    /\ UNCHANGED <<current, ran, owner, pending, release, override, sent, parked, asks, got,
                   canceled, schedVars, brokerVars, serverVars>>

\* runTurn's last critical section: not running, and drainPending starts the
\* next queued prompt.  runCycle's has no drainPending.
End(n) ==
    LET t == owner[n]
    IN  /\ pc[n] = "end"
        /\ IF pending[t] # <<>> /\ t \notin CycleThreads
           THEN /\ StartTurn(t, Head(pending[t]), [pc EXCEPT ![n] = "release"])
                /\ pending' = [pending EXCEPT ![t] = Tail(@)]
           ELSE /\ running' = [running EXCEPT ![t] = FALSE]
                /\ Goto(n, "release")
                /\ UNCHANGED <<current, ran, owner, pending>>
        /\ UNCHANGED <<release, override, sent, parked, asks, got, canceled,
                       schedVars, brokerVars, serverVars>>

CloseKeeps(n) ==
    /\ pc[n] = "release"
    /\ Goto(n, "closed")
    /\ UNCHANGED <<threadVars, owner, parked, asks, got, canceled, schedVars, brokerVars, serverVars>>

\* runTurn's deferred releaseAdmission and close(done), outside the lock.
Close(n) ==
    /\ pc[n] = "release"
    /\ ReleaseAdmission(owner[n])
    /\ Goto(n, "closed")
    /\ UNCHANGED <<running, current, pending, override, sent, ran, owner, parked, asks, got,
                   canceled, gates, brokerVars, serverVars>>

-----------------------------------------------------------------------------
(* The gate runner and the shutdown *)

GateAsks ==
    /\ Gated /\ gate = "idle" /\ server = "up"
    /\ gate' = "enter"
    /\ UNCHANGED <<threadVars, turnVars, turns, gates, woken, brokerVars, serverVars>>

\* AdmitGate: a gate run waits for the turns in flight when memory is tight.
GateEnter(tight) ==
    /\ gate = "enter"
    /\ IF tight /\ turns > 0
       THEN gate' = "held" /\ UNCHANGED gates
       ELSE gate' = "run" /\ gates' = gates + 1
    /\ UNCHANGED <<threadVars, turnVars, turns, woken, brokerVars, serverVars>>

GateDoneSilently ==
    /\ gate = "run"
    /\ gates' = gates - 1
    /\ gate' = "idle"
    /\ UNCHANGED <<threadVars, turnVars, turns, woken, brokerVars, serverVars>>

GateDone ==
    /\ gate = "run"
    /\ gates' = gates - 1
    /\ gate' = "idle"
    /\ woken' = {n \in Turns : pc[n] = "held"}
    /\ UNCHANGED <<threadVars, turnVars, turns, brokerVars, serverVars>>

\* Shutdown closes the connections, so no command arrives any more.
Shutdown ==
    /\ server = "up"
    /\ server' = "draining"
    /\ UNCHANGED <<threadVars, turnVars, schedVars, brokerVars, awaiting, visited>>

WaitSkips(t) ==
    /\ server = "draining" /\ awaiting = NoTurn /\ t \notin visited
    /\ visited' = visited \cup {t}
    /\ UNCHANGED <<threadVars, turnVars, schedVars, brokerVars, server, awaiting>>

\* waitIdle takes the threads one by one and waits for the turn each has then.
WaitFor(t) ==
    /\ server = "draining" /\ awaiting = NoTurn /\ t \notin visited
    /\ awaiting' = current[t]
    /\ visited' = visited \cup {t}
    /\ UNCHANGED <<threadVars, turnVars, schedVars, brokerVars, server>>

GraceOver ==
    /\ server = "draining" /\ awaiting # NoTurn
    /\ canceled' = canceled \cup {awaiting}
    /\ UNCHANGED <<threadVars, owner, pc, parked, asks, got, schedVars, brokerVars, serverVars>>

WaitDone ==
    /\ server = "draining" /\ awaiting # NoTurn
    /\ pc[awaiting] = "closed"
    /\ awaiting' = NoTurn
    /\ UNCHANGED <<threadVars, turnVars, schedVars, brokerVars, server, visited>>

\* closeAll cancels every context and closes the event logs.
CloseAll ==
    /\ server = "draining" /\ awaiting = NoTurn /\ visited = Threads
    /\ server' = "closed"
    /\ canceled' = canceled \cup Born
    /\ UNCHANGED <<threadVars, owner, pc, parked, asks, got, schedVars, brokerVars, awaiting, visited>>

-----------------------------------------------------------------------------
Admit(n) == Begin(n) \/ Woken(n) \/ AdmitFails(n) \/ SetRelease(n) \/ \E tight \in BOOLEAN : Enter(n, tight)
Work(n) == Ask(n) \/ Park(n) \/ Answered(n) \/ AskFails(n) \/ Finish(n) \/ End(n) \/ Close(n)
Gate == GateAsks \/ GateDone \/ \E tight \in BOOLEAN : GateEnter(tight)
Stop == Shutdown \/ GraceOver \/ WaitDone \/ CloseAll \/ \E t \in Threads : WaitFor(t)

Clients ==
    \/ \E t \in Threads : Cancel(t) \/ SetOverride(t) \/ \E interrupt \in BOOLEAN : Send(t, interrupt)
    \/ \E n \in Turns : Answer(n)

Next == Clients \/ (\E n \in Turns : Admit(n) \/ Work(n)) \/ Gate \/ Stop

Spec == Init /\ [][Next]_vars

\* A runnable goroutine runs, a gate run ends, and a loop whose work is over
\* (its prompts are bounded) returns.  admit's select picks at random among the
\* cases that are ready, so a done context that is ready again and again is
\* taken in the end, however often the wake channel is ready beside it.
Fairness ==
    /\ \A n \in Turns : WF_vars(Admit(n)) /\ WF_vars(Work(n)) /\ SF_vars(AdmitFails(n))
    /\ WF_vars(GateDone) /\ WF_vars(\E tight \in BOOLEAN : GateEnter(tight))

FairSpec == Spec /\ Fairness

-----------------------------------------------------------------------------
(* Properties *)

Live == {n \in Turns : pc[n] \notin {"unborn", "closed", "release"}}

\* Every variable has its type; a release func taken twice would drive the
\* scheduler's count of turns below zero.
TypeOK ==
    /\ running \in [Threads -> BOOLEAN]
    /\ current \in [Threads -> Turns \cup {NoTurn}]
    /\ pending \in [Threads -> Seq(1..MaxPrompts)]
    /\ release \in [Threads -> {"nil", "noop", "leave"}]
    /\ override \in [Threads -> Tiers]
    /\ sent \in [Threads -> 0..MaxPrompts]
    /\ owner \in [Turns -> Threads \cup {Nobody}]
    /\ turns \in 0..Cardinality(Turns) /\ gates \in 0..1
    /\ canceled \subseteq Turns /\ woken \subseteq Turns
    /\ items \subseteq Turns /\ answers \subseteq Turns

\* A thread has one turn at work when it says it is running, and none when it
\* does not: send, runTurn and drainPending agree on mt.running.
OneTurn ==
    \A t \in Threads :
        {n \in Live : owner[n] = t} = IF running[t] THEN {current[t]} ELSE {}

\* Prompts start one at a time in the order they were sent, and each one sent
\* has started or is queued: none is dropped, doubled or overtaken.
PromptOrder ==
    \A t \in Threads : ran[t] \o pending[t] = [i \in 1..sent[t] |-> i]

\* A queued prompt has a turn ahead of it at whose end it starts.
QueuedHasRunner == \A t \in Threads : pending[t] # <<>> => running[t]

\* A thread's prompts run one turn at a time in the order they were sent, and a queued one has
\* a turn that will start it.
PromptsInTurn == TypeOK /\ OneTurn /\ PromptOrder /\ QueuedHasRunner

\* With every turn over, the scheduler counts none: what a turn was admitted
\* for is given back exactly once, through parking, cancellation and retiering.
AdmissionReturned ==
    (\A n \in Turns : pc[n] \in {"unborn", "closed"}) => turns = 0

\* A turn parked on a prompt holds no admission a working turn needs.
ParkedHoldsNothing ==
    (\A n \in Turns : pc[n] \in {"unborn", "closed", "ask"}) => turns = 0

\* A turn held for memory has a gate run ahead of it, or has been woken; a
\* held gate run has a turn ahead of it.  Nothing waits for what is over.
HeldForRival ==
    /\ \A n \in Turns : pc[n] = "held" => gates > 0 \/ n \in woken
    /\ gate = "held" => turns > 0

\* Admission as a whole: returned with the turn, and while it parks, and nobody held by a
\* rival that is gone.
AdmissionSound == TypeOK /\ AdmissionReturned /\ ParkedHoldsNothing /\ HeldForRival

\* A turn waiting on a prompt can be answered: the prompt is listed, or its
\* answer is on the way.
PromptAnswerable == \A n \in Turns : pc[n] = "ask" => n \in items \cup answers

\* A listed prompt has a turn that will take its answer.
ListedPromptAlive == \A n \in items : pc[n] \in {"park", "ask"}

\* Prompts and turns match: who waits can be answered, what is listed has a taker.
PromptsAnswered == PromptAnswerable /\ ListedPromptAlive

\* Once the logs are closed no turn is at work.
NoTurnAfterClose == server = "closed" => Live = {}

\* A canceled turn ends, wherever it stood: waiting for admission, for an
\* answer or for the gate.
CanceledEnds == \A n \in Turns : n \in canceled ~> pc[n] = "closed"

\* A gate run held for memory is admitted in the end: the turns ahead of it end,
\* or park on their prompts and give their admission back, answered or not.
GateServed == gate = "held" ~> gate = "run"
=============================================================================

------------------------------- MODULE Slots -------------------------------
(***************************************************************************)
(* AdmitSlot, releaseSlot and abandon of internal/sched/sched.go: the      *)
(* bounded requests to the local model, handed from one caller to the next *)
(* in the order they queued.  Each critical section of Scheduler.mu is an  *)
(* action, so a hand-over can fall between a caller's context ending and   *)
(* its abandon.                                                            *)
(***************************************************************************)
EXTENDS Integers, FiniteSets, Sequences

CONSTANTS
    Callers,    \* threads with a request for the local model
    Slots       \* Scheduler.slots: requests the server serves at once

ASSUME SlotsAssumption == IsFiniteSet(Callers) /\ Slots \in Nat \ {0}

VARIABLES
    held,       \* Scheduler.held
    waiting,    \* Scheduler.waiting: the callers' channels, oldest first
    closed,     \* callers whose channel has been closed: the slot is theirs
    pc          \* idle, select, serving, abandon or return

vars == <<held, waiting, closed, pc>>

Init ==
    /\ held = 0
    /\ waiting = <<>>
    /\ closed = {}
    /\ pc = [c \in Callers |-> "idle"]

Goto(c, l) == pc' = [pc EXCEPT ![c] = l]

\* The queue without its i-th caller.
Cut(s, i) == [j \in 1..(Len(s) - 1) |-> IF j < i THEN s[j] ELSE s[j + 1]]

Queued(c) == \E i \in 1..Len(waiting) : waiting[i] = c

\* AdmitSlot's fast path, and its queueing.
AdmitNow(c) ==
    /\ pc[c] = "idle"
    /\ held < Slots /\ waiting = <<>>
    /\ held' = held + 1
    /\ Goto(c, "serving")
    /\ UNCHANGED <<waiting, closed>>

AdmitLater(c) ==
    /\ pc[c] = "idle"
    /\ ~(held < Slots /\ waiting = <<>>)
    /\ waiting' = Append(waiting, c)
    /\ Goto(c, "select")
    /\ UNCHANGED <<held, closed>>

\* The select's first case: the channel was closed by a releaseSlot.
Resume(c) ==
    /\ pc[c] = "select"
    /\ c \in closed
    /\ closed' = closed \ {c}
    /\ Goto(c, "serving")
    /\ UNCHANGED <<held, waiting>>

\* The select's other case: the run was canceled.  With both ready, either.
GiveUp(c) ==
    /\ pc[c] = "select"
    /\ Goto(c, "abandon")
    /\ UNCHANGED <<held, waiting, closed>>

AbandonKeeps(c) ==
    /\ pc[c] = "abandon"
    /\ \/ \E i \in 1..Len(waiting) : waiting[i] = c /\ waiting' = Cut(waiting, i)
       \/ ~Queued(c) /\ UNCHANGED waiting
    /\ closed' = closed \ {c}
    /\ Goto(c, "idle")
    /\ UNCHANGED held

\* abandon: out of the queue if still in it, else the slot has to go back.
Abandon(c) ==
    /\ pc[c] = "abandon"
    /\ \/ /\ \E i \in 1..Len(waiting) : waiting[i] = c /\ waiting' = Cut(waiting, i)
          /\ Goto(c, "idle")
          /\ UNCHANGED closed
       \/ /\ ~Queued(c)
          /\ closed' = closed \ {c}
          /\ Goto(c, "return")
          /\ UNCHANGED waiting
    /\ UNCHANGED held

ReleaseSlotNewest(c) ==
    /\ pc[c] \in {"serving", "return"}
    /\ Goto(c, "idle")
    /\ IF waiting # <<>>
       THEN /\ closed' = closed \cup {waiting[Len(waiting)]}
            /\ waiting' = SubSeq(waiting, 1, Len(waiting) - 1)
            /\ UNCHANGED held
       ELSE held' = held - 1 /\ UNCHANGED <<waiting, closed>>

ReleaseSlotAlsoLowers(c) ==
    /\ pc[c] \in {"serving", "return"}
    /\ Goto(c, "idle")
    /\ held' = held - 1
    /\ IF waiting # <<>>
       THEN closed' = closed \cup {Head(waiting)} /\ waiting' = Tail(waiting)
       ELSE UNCHANGED <<waiting, closed>>

ReleaseSlotOnlyLowers(c) ==
    /\ pc[c] \in {"serving", "return"}
    /\ Goto(c, "idle")
    /\ held' = held - 1
    /\ UNCHANGED <<waiting, closed>>

\* releaseSlot, after the request or after an abandon that came too late.
ReleaseSlot(c) ==
    /\ pc[c] \in {"serving", "return"}
    /\ Goto(c, "idle")
    /\ IF waiting # <<>>
       THEN /\ closed' = closed \cup {Head(waiting)}
            /\ waiting' = Tail(waiting)
            /\ UNCHANGED held
       ELSE /\ held' = held - 1
            /\ UNCHANGED <<waiting, closed>>

Next ==
    \E c \in Callers :
        \/ AdmitNow(c) \/ AdmitLater(c) \/ Resume(c)
        \/ GiveUp(c) \/ Abandon(c) \/ ReleaseSlot(c)

Spec == Init /\ [][Next]_vars

\* A goroutine that can go on does, and a request ends: it has a deadline of
\* its own (the caller's context).
Fairness ==
    \A c \in Callers : WF_vars(Resume(c)) /\ WF_vars(Abandon(c)) /\ WF_vars(ReleaseSlot(c))

FairSpec == Spec /\ Fairness

-----------------------------------------------------------------------------
(* Properties *)

\* Callers whose request may reach the server, or who have yet to give a slot
\* back.
Owners == closed \cup {c \in Callers : pc[c] \in {"serving", "return"}}

\* Types, and the queue names waiting callers, each once.
TypeOK ==
    /\ held \in 0..Slots
    /\ waiting \in Seq(Callers)
    /\ closed \subseteq Callers
    /\ pc \in [Callers -> {"idle", "select", "serving", "abandon", "return"}]

\* held counts exactly the slots someone owns, whatever the order of hand-over,
\* cancellation and abandon: no slot is lost or made up.
SlotAccounting == held = Cardinality(Owners)

\* No slot lies idle while someone waits for one.
NoIdleSlot == waiting # <<>> => held = Slots

\* A caller is queued or was handed its slot while it is in the select or
\* about to abandon, and never otherwise.
QueueAccounting ==
    \A c \in Callers :
        /\ pc[c] \in {"select", "abandon"} <=> c \in closed \/ Queued(c)
        /\ ~(c \in closed /\ Queued(c))

NoDuplicates == \A i, j \in 1..Len(waiting) : waiting[i] = waiting[j] => i = j

\* The inductive invariant behind the theorems of SlotsProofs.
Inv == TypeOK /\ QueueAccounting /\ NoDuplicates /\ SlotAccounting /\ NoIdleSlot

\* The scheduler implements the promise: bounded, first come first served.
Promise == INSTANCE SlotQueue WITH owners <- Owners, queue <- waiting

ServesInOrder == Promise!Spec

\* Nobody waits forever behind callers that keep coming back.
EveryWaiterServed == \A c \in Callers : pc[c] = "select" ~> pc[c] # "select"
=============================================================================

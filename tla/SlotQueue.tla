----------------------------- MODULE SlotQueue -----------------------------
(***************************************************************************)
(* What AdmitSlot promises its callers (internal/sched/sched.go): at most  *)
(* Slots of them own a slot of the local model, the others queue, and a    *)
(* slot that is given back goes to the caller that has waited longest.     *)
(***************************************************************************)
EXTENDS Naturals, FiniteSets, Sequences

CONSTANTS Callers, Slots

VARIABLES
    owners,     \* the callers that own a slot
    queue       \* the callers that wait, longest wait first

vars == <<owners, queue>>

Init == owners = {} /\ queue = <<>>

Cut(s, i) == [j \in 1..(Len(s) - 1) |-> IF j < i THEN s[j] ELSE s[j + 1]]

\* A caller that finds a slot free and nobody waiting owns it at once.
Take(c) ==
    /\ c \notin owners
    /\ queue = <<>>
    /\ Cardinality(owners) < Slots
    /\ owners' = owners \cup {c}
    /\ UNCHANGED queue

Wait(c) ==
    /\ c \notin owners
    /\ queue' = Append(queue, c)
    /\ UNCHANGED owners

\* The first in line owns the slot in the very step that frees it.
PassOn(c) ==
    /\ c \in owners
    /\ queue # <<>>
    /\ owners' = (owners \ {c}) \cup {Head(queue)}
    /\ queue' = Tail(queue)

GiveBack(c) ==
    /\ c \in owners
    /\ queue = <<>>
    /\ owners' = owners \ {c}
    /\ UNCHANGED queue

Quit(c) ==
    /\ c \notin owners
    /\ \E i \in 1..Len(queue) : queue[i] = c /\ queue' = Cut(queue, i)
    /\ UNCHANGED owners

Next == \E c \in Callers : Take(c) \/ Wait(c) \/ PassOn(c) \/ GiveBack(c) \/ Quit(c)

Spec == Init /\ [][Next]_vars
=============================================================================

---------------------------- MODULE SlotsProofs ----------------------------
(***************************************************************************)
(* Proofs about Slots, for every finite set of callers and every positive  *)
(* number of slots: the accounting never drifts, and the scheduler         *)
(* implements SlotQueue.                                                   *)
(***************************************************************************)
EXTENDS Slots, FiniteSetTheorems, TLAPS

-----------------------------------------------------------------------------
(* Owners *)

\* The owners are finitely many callers.
LEMMA OwnersFinite ==
    ASSUME TypeOK
    PROVE  IsFiniteSet(Owners) /\ Owners \subseteq Callers /\ Cardinality(Owners) \in Nat
<1>1. Owners \subseteq Callers
  BY DEF Owners, TypeOK
<1>2. IsFiniteSet(Owners)
  BY <1>1, SlotsAssumption, FS_Subset
<1> QED
  BY <1>1, <1>2, FS_CardinalityType

\* One owner more, one fewer, and one for another.
LEMMA OwnersChange ==
    ASSUME TypeOK, NEW c \in Callers, NEW h \in Callers
    PROVE  /\ c \notin Owners => Cardinality(Owners \cup {c}) = Cardinality(Owners) + 1
           /\ c \in Owners => Cardinality(Owners \ {c}) = Cardinality(Owners) - 1
           /\ c \in Owners /\ h \notin Owners =>
                Cardinality((Owners \ {c}) \cup {h}) = Cardinality(Owners)
<1>1. IsFiniteSet(Owners) /\ Cardinality(Owners) \in Nat
  BY OwnersFinite
<1>2. c \notin Owners => Cardinality(Owners \cup {c}) = Cardinality(Owners) + 1
  BY <1>1, FS_AddElement
<1>3. c \in Owners => Cardinality(Owners \ {c}) = Cardinality(Owners) - 1 /\ IsFiniteSet(Owners \ {c})
  BY <1>1, FS_RemoveElement
<1>4. ASSUME c \in Owners, h \notin Owners
      PROVE  Cardinality((Owners \ {c}) \cup {h}) = Cardinality(Owners)
  <2>1. IsFiniteSet(Owners \ {c}) /\ h \notin Owners \ {c}
    BY <1>3, <1>4
  <2>2. Cardinality((Owners \ {c}) \cup {h}) = Cardinality(Owners \ {c}) + 1
    BY <2>1, FS_AddElement
  <2> QED
    BY <1>1, <1>3, <1>4, <2>2
<1> QED
  BY <1>2, <1>3, <1>4

-----------------------------------------------------------------------------
(* Queues *)

\* Cutting a caller out of the queue keeps the others and their order.
LEMMA CutQueue ==
    ASSUME NEW s \in Seq(Callers), NEW i \in 1..Len(s)
    PROVE  /\ Cut(s, i) \in Seq(Callers)
           /\ Len(Cut(s, i)) = Len(s) - 1
           /\ \A j \in 1..Len(Cut(s, i)) : Cut(s, i)[j] = IF j < i THEN s[j] ELSE s[j + 1]
<1>1. Len(s) \in Nat /\ \A j \in 1..Len(s) : s[j] \in Callers
  OBVIOUS
<1>2. Len(s) - 1 \in Nat
  BY <1>1
<1>3. \A j \in 1..(Len(s) - 1) : (IF j < i THEN s[j] ELSE s[j + 1]) \in Callers
  BY <1>1
<1>4. Cut(s, i) \in Seq(Callers) /\ Len(Cut(s, i)) = Len(s) - 1
  BY <1>2, <1>3 DEF Cut
<1> QED
  BY <1>4 DEF Cut

-----------------------------------------------------------------------------
(* The invariant *)

\* An idle scheduler satisfies the invariant.
LEMMA InitInv == Init => Inv
<1> SUFFICES ASSUME Init PROVE Inv
  OBVIOUS
<1>1. TypeOK
  BY SlotsAssumption DEF Init, TypeOK
<1>2. QueueAccounting /\ NoDuplicates /\ NoIdleSlot
  BY DEF Init, QueueAccounting, NoDuplicates, NoIdleSlot, Queued
<1>3. Owners = {}
  BY DEF Init, Owners
<1>4. SlotAccounting
  BY <1>3, FS_EmptySet DEF Init, SlotAccounting
<1> QED
  BY <1>1, <1>2, <1>4 DEF Inv

\* AdmitSlot's fast path keeps the invariant and adds an owner.
LEMMA AdmitNowInv ==
    ASSUME Inv, NEW c \in Callers, AdmitNow(c)
    PROVE  Inv' /\ Owners' = Owners \cup {c} /\ c \notin Owners
<1>1. c \notin Owners
  BY DEF Inv, QueueAccounting, Owners, AdmitNow
<1>2. Owners' = Owners \cup {c}
  BY DEF Inv, TypeOK, Owners, AdmitNow, Goto
<1>3. TypeOK'
  BY SlotsAssumption DEF Inv, TypeOK, AdmitNow, Goto
<1>4. QueueAccounting' /\ NoDuplicates' /\ NoIdleSlot'
  BY DEF Inv, TypeOK, QueueAccounting, NoDuplicates, NoIdleSlot, Queued, AdmitNow, Goto
<1>5. SlotAccounting'
  BY <1>1, <1>2, OwnersChange DEF Inv, SlotAccounting, AdmitNow
<1> QED
  BY <1>1, <1>2, <1>3, <1>4, <1>5 DEF Inv

\* Queueing keeps the invariant and the owners.
LEMMA AdmitLaterInv ==
    ASSUME Inv, NEW c \in Callers, AdmitLater(c)
    PROVE  Inv' /\ Owners' = Owners
<1>1. waiting \in Seq(Callers) /\ waiting' = Append(waiting, c) /\ Len(waiting) \in Nat
  BY DEF Inv, TypeOK, AdmitLater
<1>2. /\ Len(waiting') = Len(waiting) + 1
      /\ waiting' \in Seq(Callers)
      /\ waiting'[Len(waiting) + 1] = c
      /\ \A i \in 1..Len(waiting) : waiting'[i] = waiting[i]
  BY <1>1
<1>3. c \notin closed /\ ~Queued(c)
  BY DEF Inv, QueueAccounting, AdmitLater
<1>4. Owners' = Owners
  BY DEF Inv, TypeOK, Owners, AdmitLater, Goto
<1>5. TypeOK'
  BY <1>2 DEF Inv, TypeOK, AdmitLater, Goto
<1>6. \A d \in Callers : Queued(d)' <=> Queued(d) \/ d = c
  BY <1>1, <1>2 DEF Queued
<1>7. QueueAccounting'
  BY <1>3, <1>6 DEF Inv, TypeOK, QueueAccounting, AdmitLater, Goto
<1>8. NoDuplicates'
  BY <1>1, <1>2, <1>3 DEF Inv, NoDuplicates, Queued
<1>9. NoIdleSlot'
  BY SlotsAssumption DEF Inv, TypeOK, NoIdleSlot, AdmitLater
<1>10. SlotAccounting'
  BY <1>4 DEF Inv, SlotAccounting, AdmitLater
<1> QED
  BY <1>4, <1>5, <1>7, <1>8, <1>9, <1>10 DEF Inv

\* Waking with the slot keeps the invariant and the owners.
LEMMA ResumeInv ==
    ASSUME Inv, NEW c \in Callers, Resume(c)
    PROVE  Inv' /\ Owners' = Owners
<1>1. Owners' = Owners
  BY DEF Inv, TypeOK, Owners, Resume, Goto
<1>2. TypeOK'
  BY DEF Inv, TypeOK, Resume, Goto
<1>3. QueueAccounting' /\ NoDuplicates' /\ NoIdleSlot'
  BY DEF Inv, TypeOK, QueueAccounting, NoDuplicates, NoIdleSlot, Queued, Resume, Goto
<1>4. SlotAccounting'
  BY <1>1 DEF Inv, SlotAccounting, Resume
<1> QED
  BY <1>1, <1>2, <1>3, <1>4 DEF Inv

\* A cancellation keeps the invariant and the owners.
LEMMA GiveUpInv ==
    ASSUME Inv, NEW c \in Callers, GiveUp(c)
    PROVE  Inv' /\ Owners' = Owners
<1>1. Owners' = Owners
  BY DEF Inv, TypeOK, Owners, GiveUp, Goto
<1>2. TypeOK'
  BY DEF Inv, TypeOK, GiveUp, Goto
<1>3. QueueAccounting' /\ NoDuplicates' /\ NoIdleSlot'
  BY DEF Inv, TypeOK, QueueAccounting, NoDuplicates, NoIdleSlot, Queued, GiveUp, Goto
<1>4. SlotAccounting'
  BY <1>1 DEF Inv, SlotAccounting, GiveUp
<1> QED
  BY <1>1, <1>2, <1>3, <1>4 DEF Inv

\* Abandoning keeps the invariant and the owners, whichever of the hand-over
\* and the cancellation came first.
LEMMA AbandonInv ==
    ASSUME Inv, NEW c \in Callers, Abandon(c)
    PROVE  Inv' /\ Owners' = Owners
<1>1. waiting \in Seq(Callers) /\ Len(waiting) \in Nat
  BY DEF Inv, TypeOK
<1>2. CASE ~Queued(c) /\ closed' = closed \ {c} /\ Goto(c, "return") /\ UNCHANGED waiting
  <2>1. c \in closed
    BY <1>2 DEF Inv, QueueAccounting, Abandon
  <2>2. Owners' = Owners
    BY <1>2, <2>1 DEF Inv, TypeOK, Owners, Goto
  <2>3. TypeOK'
    BY <1>2 DEF Inv, TypeOK, Abandon, Goto
  <2>4. QueueAccounting' /\ NoDuplicates' /\ NoIdleSlot'
    BY <1>2 DEF Inv, TypeOK, QueueAccounting, NoDuplicates, NoIdleSlot, Queued, Abandon, Goto
  <2>5. SlotAccounting'
    BY <2>2 DEF Inv, SlotAccounting, Abandon
  <2> QED
    BY <2>2, <2>3, <2>4, <2>5 DEF Inv
<1>3. ASSUME NEW i \in 1..Len(waiting), waiting[i] = c, waiting' = Cut(waiting, i),
             Goto(c, "idle"), UNCHANGED closed
      PROVE  Inv' /\ Owners' = Owners
  <2>1. /\ waiting' \in Seq(Callers)
        /\ Len(waiting') = Len(waiting) - 1
        /\ \A j \in 1..Len(waiting') : waiting'[j] = IF j < i THEN waiting[j] ELSE waiting[j + 1]
    BY <1>1, <1>3, CutQueue
  <2>2. Queued(c) /\ c \notin closed
    BY <1>3 DEF Inv, QueueAccounting, Queued
  <2>3. Owners' = Owners
    BY <1>3, <2>2 DEF Inv, TypeOK, Owners, Goto, Abandon
  <2>4. TypeOK'
    BY <1>3, <2>1 DEF Inv, TypeOK, Abandon, Goto
  <2>5. NoDuplicates'
    BY <1>1, <1>3, <2>1 DEF Inv, NoDuplicates
  <2>6. \A d \in Callers : Queued(d)' <=> Queued(d) /\ d # c
    <3> TAKE d \in Callers
    <3>1. ASSUME NEW j \in 1..Len(waiting'), waiting'[j] = d PROVE Queued(d) /\ d # c
      BY <1>1, <1>3, <2>1, <3>1 DEF Inv, NoDuplicates, Queued
    <3>2. ASSUME NEW j \in 1..Len(waiting), waiting[j] = d, d # c PROVE Queued(d)'
      <4>1. CASE j < i
        <5>1. j \in 1..Len(waiting') /\ waiting'[j] = d
          BY <1>1, <2>1, <3>2, <4>1
        <5> QED
          BY <5>1 DEF Queued
      <4>2. CASE j > i
        <5>1. j - 1 \in 1..Len(waiting') /\ waiting'[j - 1] = d
          BY <1>1, <2>1, <3>2, <4>2
        <5> QED
          BY <5>1 DEF Queued
      <4>3. j # i
        BY <1>3, <3>2
      <4> QED
        BY <4>1, <4>2, <4>3
    <3> QED
      BY <3>1, <3>2 DEF Queued
  <2>7. QueueAccounting'
    BY <1>3, <2>2, <2>6 DEF Inv, TypeOK, QueueAccounting, Goto, Abandon
  <2>8. NoIdleSlot'
    BY <1>1, <1>3 DEF Inv, NoIdleSlot, Abandon
  <2>9. SlotAccounting'
    BY <2>3 DEF Inv, SlotAccounting, Abandon
  <2> QED
    BY <2>3, <2>4, <2>5, <2>7, <2>8, <2>9 DEF Inv
<1> QED
  BY <1>2, <1>3 DEF Abandon

\* Giving a slot back keeps the invariant: the first in line owns it in the
\* same step, and with nobody waiting the count goes down.
LEMMA ReleaseSlotInv ==
    ASSUME Inv, NEW c \in Callers, ReleaseSlot(c)
    PROVE  /\ Inv' /\ c \in Owners
           /\ waiting # <<>> => /\ Owners' = (Owners \ {c}) \cup {Head(waiting)}
                                /\ waiting' = Tail(waiting)
           /\ waiting = <<>> => Owners' = Owners \ {c} /\ waiting' = waiting
<1>1. waiting \in Seq(Callers) /\ Len(waiting) \in Nat
  BY DEF Inv, TypeOK
<1>2. c \in Owners /\ c \notin closed /\ ~Queued(c)
  BY DEF Inv, QueueAccounting, Owners, ReleaseSlot
<1>3. CASE waiting # <<>>
  <2> DEFINE h == Head(waiting)
  <2>1. h \in Callers /\ h = waiting[1] /\ 1 \in 1..Len(waiting)
    BY <1>1, <1>3
  <2>2. Queued(h) /\ h \notin closed /\ h # c /\ pc[h] \in {"select", "abandon"}
    BY <1>2, <2>1 DEF Inv, QueueAccounting, Queued
  <2>3. waiting' = Tail(waiting) /\ closed' = closed \cup {h} /\ held' = held /\ Goto(c, "idle")
    BY <1>3 DEF ReleaseSlot
  <2>4. /\ waiting' \in Seq(Callers)
        /\ Len(waiting') = Len(waiting) - 1
        /\ \A j \in 1..Len(waiting') : waiting'[j] = waiting[j + 1]
    BY <1>1, <1>3, <2>3
  <2> HIDE DEF h
  <2>5. h \notin Owners
    BY <2>2 DEF Owners
  <2>6. Owners' = (Owners \ {c}) \cup {h}
    BY <1>2, <2>1, <2>2, <2>3 DEF Inv, TypeOK, Owners, Goto
  <2>7. TypeOK'
    BY <2>1, <2>3, <2>4 DEF Inv, TypeOK, Goto
  <2>8. NoDuplicates'
    BY <1>1, <2>4 DEF Inv, NoDuplicates
  <2>9. \A d \in Callers : Queued(d)' <=> Queued(d) /\ d # h
    <3> TAKE d \in Callers
    <3>1. ASSUME NEW j \in 1..Len(waiting'), waiting'[j] = d PROVE Queued(d) /\ d # h
      BY <1>1, <2>1, <2>4, <3>1 DEF Inv, NoDuplicates, Queued
    <3>2. ASSUME NEW j \in 1..Len(waiting), waiting[j] = d, d # h PROVE Queued(d)'
      <4>1. j - 1 \in 1..Len(waiting') /\ waiting'[j - 1] = d
        BY <1>1, <2>1, <2>4, <3>2
      <4> QED
        BY <4>1 DEF Queued
    <3> QED
      BY <3>1, <3>2 DEF Queued
  <2>10. QueueAccounting'
    BY <1>2, <2>1, <2>2, <2>3, <2>9 DEF Inv, TypeOK, QueueAccounting, Goto, ReleaseSlot
  <2>11. NoIdleSlot'
    BY <1>3, <2>3 DEF Inv, NoIdleSlot
  <2>12. SlotAccounting'
    <3>1. Cardinality((Owners \ {c}) \cup {h}) = Cardinality(Owners)
      BY <1>2, <2>1, <2>5, OwnersChange DEF Inv
    <3> QED
      BY <2>3, <2>6, <3>1 DEF Inv, SlotAccounting
  <2> QED
    BY <1>2, <1>3, <2>3, <2>6, <2>7, <2>8, <2>10, <2>11, <2>12 DEF Inv, h
<1>4. CASE waiting = <<>>
  <2>1. held' = held - 1 /\ UNCHANGED <<waiting, closed>> /\ Goto(c, "idle")
    BY <1>4 DEF ReleaseSlot
  <2>2. Owners' = Owners \ {c}
    BY <1>2, <2>1 DEF Inv, TypeOK, Owners, Goto
  <2>3. Cardinality(Owners \ {c}) = Cardinality(Owners) - 1 /\ Cardinality(Owners') \in Nat
    <3>1. IsFiniteSet(Owners \ {c})
      BY OwnersFinite, FS_RemoveElement DEF Inv
    <3>2. Cardinality(Owners \ {c}) \in Nat
      BY <3>1, FS_CardinalityType
    <3> QED
      BY <1>2, <2>2, <3>2, OwnersChange DEF Inv
  <2>4. SlotAccounting'
    BY <2>1, <2>2, <2>3 DEF Inv, SlotAccounting
  <2>5. held' \in Nat
    BY <2>3, <2>4 DEF SlotAccounting
  <2>6. TypeOK'
    BY <2>1, <2>5, SlotsAssumption DEF Inv, TypeOK, Goto
  <2>7. QueueAccounting' /\ NoDuplicates' /\ NoIdleSlot'
    BY <1>2, <1>4, <2>1 DEF Inv, TypeOK, QueueAccounting, NoDuplicates, NoIdleSlot, Queued, Goto, ReleaseSlot
  <2> QED
    BY <1>2, <1>4, <2>1, <2>2, <2>4, <2>6, <2>7 DEF Inv
<1> QED
  BY <1>3, <1>4

\* Every step keeps the invariant.
LEMMA NextInv == Inv /\ [Next]_vars => Inv'
<1> SUFFICES ASSUME Inv, [Next]_vars PROVE Inv'
  OBVIOUS
<1>1. CASE UNCHANGED vars
  <2>1. Owners' = Owners
    BY <1>1 DEF Owners, vars
  <2> QED
    BY <1>1, <2>1 DEF Inv, TypeOK, QueueAccounting, NoDuplicates, SlotAccounting, NoIdleSlot, Queued, vars
<1> QED
  BY <1>1, AdmitNowInv, AdmitLaterInv, ResumeInv, GiveUpInv, AbandonInv, ReleaseSlotInv DEF Next

-----------------------------------------------------------------------------
(* Theorems *)

\* The number held is always the number of slots owned: a hand-over that races
\* a cancellation neither loses a slot nor makes one up.
THEOREM SlotsAccounted == Spec => []SlotAccounting
<1>1. Inv => SlotAccounting
  BY DEF Inv
<1> QED
  BY <1>1, InitInv, NextInv, PTL DEF Spec

\* A slot never lies idle while a caller waits.
THEOREM SlotsBusy == Spec => []NoIdleSlot
<1>1. Inv => NoIdleSlot
  BY DEF Inv
<1> QED
  BY <1>1, InitInv, NextInv, PTL DEF Spec

\* Every step of the scheduler is a step of the promised queue, or none.
LEMMA StepKeepsPromise == Inv /\ [Next]_vars => [Promise!Next]_(Promise!vars)
<1> SUFFICES ASSUME Inv, [Next]_vars PROVE [Promise!Next]_(Promise!vars)
  OBVIOUS
<1>1. CASE UNCHANGED vars
  BY <1>1 DEF vars, Owners, Promise!vars
<1>2. ASSUME NEW c \in Callers, AdmitNow(c) PROVE Promise!Take(c)
  <2>1. Owners' = Owners \cup {c} /\ c \notin Owners
    BY <1>2, AdmitNowInv
  <2>2. waiting = <<>> /\ waiting' = waiting /\ held < Slots
    BY <1>2 DEF AdmitNow
  <2>3. Cardinality(Owners) < Slots
    BY <2>2 DEF Inv, SlotAccounting
  <2> QED
    BY <2>1, <2>2, <2>3 DEF Promise!Take, Promise!Cardinality, Cardinality
<1>3. ASSUME NEW c \in Callers, AdmitLater(c) PROVE Promise!Wait(c)
  <2>1. Owners' = Owners /\ waiting' = Append(waiting, c)
    BY <1>3, AdmitLaterInv DEF AdmitLater
  <2>2. c \notin Owners
    BY <1>3 DEF Inv, QueueAccounting, Owners, AdmitLater
  <2> QED
    BY <2>1, <2>2 DEF Promise!Wait
<1>4. ASSUME NEW c \in Callers, Resume(c) \/ GiveUp(c) PROVE UNCHANGED Promise!vars
  <2>1. Owners' = Owners /\ waiting' = waiting
    BY <1>4, ResumeInv, GiveUpInv DEF Resume, GiveUp
  <2> QED
    BY <2>1 DEF Promise!vars
<1>5. ASSUME NEW c \in Callers, Abandon(c) PROVE Promise!Quit(c) \/ UNCHANGED Promise!vars
  <2>1. Owners' = Owners
    BY <1>5, AbandonInv
  <2>2. CASE waiting' = waiting
    BY <2>1, <2>2 DEF Promise!vars
  <2>3. CASE \E i \in 1..Len(waiting) : waiting[i] = c /\ waiting' = Cut(waiting, i)
    <3>1. c \notin Owners
      BY <1>5, <2>3 DEF Inv, QueueAccounting, Queued, Owners, Abandon
    <3> QED
      BY <2>1, <2>3, <3>1 DEF Promise!Quit, Promise!Cut, Cut
  <2> QED
    BY <1>5, <2>2, <2>3 DEF Abandon
<1>6. ASSUME NEW c \in Callers, ReleaseSlot(c) PROVE Promise!PassOn(c) \/ Promise!GiveBack(c)
  <2>1. c \in Owners
    BY <1>6, ReleaseSlotInv
  <2>2. CASE waiting # <<>>
    <3>1. Owners' = (Owners \ {c}) \cup {Head(waiting)} /\ waiting' = Tail(waiting)
      BY <1>6, <2>2, ReleaseSlotInv
    <3> QED
      BY <2>1, <2>2, <3>1 DEF Promise!PassOn
  <2>3. CASE waiting = <<>>
    <3>1. Owners' = Owners \ {c} /\ waiting' = waiting
      BY <1>6, <2>3, ReleaseSlotInv
    <3> QED
      BY <2>1, <2>3, <3>1 DEF Promise!GiveBack
  <2> QED
    BY <2>2, <2>3
<1> QED
  BY <1>1, <1>2, <1>3, <1>4, <1>5, <1>6 DEF Next, Promise!Next

\* The scheduler implements the first-come-first-served queue of slots.
THEOREM SlotsServeInOrder == Spec => ServesInOrder
<1>1. Init => Promise!Init
  BY DEF Init, Promise!Init, Owners
<1> QED
  BY <1>1, InitInv, NextInv, StepKeepsPromise, PTL DEF Spec, ServesInOrder, Promise!Spec
=============================================================================

------------------------------- MODULE Lease -------------------------------
(***************************************************************************)
(* The lease manager of internal/lease/lease.go: advisory TTL leases over  *)
(* directory subtrees, taken by the write tools of concurrently running    *)
(* threads.  Every critical section of Manager.mu is one action; what a    *)
(* caller does between two critical sections is a value of pc.             *)
(*                                                                         *)
(* A subtree key is the sequence of its path components, so "." is <<>>;   *)
(* component names are numbers.                                            *)
(* Time is kept as ages: age 0 is "since = now", and an age stops growing  *)
(* one past the TTL, where the code can no longer tell two ages apart.     *)
(***************************************************************************)
EXTENDS Integers, FiniteSets, Sequences

CONSTANTS
    Threads,    \* the holders: thread ids
    Nobody,     \* the empty holder of an entry only waiters created
    Keys,       \* the subtree keys the claims name
    Claims,     \* the key sequences a write tool may claim, in claim order
    TTL         \* how old an unrenewed lease may be and still be active

ASSUME LeaseAssumption ==
    /\ Nobody \notin Threads
    /\ IsFiniteSet(Threads)
    /\ Keys \subseteq Seq(Nat)
    /\ Claims \subseteq Seq(Keys)
    /\ TTL \in Nat

VARIABLES
    held,       \* Manager.held: key -> entry, NoEntry where the map has none
    waiting,    \* Manager.waiting
    pc,         \* where each thread's Acquire loop stands
    claim,      \* the keys of the tool call a thread is making
    got,        \* how many of them it has acquired
    queued,     \* Acquire's local "waiting": the thread is in a waiter list
    woken,      \* the wake channel the thread captured has been closed
    lapsed      \* history: threads a lease of which expired in this claim

vars == <<held, waiting, pc, claim, got, queued, woken, lapsed>>
callVars == <<claim, got, queued>>

-----------------------------------------------------------------------------
(* Entries and their state *)

MaxAge == TTL + 1

Entry == [present : BOOLEAN, holder : Threads \cup {Nobody}, depth : Nat,
          age : 0..MaxAge, waiters : SUBSET Threads]

NoEntry == [present |-> FALSE, holder |-> Nobody, depth |-> 0,
            age |-> MaxAge, waiters |-> {}]

\* a is b or an ancestor of b: a == b, a == "." or b has the prefix a + "/".
Under(a, b) == Len(a) <= Len(b) /\ \A i \in 1..Len(a) : a[i] = b[i]

Overlaps(a, b) == Under(a, b) \/ Under(b, a)

IsActive(e) == e.depth > 0 /\ e.age <= TTL
IsExpired(e) == e.depth > 0 /\ e.age > TTL

\* sweep: entries past their TTL with nobody holding or waiting are dropped.
Sweep(h) ==
    [k \in Keys |-> IF h[k].waiters = {} /\ h[k].depth = 0 /\ h[k].age > TTL
                    THEN NoEntry ELSE h[k]]

BlockersExact(h, k, t) == {o \in Keys : h[o].holder # t /\ IsActive(h[o]) /\ k = o}

BlockersReentrant(h, k, t) == {o \in Keys : IsActive(h[o]) /\ Overlaps(k, o)}

\* The keys whose entry keeps holder t from taking key k.
Blockers(h, k, t) ==
    {o \in Keys : h[o].holder # t /\ IsActive(h[o]) /\ Overlaps(k, o)}

TakenFresh(e, t) ==
    [present |-> TRUE, holder |-> t, depth |-> IF e.holder = t THEN e.depth + 1 ELSE 1,
     age |-> 0, waiters |-> {}]

\* The entry key k has once holder t took it: its own entry one deeper, or a
\* fresh one that inherits the waiters of the entry it replaces.
Taken(e, t) ==
    [present |-> TRUE,
     holder  |-> t,
     depth   |-> IF e.holder = t THEN e.depth + 1 ELSE 1,
     age     |-> 0,
     waiters |-> e.waiters]

\* The key an Acquire in progress is about, and the one released next.
Want(t) == claim[t][got[t] + 1]
Last(t) == claim[t][got[t]]

-----------------------------------------------------------------------------
Init ==
    /\ held = [k \in Keys |-> NoEntry]
    /\ waiting = 0
    /\ pc = [t \in Threads |-> "idle"]
    /\ claim = [t \in Threads |-> <<>>]
    /\ got = [t \in Threads |-> 0]
    /\ queued = [t \in Threads |-> FALSE]
    /\ woken = [t \in Threads |-> FALSE]
    /\ lapsed = {}

\* A write tool starts: hold, holdAll, prepare and move differ in the claim.
Claim(t) ==
    /\ pc[t] = "idle"
    /\ \E c \in Claims :
        /\ c # <<>>
        /\ claim' = [claim EXCEPT ![t] = c]
    /\ pc' = [pc EXCEPT ![t] = "try"]
    /\ UNCHANGED <<held, waiting, got, queued, woken, lapsed>>

\* The lease is the caller's: the tool asks for the next one, or writes.
Advance(t) ==
    /\ got' = [got EXCEPT ![t] = @ + 1]
    /\ pc' = [pc EXCEPT ![t] = IF got[t] + 1 = Len(claim[t]) THEN "write" ELSE "try"]

\* try, when nothing active contends.  A caller that waited still has to leave
\* the waiter list, in a critical section of its own.
TryGranted(t) ==
    /\ pc[t] = "try"
    /\ LET k == Want(t)
           swept == Sweep(held)
       IN  /\ Blockers(swept, k, t) = {}
           /\ held' = [swept EXCEPT ![k] = Taken(@, t)]
    /\ IF queued[t]
       THEN pc' = [pc EXCEPT ![t] = "leave"] /\ UNCHANGED got
       ELSE Advance(t)
    /\ UNCHANGED <<waiting, claim, queued, woken, lapsed>>

\* try, when something contends: the caller captures the open wake channel.
TryBlocked(t) ==
    /\ pc[t] = "try"
    /\ LET swept == Sweep(held)
       IN  /\ Blockers(swept, Want(t), t) # {}
           /\ held' = swept
    /\ pc' = [pc EXCEPT ![t] = IF queued[t] THEN "select" ELSE "enter"]
    /\ UNCHANGED <<waiting, callVars, woken, lapsed>>

\* enterWait: registers under the wanted key, creating its entry if needed.
EnterWait(t) ==
    /\ pc[t] = "enter"
    /\ held' = [held EXCEPT ![Want(t)].present = TRUE,
                            ![Want(t)].waiters = @ \cup {t}]
    /\ waiting' = waiting + 1
    /\ queued' = [queued EXCEPT ![t] = TRUE]
    /\ pc' = [pc EXCEPT ![t] = "select"]
    /\ UNCHANGED <<claim, got, woken, lapsed>>

\* The select's first case: the captured channel was closed, try again.
Wake(t) ==
    /\ pc[t] = "select"
    /\ woken[t]
    /\ pc' = [pc EXCEPT ![t] = "try"]
    /\ woken' = [woken EXCEPT ![t] = FALSE]
    /\ UNCHANGED <<held, waiting, callVars, lapsed>>

\* leaveWait: an entry the map no longer has leaves the count as it is.
Unregister(t) ==
    LET k == Want(t)
    IN  IF t \in held[k].waiters
        THEN /\ held' = [held EXCEPT ![k].waiters = @ \ {t}]
             /\ waiting' = waiting - 1
        ELSE UNCHANGED <<held, waiting>>

LeaveWait(t) ==
    /\ pc[t] = "leave"
    /\ Unregister(t)
    /\ queued' = [queued EXCEPT ![t] = FALSE]
    /\ Advance(t)
    /\ UNCHANGED <<claim, woken, lapsed>>

\* Where a tool stands with n leases left to give back.
Left(t, n) ==
    IF n = 0
    THEN /\ pc' = [pc EXCEPT ![t] = "idle"]
         /\ claim' = [claim EXCEPT ![t] = <<>>]
         /\ lapsed' = lapsed \ {t}
    ELSE /\ pc' = [pc EXCEPT ![t] = "release"]
         /\ UNCHANGED <<claim, lapsed>>

CancelKeeps(t) ==
    /\ pc[t] = "select"
    /\ Unregister(t)
    /\ queued' = [queued EXCEPT ![t] = FALSE]
    /\ woken' = [woken EXCEPT ![t] = FALSE]
    /\ got' = [got EXCEPT ![t] = 0]
    /\ Left(t, 0)

\* The select's other case: the run was canceled.  Acquire fails and the tool
\* gives back what it had acquired so far.
Cancel(t) ==
    /\ pc[t] = "select"
    /\ Unregister(t)
    /\ queued' = [queued EXCEPT ![t] = FALSE]
    /\ woken' = [woken EXCEPT ![t] = FALSE]
    /\ Left(t, got[t])
    /\ UNCHANGED got

\* The write is done (or failed): the tool's deferred release runs.
Written(t) ==
    /\ pc[t] = "write"
    /\ pc' = [pc EXCEPT ![t] = "release"]
    /\ UNCHANGED <<held, waiting, callVars, woken, lapsed>>

ReleaseNoDepthGuard(t) ==
    /\ pc[t] = "release"
    /\ LET k == Last(t)
           mine == held[k].holder = t
           after == [held EXCEPT ![k].depth = IF mine THEN @ - 1 ELSE @,
                                 ![k].age = IF mine THEN 0 ELSE @]
       IN  /\ held' = after
           /\ woken' = IF held[k].present /\ after[k].depth <= 0
                       THEN [u \in Threads |-> pc[u] \in {"enter", "select"}]
                       ELSE woken
    /\ got' = [got EXCEPT ![t] = @ - 1]
    /\ Left(t, got[t] - 1)
    /\ UNCHANGED <<waiting, queued>>

ReleaseWakesOwnKey(t) ==
    /\ pc[t] = "release"
    /\ LET k == Last(t)
           mine == held[k].holder = t /\ held[k].depth > 0
           after == [held EXCEPT ![k].depth = IF mine THEN @ - 1 ELSE @,
                                 ![k].age = IF mine THEN 0 ELSE @]
       IN  /\ held' = after
           /\ woken' = IF after[k].depth = 0 /\ held[k].waiters # {}
                       THEN [u \in Threads |-> pc[u] \in {"enter", "select"}]
                       ELSE woken
    /\ got' = [got EXCEPT ![t] = @ - 1]
    /\ Left(t, got[t] - 1)
    /\ UNCHANGED <<waiting, queued>>

\* release of the most recently acquired key.  Only the entry's own holder
\* lowers its depth, and an entry left at depth 0 closes the wake channel.
Release(t) ==
    /\ pc[t] = "release"
    /\ LET k == Last(t)
           mine == held[k].holder = t /\ held[k].depth > 0
           after == [held EXCEPT ![k].depth = IF mine THEN @ - 1 ELSE @,
                                 ![k].age = IF mine THEN 0 ELSE @]
       IN  /\ held' = after
           /\ woken' = IF held[k].present /\ after[k].depth = 0
                       THEN [u \in Threads |-> pc[u] \in {"enter", "select"}]
                       ELSE woken
    /\ got' = [got EXCEPT ![t] = @ - 1]
    /\ Left(t, got[t] - 1)
    /\ UNCHANGED <<waiting, queued>>

\* List, which a client's schedule view calls, sweeps before it reports.
List ==
    /\ held' = Sweep(held)
    /\ UNCHANGED <<waiting, pc, callVars, woken, lapsed>>

\* Time passes for every entry.
Older(h) == [k \in Keys |-> [h[k] EXCEPT !.age = IF @ = MaxAge THEN @ ELSE @ + 1]]

Tick ==
    /\ held' = Older(held)
    /\ lapsed' = lapsed \cup {t \in Threads :
                    \E k \in Keys : held'[k].holder = t /\ IsExpired(held'[k])}
    /\ UNCHANGED <<waiting, pc, callVars, woken>>

Acquire(t) == TryGranted(t) \/ TryBlocked(t) \/ EnterWait(t) \/ Wake(t) \/ LeaveWait(t)

Next ==
    \/ \E t \in Threads : Claim(t) \/ Acquire(t) \/ Cancel(t) \/ Written(t) \/ Release(t)
    \/ List
    \/ Tick

Spec == Init /\ [][Next]_vars

\* What Go's scheduler gives a runnable goroutine.  A cancellation is a user's
\* act and a write may hang, so neither is promised.
Fairness ==
    /\ \A t \in Threads : WF_vars(Acquire(t)) /\ WF_vars(Release(t))
    /\ WF_vars(Tick)

FairSpec == Spec /\ Fairness

-----------------------------------------------------------------------------
(* Properties *)

\* How many leases of its claim a thread has taken: one more than Acquire has
\* returned while the thread still has to leave the waiter list.
Count(t) == IF pc[t] = "leave" THEN got[t] + 1 ELSE got[t]

Holding(t) == {claim[t][i] : i \in 1..Count(t)}

\* How often key k is among the first n of claim c.
Occurs(c, n, k) == Cardinality({i \in 1..n : c[i] = k})

Times(t, k) == Occurs(claim[t], Count(t), k)

\* Every variable has the type the code gives it; in particular depth and the
\* waiter count, which release and leaveWait lower, never go negative.
TypeOK ==
    /\ held \in [Keys -> Entry]
    /\ waiting \in Nat
    /\ pc \in [Threads -> {"idle", "try", "enter", "select", "leave", "write", "release"}]
    /\ claim \in [Threads -> Seq(Keys)]
    /\ got \in [Threads -> Nat]
    /\ queued \in [Threads -> BOOLEAN]
    /\ woken \in [Threads -> BOOLEAN]
    /\ lapsed \subseteq Threads

\* Two threads whose leases have not lapsed never hold overlapping subtrees:
\* what try's scan over m.held is for, across re-entrant claims, replaced
\* entries, sweeps and partial releases.
Exclusion ==
    \A t, u \in Threads \ lapsed :
        t # u => \A k \in Holding(t), l \in Holding(u) : ~Overlaps(k, l)

\* An entry's depth never exceeds what its holder still has to release, so a
\* thread that is done, failed or was canceled leaves nothing held behind.
NoOrphanLease ==
    \A k \in Keys, t \in Threads :
        held[k].holder = t => held[k].depth <= Times(t, k)

\* The gauge Counts reports and the waiter lists List reports are exactly the
\* threads inside Acquire's wait: no replaced or swept entry loses one.
WaitAccounting ==
    /\ \A k \in Keys : held[k].waiters = {t \in Threads : queued[t] /\ Want(t) = k}
    /\ waiting = Cardinality({t \in Threads : queued[t]})

\* A thread about to park, or parked, on an open wake channel has a lease of
\* another thread ahead of it whose release will close that channel.
NoLostWakeup ==
    \A t \in Threads :
        pc[t] \in {"enter", "select"} /\ ~woken[t] =>
            \E o \in Keys : /\ held[o].depth > 0
                            /\ held[o].holder # t
                            /\ Overlaps(Want(t), o)

\* Where each thread stands in its claim: the part of the inductive invariant
\* that relates pc, got and queued.
Phases ==
    \A t \in Threads :
        /\ got[t] <= Len(claim[t])
        /\ pc[t] = "idle" => got[t] = 0 /\ t \notin lapsed
        /\ pc[t] \in {"write", "release"} => got[t] > 0
        /\ pc[t] \in {"try", "enter", "select", "leave"} => got[t] < Len(claim[t])
        /\ pc[t] \in {"select", "leave"} => queued[t]
        /\ pc[t] \in {"idle", "enter", "write", "release"} => ~queued[t]
        /\ pc[t] \notin {"enter", "select"} => ~woken[t]

\* A thread none of whose leases lapsed owns every entry it claimed, at the
\* depth it claimed it and still active.
Backed ==
    \A t \in Threads \ lapsed, k \in Keys :
        Times(t, k) > 0 => /\ held[k].holder = t
                           /\ held[k].depth = Times(t, k)
                           /\ held[k].age <= TTL

\* Exclusion in terms of the counts: no two such threads claimed overlapping
\* keys.
Apart ==
    \A t, u \in Threads \ lapsed, k, l \in Keys :
        t # u /\ Times(t, k) > 0 /\ Times(u, l) > 0 => ~Overlaps(k, l)

\* The inductive invariant behind the theorems of LeaseProofs.
Inv == TypeOK /\ Phases /\ WaitAccounting /\ NoOrphanLease /\ Backed /\ Apart

Parked(t) == pc[t] = "select" /\ ~woken[t]

\* No set of threads is parked each on a lease another of them holds: the
\* deadlock holdAll's sorted order is there to rule out.
NoCircularWait ==
    \A S \in (SUBSET Threads) \ {{}} :
        \E t \in S : ~Parked(t) \/ \A o \in Blockers(held, Want(t), t) : held[o].holder \notin S

-----------------------------------------------------------------------------
(* What comments in the code say and TLC refutes: README, "Disagreements" *)

\* An expired lease makes nobody wait: a thread parked on leases that have all
\* stopped being active gets its turn without their holder's help.
ExpiryUnblocks ==
    \A t \in Threads :
        (Parked(t) /\ Blockers(held, Want(t), t) = {}) ~> ~Parked(t)
=============================================================================

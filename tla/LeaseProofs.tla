---------------------------- MODULE LeaseProofs ----------------------------
(***************************************************************************)
(* Proofs about Lease, for every set of threads, tree of keys, set of      *)
(* claims and TTL.                                                         *)
(***************************************************************************)
EXTENDS Lease, FiniteSetTheorems, WellFoundedInduction, TLAPS

-----------------------------------------------------------------------------
(* Counting the occurrences of a key in a claim *)

\* The number of times a key is among the first n keys of a claim is a number.
LEMMA OccursNat ==
    ASSUME NEW c, NEW n \in Nat, NEW k
    PROVE  /\ Occurs(c, n, k) \in Nat
           /\ IsFiniteSet({i \in 1..n : c[i] = k})
<1>1. IsFiniteSet(1..n)
  BY FS_Interval
<1>2. IsFiniteSet({i \in 1..n : c[i] = k})
  BY <1>1, FS_Subset
<1> QED
  BY <1>2, FS_CardinalityType DEF Occurs

\* None of the first zero keys is k.
LEMMA OccursZero ==
    ASSUME NEW c, NEW k
    PROVE  Occurs(c, 0, k) = 0
<1>1. {i \in 1..0 : c[i] = k} = {}
  OBVIOUS
<1> QED
  BY <1>1, FS_EmptySet DEF Occurs

\* Taking one more key of the claim counts for that key and for no other.
LEMMA OccursStep ==
    ASSUME NEW c, NEW n \in Nat, NEW k
    PROVE  Occurs(c, n + 1, k) = IF c[n + 1] = k THEN Occurs(c, n, k) + 1
                                                 ELSE Occurs(c, n, k)
<1> DEFINE S(m) == {i \in 1..m : c[i] = k}
<1>1. CASE c[n + 1] = k
  <2>1. S(n + 1) = S(n) \cup {n + 1}
    BY <1>1
  <2>2. n + 1 \notin S(n)
    OBVIOUS
  <2>3. IsFiniteSet(S(n))
    BY OccursNat
  <2> HIDE DEF S
  <2>4. Cardinality(S(n) \cup {n + 1}) = Cardinality(S(n)) + 1
    BY <2>2, <2>3, FS_AddElement
  <2> QED
    BY <2>1, <2>4, <1>1 DEF Occurs, S
<1>2. CASE c[n + 1] # k
  <2>1. S(n + 1) = S(n)
    BY <1>2
  <2> QED
    BY <2>1, <1>2 DEF Occurs
<1> QED
  BY <1>1, <1>2

\* A key counts at least once exactly when the claim holds it.
LEMMA OccursPositive ==
    ASSUME NEW c, NEW n \in Nat, NEW k
    PROVE  Occurs(c, n, k) > 0 <=> \E i \in 1..n : c[i] = k
<1> DEFINE S == {i \in 1..n : c[i] = k}
<1>1. IsFiniteSet(S)
  BY OccursNat
<1>2. Cardinality(S) \in Nat /\ (Cardinality(S) = 0 <=> S = {})
  BY <1>1, FS_CardinalityType, FS_EmptySet
<1>3. Occurs(c, n, k) = Cardinality(S)
  BY DEF Occurs
<1>4. S # {} <=> \E i \in 1..n : c[i] = k
  OBVIOUS
<1> HIDE DEF S
<1> QED
  BY <1>2, <1>3, <1>4

-----------------------------------------------------------------------------
(* Entries *)

\* sweep keeps every entry that is held or waited on, and adds none.
LEMMA SweepKeeps ==
    ASSUME TypeOK, NEW k \in Keys
    PROVE  /\ Sweep(held) \in [Keys -> Entry]
           /\ Sweep(held)[k].waiters = held[k].waiters
           /\ Sweep(held)[k].depth = held[k].depth
           /\ held[k].depth > 0 => Sweep(held)[k] = held[k]
           /\ Sweep(held)[k].holder \in {held[k].holder, Nobody}
<1>1. TTL \in Nat /\ Nobody \notin Threads
  BY LeaseAssumption
<1>2. NoEntry \in Entry
  BY <1>1 DEF NoEntry, Entry, MaxAge
<1>3. \A l \in Keys : held[l] \in Entry
  BY DEF TypeOK
<1>4. Sweep(held) \in [Keys -> Entry]
  BY <1>2, <1>3 DEF Sweep
<1>5. held[k].depth \in Nat /\ NoEntry.waiters = {} /\ NoEntry.depth = 0 /\ NoEntry.holder = Nobody
  BY <1>3 DEF NoEntry, Entry
<1>6. Sweep(held)[k] = IF held[k].waiters = {} /\ held[k].depth = 0 /\ held[k].age > TTL
                       THEN NoEntry ELSE held[k]
  BY DEF Sweep
<1> QED
  BY <1>4, <1>5, <1>6

\* A key overlaps itself.
LEMMA OverlapsSelf ==
    ASSUME NEW k \in Keys
    PROVE  Overlaps(k, k)
BY LeaseAssumption DEF Overlaps, Under

-----------------------------------------------------------------------------
(* Counting across a step *)

\* The count of a thread whose claim and progress stay is what it was.
LEMMA TimesSame ==
    ASSUME NEW u \in Threads, NEW k \in Keys,
           claim'[u] = claim[u], Count(u)' = Count(u)
    PROVE  Times(u, k)' = Times(u, k)
BY DEF Times

\* A thread's count of any key is a number, and 0 for one that has taken none.
LEMMA TimesType ==
    ASSUME TypeOK, NEW u \in Threads, NEW k \in Keys
    PROVE  /\ Count(u) \in Nat
           /\ Times(u, k) \in Nat
           /\ Count(u) = 0 => Times(u, k) = 0
<1>1. Count(u) \in Nat
  BY DEF TypeOK, Count
<1> QED
  BY <1>1, OccursNat, OccursZero DEF Times

\* The key an Acquire is about, and the one released next, are keys.
LEMMA WantType ==
    ASSUME TypeOK, Phases, NEW t \in Threads
    PROVE  /\ pc[t] \in {"try", "enter", "select", "leave"} => Want(t) \in Keys
           /\ got[t] > 0 => Last(t) \in Keys
<1>1. claim[t] \in Seq(Keys) /\ got[t] \in Nat /\ got[t] <= Len(claim[t])
  BY DEF TypeOK, Phases
<1>2. \A i \in 1..Len(claim[t]) : claim[t][i] \in Keys
  BY <1>1
<1>3. Len(claim[t]) \in Nat
  BY <1>1
<1>4. pc[t] \in {"try", "enter", "select", "leave"} => got[t] + 1 \in 1..Len(claim[t])
  BY <1>1, <1>3 DEF Phases
<1>5. got[t] > 0 => got[t] \in 1..Len(claim[t])
  BY <1>1, <1>3
<1> QED
  BY <1>2, <1>4, <1>5 DEF Want, Last

\* The entry a taken key has is an entry.
LEMMA TakenType ==
    ASSUME NEW e \in Entry, NEW t \in Threads
    PROVE  /\ Taken(e, t) \in Entry
           /\ Taken(e, t).holder = t
           /\ Taken(e, t).age = 0
           /\ Taken(e, t).waiters = e.waiters
           /\ Taken(e, t).depth = IF e.holder = t THEN e.depth + 1 ELSE 1
<1>1. TTL \in Nat
  BY LeaseAssumption
<1>2. e.depth \in Nat /\ e.waiters \in SUBSET Threads
  BY DEF Entry
<1>3. 0 \in 0..MaxAge
  BY <1>1 DEF MaxAge
<1>4. (IF e.holder = t THEN e.depth + 1 ELSE 1) \in Nat
  BY <1>2
<1> QED
  BY <1>2, <1>3, <1>4 DEF Taken, Entry

\* Leases that were apart stay apart in a step that takes none.
LEMMA ApartKept ==
    ASSUME Apart,
           \A u \in Threads, k \in Keys :
               u \notin lapsed' /\ Times(u, k)' > 0 => u \notin lapsed /\ Times(u, k) > 0
    PROVE  Apart'
BY DEF Apart

-----------------------------------------------------------------------------
(* The invariant holds initially *)

\* An empty manager satisfies the invariant.
LEMMA InitInv == Init => Inv
<1> SUFFICES ASSUME Init PROVE Inv
  OBVIOUS
<1>1. TTL \in Nat /\ IsFiniteSet(Threads)
  BY LeaseAssumption
<1>2. NoEntry \in Entry /\ NoEntry.waiters = {} /\ NoEntry.depth = 0
  BY <1>1 DEF NoEntry, Entry, MaxAge
<1>3. <<>> \in Seq(Keys)
  OBVIOUS
<1>4. TypeOK
  BY <1>2, <1>3 DEF Init, TypeOK
<1>5. Phases
  BY DEF Init, Phases
<1>6. WaitAccounting
  <2>1. {t \in Threads : queued[t]} = {}
    BY DEF Init
  <2>2. waiting = Cardinality({t \in Threads : queued[t]})
    BY <2>1, FS_EmptySet DEF Init
  <2>3. \A k \in Keys : held[k].waiters = {t \in Threads : queued[t] /\ Want(t) = k}
    BY <1>2 DEF Init
  <2> QED
    BY <2>2, <2>3 DEF WaitAccounting
<1>7. \A t \in Threads, k \in Keys : Times(t, k) = 0
  BY <1>4, TimesType DEF Init, Count
<1>8. NoOrphanLease
  BY <1>2, <1>7 DEF Init, NoOrphanLease
<1>9. Backed /\ Apart
  BY <1>7 DEF Backed, Apart
<1> QED
  BY <1>4, <1>5, <1>6, <1>8, <1>9 DEF Inv

-----------------------------------------------------------------------------
(* Every action keeps the invariant *)

\* Starting a tool call keeps the invariant.
LEMMA ClaimInv ==
    ASSUME Inv, NEW t \in Threads, Claim(t)
    PROVE  Inv'
<1>1. PICK c \in Claims : c # <<>> /\ claim' = [claim EXCEPT ![t] = c]
  BY DEF Claim
<1>2. c \in Seq(Keys) /\ Len(c) \in Nat /\ Len(c) > 0
  BY <1>1, LeaseAssumption
<1>3. TypeOK'
  BY <1>1, <1>2 DEF Inv, TypeOK, Claim
<1>4. Phases'
  BY <1>1, <1>2 DEF Inv, TypeOK, Phases, Claim
<1>5. WaitAccounting'
  BY <1>1 DEF Inv, TypeOK, Phases, WaitAccounting, Claim, Want
<1>6. \A u \in Threads, k \in Keys : Times(u, k)' = Times(u, k)
  <2> TAKE u \in Threads, k \in Keys
  <2>1. CASE u # t
    <3>1. Count(u)' = Count(u) /\ claim'[u] = claim[u]
      BY <1>1, <2>1 DEF Claim, Count, Inv, TypeOK
    <3> QED
      BY <3>1, TimesSame
  <2>2. CASE u = t
    <3>1. Count(t)' = 0 /\ Count(t) = 0
      BY DEF Claim, Count, Inv, TypeOK, Phases
    <3>2. Times(t, k) = 0
      BY <3>1, TimesType DEF Inv
    <3>3. Times(t, k)' = 0
      BY <3>1, OccursZero DEF Times
    <3> QED
      BY <2>2, <3>2, <3>3
  <2> QED
    BY <2>1, <2>2
<1>7. NoOrphanLease' /\ Backed'
  BY <1>6 DEF Inv, NoOrphanLease, Backed, Claim
<1>8. Apart'
  BY <1>6, ApartKept DEF Inv, Claim
<1> QED
  BY <1>3, <1>4, <1>5, <1>7, <1>8 DEF Inv

\* The write being done keeps the invariant.
LEMMA WrittenInv ==
    ASSUME Inv, NEW t \in Threads, Written(t)
    PROVE  Inv'
<1>1. TypeOK'
  BY DEF Inv, TypeOK, Written, callVars
<1>2. Phases'
  BY DEF Inv, TypeOK, Phases, Written, callVars
<1>3. WaitAccounting'
  BY DEF Inv, WaitAccounting, Written, callVars, Want
<1>4. \A u \in Threads, k \in Keys : Times(u, k)' = Times(u, k)
  <2> TAKE u \in Threads, k \in Keys
  <2>1. Count(u)' = Count(u) /\ claim'[u] = claim[u]
    BY DEF Written, Count, callVars, Inv, TypeOK
  <2> QED
    BY <2>1, TimesSame
<1>5. NoOrphanLease' /\ Backed'
  BY <1>4 DEF Inv, NoOrphanLease, Backed, Written
<1>6. Apart'
  BY <1>4, ApartKept DEF Inv, Written
<1> QED
  BY <1>1, <1>2, <1>3, <1>5, <1>6 DEF Inv

\* Waking from the select keeps the invariant.
LEMMA WakeInv ==
    ASSUME Inv, NEW t \in Threads, Wake(t)
    PROVE  Inv'
<1>1. TypeOK'
  BY DEF Inv, TypeOK, Wake, callVars
<1>2. Phases'
  BY DEF Inv, TypeOK, Phases, Wake, callVars
<1>3. WaitAccounting'
  BY DEF Inv, WaitAccounting, Wake, callVars, Want
<1>4. \A u \in Threads, k \in Keys : Times(u, k)' = Times(u, k)
  <2> TAKE u \in Threads, k \in Keys
  <2>1. Count(u)' = Count(u) /\ claim'[u] = claim[u]
    BY DEF Wake, Count, callVars, Inv, TypeOK
  <2> QED
    BY <2>1, TimesSame
<1>5. NoOrphanLease' /\ Backed'
  BY <1>4 DEF Inv, NoOrphanLease, Backed, Wake
<1>6. Apart'
  BY <1>4, ApartKept DEF Inv, Wake
<1> QED
  BY <1>1, <1>2, <1>3, <1>5, <1>6 DEF Inv

\* Sweeping alone, with every count unchanged, keeps what entries promise.
LEMMA SweepInv ==
    ASSUME Inv, held' = Sweep(held), lapsed' = lapsed,
           \A u \in Threads, k \in Keys : Times(u, k)' = Times(u, k)
    PROVE  NoOrphanLease' /\ Backed'
<1>1. TypeOK /\ Nobody \notin Threads
  BY LeaseAssumption DEF Inv
<1>2. NoOrphanLease'
  <2> SUFFICES ASSUME NEW k \in Keys, NEW u \in Threads, held'[k].holder = u
               PROVE  held'[k].depth <= Times(u, k)
    BY DEF NoOrphanLease
  <2>1. held[k].holder = u /\ held'[k].depth = held[k].depth
    BY <1>1, SweepKeeps
  <2> QED
    BY <2>1 DEF Inv, NoOrphanLease
<1>3. Backed'
  <2> SUFFICES ASSUME NEW u \in Threads \ lapsed, NEW k \in Keys, Times(u, k) > 0
               PROVE  /\ held'[k].holder = u
                      /\ held'[k].depth = Times(u, k)
                      /\ held'[k].age <= TTL
    BY DEF Backed
  <2>1. held[k].holder = u /\ held[k].depth = Times(u, k) /\ held[k].age <= TTL
    BY DEF Inv, Backed
  <2>2. held[k].depth > 0
    BY <2>1
  <2> QED
    BY <1>1, <2>1, <2>2, SweepKeeps
<1> QED
  BY <1>2, <1>3

\* Reporting the leases keeps the invariant.
LEMMA ListInv ==
    ASSUME Inv, List
    PROVE  Inv'
<1>1. TypeOK
  BY DEF Inv
<1>2. \A k \in Keys : Sweep(held)[k].waiters = held[k].waiters
  BY <1>1, SweepKeeps
<1>3. Sweep(held) \in [Keys -> Entry]
  BY <1>1, SweepKeeps DEF Sweep
<1>4. TypeOK'
  BY <1>1, <1>3 DEF TypeOK, List, callVars
<1>5. Phases'
  BY DEF Inv, Phases, List, callVars
<1>6. WaitAccounting'
  BY <1>2 DEF Inv, WaitAccounting, List, callVars, Want
<1>7. \A u \in Threads, k \in Keys : Times(u, k)' = Times(u, k)
  BY TimesSame DEF List, Count, callVars
<1>8. NoOrphanLease' /\ Backed'
  BY <1>7, SweepInv DEF List
<1>9. Apart'
  BY <1>7, ApartKept DEF Inv, List
<1> QED
  BY <1>4, <1>5, <1>6, <1>8, <1>9 DEF Inv

\* Being refused by try keeps the invariant.
LEMMA TryBlockedInv ==
    ASSUME Inv, NEW t \in Threads, TryBlocked(t)
    PROVE  Inv'
<1>1. TypeOK /\ held' = Sweep(held)
  BY DEF Inv, TryBlocked
<1>2. \A k \in Keys : Sweep(held)[k].waiters = held[k].waiters
  BY <1>1, SweepKeeps
<1>3. Sweep(held) \in [Keys -> Entry]
  BY <1>1, SweepKeeps DEF Sweep
<1>4. TypeOK'
  BY <1>1, <1>3 DEF TypeOK, TryBlocked, callVars
<1>5. Phases'
  BY <1>1 DEF Inv, TypeOK, Phases, TryBlocked, callVars
<1>6. WaitAccounting'
  BY <1>1, <1>2 DEF Inv, WaitAccounting, TryBlocked, callVars, Want
<1>7. \A u \in Threads, k \in Keys : Times(u, k)' = Times(u, k)
  <2> TAKE u \in Threads, k \in Keys
  <2>1. Count(u)' = Count(u) /\ claim'[u] = claim[u]
    BY DEF TryBlocked, Count, callVars, Inv, TypeOK
  <2> QED
    BY <2>1, TimesSame
<1>8. NoOrphanLease' /\ Backed'
  BY <1>1, <1>7, SweepInv DEF TryBlocked
<1>9. Apart'
  BY <1>7, ApartKept DEF Inv, TryBlocked
<1> QED
  BY <1>4, <1>5, <1>6, <1>8, <1>9 DEF Inv

\* The passing of time keeps the invariant: a lease that expires puts its
\* holder among the lapsed.
LEMMA TickInv ==
    ASSUME Inv, Tick
    PROVE  Inv'
<1>1. TypeOK /\ TTL \in Nat
  BY LeaseAssumption DEF Inv
<1>2. \A k \in Keys : /\ held'[k].holder = held[k].holder
                      /\ held'[k].depth = held[k].depth
                      /\ held'[k].waiters = held[k].waiters
  BY <1>1 DEF TypeOK, Entry, Tick, Older
<1>3. held' \in [Keys -> Entry]
  <2> SUFFICES ASSUME NEW k \in Keys PROVE Older(held)[k] \in Entry
    BY DEF Tick, Older
  <2>1. held[k] \in Entry
    BY <1>1 DEF TypeOK
  <2>2. (IF held[k].age = MaxAge THEN held[k].age ELSE held[k].age + 1) \in 0..MaxAge
    BY <1>1, <2>1 DEF Entry, MaxAge
  <2> QED
    BY <2>1, <2>2 DEF Older, Entry
<1>4. TypeOK'
  BY <1>1, <1>3 DEF TypeOK, Tick, callVars
<1>5. \A u \in Threads, k \in Keys : Times(u, k)' = Times(u, k)
  BY TimesSame DEF Tick, Count, callVars
<1>6. Phases'
  <2> SUFFICES ASSUME NEW u \in Threads, pc[u] = "idle" PROVE u \notin lapsed'
    BY DEF Inv, Phases, Tick, callVars
  <2>1. Count(u) = 0 /\ u \notin lapsed
    BY DEF Inv, Phases, Count
  <2>2. \A k \in Keys : Times(u, k) = 0
    BY <1>1, <2>1, TimesType
  <2>3. \A k \in Keys : held'[k].holder = u => held'[k].depth <= 0
    BY <1>2, <2>2 DEF Inv, NoOrphanLease
  <2>4. \A k \in Keys : held'[k].depth \in Nat
    BY <1>3 DEF Entry
  <2> QED
    BY <2>1, <2>3, <2>4 DEF Tick, IsExpired
<1>7. WaitAccounting'
  BY <1>2 DEF Inv, WaitAccounting, Tick, callVars, Want
<1>8. NoOrphanLease'
  BY <1>2, <1>5 DEF Inv, NoOrphanLease
<1>9. Backed'
  <2> SUFFICES ASSUME NEW u \in Threads, u \notin lapsed', NEW k \in Keys, Times(u, k) > 0
               PROVE  /\ held'[k].holder = u
                      /\ held'[k].depth = Times(u, k)
                      /\ held'[k].age <= TTL
    BY <1>5 DEF Backed
  <2>1. u \notin lapsed /\ ~(held'[k].holder = u /\ IsExpired(held'[k]))
    BY DEF Tick
  <2>2. held[k].holder = u /\ held[k].depth = Times(u, k)
    BY <2>1 DEF Inv, Backed
  <2>3. held'[k].age \in 0..MaxAge /\ Times(u, k) \in Nat
    BY <1>1, <1>3, TimesType DEF Entry
  <2> QED
    BY <1>1, <1>2, <2>1, <2>2, <2>3 DEF IsExpired, MaxAge
<1>10. Apart'
  BY <1>5, ApartKept DEF Inv, Tick
<1> QED
  BY <1>4, <1>6, <1>7, <1>8, <1>9, <1>10 DEF Inv

\* The waiting threads are finitely many.
LEMMA QueuedFinite ==
    ASSUME TypeOK
    PROVE  IsFiniteSet({u \in Threads : queued[u]})
BY LeaseAssumption, FS_Subset

\* Registering as a waiter keeps the invariant.
LEMMA EnterWaitInv ==
    ASSUME Inv, NEW t \in Threads, EnterWait(t)
    PROVE  Inv'
<1>1. TypeOK /\ Phases /\ Want(t) \in Keys /\ ~queued[t]
  BY WantType DEF Inv, EnterWait, Phases
<1>2. \A k \in Keys : /\ held'[k].holder = held[k].holder
                      /\ held'[k].depth = held[k].depth
                      /\ held'[k].age = held[k].age
                      /\ held'[k].waiters = IF k = Want(t) THEN held[k].waiters \cup {t}
                                                           ELSE held[k].waiters
  BY <1>1 DEF TypeOK, Entry, EnterWait
<1>3. held' \in [Keys -> Entry]
  <2>1. held[Want(t)] \in Entry
    BY <1>1 DEF TypeOK
  <2>2. [held[Want(t)] EXCEPT !.present = TRUE, !.waiters = held[Want(t)].waiters \cup {t}] \in Entry
    BY <2>1 DEF Entry
  <2>3. held' = [held EXCEPT ![Want(t)] =
                   [held[Want(t)] EXCEPT !.present = TRUE, !.waiters = held[Want(t)].waiters \cup {t}]]
    BY <1>1, <2>1 DEF EnterWait, TypeOK, Entry
  <2> QED
    BY <1>1, <2>2, <2>3 DEF TypeOK
<1>4. TypeOK'
  BY <1>1, <1>3 DEF TypeOK, EnterWait
<1>5. Phases'
  BY <1>1 DEF TypeOK, Phases, EnterWait
<1>6. WaitAccounting'
  <2>1. \A u \in Threads : Want(u)' = Want(u)
    BY DEF EnterWait, Want
  <2>2. \A k \in Keys : held'[k].waiters = {u \in Threads : queued'[u] /\ Want(u)' = k}
    BY <1>1, <1>2, <2>1 DEF Inv, WaitAccounting, EnterWait, TypeOK
  <2>3. {u \in Threads : queued'[u]} = {u \in Threads : queued[u]} \cup {t}
    BY <1>1 DEF EnterWait, TypeOK
  <2>4. Cardinality({u \in Threads : queued[u]} \cup {t}) = Cardinality({u \in Threads : queued[u]}) + 1
    BY <1>1, QueuedFinite, FS_AddElement
  <2>5. waiting' = Cardinality({u \in Threads : queued'[u]})
    BY <2>3, <2>4 DEF Inv, WaitAccounting, EnterWait
  <2> QED
    BY <2>2, <2>5 DEF WaitAccounting
<1>7. \A u \in Threads, k \in Keys : Times(u, k)' = Times(u, k)
  <2> TAKE u \in Threads, k \in Keys
  <2>1. Count(u)' = Count(u) /\ claim'[u] = claim[u]
    BY <1>1 DEF EnterWait, Count, TypeOK
  <2> QED
    BY <2>1, TimesSame
<1>8. lapsed' = lapsed
  BY DEF EnterWait
<1>9. NoOrphanLease' /\ Backed'
  <2>1. \A k \in Keys : /\ held'[k].holder = held[k].holder
                        /\ held'[k].depth = held[k].depth
                        /\ held'[k].age = held[k].age
    BY <1>2
  <2>2. NoOrphanLease'
    BY <2>1, <1>7 DEF Inv, NoOrphanLease
  <2>3. Backed'
    BY <2>1, <1>7, <1>8 DEF Inv, Backed
  <2> QED
    BY <2>2, <2>3
<1>10. Apart'
  BY <1>7, <1>8, ApartKept DEF Inv
<1> QED
  BY <1>4, <1>5, <1>6, <1>9, <1>10 DEF Inv

\* leaveWait takes a waiting thread out of its list and out of the count, and
\* leaves the rest of every entry alone.
LEMMA UnregisterWait ==
    ASSUME Inv, NEW t \in Threads, queued[t], Want(t) \in Keys, Unregister(t),
           queued' = [queued EXCEPT ![t] = FALSE],
           \A u \in Threads \ {t} : Want(u)' = Want(u)
    PROVE  /\ held' \in [Keys -> Entry]
           /\ waiting' \in Nat
           /\ WaitAccounting'
           /\ \A k \in Keys : /\ held'[k].holder = held[k].holder
                              /\ held'[k].depth = held[k].depth
                              /\ held'[k].age = held[k].age
<1>1. TypeOK /\ WaitAccounting
  BY DEF Inv
<1>2. t \in held[Want(t)].waiters
  BY <1>1 DEF WaitAccounting
<1>3. held' = [held EXCEPT ![Want(t)].waiters = @ \ {t}] /\ waiting' = waiting - 1
  BY <1>2 DEF Unregister
<1>4. \A k \in Keys : /\ held'[k].holder = held[k].holder
                      /\ held'[k].depth = held[k].depth
                      /\ held'[k].age = held[k].age
                      /\ held'[k].waiters = IF k = Want(t) THEN held[k].waiters \ {t}
                                                           ELSE held[k].waiters
  BY <1>1, <1>3 DEF TypeOK, Entry
<1>5. held' \in [Keys -> Entry]
  <2>1. held[Want(t)] \in Entry
    BY <1>1 DEF TypeOK
  <2>2. [held[Want(t)] EXCEPT !.waiters = held[Want(t)].waiters \ {t}] \in Entry
    BY <2>1 DEF Entry
  <2>3. held' = [held EXCEPT ![Want(t)] = [held[Want(t)] EXCEPT !.waiters = held[Want(t)].waiters \ {t}]]
    BY <1>3, <2>1 DEF Entry
  <2> QED
    BY <1>1, <2>2, <2>3 DEF TypeOK
<1>6. \A k \in Keys : held'[k].waiters = {u \in Threads : queued'[u] /\ Want(u)' = k}
  <2> TAKE k \in Keys
  <2>1. held[k].waiters = {u \in Threads : queued[u] /\ Want(u) = k}
    BY <1>1 DEF WaitAccounting
  <2>2. held'[k].waiters = {u \in Threads : queued[u] /\ Want(u) = k} \ {t}
    BY <1>4, <2>1
  <2>3. queued'[t] = FALSE /\ \A u \in Threads \ {t} : queued'[u] = queued[u]
    BY <1>1 DEF TypeOK
  <2> QED
    BY <2>2, <2>3
<1> DEFINE Q == {u \in Threads : queued[u]}
<1>7. {u \in Threads : queued'[u]} = Q \ {t}
  BY <1>1 DEF TypeOK
<1>8. IsFiniteSet(Q) /\ t \in Q /\ waiting = Cardinality(Q)
  BY <1>1, QueuedFinite DEF WaitAccounting
<1> HIDE DEF Q
<1>9. Cardinality(Q \ {t}) = Cardinality(Q) - 1 /\ Cardinality(Q \ {t}) \in Nat
  <2>1. IsFiniteSet(Q \ {t})
    BY <1>8, FS_RemoveElement
  <2>2. Cardinality(Q \ {t}) \in Nat
    BY <2>1, FS_CardinalityType
  <2> QED
    BY <1>8, <2>2, FS_RemoveElement
<1>10. waiting' = Cardinality({u \in Threads : queued'[u]}) /\ waiting' \in Nat
  BY <1>3, <1>7, <1>8, <1>9
<1> QED
  BY <1>4, <1>5, <1>6, <1>10 DEF WaitAccounting

\* Leaving the waiter list with the lease taken keeps the invariant.
LEMMA LeaveWaitInv ==
    ASSUME Inv, NEW t \in Threads, LeaveWait(t)
    PROVE  Inv'
<1>1. TypeOK /\ Phases /\ Want(t) \in Keys /\ queued[t] /\ pc[t] = "leave"
  BY WantType DEF Inv, LeaveWait, Phases
<1>2. got[t] \in Nat /\ Len(claim[t]) \in Nat /\ got[t] < Len(claim[t])
  BY <1>1 DEF TypeOK, Phases
<1>3. \A u \in Threads \ {t} : Want(u)' = Want(u)
  BY <1>1 DEF LeaveWait, Advance, Want, TypeOK
<1>4. /\ held' \in [Keys -> Entry]
      /\ waiting' \in Nat
      /\ WaitAccounting'
      /\ \A k \in Keys : /\ held'[k].holder = held[k].holder
                         /\ held'[k].depth = held[k].depth
                         /\ held'[k].age = held[k].age
  BY <1>1, <1>3, UnregisterWait DEF LeaveWait
<1>5. TypeOK'
  BY <1>1, <1>2, <1>4 DEF TypeOK, LeaveWait, Advance
<1>6. Phases'
  BY <1>1, <1>2 DEF TypeOK, Phases, LeaveWait, Advance
<1>7. \A u \in Threads, k \in Keys : Times(u, k)' = Times(u, k)
  <2> TAKE u \in Threads, k \in Keys
  <2>1. Count(u)' = Count(u) /\ claim'[u] = claim[u]
    BY <1>1, <1>2 DEF LeaveWait, Advance, Count, TypeOK
  <2> QED
    BY <2>1, TimesSame
<1>8. NoOrphanLease' /\ Backed'
  BY <1>4, <1>7 DEF Inv, NoOrphanLease, Backed, LeaveWait
<1>9. Apart'
  BY <1>7, ApartKept DEF Inv, LeaveWait
<1> QED
  BY <1>4, <1>5, <1>6, <1>8, <1>9 DEF Inv

\* A canceled wait keeps the invariant.
LEMMA CancelInv ==
    ASSUME Inv, NEW t \in Threads, Cancel(t)
    PROVE  Inv'
<1>1. TypeOK /\ Phases /\ Want(t) \in Keys /\ queued[t] /\ pc[t] = "select"
  BY WantType DEF Inv, Cancel, Phases
<1>2. got[t] \in Nat /\ Len(claim[t]) \in Nat /\ <<>> \in Seq(Keys) /\ Len(<<>>) = 0
  BY <1>1 DEF TypeOK
<1>3. \A u \in Threads \ {t} : Want(u)' = Want(u)
  BY <1>1 DEF Cancel, Left, Want, TypeOK
<1>4. /\ held' \in [Keys -> Entry]
      /\ waiting' \in Nat
      /\ WaitAccounting'
      /\ \A k \in Keys : /\ held'[k].holder = held[k].holder
                         /\ held'[k].depth = held[k].depth
                         /\ held'[k].age = held[k].age
  BY <1>1, <1>3, UnregisterWait DEF Cancel
<1>5. TypeOK'
  BY <1>1, <1>2, <1>4 DEF TypeOK, Cancel, Left
<1>6. Phases'
  BY <1>1, <1>2 DEF TypeOK, Phases, Cancel, Left
<1>7. \A u \in Threads, k \in Keys : Times(u, k)' = Times(u, k)
  <2> TAKE u \in Threads, k \in Keys
  <2>1. CASE u # t \/ got[t] # 0
    <3>1. Count(u)' = Count(u) /\ claim'[u] = claim[u]
      BY <1>1, <2>1 DEF Cancel, Left, Count, TypeOK
    <3> QED
      BY <3>1, TimesSame
  <2>2. CASE u = t /\ got[t] = 0
    <3>1. Count(t)' = 0 /\ Count(t) = 0
      BY <1>1, <2>2 DEF Cancel, Left, Count, TypeOK
    <3>2. Times(t, k) = 0
      BY <1>1, <3>1, TimesType
    <3>3. Times(t, k)' = 0
      BY <3>1, OccursZero DEF Times
    <3> QED
      BY <2>2, <3>2, <3>3
  <2> QED
    BY <2>1, <2>2
<1>8. NoOrphanLease'
  BY <1>4, <1>7 DEF Inv, NoOrphanLease
<1>9. \A u \in Threads, k \in Keys :
        u \notin lapsed' /\ Times(u, k)' > 0 => u \notin lapsed /\ Times(u, k) > 0
  <2> SUFFICES ASSUME NEW u \in Threads, u \notin lapsed', u \in lapsed
               PROVE  \A k \in Keys : Times(u, k) = 0
    BY <1>7
  <2>1. u = t /\ got[t] = 0
    BY <1>2 DEF Cancel, Left
  <2>2. Count(u) = 0
    BY <1>1, <2>1 DEF Count
  <2> QED
    BY <1>1, <2>2, TimesType
<1>10. Backed'
  BY <1>4, <1>7, <1>9 DEF Inv, Backed
<1>11. Apart'
  BY <1>9, ApartKept DEF Inv
<1> QED
  BY <1>4, <1>5, <1>6, <1>8, <1>10, <1>11 DEF Inv

\* Taking a lease keeps the invariant: nothing active of another thread
\* overlapped the key, so no lease that has not lapsed was replaced.
LEMMA TryGrantedInv ==
    ASSUME Inv, NEW t \in Threads, TryGranted(t)
    PROVE  Inv'
<1> DEFINE w == Want(t)
<1> DEFINE swept == Sweep(held)
<1>1. TypeOK /\ Phases /\ w \in Keys /\ pc[t] = "try" /\ TTL \in Nat /\ Nobody \notin Threads
  BY WantType, LeaseAssumption DEF Inv, TryGranted
<1>2. got[t] \in Nat /\ Len(claim[t]) \in Nat /\ got[t] < Len(claim[t])
  BY <1>1 DEF TypeOK, Phases
<1>3. held' = [swept EXCEPT ![w] = Taken(swept[w], t)] /\ Blockers(swept, w, t) = {}
  BY DEF TryGranted
<1>4. swept \in [Keys -> Entry]
  BY <1>1, SweepKeeps
<1>5. \A k \in Keys : /\ swept[k].waiters = held[k].waiters
                      /\ swept[k].depth = held[k].depth
                      /\ held[k].depth > 0 => swept[k] = held[k]
                      /\ swept[k].holder \in {held[k].holder, Nobody}
  BY <1>1, SweepKeeps
<1> HIDE DEF w, swept
<1>6. /\ Taken(swept[w], t) \in Entry
      /\ Taken(swept[w], t).holder = t
      /\ Taken(swept[w], t).age = 0
      /\ Taken(swept[w], t).waiters = swept[w].waiters
      /\ Taken(swept[w], t).depth = IF swept[w].holder = t THEN swept[w].depth + 1 ELSE 1
  <2>1. swept[w] \in Entry
    BY <1>1, <1>4
  <2> QED
    BY <2>1, TakenType
<1>7. /\ held' \in [Keys -> Entry]
      /\ held'[w] = Taken(swept[w], t)
      /\ \A k \in Keys \ {w} : held'[k] = swept[k]
  BY <1>1, <1>3, <1>4, <1>6
<1>8. TypeOK'
  <2>1. /\ pc' = [pc EXCEPT ![t] = pc'[t]]
        /\ pc'[t] \in {"leave", "write", "try"}
    BY <1>1 DEF TypeOK, TryGranted, Advance
  <2>2. got' \in [Threads -> Nat]
    BY <1>1, <1>2 DEF TypeOK, TryGranted, Advance
  <2>3. UNCHANGED <<waiting, claim, queued, woken, lapsed>>
    BY DEF TryGranted
  <2>4. pc' \in [Threads -> {"idle", "try", "enter", "select", "leave", "write", "release"}]
    BY <1>1, <2>1 DEF TypeOK
  <2> QED
    BY <1>1, <1>7, <2>2, <2>3, <2>4 DEF TypeOK
<1>9. Phases'
  BY <1>1, <1>2 DEF TypeOK, Phases, TryGranted, Advance
<1>10. WaitAccounting'
  <2>1. \A k \in Keys : held'[k].waiters = held[k].waiters
    BY <1>5, <1>6, <1>7
  <2>2. \A u \in Threads : queued'[u] = queued[u] /\ (queued[u] => Want(u)' = Want(u))
    BY <1>1 DEF TryGranted, Advance, Want, TypeOK
  <2>3. queued' = queued /\ waiting' = waiting
    BY DEF TryGranted
  <2> QED
    BY <2>1, <2>2, <2>3 DEF Inv, WaitAccounting
<1>11. \A u \in Threads \ {t}, k \in Keys : Times(u, k)' = Times(u, k)
  <2> TAKE u \in Threads \ {t}, k \in Keys
  <2>1. Count(u)' = Count(u) /\ claim'[u] = claim[u]
    BY <1>1 DEF TryGranted, Advance, Count, TypeOK
  <2> QED
    BY <2>1, TimesSame
<1>12. \A k \in Keys : Times(t, k)' = IF k = w THEN Times(t, k) + 1 ELSE Times(t, k)
  <2> TAKE k \in Keys
  <2>1. Count(t) = got[t] /\ Count(t)' = got[t] + 1 /\ claim' = claim
    BY <1>1, <1>2 DEF TryGranted, Advance, Count, TypeOK
  <2>2. Times(t, k)' = Occurs(claim[t], got[t] + 1, k) /\ Times(t, k) = Occurs(claim[t], got[t], k)
    BY <2>1 DEF Times
  <2>3. claim[t][got[t] + 1] = w
    BY DEF w, Want
  <2> QED
    BY <1>2, <2>2, <2>3, OccursStep
<1>13. \A u \in Threads, k \in Keys : Times(u, k) \in Nat
  BY <1>1, TimesType
<1>14. \A k \in Keys : held[k].depth \in Nat
  BY <1>1 DEF TypeOK, Entry
<1>15. NoOrphanLease'
  <2> SUFFICES ASSUME NEW k \in Keys, NEW u \in Threads, held'[k].holder = u
               PROVE  held'[k].depth <= Times(u, k)'
    BY DEF NoOrphanLease
  <2>1. CASE k # w
    <3>1. held[k].holder = u /\ held'[k].depth = held[k].depth
      BY <1>1, <1>5, <1>7, <2>1
    <3>2. Times(u, k)' = Times(u, k)
      BY <1>11, <1>12, <2>1
    <3> QED
      BY <3>1, <3>2 DEF Inv, NoOrphanLease
  <2>2. CASE k = w
    <3>1. u = t
      BY <1>6, <1>7, <2>2
    <3>2. Times(t, k)' = Times(t, w) + 1
      BY <1>1, <1>12, <2>2
    <3>3. swept[w].holder = t => held[w].depth <= Times(t, w)
      BY <1>1, <1>5 DEF Inv, NoOrphanLease
    <3>4. held'[w].depth = IF swept[w].holder = t THEN held[w].depth + 1 ELSE 1
      BY <1>1, <1>5, <1>6, <1>7
    <3> QED
      BY <1>1, <1>13, <1>14, <2>2, <3>1, <3>2, <3>3, <3>4
  <2> QED
    BY <2>1, <2>2
<1>16. Backed'
  <2> SUFFICES ASSUME NEW u \in Threads \ lapsed, NEW k \in Keys, Times(u, k)' > 0
               PROVE  /\ held'[k].holder = u
                      /\ held'[k].depth = Times(u, k)'
                      /\ held'[k].age <= TTL
    BY DEF Backed, TryGranted
  <2>1. Times(u, k) > 0 => /\ held[k].holder = u
                           /\ held[k].depth = Times(u, k)
                           /\ held[k].age <= TTL
                           /\ held[k].depth > 0
                           /\ swept[k] = held[k]
    BY <1>5 DEF Inv, Backed
  <2>2. CASE u # t
    <3>1. Times(u, k)' = Times(u, k) /\ Times(u, k) > 0
      BY <1>11, <2>2
    <3>2. ~Overlaps(w, k)
      BY <1>3, <2>1, <2>2, <3>1 DEF Blockers, IsActive
    <3>3. k # w
      BY <3>2, OverlapsSelf
    <3> QED
      BY <1>7, <2>1, <3>1, <3>3
  <2>3. CASE u = t /\ k # w
    BY <1>7, <1>12, <2>1, <2>3
  <2>4. CASE u = t /\ k = w
    <3>1. Times(t, k)' = Times(t, w) + 1
      BY <1>1, <1>12, <2>4
    <3>2. held'[w].holder = t /\ held'[w].age = 0
      BY <1>6, <1>7
    <3>3. held'[w].depth = IF swept[w].holder = t THEN held[w].depth + 1 ELSE 1
      BY <1>1, <1>5, <1>6, <1>7
    <3>4. swept[w].holder = t => held[w].depth <= Times(t, w)
      BY <1>1, <1>5 DEF Inv, NoOrphanLease
    <3>5. held'[w].depth = Times(t, w) + 1
      BY <1>1, <1>13, <1>14, <2>1, <2>4, <3>3, <3>4
    <3> QED
      BY <1>1, <2>4, <3>1, <3>2, <3>5
  <2> QED
    BY <2>2, <2>3, <2>4
<1>17. Apart'
  <2>1. \A u \in Threads \ lapsed, l \in Keys : u # t /\ Times(u, l) > 0 => ~Overlaps(w, l)
    <3> SUFFICES ASSUME NEW u \in Threads \ lapsed, NEW l \in Keys, u # t, Times(u, l) > 0
                 PROVE  ~Overlaps(w, l)
      OBVIOUS
    <3>1. held[l].holder = u /\ held[l].depth = Times(u, l) /\ held[l].age <= TTL
      BY DEF Inv, Backed
    <3>2. swept[l] = held[l] /\ held[l].depth > 0
      BY <1>5, <3>1
    <3> QED
      BY <1>3, <3>1, <3>2 DEF Blockers, IsActive
  <2> SUFFICES ASSUME NEW u \in Threads \ lapsed, NEW v \in Threads \ lapsed,
                      NEW k \in Keys, NEW l \in Keys,
                      u # v, Times(u, k)' > 0, Times(v, l)' > 0
               PROVE  ~Overlaps(k, l)
    BY DEF Apart, TryGranted
  <2>2. CASE Times(u, k) > 0 /\ Times(v, l) > 0
    BY <2>2 DEF Inv, Apart
  <2>3. CASE ~(Times(u, k) > 0)
    <3>1. u = t /\ k = w
      BY <1>11, <1>12, <2>3
    <3>2. Times(v, l) > 0
      BY <1>11, <3>1
    <3> QED
      BY <2>1, <3>1, <3>2
  <2>4. CASE ~(Times(v, l) > 0)
    <3>1. v = t /\ l = w
      BY <1>11, <1>12, <2>4
    <3>2. Times(u, k) > 0
      BY <1>11, <3>1
    <3>3. ~Overlaps(w, k)
      BY <2>1, <3>1, <3>2
    <3> QED
      BY <3>1, <3>3 DEF Overlaps
  <2> QED
    BY <2>2, <2>3, <2>4
<1> QED
  BY <1>8, <1>9, <1>10, <1>15, <1>16, <1>17 DEF Inv

\* Giving a lease back keeps the invariant.
LEMMA ReleaseInv ==
    ASSUME Inv, NEW t \in Threads, Release(t)
    PROVE  Inv'
<1> DEFINE k == Last(t)
<1> DEFINE mine == held[k].holder = t /\ held[k].depth > 0
<1>1. TypeOK /\ Phases /\ pc[t] = "release" /\ got[t] > 0 /\ ~queued[t] /\ TTL \in Nat
  BY LeaseAssumption DEF Inv, Release, Phases
<1>2. k \in Keys /\ got[t] \in Nat /\ Len(claim[t]) \in Nat /\ got[t] <= Len(claim[t])
  BY <1>1, WantType DEF TypeOK, Phases
<1>3. held' = [held EXCEPT ![k].depth = IF mine THEN @ - 1 ELSE @,
                           ![k].age = IF mine THEN 0 ELSE @]
  BY DEF Release
<1> HIDE DEF k
<1>4. /\ held'[k].holder = held[k].holder
      /\ held'[k].waiters = held[k].waiters
      /\ held'[k].depth = IF mine THEN held[k].depth - 1 ELSE held[k].depth
      /\ held'[k].age = IF mine THEN 0 ELSE held[k].age
      /\ \A l \in Keys \ {k} : held'[l] = held[l]
  BY <1>1, <1>2, <1>3 DEF TypeOK, Entry
<1>5. held' \in [Keys -> Entry]
  <2>1. held[k] \in Entry
    BY <1>1, <1>2 DEF TypeOK
  <2> DEFINE d == IF mine THEN held[k].depth - 1 ELSE held[k].depth
  <2> DEFINE a == IF mine THEN 0 ELSE held[k].age
  <2>2. d \in Nat /\ a \in 0..MaxAge
    BY <1>1, <2>1 DEF Entry, MaxAge
  <2>3. held' = [held EXCEPT ![k] = [held[k] EXCEPT !.depth = d, !.age = a]]
    BY <1>2, <1>3, <2>1 DEF Entry
  <2> HIDE DEF d, a
  <2>4. [held[k] EXCEPT !.depth = d, !.age = a] \in Entry
    BY <2>1, <2>2 DEF Entry
  <2> QED
    BY <1>1, <1>2, <2>3, <2>4 DEF TypeOK
<1>6. woken' \in [Threads -> BOOLEAN] /\ \A u \in Threads : pc[u] \notin {"enter", "select"} => ~woken'[u]
  BY <1>1 DEF Release, TypeOK, Phases
<1>7. /\ got' = [got EXCEPT ![t] = got[t] - 1]
      /\ waiting' = waiting /\ queued' = queued
      /\ pc' = [pc EXCEPT ![t] = IF got[t] = 1 THEN "idle" ELSE "release"]
      /\ claim' = IF got[t] = 1 THEN [claim EXCEPT ![t] = <<>>] ELSE claim
      /\ lapsed' = IF got[t] = 1 THEN lapsed \ {t} ELSE lapsed
  BY <1>1, <1>2 DEF Release, Left
<1>8. TypeOK'
  BY <1>1, <1>2, <1>5, <1>6, <1>7 DEF TypeOK
<1>9. Phases'
  <2>1. Len(<<>>) = 0
    OBVIOUS
  <2>2. \A u \in Threads \ {t} : /\ pc'[u] = pc[u] /\ got'[u] = got[u] /\ claim'[u] = claim[u]
                                 /\ queued'[u] = queued[u] /\ (u \in lapsed' <=> u \in lapsed)
    BY <1>1, <1>7 DEF TypeOK
  <2>3. /\ got'[t] = got[t] - 1
        /\ pc'[t] = IF got[t] = 1 THEN "idle" ELSE "release"
        /\ claim'[t] = IF got[t] = 1 THEN <<>> ELSE claim[t]
        /\ got[t] = 1 => t \notin lapsed'
    BY <1>1, <1>7 DEF TypeOK
  <2> QED
    BY <1>1, <1>2, <1>6, <1>7, <2>1, <2>2, <2>3 DEF Phases
<1>10. WaitAccounting'
  <2>1. \A l \in Keys : held'[l].waiters = held[l].waiters
    BY <1>4
  <2>2. \A u \in Threads : queued[u] => Want(u)' = Want(u)
    BY <1>1, <1>7 DEF Want, TypeOK
  <2> QED
    BY <1>7, <2>1, <2>2 DEF Inv, WaitAccounting
<1>11. \A u \in Threads \ {t}, l \in Keys : Times(u, l)' = Times(u, l)
  <2> TAKE u \in Threads \ {t}, l \in Keys
  <2>1. Count(u)' = Count(u) /\ claim'[u] = claim[u]
    BY <1>1, <1>7 DEF Count, TypeOK
  <2> QED
    BY <2>1, TimesSame
<1>12. \A l \in Keys : /\ Times(t, l)' \in Nat
                       /\ Times(t, l) = IF l = k THEN Times(t, l)' + 1 ELSE Times(t, l)'
                       /\ got[t] = 1 => Times(t, l)' = 0
  <2> TAKE l \in Keys
  <2> DEFINE n == got[t] - 1
  <2>1. Count(t) = n + 1 /\ Count(t)' = n /\ n \in Nat
    BY <1>1, <1>2, <1>7 DEF Count, TypeOK
  <2>2. claim[t][n + 1] = k
    BY <1>2 DEF k, Last
  <2>3. Times(t, l)' = Occurs(claim'[t], n, l) /\ Times(t, l) = Occurs(claim[t], n + 1, l)
    BY <2>1 DEF Times
  <2>4. Occurs(claim'[t], n, l) = Occurs(claim[t], n, l)
    <3>1. CASE got[t] = 1
      BY <3>1, OccursZero
    <3>2. CASE got[t] # 1
      BY <3>2, <1>7
    <3> QED
      BY <3>1, <3>2
  <2>5. Occurs(claim[t], n, l) \in Nat /\ (n = 0 => Occurs(claim[t], n, l) = 0)
    BY <2>1, OccursNat, OccursZero
  <2>6. Occurs(claim[t], n + 1, l) = IF k = l THEN Occurs(claim[t], n, l) + 1 ELSE Occurs(claim[t], n, l)
    BY <2>1, <2>2, OccursStep
  <2> QED
    BY <2>1, <2>3, <2>4, <2>5, <2>6
<1>13. \A l \in Keys : held[l].depth \in Nat
  BY <1>1 DEF TypeOK, Entry
<1>14. NoOrphanLease'
  <2> SUFFICES ASSUME NEW l \in Keys, NEW u \in Threads, held'[l].holder = u
               PROVE  held'[l].depth <= Times(u, l)'
    BY DEF NoOrphanLease
  <2>1. held[l].holder = u /\ held[l].depth <= Times(u, l)
    BY <1>4 DEF Inv, NoOrphanLease
  <2>2. CASE l # k
    BY <1>4, <1>11, <1>12, <2>1, <2>2
  <2>3. CASE l = k /\ u # t
    BY <1>4, <1>11, <2>1, <2>3
  <2>4. CASE l = k /\ u = t
    <3>1. Times(t, l) = Times(t, l)' + 1 /\ Times(t, l)' \in Nat
      BY <1>2, <1>12, <2>4
    <3> QED
      BY <1>2, <1>4, <1>13, <2>1, <2>4, <3>1
  <2> QED
    BY <2>2, <2>3, <2>4
<1>15. Backed'
  <2> SUFFICES ASSUME NEW u \in Threads, u \notin lapsed', NEW l \in Keys, Times(u, l)' > 0
               PROVE  /\ held'[l].holder = u
                      /\ held'[l].depth = Times(u, l)'
                      /\ held'[l].age <= TTL
    BY DEF Backed
  <2>1. u \notin lapsed
    BY <1>7, <1>12
  <2>2. Times(u, l) > 0
    BY <1>11, <1>12
  <2>3. held[l].holder = u /\ held[l].depth = Times(u, l) /\ held[l].age <= TTL
    BY <2>1, <2>2 DEF Inv, Backed
  <2>4. CASE l # k
    BY <1>4, <1>11, <1>12, <2>3, <2>4
  <2>5. CASE l = k /\ u # t
    BY <1>4, <1>11, <2>3, <2>5
  <2>6. CASE l = k /\ u = t
    <3>1. Times(t, l) = Times(t, l)' + 1 /\ Times(t, l)' \in Nat
      BY <1>2, <1>12, <2>6
    <3>2. mine
      BY <2>3, <2>6, <3>1
    <3> QED
      BY <1>1, <1>4, <2>3, <2>6, <3>1, <3>2
  <2> QED
    BY <2>4, <2>5, <2>6
<1>16. Apart'
  <2>1. \A u \in Threads, l \in Keys :
          u \notin lapsed' /\ Times(u, l)' > 0 => u \notin lapsed /\ Times(u, l) > 0
    BY <1>7, <1>11, <1>12
  <2> QED
    BY <2>1, ApartKept DEF Inv
<1> QED
  BY <1>8, <1>9, <1>10, <1>14, <1>15, <1>16 DEF Inv

\* Every step keeps the invariant.
LEMMA NextInv == Inv /\ [Next]_vars => Inv'
<1> SUFFICES ASSUME Inv, [Next]_vars PROVE Inv'
  OBVIOUS
<1>1. CASE UNCHANGED vars
  <2>1. \A u \in Threads, k \in Keys : Times(u, k)' = Times(u, k)
    BY <1>1, TimesSame DEF vars, Count
  <2>2. TypeOK' /\ Phases'
    BY <1>1 DEF Inv, TypeOK, Phases, vars
  <2>3. WaitAccounting'
    BY <1>1 DEF Inv, WaitAccounting, Want, vars
  <2>4. NoOrphanLease' /\ Backed'
    BY <1>1, <2>1 DEF Inv, NoOrphanLease, Backed, vars
  <2>5. Apart'
    BY <1>1, <2>1, ApartKept DEF Inv, vars
  <2> QED
    BY <2>2, <2>3, <2>4, <2>5 DEF Inv
<1>2. ASSUME NEW t \in Threads,
             Claim(t) \/ Acquire(t) \/ Cancel(t) \/ Written(t) \/ Release(t)
      PROVE  Inv'
  BY <1>2, ClaimInv, TryGrantedInv, TryBlockedInv, EnterWaitInv, WakeInv, LeaveWaitInv,
     CancelInv, WrittenInv, ReleaseInv DEF Acquire
<1> QED
  BY <1>1, <1>2, ListInv, TickInv DEF Next

-----------------------------------------------------------------------------
(* Theorems *)

\* Types hold, and depth and the waiter count never go negative.
THEOREM TypeCorrect == Spec => []TypeOK
<1>1. Inv => TypeOK
  BY DEF Inv
<1> QED
  BY <1>1, InitInv, NextInv, PTL DEF Spec

\* Mutual exclusion over subtrees: whatever the tree, the claims and the TTL,
\* two threads whose leases have not lapsed hold no overlapping subtrees.
THEOREM LeaseExclusion == Spec => []Exclusion
<1>1. Inv => Exclusion
  <2> SUFFICES ASSUME Inv,
                      NEW t \in Threads \ lapsed, NEW u \in Threads \ lapsed, t # u,
                      NEW k \in Holding(t), NEW l \in Holding(u)
               PROVE  ~Overlaps(k, l)
    BY DEF Exclusion
  <2>1. Count(t) \in Nat /\ Count(u) \in Nat
    BY DEF Inv, TypeOK, Count
  <2>2. PICK i \in 1..Count(t) : k = claim[t][i]
    BY DEF Holding
  <2>3. PICK j \in 1..Count(u) : l = claim[u][j]
    BY DEF Holding
  <2>4. k \in Keys /\ l \in Keys
    <3>1. /\ claim[t] \in Seq(Keys) /\ Count(t) <= Len(claim[t])
          /\ claim[u] \in Seq(Keys) /\ Count(u) <= Len(claim[u])
      BY DEF Inv, TypeOK, Phases, Count
    <3> QED
      BY <2>1, <2>2, <2>3, <3>1
  <2>5. Times(t, k) > 0 /\ Times(u, l) > 0
    BY <2>1, <2>2, <2>3, OccursPositive DEF Times
  <2> QED
    BY <2>4, <2>5 DEF Inv, Apart
<1> QED
  BY <1>1, InitInv, NextInv, PTL DEF Spec

\* A thread that is not claiming holds nothing: every lease taken is released
\* or was taken over.
THEOREM NoLeaseLeaks == Spec => []NoOrphanLease
<1>1. Inv => NoOrphanLease
  BY DEF Inv
<1> QED
  BY <1>1, InitInv, NextInv, PTL DEF Spec

\* The waiter lists and the waiting count agree with the threads that wait.
THEOREM WaitersCounted == Spec => []WaitAccounting
<1>1. Inv => WaitAccounting
  BY DEF Inv
<1> QED
  BY <1>1, InitInv, NextInv, PTL DEF Spec

-----------------------------------------------------------------------------
(* No wakeup is lost *)

\* An entry somebody holds is in the map, so the release that leaves it at
\* depth 0 finds it and closes the wake channel.
HeldPresent == \A k \in Keys : held[k].depth > 0 => held[k].present

WaitInv == Inv /\ HeldPresent /\ NoLostWakeup

\* A thread that waits on an open channel.
Waits(t) == pc[t] \in {"enter", "select"} /\ ~woken[t]

\* The lease of another thread that holds t up.
Ahead(t, o) == held[o].depth > 0 /\ held[o].holder # t

\* Whoever waits after the step waited before it for the same key, and the
\* leases ahead of it stay ahead.
LEMMA WaitKept ==
    ASSUME NoLostWakeup,
           \A t \in Threads : Waits(t)' => Waits(t) /\ claim'[t] = claim[t] /\ got'[t] = got[t],
           \A t \in Threads, o \in Keys : Waits(t)' /\ Ahead(t, o) => Ahead(t, o)'
    PROVE  NoLostWakeup'
<1> SUFFICES ASSUME NEW t \in Threads, Waits(t)'
             PROVE  \E o \in Keys : Ahead(t, o)' /\ Overlaps(Want(t)', o)
  BY DEF NoLostWakeup, Waits, Ahead
<1>1. PICK o \in Keys : Ahead(t, o) /\ Overlaps(Want(t), o)
  BY DEF NoLostWakeup, Waits, Ahead
<1>2. Want(t)' = Want(t)
  BY DEF Want
<1> QED
  BY <1>1, <1>2

\* A sweep takes no lease away.
LEMMA SweepAhead ==
    ASSUME Inv, HeldPresent, held' = Sweep(held)
    PROVE  /\ HeldPresent'
           /\ \A t \in Threads, o \in Keys : Ahead(t, o) => Ahead(t, o)'
<1>1. TypeOK
  BY DEF Inv
<1>2. \A k \in Keys : /\ Sweep(held)[k].depth = held[k].depth
                      /\ held[k].depth > 0 => Sweep(held)[k] = held[k]
  BY <1>1, SweepKeeps
<1> QED
  BY <1>2 DEF HeldPresent, Ahead

LEMMA TryBlockedWaits ==
    ASSUME WaitInv, NEW t \in Threads, TryBlocked(t)
    PROVE  HeldPresent' /\ NoLostWakeup'
<1>1. /\ pc[t] = "try" /\ held' = Sweep(held) /\ Blockers(Sweep(held), Want(t), t) # {}
      /\ pc' = [pc EXCEPT ![t] = IF queued[t] THEN "select" ELSE "enter"]
      /\ UNCHANGED <<claim, got, woken>>
  BY DEF TryBlocked, callVars
<1>2. HeldPresent' /\ \A u \in Threads, o \in Keys : Ahead(u, o) => Ahead(u, o)'
  BY <1>1, SweepAhead DEF WaitInv
<1>3. NoLostWakeup'
  <2> SUFFICES ASSUME NEW u \in Threads, Waits(u)'
               PROVE  \E o \in Keys : Ahead(u, o)' /\ Overlaps(Want(u)', o)
    BY DEF NoLostWakeup, Waits, Ahead
  <2>1. Want(u)' = Want(u)
    BY <1>1 DEF Want
  <2>2. CASE u = t
    <3>1. PICK o \in Keys : /\ Sweep(held)[o].holder # t /\ IsActive(Sweep(held)[o])
                            /\ Overlaps(Want(t), o)
      BY <1>1 DEF Blockers
    <3> QED
      BY <1>1, <2>1, <2>2, <3>1 DEF Ahead, IsActive
  <2>3. CASE u # t
    <3>1. pc'[u] = pc[u]
      BY <1>1, <2>3 DEF WaitInv, Inv, TypeOK
    <3>2. PICK o \in Keys : Ahead(u, o) /\ Overlaps(Want(u), o)
      BY <1>1, <3>1 DEF WaitInv, NoLostWakeup, Waits, Ahead
    <3> QED
      BY <1>2, <2>1, <3>2
  <2> QED
    BY <2>2, <2>3
<1> QED
  BY <1>2, <1>3

\* A grant hands an entry to a thread that does not wait, at a depth above 0.
LEMMA TryGrantedWaits ==
    ASSUME WaitInv, NEW t \in Threads, TryGranted(t)
    PROVE  HeldPresent' /\ NoLostWakeup'
<1> DEFINE k == Want(t)
           swept == Sweep(held)
<1>1. /\ pc[t] = "try" /\ held' = [swept EXCEPT ![k] = Taken(@, t)]
      /\ UNCHANGED <<claim, woken>>
  BY DEF TryGranted
<1>2. TypeOK /\ Phases /\ k \in Keys
  BY <1>1, WantType DEF WaitInv, Inv
<1>3. /\ swept \in [Keys -> Entry]
      /\ \A o \in Keys : /\ swept[o].depth = held[o].depth
                         /\ held[o].depth > 0 => swept[o] = held[o]
  BY <1>2, SweepKeeps
<1> HIDE DEF swept, k
<1>4. held'[k] = Taken(swept[k], t) /\ \A o \in Keys \ {k} : held'[o] = swept[o]
  BY <1>1, <1>2, <1>3
<1>5. held'[k].present /\ held'[k].holder = t /\ held'[k].depth > 0
  <2>1. swept[k].depth \in Nat
    BY <1>2, <1>3 DEF Entry
  <2> QED
    BY <1>4, <2>1 DEF Taken
<1>6. HeldPresent'
  BY <1>3, <1>4, <1>5 DEF WaitInv, HeldPresent
<1>7. \A u \in Threads : u # t => pc'[u] = pc[u] /\ got'[u] = got[u]
  BY <1>2 DEF TryGranted, Advance, TypeOK
<1>8. pc'[t] \notin {"enter", "select"}
  BY <1>2 DEF TryGranted, Advance, TypeOK
<1>9. \A u \in Threads : Waits(u)' => u # t /\ Waits(u) /\ claim'[u] = claim[u] /\ got'[u] = got[u]
  BY <1>1, <1>7, <1>8 DEF Waits
<1>10. \A u \in Threads, o \in Keys : u # t /\ Ahead(u, o) => Ahead(u, o)'
  BY <1>3, <1>4, <1>5 DEF Ahead
<1> QED
  BY <1>6, <1>9, <1>10, WaitKept DEF WaitInv

\* Of an entry's holder and depth nothing changes, and nobody starts to wait.
LEMMA EnterWaitWaits ==
    ASSUME WaitInv, NEW t \in Threads, EnterWait(t)
    PROVE  HeldPresent' /\ NoLostWakeup'
<1>1. TypeOK /\ Phases /\ Want(t) \in Keys
  BY WantType DEF WaitInv, Inv, EnterWait
<1>2. \A o \in Keys : /\ held'[o].depth = held[o].depth /\ held'[o].holder = held[o].holder
                      /\ held[o].present => held'[o].present
  BY <1>1 DEF EnterWait, TypeOK, Entry
<1>3. HeldPresent'
  BY <1>2 DEF WaitInv, HeldPresent
<1>4. \A u \in Threads : Waits(u)' => Waits(u) /\ claim'[u] = claim[u] /\ got'[u] = got[u]
  BY <1>1 DEF EnterWait, Waits, TypeOK
<1> QED
  BY <1>2, <1>3, <1>4, WaitKept DEF WaitInv, Ahead

\* leaveWait touches the waiter list of an entry only.
LEMMA UnregisterAhead ==
    ASSUME TypeOK, HeldPresent, NEW t \in Threads, Want(t) \in Keys, Unregister(t)
    PROVE  /\ HeldPresent'
           /\ \A u \in Threads, o \in Keys : Ahead(u, o) => Ahead(u, o)'
<1>1. \/ held' = [held EXCEPT ![Want(t)].waiters = @ \ {t}]
      \/ held' = held
  BY DEF Unregister
<1>2. held \in [Keys -> Entry]
  BY DEF TypeOK
<1>3. \A o \in Keys : /\ held'[o].depth = held[o].depth /\ held'[o].holder = held[o].holder
                      /\ held'[o].present = held[o].present
  BY <1>1, <1>2 DEF Entry
<1> QED
  BY <1>3 DEF HeldPresent, Ahead

LEMMA LeaveWaitWaits ==
    ASSUME WaitInv, NEW t \in Threads, LeaveWait(t)
    PROVE  HeldPresent' /\ NoLostWakeup'
<1>1. TypeOK /\ Phases /\ HeldPresent /\ Want(t) \in Keys
  BY WantType DEF WaitInv, Inv, LeaveWait
<1>2. HeldPresent' /\ \A u \in Threads, o \in Keys : Ahead(u, o) => Ahead(u, o)'
  BY <1>1, UnregisterAhead DEF LeaveWait
<1>3. \A u \in Threads : Waits(u)' => Waits(u) /\ claim'[u] = claim[u] /\ got'[u] = got[u]
  BY <1>1 DEF LeaveWait, Advance, Waits, TypeOK
<1> QED
  BY <1>2, <1>3, WaitKept DEF WaitInv

LEMMA CancelWaits ==
    ASSUME WaitInv, NEW t \in Threads, Cancel(t)
    PROVE  HeldPresent' /\ NoLostWakeup'
<1>1. TypeOK /\ Phases /\ HeldPresent /\ Want(t) \in Keys
  BY WantType DEF WaitInv, Inv, Cancel
<1>2. HeldPresent' /\ \A u \in Threads, o \in Keys : Ahead(u, o) => Ahead(u, o)'
  BY <1>1, UnregisterAhead DEF Cancel
<1>3. \A u \in Threads : Waits(u)' => Waits(u) /\ claim'[u] = claim[u] /\ got'[u] = got[u]
  BY <1>1 DEF Cancel, Left, Waits, TypeOK
<1> QED
  BY <1>2, <1>3, WaitKept DEF WaitInv

\* A release that leaves its entry at depth 0 wakes everyone who waits; any
\* other leaves the leases ahead of them where they are.
LEMMA ReleaseWaits ==
    ASSUME WaitInv, NEW t \in Threads, Release(t)
    PROVE  HeldPresent' /\ NoLostWakeup'
<1> DEFINE k == Last(t)
           mine == held[k].holder = t /\ held[k].depth > 0
<1>1. TypeOK /\ Phases /\ HeldPresent /\ k \in Keys
  BY WantType DEF WaitInv, Inv, Release, Phases
<1>2. /\ pc[t] = "release"
      /\ held' = [held EXCEPT ![k].depth = IF mine THEN @ - 1 ELSE @,
                              ![k].age = IF mine THEN 0 ELSE @]
      /\ woken' = IF held[k].present /\ held'[k].depth = 0
                  THEN [u \in Threads |-> pc[u] \in {"enter", "select"}]
                  ELSE woken
      /\ got' = [got EXCEPT ![t] = @ - 1]
  BY DEF Release
<1>3. held[k].depth \in Nat
  BY <1>1 DEF TypeOK, Entry
<1> HIDE DEF k
<1>4. /\ \A o \in Keys : held'[o].holder = held[o].holder /\ held'[o].present = held[o].present
      /\ \A o \in Keys \ {k} : held'[o].depth = held[o].depth
      /\ held'[k].depth = IF mine THEN held[k].depth - 1 ELSE held[k].depth
  BY <1>1, <1>2 DEF TypeOK, Entry
<1> HIDE DEF mine
<1>5. held'[k].depth \in Nat /\ (held'[k].depth > 0 => held[k].depth > 0)
  BY <1>3, <1>4 DEF mine
<1>6. HeldPresent'
  BY <1>1, <1>4, <1>5 DEF HeldPresent
<1>7. /\ \A u \in Threads : u # t => /\ pc'[u] = pc[u] /\ got'[u] = got[u]
                                     /\ claim'[u] = claim[u]
      /\ pc'[t] \in {"idle", "release"}
  BY <1>1, <1>2 DEF Release, Left, TypeOK
<1>8. CASE held[k].present /\ held'[k].depth = 0
  <2>1. \A u \in Threads : ~Waits(u)'
    BY <1>2, <1>7, <1>8 DEF Waits
  <2> QED
    BY <1>6, <2>1 DEF NoLostWakeup, Waits
<1>9. CASE ~(held[k].present /\ held'[k].depth = 0)
  <2>1. \A u \in Threads : Waits(u)' => Waits(u) /\ claim'[u] = claim[u] /\ got'[u] = got[u]
    BY <1>2, <1>7, <1>9 DEF Waits
  <2>2. held[k].depth > 0 => held'[k].depth > 0
    BY <1>1, <1>5, <1>9 DEF HeldPresent
  <2>3. \A u \in Threads, o \in Keys : Ahead(u, o) => Ahead(u, o)'
    BY <1>4, <2>2 DEF Ahead
  <2> QED
    BY <1>6, <2>1, <2>3, WaitKept DEF WaitInv
<1> QED
  BY <1>8, <1>9

\* The steps that leave every entry's holder and depth alone.
LEMMA QuietWaits ==
    ASSUME WaitInv, NEW t \in Threads, Claim(t) \/ Written(t) \/ Wake(t)
    PROVE  HeldPresent' /\ NoLostWakeup'
<1>1. held' = held
  BY DEF Claim, Written, Wake
<1>2. \A u \in Threads : Waits(u)' => Waits(u) /\ claim'[u] = claim[u] /\ got'[u] = got[u]
  BY DEF Claim, Written, Wake, Waits, callVars, WaitInv, Inv, TypeOK
<1> QED
  BY <1>1, <1>2, WaitKept DEF WaitInv, HeldPresent, Ahead

LEMMA ListWaits ==
    ASSUME WaitInv, List
    PROVE  HeldPresent' /\ NoLostWakeup'
<1>1. HeldPresent' /\ \A u \in Threads, o \in Keys : Ahead(u, o) => Ahead(u, o)'
  BY SweepAhead DEF WaitInv, List
<1>2. \A u \in Threads : Waits(u)' => Waits(u) /\ claim'[u] = claim[u] /\ got'[u] = got[u]
  BY DEF List, Waits, callVars
<1> QED
  BY <1>1, <1>2, WaitKept DEF WaitInv

LEMMA TickWaits ==
    ASSUME WaitInv, Tick
    PROVE  HeldPresent' /\ NoLostWakeup'
<1>1. \A o \in Keys : /\ held'[o].depth = held[o].depth /\ held'[o].holder = held[o].holder
                      /\ held'[o].present = held[o].present
  BY DEF Tick, Older, WaitInv, Inv, TypeOK, Entry
<1>2. \A u \in Threads : Waits(u)' => Waits(u) /\ claim'[u] = claim[u] /\ got'[u] = got[u]
  BY DEF Tick, Waits, callVars
<1> QED
  BY <1>1, <1>2, WaitKept DEF WaitInv, HeldPresent, Ahead

\* Nobody parks, or is about to, on a wake channel no release will close:
\* whoever waits has another thread's lease on an overlapping subtree ahead.
THEOREM WakeupsKept == Spec => []NoLostWakeup
<1>1. Init => WaitInv
  <2> SUFFICES ASSUME Init PROVE HeldPresent /\ NoLostWakeup
    BY InitInv DEF WaitInv
  <2> QED
    BY DEF Init, HeldPresent, NoLostWakeup, NoEntry
<1>2. WaitInv /\ [Next]_vars => WaitInv'
  <2> SUFFICES ASSUME WaitInv, [Next]_vars PROVE HeldPresent' /\ NoLostWakeup'
    BY NextInv DEF WaitInv
  <2>1. CASE UNCHANGED vars
    <3>1. \A u \in Threads : Waits(u)' => Waits(u) /\ claim'[u] = claim[u] /\ got'[u] = got[u]
      BY <2>1 DEF vars, Waits
    <3> QED
      BY <2>1, <3>1, WaitKept DEF vars, WaitInv, HeldPresent, Ahead
  <2>2. ASSUME NEW t \in Threads,
               Claim(t) \/ Acquire(t) \/ Cancel(t) \/ Written(t) \/ Release(t)
        PROVE  HeldPresent' /\ NoLostWakeup'
    BY <2>2, QuietWaits, TryGrantedWaits, TryBlockedWaits, EnterWaitWaits, LeaveWaitWaits,
       CancelWaits, ReleaseWaits DEF Acquire
  <2> QED
    BY <2>1, <2>2, ListWaits, TickWaits DEF Next
<1>3. WaitInv => NoLostWakeup
  BY DEF WaitInv
<1> QED
  BY <1>1, <1>2, <1>3, PTL DEF Spec

-----------------------------------------------------------------------------
(* Nobody waits in a circle *)

\* Neither of two directories is inside the other, and a comes first.
Before(a, b) ==
    \E d \in 1..Len(a) :
        /\ d <= Len(b)
        /\ a[d] < b[d]
        /\ \A i \in 1..(d - 1) : a[i] = b[i]

\* What holdAll's sorting is for: a claim takes its keys in order, or again.
ClaimsAscend ==
    \A c \in Claims : \A i, j \in DOMAIN c :
        i < j => c[i] = c[j] \/ Before(c[i], c[j])

\* Every nonempty set of numbers has a least one.
LEMMA LeastNumber ==
    ASSUME NEW T \in SUBSET Nat, T # {}
    PROVE  \E x \in T : \A y \in T : x <= y
<1> DEFINE Below == OpToRel(<, Nat)
<1>1. IsWellFoundedOn(Below, Nat)
  BY NatLessThanWellFounded DEF Below
<1> HIDE DEF Below
<1>2. \E x \in T : \A y \in T : ~(<<y, x>> \in Below)
  BY <1>1, WFMin
<1>3. PICK x \in T : \A y \in T : ~(<<y, x>> \in Below)
  BY <1>2
<1>4. \A y \in T : <<y, x>> \in Below <=> y < x
  BY Zenon DEF Below, OpToRel
<1>5. \A y \in T : ~(y < x)
  BY <1>3, <1>4, Zenon
<1>6. \A y \in T : y \in Nat /\ x \in Nat
  OBVIOUS
<1> QED
  BY <1>5, <1>6

\* Along a strict order no finite set has a step upwards from each element.
LEMMA NoEndlessClimb ==
    ASSUME NEW S, IsFiniteSet(S), S # {}, NEW f \in [S -> S], NEW Up,
           \A t \in S : <<t, f[t]>> \in Up /\ <<t, t>> \notin Up,
           \A t, u, v \in S : <<t, u>> \in Up /\ <<u, v>> \in Up => <<t, v>> \in Up
    PROVE  FALSE
<1> DEFINE G(t) == {u \in S : <<t, u>> \in Up}
           T == {n \in Nat : \E t \in S : n = Cardinality(G(t))}
<1>1. \A t \in S : IsFiniteSet(G(t)) /\ Cardinality(G(t)) \in Nat
  BY FS_Subset, FS_CardinalityType
<1>2. \A t \in S : /\ G(f[t]) \subseteq G(t)
                   /\ f[t] \in G(t) /\ f[t] \notin G(f[t]) /\ f[t] \in S
  OBVIOUS
<1> HIDE DEF G
<1>3. T \in SUBSET Nat /\ T # {}
  <2>1. PICK t \in S : TRUE
    OBVIOUS
  <2>2. Cardinality(G(t)) \in T
    BY <1>1, <2>1
  <2> QED
    BY <2>2
<1>4. PICK x \in T : \A y \in T : x <= y
  <2> HIDE DEF T
  <2> QED
    BY <1>3, LeastNumber
<1>5. PICK t \in S : x = Cardinality(G(t))
  BY <1>4
<1>6. Cardinality(G(f[t])) \in T /\ f[t] \in S
  BY <1>1, <1>2, <1>5
<1>7. Cardinality(G(f[t])) < Cardinality(G(t))
  <2>1. G(f[t]) \subseteq G(t) /\ G(f[t]) # G(t) /\ IsFiniteSet(G(t))
    BY <1>1, <1>2
  <2> DEFINE A == G(f[t])
             B == G(t)
  <2>2. A \in SUBSET B /\ A # B /\ IsFiniteSet(B)
    BY <2>1
  <2> HIDE DEF A, B
  <2>3. Cardinality(A) < Cardinality(B)
    <3>1. IsFiniteSet(A) /\ Cardinality(A) <= Cardinality(B)
          /\ (Cardinality(A) = Cardinality(B) => A = B)
      BY <2>2, FS_Subset
    <3>2. Cardinality(A) \in Nat /\ Cardinality(B) \in Nat
      BY <2>2, <3>1, FS_CardinalityType
    <3> QED
      BY <2>2, <3>1, <3>2
  <2> QED
    BY <2>3 DEF A, B
<1> HIDE DEF T
<1>8. Cardinality(G(f[t])) \in Nat /\ Cardinality(G(t)) \in Nat
  BY <1>1, <1>5, <1>6
<1> QED
  BY <1>4, <1>5, <1>6, <1>7, <1>8

\* Directories that do not overlap come one before the other.
LEMMA BeforeTotal ==
    ASSUME NEW a \in Seq(Nat), NEW b \in Seq(Nat), ~Overlaps(a, b)
    PROVE  Before(a, b) \/ Before(b, a)
<1> DEFINE m == Len(a)
           n == Len(b)
           T == {d \in Nat : 1 <= d /\ d <= m /\ d <= n /\ a[d] # b[d]}
<1>0. m \in Nat /\ n \in Nat
  OBVIOUS
<1>1. T # {} /\ T \in SUBSET Nat
  <2>1. (m <= n => \E d \in 1..m : a[d] # b[d]) /\ (n <= m => \E d \in 1..n : a[d] # b[d])
    BY DEF Overlaps, Under
  <2>2. T \in SUBSET Nat
    OBVIOUS
  <2> HIDE DEF m, n
  <2>3. CASE m <= n
    <3>1. PICK d \in 1..m : a[d] # b[d]
      BY <2>1, <2>3
    <3>2. d \in T
      BY <1>0, <2>3, <3>1
    <3> QED
      BY <2>2, <3>2
  <2>4. CASE n <= m
    <3>1. PICK d \in 1..n : a[d] # b[d]
      BY <2>1, <2>4
    <3>2. d \in T
      BY <1>0, <2>4, <3>1
    <3> QED
      BY <2>2, <3>2
  <2> QED
    BY <1>0, <2>3, <2>4
<1> HIDE DEF T
<1>2. PICK d \in T : \A e \in T : d <= e
  BY <1>1, LeastNumber
<1>3. d \in 1..m /\ d \in 1..n /\ a[d] # b[d]
  <2> HIDE DEF m, n
  <2> QED
    BY <1>2 DEF T
<1>4. \A i \in 1..(d - 1) : a[i] = b[i]
  <2> SUFFICES ASSUME NEW i \in 1..(d - 1), a[i] # b[i] PROVE FALSE
    OBVIOUS
  <2> HIDE DEF m, n
  <2>1. i \in Nat /\ 1 <= i /\ i <= m /\ i <= n
    BY <1>0, <1>3
  <2>2. i \in T
    BY <2>1 DEF T
  <2> QED
    BY <1>2, <1>3, <2>1, <2>2
<1>5. a[d] \in Nat /\ b[d] \in Nat
  BY <1>3
<1> QED
  BY <1>3, <1>4, <1>5 DEF Before

LEMMA BeforeTransitive ==
    ASSUME NEW a \in Seq(Nat), NEW b \in Seq(Nat), NEW c \in Seq(Nat),
           Before(a, b), Before(b, c)
    PROVE  Before(a, c)
<1> DEFINE la == Len(a)
           lb == Len(b)
           lc == Len(c)
<1>1. PICK d \in 1..la : d <= lb /\ a[d] < b[d] /\ \A i \in 1..(d - 1) : a[i] = b[i]
  BY DEF Before
<1>2. PICK e \in 1..lb : e <= lc /\ b[e] < c[e] /\ \A i \in 1..(e - 1) : b[i] = c[i]
  BY DEF Before
<1>3. la \in Nat /\ lb \in Nat /\ lc \in Nat
  OBVIOUS
<1>4. /\ \A i \in 1..la : a[i] \in Nat
      /\ \A i \in 1..lb : b[i] \in Nat
      /\ \A i \in 1..lc : c[i] \in Nat
  OBVIOUS
<1>5. SUFFICES \E i \in 1..la : i <= lc /\ a[i] < c[i] /\ \A l \in 1..(i - 1) : a[l] = c[l]
  BY DEF Before
<1> HIDE DEF la, lb, lc
<1>6. CASE d < e
  <2>1. d \in 1..(e - 1) /\ d <= lc /\ \A i \in 1..(d - 1) : i \in 1..(e - 1)
    BY <1>1, <1>2, <1>3, <1>6
  <2> QED
    BY <1>1, <1>2, <2>1
<1>7. CASE e < d
  <2>1. e \in 1..(d - 1) /\ e \in 1..la /\ \A i \in 1..(e - 1) : i \in 1..(d - 1)
    BY <1>1, <1>2, <1>3, <1>7
  <2> QED
    BY <1>1, <1>2, <2>1
<1>8. CASE e = d
  <2>1. d \in 1..la /\ d \in 1..lb /\ d \in 1..lc
    BY <1>1, <1>2, <1>3, <1>8
  <2>2. a[d] < c[d]
    BY <1>1, <1>2, <1>4, <1>8, <2>1
  <2> QED
    BY <1>1, <1>2, <1>8, <2>1, <2>2
<1> QED
  BY <1>1, <1>2, <1>3, <1>6, <1>7, <1>8

LEMMA BeforeIrreflexive ==
    ASSUME NEW a \in Seq(Nat)
    PROVE  ~Before(a, a)
<1> SUFFICES ASSUME NEW d \in 1..Len(a), a[d] < a[d] PROVE FALSE
  BY DEF Before
<1> QED
  BY a[d] \in Nat

\* What lies before a directory lies before all that overlaps that and not it.
LEMMA BeforeOverlapping ==
    ASSUME NEW a \in Seq(Nat), NEW k \in Seq(Nat), NEW b \in Seq(Nat),
           Before(a, k), Overlaps(k, b), ~Overlaps(a, b)
    PROVE  Before(a, b)
<1>1. PICK d \in 1..Len(a) : d <= Len(k) /\ a[d] < k[d] /\ \A i \in 1..(d - 1) : a[i] = k[i]
  BY DEF Before
<1>2. Len(a) \in Nat /\ Len(b) \in Nat /\ Len(k) \in Nat
  OBVIOUS
<1>3. CASE Under(k, b)
  <2>1. d <= Len(b) /\ b[d] = k[d] /\ \A i \in 1..(d - 1) : b[i] = k[i]
    BY <1>1, <1>2, <1>3 DEF Under
  <2> QED
    BY <1>1, <2>1 DEF Before
<1>4. CASE Under(b, k)
  <2>1. CASE d <= Len(b)
    <3>1. b[d] = k[d] /\ \A i \in 1..(d - 1) : b[i] = k[i]
      BY <1>1, <1>2, <1>4, <2>1 DEF Under
    <3> QED
      BY <1>1, <2>1, <3>1 DEF Before
  <2>2. CASE Len(b) < d
    <3>1. Under(b, a)
      BY <1>1, <1>2, <1>4, <2>2 DEF Under
    <3> QED
      BY <3>1 DEF Overlaps
  <2> QED
    BY <1>1, <1>2, <2>1, <2>2
<1> QED
  BY <1>3, <1>4 DEF Overlaps

\* An active lease of a thread that is not giving its leases back.
Owns(t, o) == pc[t] # "release" /\ held[o].holder = t /\ IsActive(held[o])

\* Threads that are not giving back own no overlapping subtrees, lapsed or not.
\* (One that gives back may renew, by releasing, a lease that others took over.)
OwnersApart ==
    \A t, u \in Threads, o, p \in Keys :
        t # u /\ Owns(t, o) /\ Owns(u, p) => ~Overlaps(o, p)

ClaimTaken == \A t \in Threads : claim[t] \in Claims \cup {<<>>}

CircleInv == Inv /\ OwnersApart /\ ClaimTaken

\* Whoever owns a key after the step owned it before.
LEMMA OwnersKept ==
    ASSUME OwnersApart, \A t \in Threads, o \in Keys : Owns(t, o)' => Owns(t, o)
    PROVE  OwnersApart'
BY DEF OwnersApart

\* A thread that a step leaves idle owns nothing.
LEMMA IdleOwnsNothing ==
    ASSUME Inv', NEW t \in Threads, NEW o \in Keys, pc'[t] = "idle"
    PROVE  ~Owns(t, o)'
<1>1. Count(t)' = 0
  BY DEF Inv, Phases, Count
<1>2. Times(t, o)' = 0
  BY <1>1, OccursZero DEF Times
<1>3. held'[o].depth \in Nat
  BY DEF Inv, TypeOK, Entry
<1> QED
  BY <1>2, <1>3 DEF Owns, IsActive, Inv, NoOrphanLease

LEMMA SweepOwns ==
    ASSUME Inv, NEW t \in Threads, NEW o \in Keys,
           Sweep(held)[o].holder = t, IsActive(Sweep(held)[o])
    PROVE  held[o].holder = t /\ IsActive(held[o])
<1>1. TypeOK
  BY DEF Inv
<1>2. Sweep(held)[o] = IF held[o].waiters = {} /\ held[o].depth = 0 /\ held[o].age > TTL
                       THEN NoEntry ELSE held[o]
  BY DEF Sweep
<1>3. ~IsActive(NoEntry)
  BY DEF IsActive, NoEntry
<1> QED
  BY <1>2, <1>3

LEMMA OverlapsSymmetric ==
    ASSUME NEW a, NEW b, Overlaps(a, b)
    PROVE  Overlaps(b, a)
BY DEF Overlaps

LEMMA TryGrantedOwners ==
    ASSUME CircleInv, NEW t \in Threads, TryGranted(t)
    PROVE  OwnersApart'
<1> DEFINE k == Want(t)
           swept == Sweep(held)
<1>1. /\ pc[t] = "try" /\ Blockers(swept, k, t) = {}
      /\ held' = [swept EXCEPT ![k] = Taken(@, t)]
  BY DEF TryGranted
<1>2. Inv /\ TypeOK /\ Phases /\ k \in Keys
  BY <1>1, WantType DEF CircleInv, Inv
<1>3. swept \in [Keys -> Entry]
  BY <1>2, SweepKeeps
<1>4. \A u \in Threads, o \in Keys :
        swept[o].holder = u /\ IsActive(swept[o]) => held[o].holder = u /\ IsActive(held[o])
  BY <1>2, SweepOwns
<1>5. \A u \in Threads : u # t => pc'[u] = pc[u]
  BY <1>2 DEF TryGranted, Advance, TypeOK
<1>6. \A o \in Keys : swept[o].holder # t /\ IsActive(swept[o]) => ~Overlaps(k, o)
  BY <1>1 DEF Blockers
<1> HIDE DEF swept, k
<1>7. held'[k].holder = t /\ \A o \in Keys \ {k} : held'[o] = swept[o]
  BY <1>1, <1>2, <1>3 DEF Taken
<1>8. \A u \in Threads, o \in Keys :
        Owns(u, o)' /\ o # k => swept[o].holder = u /\ IsActive(swept[o])
  BY <1>7 DEF Owns, IsActive
<1>9. \A u \in Threads, o \in Keys : Owns(u, o)' /\ o # k => Owns(u, o)
  BY <1>1, <1>4, <1>5, <1>8 DEF Owns
<1>10. \A u \in Threads, o \in Keys : Owns(u, o)' /\ o = k => u = t
  BY <1>7 DEF Owns
<1>11. \A u \in Threads, o \in Keys : u # t /\ Owns(u, o)' => o # k /\ ~Overlaps(k, o)
  BY <1>6, <1>8, <1>10
<1> SUFFICES ASSUME NEW u \in Threads, NEW v \in Threads, NEW o \in Keys, NEW p \in Keys,
                    u # v, Owns(u, o)', Owns(v, p)'
             PROVE  ~Overlaps(o, p)
  BY DEF OwnersApart
<1>12. CASE o # k /\ p # k
  BY <1>9, <1>12 DEF CircleInv, OwnersApart
<1>13. CASE o = k
  BY <1>10, <1>11, <1>13
<1>14. CASE p = k
  BY <1>10, <1>11, <1>14, OverlapsSymmetric
<1> QED
  BY <1>12, <1>13, <1>14

LEMMA TryBlockedOwners ==
    ASSUME CircleInv, NEW t \in Threads, TryBlocked(t)
    PROVE  OwnersApart'
<1>1. Inv /\ TypeOK /\ pc[t] = "try" /\ held' = Sweep(held)
  BY DEF TryBlocked, CircleInv, Inv
<1>2. \A u \in Threads : pc'[u] # "release" => pc[u] # "release"
  BY <1>1 DEF TryBlocked, TypeOK
<1>3. \A u \in Threads, o \in Keys : Owns(u, o)' => Owns(u, o)
  BY <1>1, <1>2, SweepOwns DEF Owns, IsActive
<1> QED
  BY <1>3, OwnersKept DEF CircleInv

LEMMA ListOwners ==
    ASSUME CircleInv, List
    PROVE  OwnersApart'
<1>1. Inv /\ held' = Sweep(held) /\ pc' = pc
  BY DEF List, CircleInv
<1>2. \A u \in Threads, o \in Keys : Owns(u, o)' => Owns(u, o)
  BY <1>1, SweepOwns DEF Owns, IsActive
<1> QED
  BY <1>2, OwnersKept DEF CircleInv

LEMMA TickOwners ==
    ASSUME CircleInv, Tick
    PROVE  OwnersApart'
<1>1. held \in [Keys -> Entry] /\ TTL \in Nat
  BY LeaseAssumption DEF CircleInv, Inv, TypeOK
<1>2. \A o \in Keys : /\ held'[o].holder = held[o].holder /\ held'[o].depth = held[o].depth
                      /\ held'[o].age <= TTL => held[o].age <= TTL
  <2> SUFFICES ASSUME NEW o \in Keys
               PROVE  /\ held'[o].holder = held[o].holder /\ held'[o].depth = held[o].depth
                      /\ held'[o].age <= TTL => held[o].age <= TTL
    OBVIOUS
  <2>1. held[o] \in Entry /\ held[o].age \in Int
    BY <1>1 DEF Entry
  <2>2. held'[o] = [held[o] EXCEPT !.age = IF @ = MaxAge THEN @ ELSE @ + 1]
    BY DEF Tick, Older
  <2>3. /\ held'[o].holder = held[o].holder /\ held'[o].depth = held[o].depth
        /\ held'[o].age = IF held[o].age = MaxAge THEN held[o].age ELSE held[o].age + 1
    BY <2>1, <2>2 DEF Entry
  <2> QED
    BY <1>1, <2>1, <2>3 DEF MaxAge
<1>3. pc' = pc
  BY DEF Tick
<1>4. \A u \in Threads, o \in Keys : Owns(u, o)' => Owns(u, o)
  BY <1>2, <1>3 DEF Owns, IsActive
<1> QED
  BY <1>4, OwnersKept DEF CircleInv

LEMMA ReleaseOwners ==
    ASSUME CircleInv, Inv', NEW t \in Threads, Release(t)
    PROVE  OwnersApart'
<1> DEFINE k == Last(t)
           mine == held[k].holder = t /\ held[k].depth > 0
<1>1. TypeOK /\ Phases /\ pc[t] = "release" /\ k \in Keys
  BY WantType DEF CircleInv, Inv, Release, Phases
<1>2. held' = [held EXCEPT ![k].depth = IF mine THEN @ - 1 ELSE @,
                           ![k].age = IF mine THEN 0 ELSE @]
  BY DEF Release
<1>3. \A u \in Threads : u # t => pc'[u] = pc[u]
  BY <1>1 DEF Release, Left, TypeOK
<1>4. pc'[t] \in {"idle", "release"}
  BY <1>1 DEF Release, Left, TypeOK
<1> HIDE DEF k
<1>5. /\ \A o \in Keys : held'[o].holder = held[o].holder
      /\ \A o \in Keys : held[o].holder # t => held'[o].depth = held[o].depth /\ held'[o].age = held[o].age
  BY <1>1, <1>2 DEF TypeOK, Entry
<1>6. \A o \in Keys : ~Owns(t, o)'
  <2>1. CASE pc'[t] = "release"
    BY <2>1 DEF Owns
  <2>2. CASE pc'[t] = "idle"
    BY <2>2, IdleOwnsNothing
  <2> QED
    BY <1>4, <2>1, <2>2
<1>7. \A u \in Threads, o \in Keys : Owns(u, o)' => Owns(u, o)
  BY <1>3, <1>5, <1>6 DEF Owns, IsActive
<1> QED
  BY <1>7, OwnersKept DEF CircleInv

\* The steps that leave every entry's holder, depth and age alone.
LEMMA QuietOwners ==
    ASSUME CircleInv, NEW t \in Threads,
           Claim(t) \/ Written(t) \/ Wake(t) \/ EnterWait(t) \/ LeaveWait(t) \/ Cancel(t)
    PROVE  OwnersApart'
<1>1. TypeOK /\ Phases /\ (EnterWait(t) \/ LeaveWait(t) \/ Cancel(t) => Want(t) \in Keys)
  BY WantType DEF CircleInv, Inv, EnterWait, LeaveWait, Cancel
<1>2. \/ held' = held
      \/ held' = [held EXCEPT ![Want(t)].waiters = @ \ {t}]
      \/ held' = [held EXCEPT ![Want(t)].present = TRUE, ![Want(t)].waiters = @ \cup {t}]
  BY DEF Claim, Written, Wake, EnterWait, LeaveWait, Cancel, Unregister
<1>3. held \in [Keys -> Entry]
  BY <1>1 DEF TypeOK
<1>4. \A o \in Keys : /\ held'[o].holder = held[o].holder /\ held'[o].depth = held[o].depth
                      /\ held'[o].age = held[o].age
  BY <1>2, <1>3 DEF Entry
<1>5. \A u \in Threads : pc'[u] # "release" => pc[u] # "release"
  BY <1>1 DEF Claim, Written, Wake, EnterWait, LeaveWait, Cancel, Advance, Left, TypeOK
<1>6. \A u \in Threads, o \in Keys : Owns(u, o)' => Owns(u, o)
  BY <1>4, <1>5 DEF Owns, IsActive
<1> QED
  BY <1>6, OwnersKept DEF CircleInv

LEMMA NextCircle == CircleInv /\ [Next]_vars => CircleInv'
<1> SUFFICES ASSUME CircleInv, [Next]_vars PROVE CircleInv'
  OBVIOUS
<1>1. Inv'
  BY NextInv DEF CircleInv
<1>2. ClaimTaken'
  <2>1. CASE UNCHANGED vars \/ List \/ Tick
    BY <2>1 DEF CircleInv, ClaimTaken, vars, List, Tick, callVars
  <2>2. ASSUME NEW t \in Threads,
               Claim(t) \/ Acquire(t) \/ Cancel(t) \/ Written(t) \/ Release(t)
        PROVE  ClaimTaken'
    <3>1. \/ UNCHANGED claim
          \/ claim' = [claim EXCEPT ![t] = <<>>]
          \/ \E c \in Claims : claim' = [claim EXCEPT ![t] = c]
      BY <2>2 DEF Claim, Acquire, TryGranted, TryBlocked, EnterWait, Wake, LeaveWait, Cancel,
         Written, Release, Left, callVars
    <3> QED
      BY <3>1 DEF CircleInv, ClaimTaken, Inv, TypeOK
  <2> QED
    BY <2>1, <2>2 DEF Next
<1>3. OwnersApart'
  <2>1. CASE UNCHANGED vars
    <3>1. \A u \in Threads, o \in Keys : Owns(u, o)' => Owns(u, o)
      BY <2>1 DEF vars, Owns, IsActive
    <3> QED
      BY <3>1, OwnersKept DEF CircleInv
  <2>2. ASSUME NEW t \in Threads,
               Claim(t) \/ Acquire(t) \/ Cancel(t) \/ Written(t) \/ Release(t)
        PROVE  OwnersApart'
    BY <1>1, <2>2, QuietOwners, TryGrantedOwners, TryBlockedOwners, ReleaseOwners DEF Acquire
  <2> QED
    BY <2>1, <2>2, ListOwners, TickOwners DEF Next
<1> QED
  BY <1>1, <1>2, <1>3 DEF CircleInv

\* Of a thread that is parked, what it owns lies before what it wants, or it is
\* that very key.
LEMMA OwnedBeforeWanted ==
    ASSUME ClaimsAscend, CircleInv, NEW t \in Threads, pc[t] = "select",
           NEW o \in Keys, held[o].holder = t, IsActive(held[o])
    PROVE  o = Want(t) \/ Before(o, Want(t))
<1>1. got[t] \in Nat /\ got[t] < Len(claim[t]) /\ claim[t] \in Seq(Keys) /\ Count(t) = got[t]
  BY DEF CircleInv, Inv, TypeOK, Phases, Count
<1>2. claim[t] \in Claims
  <2>1. claim[t] # <<>>
    BY <1>1
  <2> QED
    BY <2>1 DEF CircleInv, ClaimTaken
<1>3. Times(t, o) > 0
  <2>1. Times(t, o) \in Nat /\ held[o].depth \in Nat
    BY TimesType DEF CircleInv, Inv, TypeOK, Entry
  <2>2. held[o].depth > 0 /\ held[o].depth <= Times(t, o)
    BY DEF IsActive, CircleInv, Inv, NoOrphanLease
  <2> QED
    BY <2>1, <2>2
<1>4. PICK i \in 1..got[t] : claim[t][i] = o
  BY <1>1, <1>3, OccursPositive DEF Times
<1>5. i \in DOMAIN claim[t] /\ got[t] + 1 \in DOMAIN claim[t] /\ i < got[t] + 1
  BY <1>1, <1>4
<1>6. claim[t][i] = claim[t][got[t] + 1] \/ Before(claim[t][i], claim[t][got[t] + 1])
  BY <1>2, <1>5 DEF ClaimsAscend
<1> QED
  BY <1>4, <1>6 DEF Want

\* Each of a set of parked threads that wait for one another owns a key before
\* the one that holds it up, which no finite set allows.
LEMMA NoCircle ==
    ASSUME ClaimsAscend, CircleInv
    PROVE  NoCircularWait
<1> SUFFICES ASSUME NEW S \in SUBSET Threads, S # {},
                    \A t \in S : /\ pc[t] = "select"
                                 /\ \E o \in Blockers(held, Want(t), t) : held[o].holder \in S
             PROVE  FALSE
  <2>1. SUFFICES ASSUME NEW S \in SUBSET Threads, S # {}
                 PROVE  \E t \in S : ~Parked(t) \/ \A o \in Blockers(held, Want(t), t) : held[o].holder \notin S
    BY DEF NoCircularWait
  <2>2. SUFFICES ASSUME \A t \in S : /\ Parked(t)
                                     /\ \E o \in Blockers(held, Want(t), t) : held[o].holder \in S
                 PROVE  FALSE
    BY Zenon
  <2> QED
    BY <2>1, <2>2 DEF Parked
<1> DEFINE b == [t \in S |-> CHOOSE o \in Keys : o \in Blockers(held, Want(t), t) /\ held[o].holder \in S]
           f == [t \in S |-> held[b[t]].holder]
           Up == {p \in S \X S : Before(b[p[1]], b[p[2]])}
<1>1. \A t \in S : /\ b[t] \in Keys /\ held[b[t]].holder \in S /\ held[b[t]].holder # t
                   /\ IsActive(held[b[t]]) /\ Overlaps(Want(t), b[t])
  <2> SUFFICES ASSUME NEW t \in S
               PROVE  b[t] \in Blockers(held, Want(t), t) /\ held[b[t]].holder \in S
    BY DEF Blockers
  <2>1. \E o \in Keys : o \in Blockers(held, Want(t), t) /\ held[o].holder \in S
    BY DEF Blockers
  <2> QED
    BY <2>1
<1>2. f \in [S -> S] /\ \A t \in S : f[t] = held[b[t]].holder
  BY <1>1
<1>3. \A t \in S : b[t] \in Seq(Nat)
  BY <1>1, LeaseAssumption
<1> HIDE DEF b
<1>4. ASSUME NEW t \in S
      PROVE  Before(b[t], b[f[t]])
  <2> DEFINE u == f[t]
             v == f[f[t]]
  <2>1. u \in S /\ v \in S /\ u # v /\ u \in Threads /\ v \in Threads
    BY <1>1, <1>2
  <2>2. Owns(u, b[t]) /\ Owns(v, b[u])
    BY <1>1, <1>2, <2>1 DEF Owns
  <2>3. ~Overlaps(b[t], b[u])
    BY <1>1, <2>1, <2>2 DEF CircleInv, OwnersApart
  <2>4. b[t] = Want(u) \/ Before(b[t], Want(u))
    BY <1>1, <2>1, <2>2, OwnedBeforeWanted DEF Owns
  <2>5. Overlaps(Want(u), b[u])
    BY <1>1, <2>1
  <2>6. Before(b[t], Want(u))
    BY <2>3, <2>4, <2>5
  <2>7. Want(u) \in Seq(Nat)
    BY <2>1, WantType, LeaseAssumption DEF CircleInv, Inv
  <2> QED
    BY <1>3, <2>1, <2>3, <2>5, <2>6, <2>7, BeforeOverlapping
<1>5. \A t \in S : <<t, f[t]>> \in Up /\ <<t, t>> \notin Up
  BY <1>2, <1>3, <1>4, BeforeIrreflexive
<1>6. \A t, u, v \in S : <<t, u>> \in Up /\ <<u, v>> \in Up => <<t, v>> \in Up
  BY <1>3, BeforeTransitive
<1>7. IsFiniteSet(S)
  BY LeaseAssumption, FS_Subset
<1> HIDE DEF Up, f
<1> QED
  BY <1>2, <1>5, <1>6, <1>7, NoEndlessClimb

\* When claims take their keys in order, no set of threads ever waits in a
\* circle, whatever lapses or is canceled: the order is what rules deadlock out.
THEOREM OrderPreventsDeadlock ==
    ASSUME ClaimsAscend
    PROVE  Spec => []NoCircularWait
<1>1. Init => CircleInv
  <2> SUFFICES ASSUME Init PROVE OwnersApart /\ ClaimTaken
    BY InitInv DEF CircleInv
  <2> QED
    BY DEF Init, OwnersApart, Owns, ClaimTaken, NoEntry, IsActive
<1>2. CircleInv => NoCircularWait
  BY NoCircle
<1> QED
  BY <1>1, <1>2, NextCircle, PTL DEF Spec
=============================================================================

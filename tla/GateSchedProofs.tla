--------------------------- MODULE GateSchedProofs ---------------------------
(***************************************************************************)
(* Proofs about GateSched: jobs that share a key never run together, the   *)
(* two waves of a batch keep apart, and a sweep comes in time.             *)
(***************************************************************************)
EXTENDS GateSched, WellFoundedInduction, TLAPS

Active == {"locking", "running"}

Types ==
    /\ owner \in [Keys -> Jobs \cup {None}]
    /\ queue \in [Keys -> SUBSET (Batch \cup Rounds)]
    /\ readers \in [Keys -> SUBSET Workers]
    /\ parked \in [Keys -> SUBSET Workers]
    /\ pc \in [Jobs -> {"idle", "locking", "running", "done"}]
    /\ want \in [Jobs -> SUBSET Keys]
    /\ step \in [Rounds -> 0..Len(Steps)]
    /\ wave \in {"idle", "write", "read"}

\* What a job locks, or waits to lock, is a key of its gate; it waits nowhere it holds.
OnlyOwnKeys(j) ==
    \A k \in Keys :
        /\ owner[k] = j => pc[j] \in Active /\ k \in Needs(j) /\ ~Shared(j)
        /\ j \in readers[k] => pc[j] \in Active /\ k \in Needs(j)
        /\ j \in queue[k] => pc[j] = "locking" /\ k \in want[j] /\ owner[k] # j
        /\ j \in parked[k] => pc[j] = "locking" /\ k \in want[j] /\ j \notin readers[k]

\* Each key of a job's gate is held already or is still to be taken.
Gathers(j) ==
    pc[j] \in Active =>
        /\ want[j] \subseteq Needs(j) /\ Needs(j) \subseteq Keys
        /\ Needs(j) \subseteq want[j] \cup Held(j)
        /\ pc[j] = "running" => want[j] = {}

\* The batch's gates run when their wave does.
InWaves ==
    /\ wave = "idle" => \A g \in Batch : pc[g] = "idle"
    /\ wave = "write" => \A g \in Batch \ Writers : pc[g] = "idle"
    /\ wave = "read" => \A g \in Writers : pc[g] = "done"

\* A round that takes or holds keys has reached a gate.
Reached == \A r \in Rounds : pc[r] \in Active => step[r] # 0

\* A batch counts as narrowed in the cadence's own count.
Counted == narrow = passes /\ passes \in 0..MaxPasses

LockInv == Types /\ \A j \in Jobs : OnlyOwnKeys(j) /\ Gathers(j)
Inv == LockInv /\ Reached /\ InWaves /\ Counted

-----------------------------------------------------------------------------
(* Numbers, and what a job needs *)

\* Every nonempty set of numbers has a least one.
LEMMA LeastNumber ==
    ASSUME NEW T \in SUBSET Nat, T # {}
    PROVE  Min(T) \in T
<1> DEFINE Below == OpToRel(<, Nat)
<1>1. IsWellFoundedOn(Below, Nat)
  BY NatLessThanWellFounded DEF Below
<1> HIDE DEF Below
<1>2. PICK x \in T : \A y \in T : ~(<<y, x>> \in Below)
  BY <1>1, WFMin
<1>3. \A y \in T : ~(y < x)
  <2>1. \A y \in T : <<y, x>> \in Below <=> y < x
    BY Zenon DEF Below, OpToRel
  <2> QED
    BY <1>2, <2>1, Zenon
<1>4. \A y \in T : y \in Nat /\ x \in Nat
  OBVIOUS
<1>5. \A y \in T : x <= y
  BY <1>3, <1>4
<1> QED
  BY <1>5 DEF Min

\* The keys of a gate are keys.
LEMMA GateKeys ==
    ASSUME NEW g \in DOMAIN Resources
    PROVE  Resources[g] \subseteq Keys
BY DEF Keys

\* Only a round's needs change, with the gate it has reached.
LEMMA NeedsStay ==
    ASSUME NEW i \in Jobs, i \in Rounds => step'[i] = step[i]
    PROVE  Needs(i)' = Needs(i)
BY DEF Needs

-----------------------------------------------------------------------------
(* Jobs that a step of another leaves alone *)

\* The step takes nothing of i's away, asks nothing on its behalf, and gives it at most keys
\* it was parked for.
Spared(i) ==
    /\ pc'[i] = pc[i] /\ want'[i] = want[i] /\ (i \in Rounds => step'[i] = step[i])
    /\ \A k \in Keys :
        /\ owner'[k] = i <=> owner[k] = i
        /\ i \in queue'[k] => i \in queue[k]
        /\ i \in readers[k] => i \in readers'[k]
        /\ i \in readers'[k] => i \in readers[k] \/ i \in parked[k]
        /\ i \in parked'[k] => i \in parked[k] /\ i \notin readers'[k]
        /\ owner[k] = i /\ readers[k] = {} => readers'[k] = {}

\* Such a step preserves what holds of i.
LEMMA SparedStays ==
    ASSUME NEW i \in Jobs, OnlyOwnKeys(i), Gathers(i), Spared(i)
    PROVE  OnlyOwnKeys(i)' /\ Gathers(i)'
<1>1. Needs(i)' = Needs(i)
  BY NeedsStay DEF Spared
<1>2. Held(i) \subseteq Held(i)'
  BY DEF Spared, Held
<1>3. OnlyOwnKeys(i)'
  <2> SUFFICES ASSUME NEW k \in Keys
               PROVE  /\ owner'[k] = i => pc'[i] \in Active /\ k \in Needs(i)' /\ ~Shared(i)
                      /\ i \in readers'[k] => pc'[i] \in Active /\ k \in Needs(i)'
                      /\ i \in queue'[k] => pc'[i] = "locking" /\ k \in want'[i] /\ owner'[k] # i
                      /\ i \in parked'[k] => pc'[i] = "locking" /\ k \in want'[i] /\ i \notin readers'[k]
    BY DEF OnlyOwnKeys, Shared
  <2>1. pc[i] = "locking" => pc[i] \in Active /\ (k \in want[i] => k \in Needs(i))
    BY DEF Gathers, Active
  <2> QED
    BY <1>1, <2>1 DEF OnlyOwnKeys, Spared
<1>4. Gathers(i)'
  BY <1>1, <1>2 DEF Gathers, Spared
<1> QED
  BY <1>3, <1>4

-----------------------------------------------------------------------------
(* Starting and ending *)

\* A job that has nothing to do with any lock.
Bare(j) ==
    \A k \in Keys : owner[k] # j /\ j \notin queue[k] /\ j \notin readers[k] /\ j \notin parked[k]

\* A job that locks nothing may be at rest, or begin to take the keys of its gate.
LEMMA BareIsGood ==
    ASSUME NEW j \in Jobs, Bare(j)',
           \/ pc'[j] \notin Active
           \/ pc'[j] = "locking" /\ want'[j] = Needs(j)' /\ Needs(j)' \subseteq Keys
    PROVE  OnlyOwnKeys(j)' /\ Gathers(j)'
<1>1. OnlyOwnKeys(j)'
  BY DEF OnlyOwnKeys, Bare
<1>2. Gathers(j)'
  BY DEF Gathers
<1> QED
  BY <1>1, <1>2

\* A job at rest locks nothing.
LEMMA RestingIsBare ==
    ASSUME NEW j \in Jobs, OnlyOwnKeys(j), pc[j] \notin Active
    PROVE  Bare(j)
BY DEF OnlyOwnKeys, Bare, Active

\* A running job holds every key it has locked: its gate's keys, and nothing else.
LEMMA RunnerHolds ==
    ASSUME LockInv, NEW j \in Jobs, pc[j] = "running"
    PROVE  /\ Needs(j) \subseteq Held(j)
           /\ \A k \in Keys : owner[k] = j => readers[k] = {} /\ j \notin Workers
           /\ \A k \in Keys : j \notin queue[k] /\ j \notin parked[k]
<1>1. OnlyOwnKeys(j) /\ Gathers(j)
  BY DEF LockInv
<1>2. Needs(j) \subseteq Held(j)
  BY <1>1 DEF Gathers, Active
<1>3. \A k \in Keys : owner[k] = j => readers[k] = {} /\ j \notin Workers
  <2> SUFFICES ASSUME NEW k \in Keys, owner[k] = j PROVE readers[k] = {} /\ j \notin Workers
    OBVIOUS
  <2>1. j \notin Workers /\ k \in Held(j)
    BY <1>1, <1>2 DEF OnlyOwnKeys, Shared
  <2>2. readers[k] \subseteq Workers
    BY DEF LockInv, Types
  <2> QED
    BY <2>1, <2>2 DEF Held
<1>4. \A k \in Keys : j \notin queue[k] /\ j \notin parked[k]
  BY <1>1 DEF OnlyOwnKeys
<1> QED
  BY <1>2, <1>3, <1>4

\* A release is typed and leaves its job with nothing; whoever was parked behind it comes in.
LEMMA ReleaseFrees ==
    ASSUME LockInv, NEW j \in Jobs, pc[j] = "running", Release(j)
    PROVE  /\ owner' \in [Keys -> Jobs \cup {None}] /\ queue' = queue
           /\ readers' \in [Keys -> SUBSET Workers] /\ parked' \in [Keys -> SUBSET Workers]
           /\ Bare(j)'
           /\ \A i \in Jobs \ {j} :
                pc'[i] = pc[i] /\ want'[i] = want[i] /\ (i \in Rounds => step'[i] = step[i]) => Spared(i)
<1>1. Types /\ \A i \in Jobs : OnlyOwnKeys(i)
  BY DEF LockInv
<1>2. j # None
  BY GatesAssumption
<1>3. /\ \A k \in Keys : owner'[k] = IF owner[k] = j THEN None ELSE owner[k]
      /\ \A k \in Keys : readers'[k] = IF owner[k] = j THEN parked[k] ELSE readers[k] \ {j}
      /\ \A k \in Keys : parked'[k] = IF owner[k] = j THEN {} ELSE parked[k]
      /\ queue' = queue
  BY DEF Release
<1>4. /\ owner' \in [Keys -> Jobs \cup {None}]
      /\ readers' \in [Keys -> SUBSET Workers] /\ parked' \in [Keys -> SUBSET Workers]
  BY <1>1 DEF Types, Release
<1>5. Bare(j)'
  <2> SUFFICES ASSUME NEW k \in Keys
               PROVE  owner'[k] # j /\ j \notin queue'[k] /\ j \notin readers'[k] /\ j \notin parked'[k]
    BY DEF Bare
  <2>1. j \notin queue[k] /\ j \notin parked[k]
    BY RunnerHolds
  <2> QED
    BY <1>2, <1>3, <2>1
<1>6. ASSUME NEW i \in Jobs \ {j},
             pc'[i] = pc[i] /\ want'[i] = want[i] /\ (i \in Rounds => step'[i] = step[i])
      PROVE  Spared(i)
  <2> SUFFICES ASSUME NEW k \in Keys
               PROVE  /\ owner'[k] = i <=> owner[k] = i
                      /\ i \in queue'[k] => i \in queue[k]
                      /\ i \in readers[k] => i \in readers'[k]
                      /\ i \in readers'[k] => i \in readers[k] \/ i \in parked[k]
                      /\ i \in parked'[k] => i \in parked[k] /\ i \notin readers'[k]
                      /\ owner[k] = i /\ readers[k] = {} => readers'[k] = {}
    BY <1>6 DEF Spared
  <2>1. i # None /\ i # j
    BY GatesAssumption
  <2>2. i \in parked[k] => i \notin readers[k]
    BY <1>1 DEF OnlyOwnKeys
  <2>3. owner[k] = j => readers[k] = {}
    BY RunnerHolds
  <2> QED
    BY <1>3, <2>1, <2>2, <2>3
<1> QED
  BY <1>3, <1>4, <1>5, <1>6

-----------------------------------------------------------------------------
(* Taking the keys *)

\* Whoever does not take part in a step is spared by it.
LEMMA Bystander ==
    ASSUME LockInv, NEW i \in Jobs, UNCHANGED lockVars,
           pc'[i] = pc[i], want'[i] = want[i], i \in Rounds => step'[i] = step[i]
    PROVE  Spared(i)
BY DEF Spared, lockVars, LockInv, OnlyOwnKeys

LEMMA ArriveKeeps ==
    ASSUME LockInv, NEW j \in Jobs, Arrive(j)
    PROVE  LockInv'
<1> DEFINE k == NextKey(j)
<1>1. Types /\ \A i \in Jobs : OnlyOwnKeys(i) /\ Gathers(i)
  BY DEF LockInv
<1>2. /\ pc[j] = "locking" /\ j \notin queue[k] \cup parked[k] /\ owner[k] # j /\ j \notin readers[k]
      /\ \/ /\ ~Shared(j) /\ queue' = [queue EXCEPT ![k] = @ \cup {j}] /\ UNCHANGED <<readers, parked>>
         \/ /\ Shared(j) /\ owner[k] = None
            /\ readers' = [readers EXCEPT ![k] = @ \cup {j}] /\ UNCHANGED <<queue, parked>>
         \/ /\ Shared(j) /\ parked' = [parked EXCEPT ![k] = @ \cup {j}] /\ UNCHANGED <<queue, readers>>
      /\ UNCHANGED <<owner, pc, want, wave, batches, narrow, passes, step, rounds, tests>>
  BY DEF Arrive
<1>3. k \in want[j] /\ k \in Keys /\ k \in Needs(j)
  <2>1. want[j] \in SUBSET Nat /\ want[j] \subseteq Needs(j) /\ want[j] \subseteq Keys
    BY <1>1, <1>2, GatesAssumption DEF Types, Gathers, Active
  <2> QED
    BY <2>1, LeastNumber DEF Arrive, NextKey
<1> HIDE DEF k
<1>4. Types'
  <2>1. (Shared(j) => j \in Workers) /\ (~Shared(j) => j \in Batch \cup Rounds)
    BY DEF Shared, Jobs
  <2>2. queue' \in [Keys -> SUBSET (Batch \cup Rounds)]
    <3>1. queue \in [Keys -> SUBSET (Batch \cup Rounds)]
      BY <1>1 DEF Types
    <3> QED
      BY <1>2, <1>3, <2>1, <3>1
  <2>3. readers' \in [Keys -> SUBSET Workers]
    <3>1. readers \in [Keys -> SUBSET Workers]
      BY <1>1 DEF Types
    <3> QED
      BY <1>2, <1>3, <2>1, <3>1
  <2>4. parked' \in [Keys -> SUBSET Workers]
    <3>1. parked \in [Keys -> SUBSET Workers]
      BY <1>1 DEF Types
    <3> QED
      BY <1>2, <1>3, <2>1, <3>1
  <2>5. UNCHANGED <<owner, pc, want, step, wave>>
    BY <1>2
  <2> QED
    BY <1>1, <2>2, <2>3, <2>4, <2>5 DEF Types
<1>5. ASSUME NEW i \in Jobs, i # j
      PROVE  Spared(i)
  <2>1. owner[k] = None => owner[k] # i
    BY GatesAssumption
  <2>2. \A q \in Keys : i \in parked[q] => i \notin readers[q]
    BY <1>1 DEF OnlyOwnKeys
  <2>3. /\ pc' = pc /\ want' = want /\ step' = step /\ owner' = owner
        /\ \A q \in Keys : /\ i \in queue'[q] <=> i \in queue[q]
                           /\ i \in readers'[q] <=> i \in readers[q]
                           /\ i \in parked'[q] <=> i \in parked[q]
    BY <1>1, <1>2, <1>3, <1>5 DEF Types
  <2>4. \A q \in Keys : owner[q] = i /\ readers[q] = {} => readers'[q] = {}
    BY <1>1, <1>2, <1>3, <2>1 DEF Types
  <2> QED
    BY <2>2, <2>3, <2>4 DEF Spared
<1>6. OnlyOwnKeys(j)' /\ Gathers(j)'
  <2>1. Needs(j)' = Needs(j)
    BY <1>2, NeedsStay
  <2>2. /\ pc' = pc /\ want' = want /\ owner' = owner
        /\ \A q \in Keys : /\ j \in queue'[q] => j \in queue[q] \/ q = k
                           /\ j \in readers[q] => j \in readers'[q]
                           /\ j \in readers'[q] => j \in readers[q] \/ q = k
                           /\ j \in parked'[q] => (j \in parked[q] \/ q = k) /\ (q = k => j \notin readers'[q])
                           /\ ~Shared(j) => readers'[q] = readers[q]
    BY <1>1, <1>2, <1>3 DEF Types
  <2>3. \A q \in Keys : q # k => (j \in parked'[q] => j \in parked[q]) /\ (j \in readers'[q] => j \in readers[q])
    BY <2>2
  <2>4. OnlyOwnKeys(j)
    BY <1>1
  <2>5. \A q \in Keys : owner[q] = j => ~Shared(j)
    BY <2>4 DEF OnlyOwnKeys
  <2>6. OnlyOwnKeys(j)'
    <3> SUFFICES ASSUME NEW q \in Keys
                 PROVE  /\ owner'[q] = j => pc'[j] \in Active /\ q \in Needs(j)' /\ ~Shared(j)
                        /\ j \in readers'[q] => pc'[j] \in Active /\ q \in Needs(j)'
                        /\ j \in queue'[q] => pc'[j] = "locking" /\ q \in want'[j] /\ owner'[q] # j
                        /\ j \in parked'[q] => pc'[j] = "locking" /\ q \in want'[j] /\ j \notin readers'[q]
      BY DEF OnlyOwnKeys, Shared
    <3>1. pc[j] \in Active
      BY <1>2 DEF Active
    <3> QED
      BY <1>2, <1>3, <2>1, <2>2, <2>3, <2>4, <3>1 DEF OnlyOwnKeys
  <2>7. Held(j) \subseteq Held(j)'
    BY <2>2, <2>5 DEF Held
  <2>8. Gathers(j)'
    BY <1>1, <2>1, <2>2, <2>7 DEF Gathers
  <2> QED
    BY <2>6, <2>8
<1> QED
  BY <1>1, <1>4, <1>5, <1>6, SparedStays DEF LockInv

LEMMA ClaimKeeps ==
    ASSUME LockInv, NEW j \in Jobs, NEW k \in Keys, Claim(j, k)
    PROVE  LockInv'
<1>1. Types /\ \A i \in Jobs : OnlyOwnKeys(i) /\ Gathers(i)
  BY DEF LockInv
<1>2. /\ j \in queue[k] /\ owner[k] = None
      /\ owner' = [owner EXCEPT ![k] = j] /\ queue' = [queue EXCEPT ![k] = @ \ {j}]
      /\ UNCHANGED <<readers, parked, pc, want, wave, batches, narrow, passes, step, rounds, tests>>
  BY DEF Claim
<1>3. Types'
  BY <1>1, <1>2 DEF Types
<1>4. /\ \A q \in Keys : q # k => owner'[q] = owner[q]
      /\ owner'[k] = j
      /\ \A q \in Keys, i \in Jobs : i \in queue'[q] => i \in queue[q] /\ (q # k \/ i # j)
  BY <1>1, <1>2 DEF Types
<1>5. ASSUME NEW i \in Jobs, i # j
      PROVE  Spared(i)
  <2>1. owner[k] # i
    BY <1>2, GatesAssumption
  <2>2. \A q \in Keys : i \in parked[q] => i \notin readers[q]
    BY <1>1 DEF OnlyOwnKeys
  <2> QED
    BY <1>2, <1>4, <1>5, <2>1, <2>2 DEF Spared
<1>6. OnlyOwnKeys(j)' /\ Gathers(j)'
  <2>1. Needs(j)' = Needs(j)
    BY <1>2, NeedsStay
  <2>2. OnlyOwnKeys(j) /\ Gathers(j) /\ pc[j] = "locking" /\ k \in want[j] /\ j \notin Workers
    BY <1>1, <1>2, GatesAssumption DEF OnlyOwnKeys, Types
  <2>3. pc[j] \in Active /\ k \in Needs(j) /\ ~Shared(j)
    BY <2>2 DEF Active, Gathers, Shared
  <2>4. OnlyOwnKeys(j)'
    <3> SUFFICES ASSUME NEW q \in Keys
                 PROVE  /\ owner'[q] = j => pc'[j] \in Active /\ q \in Needs(j)' /\ ~Shared(j)
                        /\ j \in readers'[q] => pc'[j] \in Active /\ q \in Needs(j)'
                        /\ j \in queue'[q] => pc'[j] = "locking" /\ q \in want'[j] /\ owner'[q] # j
                        /\ j \in parked'[q] => pc'[j] = "locking" /\ q \in want'[j] /\ j \notin readers'[q]
      BY DEF OnlyOwnKeys, Shared
    <3> QED
      BY <1>2, <1>4, <2>1, <2>2, <2>3 DEF OnlyOwnKeys
  <2>5. Held(j) \subseteq Held(j)'
    BY <1>2, <1>4 DEF Held
  <2>6. Gathers(j)'
    BY <1>2, <2>1, <2>2, <2>5 DEF Gathers
  <2> QED
    BY <2>4, <2>6
<1> QED
  BY <1>1, <1>3, <1>5, <1>6, SparedStays DEF LockInv

LEMMA TakenKeeps ==
    ASSUME LockInv, NEW j \in Jobs, Taken(j) \/ RunOne(j)
    PROVE  LockInv'
<1>1. Types /\ \A i \in Jobs : OnlyOwnKeys(i) /\ Gathers(i)
  BY DEF LockInv
<1>2. /\ pc[j] = "locking" /\ UNCHANGED <<lockVars, wave, batches, narrow, passes, step, rounds, tests>>
      /\ \/ want' = [want EXCEPT ![j] = @ \ Held(j)] /\ UNCHANGED pc
         \/ want[j] = {} /\ pc' = [pc EXCEPT ![j] = "running"] /\ UNCHANGED want
  BY DEF Taken, RunOne
<1>3. Types'
  BY <1>1, <1>2 DEF Types, lockVars
<1>4. ASSUME NEW i \in Jobs, i # j
      PROVE  OnlyOwnKeys(i)' /\ Gathers(i)'
  <2>1. pc'[i] = pc[i] /\ want'[i] = want[i] /\ step' = step
    BY <1>1, <1>2, <1>4 DEF Types
  <2> QED
    BY <1>1, <1>2, <2>1, Bystander, SparedStays DEF lockVars
<1>5. OnlyOwnKeys(j)' /\ Gathers(j)'
  <2>1. Needs(j)' = Needs(j)
    BY <1>2, NeedsStay
  <2>2. Held(j)' = Held(j)
    BY <1>2 DEF Held, lockVars
  <2>3. OnlyOwnKeys(j) /\ Gathers(j)
    BY <1>1
  <2>4. /\ \/ want'[j] = want[j] \ Held(j) /\ pc'[j] = "locking"
           \/ want[j] = {} /\ want'[j] = {} /\ pc'[j] = "running"
        /\ owner' = owner /\ queue' = queue /\ readers' = readers /\ parked' = parked
    BY <1>1, <1>2 DEF Types, lockVars
  <2>5. pc[j] \in Active /\ pc'[j] \in Active
    BY <1>2, <2>4 DEF Active
  <2>6. OnlyOwnKeys(j)'
    <3> SUFFICES ASSUME NEW k \in Keys
                 PROVE  /\ owner[k] = j => pc'[j] \in Active /\ k \in Needs(j) /\ ~Shared(j)
                        /\ j \in readers[k] => pc'[j] \in Active /\ k \in Needs(j)
                        /\ j \in queue[k] => pc'[j] = "locking" /\ k \in want'[j] /\ owner[k] # j
                        /\ j \in parked[k] => pc'[j] = "locking" /\ k \in want'[j] /\ j \notin readers[k]
      BY <2>1, <2>4 DEF OnlyOwnKeys, Shared
    <3>1. j \in queue[k] => k \notin Held(j)
      <4>1. j \in queue[k] => j \notin Workers
        BY <1>1, GatesAssumption DEF Types
      <4>2. readers[k] \subseteq Workers
        BY <1>1 DEF Types
      <4> QED
        BY <2>3, <4>1, <4>2 DEF OnlyOwnKeys, Held
    <3>2. j \in parked[k] => k \notin Held(j)
      <4>1. j \in parked[k] => Shared(j)
        BY <1>1 DEF Types, Shared
      <4> QED
        BY <2>3, <4>1 DEF OnlyOwnKeys, Held
    <3> QED
      BY <2>3, <2>4, <2>5, <3>1, <3>2 DEF OnlyOwnKeys
  <2>7. Gathers(j)'
    <3>1. /\ want[j] \subseteq Needs(j) /\ Needs(j) \subseteq Keys
          /\ Needs(j) \subseteq want[j] \cup Held(j)
      BY <2>3, <2>5 DEF Gathers
    <3>2. /\ want'[j] \subseteq Needs(j) /\ Needs(j) \subseteq Keys
          /\ Needs(j) \subseteq want'[j] \cup Held(j)
          /\ pc'[j] = "running" => want'[j] = {}
      BY <2>4, <3>1
    <3> QED
      BY <2>1, <2>2, <3>2 DEF Gathers
  <2> QED
    BY <2>6, <2>7
<1> QED
  BY <1>1, <1>3, <1>4, <1>5 DEF LockInv

-----------------------------------------------------------------------------
(* Beginning and ending a job *)

\* Jobs that lock nothing set out for the keys of their gates.
LEMMA StartKeeps ==
    ASSUME LockInv, NEW js \in SUBSET Jobs, NEW needs, Start(js, needs), UNCHANGED lockVars,
           \A j \in js : Bare(j) /\ needs[j] = Needs(j)' /\ Needs(j)' \subseteq Keys,
           step' \in [Rounds -> 0..Len(Steps)], \A r \in Rounds \ js : step'[r] = step[r],
           wave' \in {"idle", "write", "read"}
    PROVE  LockInv'
<1>1. Types /\ \A i \in Jobs : OnlyOwnKeys(i) /\ Gathers(i)
  BY DEF LockInv
<1>2. /\ pc' = [j \in Jobs |-> IF j \in js THEN "locking" ELSE pc[j]]
      /\ want' = [j \in Jobs |-> IF j \in js THEN needs[j] ELSE want[j]]
  BY DEF Start
<1>3. Types'
  <2>1. want' \in [Jobs -> SUBSET Keys]
    BY <1>1, <1>2 DEF Types
  <2> QED
    BY <1>1, <1>2, <2>1 DEF Types, lockVars
<1>4. ASSUME NEW i \in Jobs
      PROVE  OnlyOwnKeys(i)' /\ Gathers(i)'
  <2>1. CASE i \in js
    <3>1. pc'[i] = "locking" /\ want'[i] = Needs(i)' /\ Needs(i)' \subseteq Keys
      BY <1>2, <2>1
    <3>2. Bare(i)'
      BY <2>1 DEF Bare, lockVars
    <3> QED
      BY <3>1, <3>2, BareIsGood
  <2>2. CASE i \notin js
    <3>1. pc'[i] = pc[i] /\ want'[i] = want[i] /\ (i \in Rounds => step'[i] = step[i])
      BY <1>2, <2>2
    <3> QED
      BY <1>1, <3>1, Bystander, SparedStays
  <2> QED
    BY <2>1, <2>2
<1> QED
  BY <1>3, <1>4 DEF LockInv

\* A job ends: it gives its keys back and rests.
LEMMA EndKeeps ==
    ASSUME LockInv, NEW j \in Jobs, pc[j] = "running", Release(j),
           NEW rest \in {"idle", "done"}, pc' = [pc EXCEPT ![j] = rest], UNCHANGED <<want, wave>>,
           step' \in [Rounds -> 0..Len(Steps)], \A r \in Rounds \ {j} : step'[r] = step[r]
    PROVE  LockInv'
<1>1. Types /\ \A i \in Jobs : OnlyOwnKeys(i) /\ Gathers(i)
  BY DEF LockInv
<1>2. Types'
  BY <1>1, ReleaseFrees DEF Types
<1>3. OnlyOwnKeys(j)' /\ Gathers(j)'
  <2>1. Bare(j)' /\ pc'[j] = rest /\ rest \notin Active
    BY <1>1, ReleaseFrees DEF Types, Active
  <2> QED
    BY <2>1, BareIsGood
<1>4. ASSUME NEW i \in Jobs \ {j}
      PROVE  OnlyOwnKeys(i)' /\ Gathers(i)'
  <2>1. pc'[i] = pc[i] /\ want'[i] = want[i] /\ (i \in Rounds => step'[i] = step[i])
    BY <1>1 DEF Types
  <2>2. Spared(i)
    BY <2>1, ReleaseFrees
  <2> QED
    BY <1>1, <2>2, SparedStays
<1> QED
  BY <1>2, <1>3, <1>4 DEF LockInv

\* A round's gate passes: it gives its keys back and sets out for those of the next.
LEMMA RunStepKeeps ==
    ASSUME LockInv, NEW r \in Jobs, NEW pass \in BOOLEAN, RunStep(r, pass)
    PROVE  LockInv'
<1>1. Types /\ \A i \in Jobs : OnlyOwnKeys(i) /\ Gathers(i)
  BY DEF LockInv
<1>2. /\ r \in Rounds /\ pc[r] = "running" /\ Release(r)
      /\ UNCHANGED <<wave, batches, narrow, passes, rounds, tests>>
  BY DEF RunStep
<1>3. CASE pass /\ step[r] < Len(Steps)
  <2> DEFINE n == step[r] + 1
  <2>1. n \in 1..Len(Steps)
    <3> DEFINE at == step[r]
               len == Len(Steps)
    <3>1. at \in 0..len /\ len \in Nat /\ at < len
      BY <1>1, <1>2, <1>3, GatesAssumption DEF Types
    <3> HIDE DEF at, len
    <3>2. at + 1 \in 1..len
      BY <3>1
    <3> QED
      BY <3>2 DEF at, len
  <2>2. step' = [step EXCEPT ![r] = n] /\ Start({r}, [j \in {r} |-> Resources[Steps[n]]])
    BY <1>3 DEF RunStep
  <2> HIDE DEF n
  <2>3. step' \in [Rounds -> 0..Len(Steps)] /\ step'[r] = n /\ \A i \in Rounds \ {r} : step'[i] = step[i]
    BY <1>1, <1>2, <2>1, <2>2, GatesAssumption DEF Types
  <2>4. Needs(r)' = Resources[Steps[n]] /\ Resources[Steps[n]] \subseteq Keys
    <3>1. r \notin Batch
      BY <1>2, GatesAssumption
    <3>2. Steps[n] \in DOMAIN Resources
      BY <2>1, GatesAssumption
    <3> QED
      BY <1>2, <2>3, <3>1, <3>2, GateKeys DEF Needs
  <2>5. /\ pc' = [i \in Jobs |-> IF i \in {r} THEN "locking" ELSE pc[i]]
        /\ want' = [i \in Jobs |-> IF i \in {r} THEN Resources[Steps[n]] ELSE want[i]]
    BY <2>2 DEF Start
  <2>6. Types'
    <3>1. /\ pc' \in [Jobs -> {"idle", "locking", "running", "done"}]
          /\ want' \in [Jobs -> SUBSET Keys]
      BY <1>1, <2>4, <2>5 DEF Types
    <3> QED
      BY <1>1, <1>2, <2>3, <3>1, ReleaseFrees DEF Types
  <2>7. OnlyOwnKeys(r)' /\ Gathers(r)'
    <3>1. Bare(r)'
      BY <1>2, ReleaseFrees
    <3> QED
      BY <2>4, <2>5, <3>1, BareIsGood
  <2>8. ASSUME NEW i \in Jobs \ {r}
        PROVE  OnlyOwnKeys(i)' /\ Gathers(i)'
    <3>1. pc'[i] = pc[i] /\ want'[i] = want[i] /\ (i \in Rounds => step'[i] = step[i])
      BY <2>3, <2>5
    <3>2. Spared(i)
      BY <1>2, <3>1, ReleaseFrees
    <3> QED
      BY <1>1, <3>2, SparedStays
  <2> QED
    BY <2>6, <2>7, <2>8 DEF LockInv
<1>4. CASE ~(pass /\ step[r] < Len(Steps))
  <2>1. step' = [step EXCEPT ![r] = 0] /\ pc' = [pc EXCEPT ![r] = "idle"] /\ want' = want
    BY <1>4 DEF RunStep
  <2>2. step' \in [Rounds -> 0..Len(Steps)] /\ \A i \in Rounds \ {r} : step'[i] = step[i]
    BY <1>1, <1>2, <2>1, GatesAssumption DEF Types
  <2> QED
    BY <1>2, <2>1, <2>2, EndKeeps
<1> QED
  BY <1>3, <1>4

\* A verification round begins with its first gate.
LEMMA BeginRoundKeeps ==
    ASSUME LockInv, NEW r \in Rounds, BeginRound(r), pc[r] \notin Active
    PROVE  LockInv'
<1>1. Types /\ \A i \in Jobs : OnlyOwnKeys(i)
  BY DEF LockInv
<1> DEFINE needs == [j \in {r} |-> Resources[Steps[1]]]
<1>2. /\ step' = [step EXCEPT ![r] = 1] /\ Start({r}, needs)
      /\ UNCHANGED lockVars /\ UNCHANGED wave
  BY DEF BeginRound
<1>3. r \in Jobs /\ r \notin Batch
  BY GatesAssumption DEF Jobs
<1>4. Len(Steps) \in Nat /\ Len(Steps) >= 1 /\ Steps[1] \in DOMAIN Resources
  BY GatesAssumption
<1>5. step' \in [Rounds -> 0..Len(Steps)] /\ step'[r] = 1 /\ \A i \in Rounds \ {r} : step'[i] = step[i]
  BY <1>1, <1>2, <1>4 DEF Types
<1>6. needs[r] = Needs(r)' /\ Needs(r)' \subseteq Keys
  BY <1>3, <1>4, <1>5, GateKeys DEF Needs
<1>7. Bare(r)
  BY <1>1, <1>3, RestingIsBare
<1> HIDE DEF needs
<1>8. /\ {r} \in SUBSET Jobs
      /\ \A j \in {r} : Bare(j) /\ needs[j] = Needs(j)' /\ Needs(j)' \subseteq Keys
      /\ wave' \in {"idle", "write", "read"}
  BY <1>1, <1>2, <1>3, <1>6, <1>7 DEF Types
<1> QED
  BY <1>2, <1>5, <1>8, StartKeeps

\* The batch's gates begin, wave by wave.
LEMMA WaveKeeps ==
    ASSUME LockInv, NEW gs \in SUBSET Batch, Start(gs, Resources),
           UNCHANGED <<lockVars, step>>, \A g \in gs : pc[g] \notin Active,
           wave' \in {"idle", "write", "read"}
    PROVE  LockInv'
<1>1. Types /\ \A i \in Jobs : OnlyOwnKeys(i)
  BY DEF LockInv
<1>2. gs \in SUBSET Jobs
  BY DEF Jobs
<1>3. \A g \in gs : Resources[g] = Needs(g)' /\ Needs(g)' \subseteq Keys
  BY GateKeys, GatesAssumption DEF Needs
<1>4. \A g \in gs : Bare(g)
  BY <1>1, <1>2, RestingIsBare
<1> QED
  BY <1>1, <1>2, <1>3, <1>4, StartKeeps DEF Types

\* A coverage worker takes its next test.
LEMMA WorkerKeeps ==
    ASSUME LockInv, NEW w \in Workers, RunCoverageJob(w)
    PROVE  LockInv'
<1>1. Types /\ \A i \in Jobs : OnlyOwnKeys(i)
  BY DEF LockInv
<1> DEFINE needs == [j \in {w} |-> {GoTest}]
<1>2. Start({w}, needs) /\ UNCHANGED <<lockVars, step, wave>> /\ pc[w] \notin Active
  BY DEF RunCoverageJob, Active
<1>3. w \in Jobs /\ w \notin Batch /\ w \notin Rounds
  BY GatesAssumption DEF Jobs
<1>4. needs[w] = Needs(w)' /\ Needs(w)' \subseteq Keys
  BY <1>3 DEF Needs, Keys
<1>5. Bare(w)
  BY <1>1, <1>2, <1>3, RestingIsBare
<1> HIDE DEF needs
<1> QED
  BY <1>1, <1>2, <1>3, <1>4, <1>5, StartKeeps DEF Types

\* No step breaks the locks' discipline.
LEMMA LocksKept ==
    ASSUME LockInv, Reached, InWaves, Next
    PROVE  LockInv'
<1>1. Types
  BY DEF LockInv
<1>2. ASSUME NEW j \in Jobs, JobStep(j)
      PROVE  LockInv'
  <2>1. CASE Arrive(j)
    BY <2>1, ArriveKeeps
  <2>2. CASE \E k \in Keys : Claim(j, k)
    BY <2>2, ClaimKeeps
  <2>3. CASE Taken(j) \/ RunOne(j)
    BY <2>3, TakenKeeps
  <2>4. CASE BatchGateEnds(j)
    BY <1>1, <2>4, EndKeeps DEF BatchGateEnds, Types
  <2>5. CASE \E pass \in BOOLEAN : RunStep(j, pass)
    BY <2>5, RunStepKeeps
  <2>6. CASE CoverageJobEnds(j)
    BY <1>1, <2>6, EndKeeps DEF CoverageJobEnds, Types
  <2> QED
    BY <1>2, <2>1, <2>2, <2>3, <2>4, <2>5, <2>6 DEF JobStep
<1>3. ASSUME NEW level, NEW long, BeginBatch(level, long)
      PROVE  LockInv'
  <2>1. \A g \in Writers : pc[g] \notin Active
    BY <1>3 DEF BeginBatch, InWaves, Active, Writers
  <2> QED
    BY <1>3, <2>1, WaveKeeps DEF BeginBatch, Writers
<1>4. CASE SecondWave
  <2>1. \A g \in Batch \ Writers : pc[g] \notin Active
    BY <1>4 DEF SecondWave, InWaves, Active
  <2> QED
    BY <1>4, <2>1, WaveKeeps DEF SecondWave
<1>5. CASE EndBatch
  <2>1. /\ pc' = [j \in Jobs |-> IF j \in Batch THEN "idle" ELSE pc[j]] /\ wave' = "idle"
        /\ UNCHANGED <<lockVars, want, step>> /\ \A g \in Batch : pc[g] = "done"
    BY <1>5 DEF EndBatch
  <2>2. Types'
    BY <1>1, <2>1 DEF Types, lockVars
  <2>3. ASSUME NEW i \in Jobs
        PROVE  OnlyOwnKeys(i)' /\ Gathers(i)'
    <3>1. OnlyOwnKeys(i) /\ Gathers(i)
      BY DEF LockInv
    <3>2. CASE i \in Batch
      <4>1. Bare(i)
        BY <2>1, <3>1, <3>2, RestingIsBare DEF Active
      <4>2. Bare(i)' /\ pc'[i] \notin Active
        BY <2>1, <3>2, <4>1 DEF Bare, lockVars, Active
      <4> QED
        BY <4>2, BareIsGood
    <3>3. CASE i \notin Batch
      <4>1. pc'[i] = pc[i] /\ want'[i] = want[i] /\ step' = step
        BY <2>1, <3>3
      <4> QED
        BY <2>1, <3>1, <4>1, Bystander, SparedStays
    <3> QED
      BY <3>2, <3>3
  <2> QED
    BY <2>2, <2>3 DEF LockInv
<1>6. ASSUME NEW r \in Rounds, BeginRound(r)
      PROVE  LockInv'
  BY <1>6, BeginRoundKeeps DEF BeginRound, Reached
<1>7. ASSUME NEW w \in Workers, RunCoverageJob(w)
      PROVE  LockInv'
  BY <1>7, WorkerKeeps
<1>8. CASE BudgetSpent
  <2>1. UNCHANGED <<lockVars, pc, want, wave, step>>
    BY <1>8 DEF BudgetSpent
  <2>2. Types'
    BY <1>1, <2>1 DEF Types, lockVars
  <2>3. \A i \in Jobs : OnlyOwnKeys(i)' /\ Gathers(i)'
    BY <2>1, Bystander, SparedStays DEF LockInv
  <2> QED
    BY <2>2, <2>3 DEF LockInv
<1> QED
  BY <1>2, <1>3, <1>4, <1>5, <1>6, <1>7, <1>8 DEF Next

-----------------------------------------------------------------------------
(* Waves, rounds and the cadence *)

\* A job's own steps are those of a job at work, and leave every other job in its place.
LEMMA JobStepPlaces ==
    ASSUME LockInv, Reached, NEW j \in Jobs, JobStep(j)
    PROVE  /\ pc[j] \in Active /\ wave' = wave /\ narrow' = narrow /\ passes' = passes
           /\ \A i \in Jobs \ {j} : pc'[i] = pc[i]
           /\ Reached'
<1>1. /\ pc \in [Jobs -> {"idle", "locking", "running", "done"}] /\ step \in [Rounds -> 0..Len(Steps)]
      /\ OnlyOwnKeys(j) /\ Rounds \subseteq Jobs
  BY DEF LockInv, Types, Jobs
<1>2. CASE Arrive(j) \/ Taken(j)
  BY <1>1, <1>2 DEF Arrive, Taken, Active, Reached
<1>3. CASE \E k \in Keys : Claim(j, k)
  BY <1>1, <1>3 DEF Claim, OnlyOwnKeys, Active, Reached
<1>4. CASE RunOne(j)
  <2>1. pc[j] = "locking" /\ pc' = [pc EXCEPT ![j] = "running"] /\ UNCHANGED <<step, wave, narrow, passes>>
    BY <1>4 DEF RunOne
  <2> QED
    BY <1>1, <2>1 DEF Active, Reached
<1>5. CASE BatchGateEnds(j) \/ CoverageJobEnds(j)
  <2>1. /\ pc[j] = "running" /\ (pc' = [pc EXCEPT ![j] = "done"] \/ pc' = [pc EXCEPT ![j] = "idle"])
        /\ UNCHANGED <<step, wave, narrow, passes>>
    BY <1>5 DEF BatchGateEnds, CoverageJobEnds
  <2> QED
    BY <1>1, <2>1 DEF Active, Reached
<1>6. CASE \E pass \in BOOLEAN : RunStep(j, pass)
  <2>1. /\ j \in Rounds /\ pc[j] = "running" /\ UNCHANGED <<wave, narrow, passes>>
        /\ \/ /\ step' = [step EXCEPT ![j] = @ + 1]
              /\ pc' = [i \in Jobs |-> IF i \in {j} THEN "locking" ELSE pc[i]]
           \/ step' = [step EXCEPT ![j] = 0] /\ pc' = [pc EXCEPT ![j] = "idle"]
    BY <1>6 DEF RunStep, Start
  <2>2. pc[j] \in Active /\ \A i \in Jobs \ {j} : pc'[i] = pc[i]
    BY <1>1, <2>1 DEF Active
  <2>3. \A i \in Rounds \ {j} : step'[i] = step[i]
    BY <1>1, <2>1
  <2>4. pc'[j] \in Active => step'[j] # 0
    BY <1>1, <2>1 DEF Active
  <2>5. Reached'
    BY <1>1, <2>2, <2>3, <2>4 DEF Reached
  <2> QED
    BY <2>1, <2>2, <2>5
<1> QED
  BY <1>2, <1>3, <1>4, <1>5, <1>6 DEF JobStep

LEMMA InvKept ==
    ASSUME Inv, [Next]_vars
    PROVE  Inv'
<1>1. /\ LockInv /\ Reached /\ InWaves /\ Counted
      /\ pc \in [Jobs -> {"idle", "locking", "running", "done"}] /\ step \in [Rounds -> 0..Len(Steps)]
      /\ MaxPasses \in Nat /\ Batch \subseteq Jobs /\ Rounds \subseteq Jobs /\ Workers \subseteq Jobs
      /\ Writers \subseteq Batch
  BY GatesAssumption DEF Inv, LockInv, Types, Jobs, Writers
<1>2. CASE UNCHANGED vars
  <2>1. /\ UNCHANGED <<owner, queue, readers, parked>>
        /\ UNCHANGED <<pc, want, wave, narrow, passes, step>>
    BY <1>2 DEF vars, lockVars
  <2>2. Types'
    BY <1>1, <2>1 DEF LockInv, Types
  <2>3. \A i \in Jobs : OnlyOwnKeys(i)' /\ Gathers(i)'
    BY <1>1, <2>1, Bystander, SparedStays DEF LockInv, lockVars
  <2> QED
    BY <1>1, <2>1, <2>2, <2>3 DEF Inv, LockInv, Reached, InWaves, Counted
<1>3. CASE Next
  <2>1. LockInv'
    BY <1>1, <1>3, LocksKept
  <2>2. ASSUME NEW j \in Jobs, JobStep(j)
        PROVE  Reached' /\ InWaves' /\ Counted'
    <3>1. /\ pc[j] \in Active /\ wave' = wave /\ narrow' = narrow /\ passes' = passes
          /\ \A i \in Jobs \ {j} : pc'[i] = pc[i]
          /\ Reached'
      BY <1>1, <2>2, JobStepPlaces
    <3>2. InWaves'
      BY <1>1, <3>1 DEF InWaves, Active
    <3> QED
      BY <1>1, <3>1, <3>2 DEF Counted
  <2>3. ASSUME NEW level, NEW long, BeginBatch(level, long)
        PROVE  Reached' /\ InWaves' /\ Counted'
    <3>1. /\ pc' = [j \in Jobs |-> IF j \in Writers THEN "locking" ELSE pc[j]]
          /\ wave = "idle" /\ wave' = "write" /\ step' = step /\ Cadence(level, long)
      BY <2>3 DEF BeginBatch, Start
    <3>2. Reached'
      <4>1. Rounds \cap Writers = {}
        BY <1>1, GatesAssumption
      <4> QED
        BY <1>1, <3>1, <4>1 DEF Reached
    <3>3. InWaves'
      BY <1>1, <3>1 DEF InWaves
    <3>4. Counted'
      BY <1>1, <3>1 DEF Counted, Cadence
    <3> QED
      BY <3>2, <3>3, <3>4
  <2>4. ASSUME SecondWave
        PROVE  Reached' /\ InWaves' /\ Counted'
    <3>1. /\ pc' = [j \in Jobs |-> IF j \in Batch \ Writers THEN "locking" ELSE pc[j]]
          /\ wave = "write" /\ wave' = "read" /\ UNCHANGED <<step, narrow, passes>>
          /\ \A g \in Writers : pc[g] = "done"
      BY <2>4 DEF SecondWave, Start
    <3>2. Rounds \cap Batch = {}
      BY GatesAssumption
    <3>3. \A r \in Rounds : pc'[r] = pc[r]
      BY <1>1, <3>1, <3>2
    <3>4. Reached'
      BY <1>1, <3>1, <3>3 DEF Reached
    <3>5. InWaves'
      BY <1>1, <3>1 DEF InWaves
    <3> QED
      BY <1>1, <3>1, <3>4, <3>5 DEF Counted
  <2>5. ASSUME EndBatch
        PROVE  Reached' /\ InWaves' /\ Counted'
    <3>1. /\ pc' = [j \in Jobs |-> IF j \in Batch THEN "idle" ELSE pc[j]]
          /\ wave' = "idle" /\ UNCHANGED <<step, narrow, passes>>
      BY <2>5 DEF EndBatch
    <3>2. Rounds \cap Batch = {}
      BY GatesAssumption
    <3>3. \A r \in Rounds : pc'[r] = pc[r]
      BY <1>1, <3>1, <3>2
    <3>4. Reached'
      BY <1>1, <3>1, <3>3 DEF Reached
    <3>5. InWaves'
      BY <1>1, <3>1 DEF InWaves
    <3> QED
      BY <1>1, <3>1, <3>4, <3>5 DEF Counted
  <2>6. ASSUME NEW r \in Rounds, BeginRound(r)
        PROVE  Reached' /\ InWaves' /\ Counted'
    <3>1. /\ pc' = [j \in Jobs |-> IF j \in {r} THEN "locking" ELSE pc[j]]
          /\ step' = [step EXCEPT ![r] = 1] /\ UNCHANGED <<wave, narrow, passes>>
      BY <2>6 DEF BeginRound, Start
    <3>2. r \notin Batch
      BY GatesAssumption
    <3> QED
      BY <1>1, <3>1, <3>2 DEF Reached, InWaves, Counted
  <2>7. ASSUME NEW w \in Workers, RunCoverageJob(w)
        PROVE  Reached' /\ InWaves' /\ Counted'
    <3>1. /\ pc' = [j \in Jobs |-> IF j \in {w} THEN "locking" ELSE pc[j]]
          /\ UNCHANGED <<step, wave, narrow, passes>>
      BY <2>7 DEF RunCoverageJob, Start
    <3>2. w \notin Batch /\ w \notin Rounds
      BY GatesAssumption
    <3> QED
      BY <1>1, <3>1, <3>2 DEF Reached, InWaves, Counted
  <2>8. ASSUME BudgetSpent
        PROVE  Reached' /\ InWaves' /\ Counted'
    <3>1. UNCHANGED <<pc, step, wave, narrow, passes>>
      BY <2>8 DEF BudgetSpent
    <3> QED
      BY <1>1, <3>1 DEF Reached, InWaves, Counted
  <2>9. Reached' /\ InWaves' /\ Counted'
    BY <1>3, <2>2, <2>3, <2>4, <2>5, <2>6, <2>7, <2>8 DEF Next
  <2> QED
    BY <2>1, <2>9 DEF Inv
<1> QED
  BY <1>2, <1>3

LEMMA InvFirst ==
    ASSUME Init
    PROVE  Inv
<1>1. Types
  BY GatesAssumption DEF Init, Types
<1>2. ASSUME NEW j \in Jobs
      PROVE  OnlyOwnKeys(j) /\ Gathers(j)
  <2>1. j # None
    BY GatesAssumption
  <2> QED
    BY <2>1 DEF Init, OnlyOwnKeys, Gathers, Active
<1>3. Reached /\ InWaves /\ Counted
  BY GatesAssumption DEF Init, Reached, InWaves, Counted, Active, Jobs, Writers
<1> QED
  BY <1>1, <1>2, <1>3 DEF Inv, LockInv

\* Two that run hold what they need: a key of both would be locked twice.
LEMMA InvSerializes ==
    ASSUME Inv
    PROVE  GatesApart
<1>1. LockInv /\ Types /\ InWaves /\ Counted
  BY DEF Inv, LockInv
<1>2. Serialized
  <2> SUFFICES ASSUME NEW i \in Jobs, NEW j \in Jobs, i # j, pc[i] = "running", pc[j] = "running",
                      ~(Shared(i) /\ Shared(j)), NEW k \in Needs(i) \cap Needs(j)
               PROVE  FALSE
    BY DEF Serialized, Runs
  <2>1. k \in Held(i) /\ k \in Held(j) /\ k \in Keys
    BY <1>1, RunnerHolds DEF Held
  <2>2. readers[k] \subseteq Workers
    BY <1>1, <2>1 DEF Types
  <2> QED
    BY <2>1, <2>2 DEF Held, Shared
<1>3. WavesApart
  <2>1. Batch \subseteq Jobs /\ wave \in {"idle", "write", "read"}
    BY <1>1 DEF Jobs, Types
  <2> QED
    BY <1>1, <2>1 DEF WavesApart, InWaves, Runs, Writers
<1>4. SweptInTime
  BY <1>1, GatesAssumption DEF Counted, SweptInTime
<1> QED
  BY <1>2, <1>3, <1>4 DEF GatesApart

(***************************************************************************)
(* Whatever the gates, their keys and the order in which batches, rounds   *)
(* and coverage workers arrive: jobs that share a key never run together   *)
(* unless both share it, a formatter never runs beside a gate of its batch *)
(* that reads the tree, and no more than MaxSelectivePasses narrowed       *)
(* batches go by without a sweep (scheduler.go acquire and RunGates,       *)
(* cadence.go apply).                                                      *)
(***************************************************************************)
THEOREM GatesKeptApart == Spec => []GatesApart
<1>1. Init => Inv
  BY InvFirst
<1>2. Inv /\ [Next]_vars => Inv'
  BY InvKept
<1>3. Inv => GatesApart
  BY InvSerializes
<1> QED
  BY <1>1, <1>2, <1>3, PTL DEF Spec
=============================================================================

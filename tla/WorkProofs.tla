----------------------------- MODULE WorkProofs -----------------------------
(***************************************************************************)
(* What the turns, prompts, admissions and shutdown of Turns keep, for any *)
(* number of threads, prompts and questions.                               *)
(*                                                                         *)
(* Flow is the core of every invariant here: the turns born are numbered   *)
(* without gaps, each belongs to the thread whose prompt it runs, a thread *)
(* has as many as it started prompts, and one of them at most is at work.  *)
(* The parts about prompts, admission and shutdown are inductive over it.  *)
(***************************************************************************)
EXTENDS MCWork, FiniteSetTheorems, SequenceTheorems, TLAPS

LiveSteps == {"begin", "enter", "held", "set", "run", "park", "ask", "unpark", "end"}
Steps == LiveSteps \cup {"unborn", "release", "closed"}

\* The values of the variables but for the queues and the count of turns.
Types ==
    /\ running \in [Threads -> BOOLEAN]
    /\ current \in [Threads -> Turns \cup {NoTurn}]
    /\ release \in [Threads -> {"nil", "noop", "leave"}]
    /\ override \in [Threads -> Tiers]
    /\ owner \in [Turns -> Threads \cup {Nobody}] /\ pc \in [Turns -> Steps]
    /\ parked \in [Turns -> BOOLEAN] /\ got \in [Turns -> {"nil", "noop", "leave"}]
    /\ gate \in {"idle", "enter", "held", "run"}
    /\ gates = IF gate = "run" THEN 1 ELSE 0
    /\ canceled \subseteq Turns /\ woken \subseteq Turns
    /\ items \subseteq Turns /\ answers \subseteq Turns
    /\ server \in {"up", "draining", "closed"}
    /\ awaiting \in Turns \cup {NoTurn} /\ visited \subseteq Threads

\* A prompt sent has started or is queued, and no thread is sent too many.
Queues ==
    /\ pending \in [Threads -> Seq(1..MaxPrompts)] /\ ran \in [Threads -> Seq(1..MaxPrompts)]
    /\ sent \in [Threads -> 0..MaxPrompts]
    /\ \A t \in Threads : Len(ran[t]) + Len(pending[t]) = sent[t]

\* The turns that thread t ever started.
Of(t) == {n \in Born : owner[n] = t}

\* Turns are born one after the other, one for each prompt started.
Births ==
    /\ Born = 1..Cardinality(Born) /\ Cardinality(Born) \in Nat
    /\ \A n \in Born : owner[n] \in Threads
    /\ \A t \in Threads : Cardinality(Of(t)) = Len(ran[t])

Flow == Types /\ Queues /\ Births /\ OneTurn

-----------------------------------------------------------------------------
(* Sizes *)

LEMMA Total == Cardinality(Threads) * MaxPrompts \in Nat /\ MaxPrompts \in Nat
               /\ IsFiniteSet(Turns) /\ Cardinality(Turns) = Cardinality(Threads) * MaxPrompts
               /\ Turns \subseteq Nat \ {0}
<1>1. Cardinality(Threads) \in Nat /\ MaxPrompts \in Nat
  BY TurnsAssumption, FS_CardinalityType
<1>2. Cardinality(Threads) * MaxPrompts \in Nat
  BY <1>1
<1> DEFINE k == Cardinality(Threads) * MaxPrompts
<1>3. k \in Nat /\ Turns = 1..k
  BY <1>2 DEF Turns
<1> HIDE DEF k
<1>4. IsFiniteSet(1..k) /\ Cardinality(1..k) = IF 1 > k THEN 0 ELSE k - 1 + 1
  BY <1>3, FS_Interval
<1>5. Cardinality(1..k) = k
  BY <1>3, <1>4
<1> QED
  BY <1>1, <1>3, <1>4, <1>5 DEF k

LEMMA PairEqual == \A a, b, c, d : <<a, b>> = <<c, d>> => a = c /\ b = d
  OBVIOUS

\* If no thread owns more than MaxPrompts of the numbers of B, they are no more
\* than there are turns: a number and its rank among its owner's are a place.
LEMMA Fill ==
    ASSUME NEW B \in SUBSET Nat, IsFiniteSet(B), NEW own \in [B -> Threads],
           \A u \in Threads : Cardinality({n \in B : own[n] = u}) <= MaxPrompts
    PROVE  Cardinality(B) <= Cardinality(Threads) * MaxPrompts
<1> DEFINE Upto(n) == {m \in B : own[m] = own[n] /\ m <= n}
           f == [n \in B |-> <<own[n], Cardinality(Upto(n))>>]
<1>1. \A n \in B : IsFiniteSet(Upto(n)) /\ n \in Upto(n) /\ Cardinality(Upto(n)) \in Nat
  <2> TAKE n \in B
  <2>1. Upto(n) \subseteq B /\ n \in Upto(n)
    OBVIOUS
  <2> QED
    BY <2>1, FS_Subset, FS_CardinalityType
<1>2. \A n \in B : Cardinality(Upto(n)) \in 1..MaxPrompts
  <2> TAKE n \in B
  <2> DEFINE All == {m \in B : own[m] = own[n]}
  <2>1. Upto(n) \subseteq All /\ All \subseteq B
    OBVIOUS
  <2>2. IsFiniteSet(All)
    BY <2>1, FS_Subset
  <2>3. Cardinality(Upto(n)) <= Cardinality(All) /\ Cardinality(All) \in Nat
    BY <2>1, <2>2, FS_Subset, FS_CardinalityType
  <2>4. Cardinality(All) <= MaxPrompts
    OBVIOUS
  <2>5. Cardinality(Upto(n)) # 0
    BY <1>1, FS_EmptySet
  <2> HIDE DEF Upto, All
  <2> QED
    BY <1>1, <2>3, <2>4, <2>5, Total
<1>3. \A m, n \in B : own[m] = own[n] /\ m < n => Cardinality(Upto(m)) # Cardinality(Upto(n))
  <2> SUFFICES ASSUME NEW m \in B, NEW n \in B, own[m] = own[n], m < n
               PROVE  Cardinality(Upto(m)) # Cardinality(Upto(n))
    OBVIOUS
  <2>1. Upto(m) \subseteq Upto(n) /\ n \in Upto(n) /\ n \notin Upto(m)
    <3>1. \A k \in B : k \in Int
      OBVIOUS
    <3>2. \A k \in B : k <= m => k <= n
      BY <3>1
    <3>3. ~(n <= m)
      BY <3>1
    <3> QED
      BY <1>1, <3>2, <3>3
  <2>2. Cardinality(Upto(n)) = Cardinality(Upto(m)) => Upto(n) = Upto(m)
    BY <1>1, <2>1, FS_Subset
  <2> QED
    BY <2>1, <2>2
<1>4. f \in [B -> Threads \X (1..MaxPrompts)]
  BY <1>2
<1>5. \A m, n \in B : f[m] = f[n] => m = n
  <2> SUFFICES ASSUME NEW m \in B, NEW n \in B, f[m] = f[n], m # n
               PROVE  FALSE
    OBVIOUS
  <2>1. own[m] = own[n] /\ Cardinality(Upto(m)) = Cardinality(Upto(n))
    <3>1. /\ f[m] = <<own[m], Cardinality(Upto(m))>> /\ f[n] = <<own[n], Cardinality(Upto(n))>>
          /\ f[m] = f[n]
      OBVIOUS
    <3>2. <<own[m], Cardinality(Upto(m))>> = <<own[n], Cardinality(Upto(n))>>
      BY <3>1
    <3> HIDE DEF f, Upto
    <3> QED
      BY <3>2, PairEqual
  <2>2. m < n \/ n < m
    OBVIOUS
  <2> QED
    BY <1>3, <2>1, <2>2
<1>6. f \in Injection(B, Threads \X (1..MaxPrompts))
  BY <1>4, <1>5 DEF Injection, IsInjective
<1>7. IsFiniteSet(1..MaxPrompts) /\ Cardinality(1..MaxPrompts) = MaxPrompts
  <2>1. Cardinality(1..MaxPrompts) = IF 1 > MaxPrompts THEN 0 ELSE MaxPrompts - 1 + 1
    BY Total, FS_Interval
  <2> QED
    BY <2>1, Total, FS_Interval
<1>8. /\ IsFiniteSet(Threads \X (1..MaxPrompts))
      /\ Cardinality(Threads \X (1..MaxPrompts)) = Cardinality(Threads) * MaxPrompts
  BY <1>7, TurnsAssumption, FS_Product
<1> QED
  BY <1>6, <1>8, FS_Injection

-----------------------------------------------------------------------------
(* The next turn *)

\* A thread that may start one more prompt finds a number for its turn, the
\* one after the turns born.
LEMMA Fresh ==
    ASSUME Types, Queues, Births, NEW t \in Threads, Len(ran[t]) < MaxPrompts
    PROVE  /\ NextTurn \in Turns /\ NextTurn \notin Born
           /\ 1..NextTurn = Born \cup {NextTurn}
           /\ Cardinality(Born \cup {NextTurn}) = NextTurn
           /\ pc[NextTurn] = "unborn"
<1> DEFINE k == NextTurn
           B == Born \cup {k}
           own == [n \in B |-> IF n = k THEN t ELSE owner[n]]
           Has(u) == {n \in B : own[n] = u}
<1>1. k \in Nat /\ k > 0 /\ k = Cardinality(Born) + 1 /\ Born = 1..(k - 1) /\ k \notin Born
  BY DEF Births, NextTurn
<1>2. IsFiniteSet(Born) /\ Born \subseteq Nat
  <2>1. IsFiniteSet(1..(k - 1))
    BY <1>1, FS_Interval
  <2> HIDE DEF k
  <2> QED
    BY <1>1, <2>1
<1> HIDE DEF k
<1>3. IsFiniteSet(B) /\ Cardinality(B) = k /\ B \in SUBSET Nat /\ B = 1..k
  <2>1. IsFiniteSet(B) /\ Cardinality(B) = Cardinality(Born) + 1
    BY <1>1, <1>2, FS_AddElement
  <2>2. B \in SUBSET Nat
    BY <1>1, <1>2
  <2>3. ASSUME NEW j PROVE j \in B <=> j \in 1..k
    <3>1. j \in Born <=> j \in 1..(k - 1)
      BY <1>1
    <3>2. j \in 1..(k - 1) \/ j = k <=> j \in 1..k
      BY <1>1
    <3> QED
      BY <3>1, <3>2
  <2>4. B = 1..k
    BY <2>3
  <2>5. Cardinality(B) = k
    BY <1>1, <2>1
  <2> QED
    BY <2>1, <2>2, <2>4, <2>5
<1>4. own \in [B -> Threads]
  BY DEF Births
<1>5. ASSUME NEW u \in Threads
      PROVE  Cardinality(Has(u)) <= MaxPrompts
  <2>1. Of(u) \subseteq Born /\ IsFiniteSet(Of(u)) /\ Cardinality(Of(u)) \in Nat
    BY <1>2, FS_Subset, FS_CardinalityType DEF Of
  <2>2. Has(u) = IF u = t THEN Of(u) \cup {k} ELSE Of(u)
    BY <1>1 DEF Of
  <2>3. k \notin Of(u)
    BY <1>1, <2>1
  <2>4. Cardinality(Has(u)) = Cardinality(Of(u)) + IF u = t THEN 1 ELSE 0
    <3>1. Cardinality(Of(u) \cup {k}) = Cardinality(Of(u)) + 1
      BY <2>1, <2>3, FS_AddElement
    <3> HIDE DEF Has
    <3> QED
      BY <2>1, <2>2, <3>1
  <2>5. Cardinality(Of(u)) <= MaxPrompts /\ Cardinality(Of(t)) < MaxPrompts
    <3>1. \A v \in Threads : Len(ran[v]) \in Nat /\ Len(pending[v]) \in Nat /\ sent[v] \in 0..MaxPrompts
      BY LenProperties DEF Queues
    <3> QED
      BY <3>1, Total DEF Queues, Births
  <2> HIDE DEF Has
  <2> QED
    BY <2>1, <2>4, <2>5, Total
<1>6. k <= Cardinality(Threads) * MaxPrompts
  <2> HIDE DEF own, B
  <2> QED
    BY <1>3, <1>4, <1>5, Fill
<1>7. k \in Turns
  BY <1>1, <1>6, Total DEF Turns
<1>8. pc[k] = "unborn"
  BY <1>1, <1>7 DEF Born
<1> QED
  BY <1>1, <1>3, <1>7, <1>8 DEF k

-----------------------------------------------------------------------------
(* The kinds of steps, as far as the core tells them apart *)

Idle == UNCHANGED <<running, current, owner, pc, ran>>

\* Turn n goes on, ends for good, or ends its work and has yet to close.
Walks(n) ==
    /\ pc[n] \in LiveSteps /\ pc' = [pc EXCEPT ![n] = pc'[n]] /\ pc'[n] \in LiveSteps
    /\ UNCHANGED <<running, current, owner, ran>>
Stops(n) ==
    /\ pc[n] \in LiveSteps /\ pc' = [pc EXCEPT ![n] = pc'[n]] /\ pc'[n] \in {"release", "closed"}
    /\ running' = [running EXCEPT ![owner[n]] = FALSE]
    /\ UNCHANGED <<current, owner, ran>>
Closes(n) ==
    /\ pc[n] = "release" /\ Goto(n, "closed")
    /\ UNCHANGED <<running, current, owner, ran>>

\* Thread t starts a turn, by itself or as its turn n ends.
Starts(t, at) ==
    /\ Len(ran[t]) < MaxPrompts
    /\ running' = [running EXCEPT ![t] = TRUE]
    /\ current' = [current EXCEPT ![t] = NextTurn]
    /\ owner' = [owner EXCEPT ![NextTurn] = t]
    /\ pc' = [at EXCEPT ![NextTurn] = "begin"]
    /\ \A u \in Threads : Len(ran'[u]) = IF u = t THEN Len(ran[u]) + 1 ELSE Len(ran[u])
Sends(t) == ~running[t] /\ Starts(t, pc)
Follows(n) == pc[n] = "end" /\ Starts(owner[n], [pc EXCEPT ![n] = "release"])

LEMMA Owned == ASSUME Births, NEW n \in Turns, pc[n] # "unborn"
               PROVE  owner[n] \in Threads /\ n \in Born
  BY DEF Births, Born

LEMMA Lengths ==
    ASSUME Queues, NEW t \in Threads
    PROVE  /\ Len(ran[t]) \in Nat /\ Len(pending[t]) \in Nat /\ Len(ran[t]) <= sent[t] /\ sent[t] \in Nat
           /\ sent[t] <= MaxPrompts /\ (pending[t] # <<>> => Len(ran[t]) < sent[t])
<1>1. Len(ran[t]) \in Nat /\ Len(pending[t]) \in Nat /\ (pending[t] # <<>> => Len(pending[t]) # 0)
  BY LenProperties, EmptySeq DEF Queues
<1> QED
  BY <1>1, Total DEF Queues

\* startTurn appends a prompt to those the thread has run.
LEMMA Started ==
    ASSUME Queues, NEW t \in Threads, NEW p \in 1..MaxPrompts, NEW at, Len(ran[t]) < MaxPrompts,
           StartTurn(t, p, at)
    PROVE  /\ Starts(t, at) /\ ran' \in [Threads -> Seq(1..MaxPrompts)]
           /\ ran' = [ran EXCEPT ![t] = Append(ran[t], p)] /\ Len(ran'[t]) = Len(ran[t]) + 1
<1>1. Append(ran[t], p) \in Seq(1..MaxPrompts) /\ Len(Append(ran[t], p)) = Len(ran[t]) + 1
  BY AppendProperties DEF Queues
<1>2. ran' = [ran EXCEPT ![t] = Append(ran[t], p)]
  BY DEF StartTurn
<1> QED
  BY <1>1, <1>2 DEF StartTurn, Starts, Queues

\* send starts a turn of an idle thread.
LEMMA SendStarts ==
    ASSUME Flow, NEW t \in Threads, NEW interrupt \in BOOLEAN, Send(t, interrupt), ~running[t]
    PROVE  Sends(t)
<1>1. StartTurn(t, sent[t] + 1, pc) /\ sent[t] < MaxPrompts
  BY DEF Send
<1>2. sent[t] + 1 \in 1..MaxPrompts /\ Len(ran[t]) < MaxPrompts
  BY <1>1, Lengths, Total DEF Flow
<1> QED
  BY <1>1, <1>2, Started DEF Sends, Flow

\* The end of turn n starts the next prompt of the queue, if there is one and
\* the thread runs no cycle.
Drains(n) == pending[owner[n]] # <<>> /\ owner[n] \notin CycleThreads

LEMMA EndFollows ==
    ASSUME Flow, NEW n \in Turns, End(n), Drains(n)
    PROVE  Follows(n)
<1>1. /\ owner[n] \in Threads /\ pc[n] = "end"
      /\ StartTurn(owner[n], Head(pending[owner[n]]), [pc EXCEPT ![n] = "release"])
  BY Owned DEF End, Flow, Drains
<1>2. pending[owner[n]] \in Seq(1..MaxPrompts)
  BY <1>1 DEF Flow, Queues
<1>3. Head(pending[owner[n]]) \in 1..MaxPrompts
  BY <1>2, HeadTailProperties DEF Drains
<1>4. Len(ran[owner[n]]) < MaxPrompts
  BY <1>1, Lengths, Total DEF Flow, Drains
<1> QED
  BY <1>1, <1>3, <1>4, Started DEF Follows, Flow

LEMMA Kinds ==
    ASSUME Flow, [Next]_vars
    PROVE  \/ Idle
           \/ \E n \in Turns : Walks(n) \/ Stops(n) \/ Closes(n) \/ Follows(n)
           \/ \E t \in Threads : Sends(t)
<1> USE DEF Flow
<1>1. ASSUME NEW t \in Threads, NEW interrupt \in BOOLEAN, Send(t, interrupt)
      PROVE  Idle \/ Sends(t)
  <2>1. CASE running[t]
    BY <1>1, <2>1 DEF Send, Idle
  <2>2. CASE ~running[t]
    BY <1>1, <2>2, SendStarts
  <2> QED
    BY <2>1, <2>2
<1>2. ASSUME NEW n \in Turns, Admit(n)
      PROVE  Walks(n) \/ Stops(n)
  <2>1. CASE Begin(n) \/ Woken(n) \/ SetRelease(n)
    BY <1>2, <2>1 DEF Begin, Woken, SetRelease, Goto, Walks, Types, threadVars, LiveSteps
  <2>2. CASE \E tight \in BOOLEAN : Enter(n, tight)
    BY <1>2, <2>2 DEF Enter, Goto, Walks, Types, threadVars, LiveSteps
  <2>3. CASE AdmitFails(n)
    BY <1>2, <2>3 DEF AdmitFails, Goto, Walks, Stops, Types, LiveSteps
  <2> QED
    BY <1>2, <2>1, <2>2, <2>3 DEF Admit
<1>3. ASSUME NEW n \in Turns, Work(n)
      PROVE  Walks(n) \/ Stops(n) \/ Closes(n) \/ Follows(n)
  <2>1. CASE Ask(n) \/ Park(n) \/ Answered(n) \/ AskFails(n) \/ Finish(n)
    BY <1>3, <2>1 DEF Ask, Park, Answered, AskFails, Finish, Goto, Walks, Types, threadVars, LiveSteps
  <2>2. CASE Close(n)
    BY <2>2 DEF Close, Closes
  <2>3. CASE End(n)
    <3>1. CASE Drains(n)
      BY <2>3, <3>1, EndFollows
    <3>2. CASE ~Drains(n)
      BY <2>3, <3>2 DEF Drains, End, Goto, Stops, Types, LiveSteps
    <3> QED
      BY <3>1, <3>2
  <2> QED
    BY <1>3, <2>1, <2>2, <2>3 DEF Work
<1>4. CASE \/ \E t \in Threads : Cancel(t) \/ SetOverride(t)
           \/ \E n \in Turns : Answer(n)
  BY <1>4 DEF Cancel, SetOverride, Answer, Idle, threadVars, turnVars
<1>5. CASE Gate \/ Stop \/ UNCHANGED vars
  BY <1>5 DEF Gate, GateAsks, GateDone, GateEnter, Stop, Shutdown, GraceOver, WaitDone, CloseAll, WaitFor,
              Idle, vars, threadVars, turnVars
<1> QED
  BY <1>1, <1>2, <1>3, <1>4, <1>5 DEF Next, Clients

-----------------------------------------------------------------------------
(* The core is inductive *)

LEMMA BirthsNext == ASSUME Flow, [Next]_vars PROVE Births'
<1> USE DEF Flow
<1>1. ASSUME owner' = owner, Born' = Born, \A t \in Threads : Len(ran'[t]) = Len(ran[t])
      PROVE  Births'
  <2>1. \A t \in Threads : Of(t)' = Of(t)
    BY <1>1 DEF Of
  <2> QED
    BY <1>1, <2>1 DEF Births
<1>2. CASE Idle
  BY <1>1, <1>2 DEF Idle, Born
<1>3. ASSUME NEW n \in Turns, Walks(n) \/ Stops(n) \/ Closes(n)
      PROVE  Births'
  <2>1. Born' = Born /\ owner' = owner /\ ran' = ran
    BY <1>3 DEF Walks, Stops, Closes, Goto, Born, Types, LiveSteps, Steps
  <2> QED
    BY <1>1, <2>1
<1>4. ASSUME NEW t \in Threads, NEW at \in [Turns -> Steps], Starts(t, at),
             \A n \in Turns : at[n] = "unborn" <=> pc[n] = "unborn"
      PROVE  Births'
  <2> DEFINE k == NextTurn
  <2>1. /\ k \in Turns /\ k \notin Born /\ 1..k = Born \cup {k} /\ Cardinality(Born \cup {k}) = k /\ k \in Nat
    <3>1. Len(ran[t]) < MaxPrompts
      BY <1>4 DEF Starts
    <3> HIDE DEF k
    <3>2. k \in Turns /\ k \notin Born /\ 1..k = Born \cup {k} /\ Cardinality(Born \cup {k}) = k
      BY <3>1, Fresh DEF k
    <3> QED
      BY <3>2, Total
  <2>2. /\ owner' = [owner EXCEPT ![k] = t] /\ pc' = [at EXCEPT ![k] = "begin"]
        /\ \A u \in Threads : Len(ran'[u]) = IF u = t THEN Len(ran[u]) + 1 ELSE Len(ran[u])
    BY <1>4 DEF Starts
  <2> HIDE DEF k
  <2>3. Born' = Born \cup {k}
    BY <1>4, <2>1, <2>2 DEF Born, Types
  <2>4. Born' = 1..Cardinality(Born') /\ Cardinality(Born') \in Nat
    BY <2>1, <2>3
  <2>5. \A n \in Born' : owner'[n] \in Threads
    BY <2>1, <2>2, <2>3 DEF Births, Types, Born
  <2>6. ASSUME NEW u \in Threads
        PROVE  Cardinality(Of(u)') = Len(ran'[u])
    <3>1. Of(u)' = IF u = t THEN Of(u) \cup {k} ELSE Of(u)
      BY <2>1, <2>2, <2>3 DEF Of, Types, Born
    <3>2. k \notin Of(u) /\ IsFiniteSet(Of(u))
      <4>1. Of(u) \subseteq Turns
        BY DEF Of, Born
      <4> QED
        BY <2>1, <4>1, FS_Subset, Total DEF Of
    <3>3. Cardinality(Of(u) \cup {k}) = Cardinality(Of(u)) + 1
      BY <3>2, FS_AddElement
    <3> QED
      BY <2>2, <3>1, <3>3 DEF Births
  <2> QED
    BY <2>4, <2>5, <2>6 DEF Births
<1>5. ASSUME NEW n \in Turns, Follows(n)
      PROVE  Births'
  <2>1. owner[n] \in Threads /\ pc[n] = "end"
    BY <1>5, Owned DEF Follows
  <2>2. [pc EXCEPT ![n] = "release"] \in [Turns -> Steps]
    BY DEF Types, Steps
  <2> QED
    BY <1>4, <1>5, <2>1, <2>2 DEF Follows, Types
<1>6. ASSUME NEW t \in Threads, Sends(t)
      PROVE  Births'
  BY <1>4, <1>6 DEF Sends, Types
<1> QED
  BY <1>2, <1>3, <1>5, <1>6, Kinds

LEMMA LiveBorn == Live = {n \in Born : pc[n] \notin {"release", "closed"}}
  BY DEF Live, Born

LEMMA OneTurnNext == ASSUME Flow, [Next]_vars PROVE OneTurn'
<1> DEFINE At(t) == {n \in Live : owner[n] = t}
<1> USE DEF Flow
<1>1. \A t \in Threads : At(t) = IF running[t] THEN {current[t]} ELSE {}
  BY DEF OneTurn
<1>2. SUFFICES ASSUME NEW t \in Threads
               PROVE  At(t)' = IF running'[t] THEN {current'[t]} ELSE {}
  BY DEF OneTurn
<1>3. CASE Idle
  BY <1>1, <1>3 DEF Idle, Live
<1>4. ASSUME NEW n \in Turns, Walks(n) \/ Closes(n)
      PROVE  At(t)' = IF running'[t] THEN {current'[t]} ELSE {}
  <2>1. Live' = Live
    BY <1>4 DEF Walks, Closes, Goto, Live, Types, LiveSteps
  <2>2. owner' = owner /\ running' = running /\ current' = current
    BY <1>4 DEF Walks, Closes
  <2> QED
    BY <1>1, <2>1, <2>2
<1>5. ASSUME NEW n \in Turns, Stops(n)
      PROVE  At(t)' = IF running'[t] THEN {current'[t]} ELSE {}
  <2>1. Live' = Live \ {n} /\ n \in Live
    BY <1>5 DEF Stops, Live, Types, LiveSteps
  <2>2. owner' = owner /\ current' = current /\ running' = [running EXCEPT ![owner[n]] = FALSE]
    BY <1>5 DEF Stops
  <2>3. owner[n] \in Threads
    BY <2>1, Owned DEF Live
  <2>4. At(t)' = At(t) \ {n}
    BY <2>1, <2>2
  <2>5. CASE owner[n] = t
    <3>1. n \in At(t)
      BY <2>1, <2>5
    <3>2. At(t) \subseteq {n}
      BY <1>1, <3>1
    <3>3. ~running'[t]
      BY <2>2, <2>5 DEF Types
    <3> HIDE DEF At
    <3> QED
      BY <2>4, <3>2, <3>3
  <2>6. CASE owner[n] # t
    <3>1. n \notin At(t)
      BY <2>6
    <3>2. running'[t] = running[t]
      BY <2>2, <2>6 DEF Types
    <3> HIDE DEF At
    <3> QED
      BY <1>1, <2>2, <2>4, <3>1, <3>2
  <2> QED
    BY <2>5, <2>6
<1>6. ASSUME NEW u \in Threads, NEW at \in [Turns -> Steps], Starts(u, at),
             {n \in Turns : at[n] \in LiveSteps /\ owner[n] = u} = {},
             \A n \in Turns : owner[n] # u => at[n] = pc[n]
      PROVE  At(t)' = IF running'[t] THEN {current'[t]} ELSE {}
  <2> DEFINE k == NextTurn
  <2>1. k \in Turns /\ k \notin Born
    BY <1>6, Fresh DEF Starts
  <2>2. /\ owner' = [owner EXCEPT ![k] = u] /\ pc' = [at EXCEPT ![k] = "begin"]
        /\ running' = [running EXCEPT ![u] = TRUE] /\ current' = [current EXCEPT ![u] = k]
    BY <1>6 DEF Starts
  <2> HIDE DEF k
  <2>3. \A n \in Turns : n \in Live' <=> pc'[n] \in LiveSteps
    BY <1>6, <2>2 DEF Live, LiveSteps, Steps
  <2>4. CASE t = u
    <3>1. \A n \in Turns : n \in At(t)' <=> n = k
      BY <1>6, <2>1, <2>2, <2>3, <2>4 DEF Types, LiveSteps
    <3>2. At(t)' \subseteq Turns
      BY DEF Live
    <3>3. running'[t] /\ current'[t] = k
      BY <2>2, <2>4 DEF Types
    <3> HIDE DEF At
    <3> QED
      BY <2>1, <3>1, <3>2, <3>3
  <2>5. CASE t # u
    <3>1. \A n \in Turns : n \in At(t)' <=> n \in At(t)
      BY <1>6, <2>1, <2>2, <2>5 DEF Types, Live, Born, Steps, LiveSteps
    <3>2. At(t)' \subseteq Turns /\ At(t) \subseteq Turns
      BY DEF Live
    <3>3. running'[t] = running[t] /\ current'[t] = current[t]
      BY <2>2, <2>5 DEF Types
    <3> HIDE DEF At
    <3> QED
      BY <1>1, <3>1, <3>2, <3>3
  <2> QED
    BY <2>4, <2>5
<1>7. ASSUME NEW n \in Turns, Follows(n)
      PROVE  At(t)' = IF running'[t] THEN {current'[t]} ELSE {}
  <2> DEFINE at == [pc EXCEPT ![n] = "release"]
  <2>1. owner[n] \in Threads /\ pc[n] = "end" /\ at \in [Turns -> Steps]
    BY <1>7, Owned DEF Follows, Types, Steps
  <2>2. n \in At(owner[n])
    BY <2>1 DEF Live
  <2>3. At(owner[n]) \subseteq {n}
    BY <1>1, <2>1, <2>2
  <2>4. {m \in Turns : at[m] \in LiveSteps /\ owner[m] = owner[n]} = {}
    BY <2>1, <2>3 DEF Types, Live, LiveSteps
  <2> QED
    BY <1>6, <1>7, <2>1, <2>4 DEF Follows, Types
<1>8. ASSUME NEW u \in Threads, Sends(u)
      PROVE  At(t)' = IF running'[t] THEN {current'[t]} ELSE {}
  <2>1. At(u) = {}
    BY <1>1, <1>8 DEF Sends
  <2>2. {m \in Turns : pc[m] \in LiveSteps /\ owner[m] = u} = {}
    BY <2>1 DEF Types, Live, LiveSteps
  <2> QED
    BY <1>6, <1>8, <2>2 DEF Sends, Types
<1> QED
  BY <1>3, <1>4, <1>5, <1>7, <1>8, Kinds

LEMMA StartTypes ==
    ASSUME Types, NEW t \in Threads, NEW p, NEW at \in [Turns -> Steps], NextTurn \in Turns,
           StartTurn(t, p, at)
    PROVE  /\ running' \in [Threads -> BOOLEAN] /\ current' \in [Threads -> Turns \cup {NoTurn}]
           /\ owner' \in [Turns -> Threads \cup {Nobody}] /\ pc' \in [Turns -> Steps]
  BY DEF Types, StartTurn, Steps, LiveSteps

LEMMA TypesNext == ASSUME Flow, [Next]_vars PROVE Types'
<1> USE DEF Flow
<1>1. ASSUME NEW t \in Threads, NEW interrupt \in BOOLEAN, Send(t, interrupt)
      PROVE  Types'
  <2>1. CASE running[t]
    <3>1. current[t] \in Turns
      BY <2>1 DEF OneTurn, Live
    <3> QED
      BY <1>1, <2>1, <3>1 DEF Send, Types, schedVars, brokerVars, serverVars
  <2>2. CASE ~running[t]
    <3>1. Len(ran[t]) < MaxPrompts
      BY <1>1, Lengths, Total DEF Send
    <3>2. NextTurn \in Turns
      BY <3>1, Fresh
    <3> QED
      BY <1>1, <2>2, <3>2 DEF Send, StartTurn, Types, Steps, LiveSteps, schedVars, brokerVars, serverVars
  <2> QED
    BY <2>1, <2>2
<1>2. ASSUME NEW t \in Threads, Cancel(t) \/ SetOverride(t)
      PROVE  Types'
  <2>1. CASE Cancel(t)
    <3>1. current[t] \in Turns
      BY <2>1 DEF Cancel, OneTurn, Live
    <3> QED
      BY <2>1, <3>1 DEF Cancel, Types, threadVars, schedVars, brokerVars, serverVars
  <2>2. CASE SetOverride(t)
    BY <2>2 DEF SetOverride, Types, turnVars, schedVars, brokerVars, serverVars
  <2> QED
    BY <1>2, <2>1, <2>2
<1>3. ASSUME NEW n \in Turns, Answer(n)
      PROVE  Types'
  BY <1>3 DEF Answer, Types, threadVars, turnVars, schedVars, serverVars
<1>4. ASSUME NEW n \in Turns, Admit(n)
      PROVE  Types'
  <2> USE DEF Types, Goto, Steps, LiveSteps, threadVars, schedVars, brokerVars, serverVars
  <2>1. CASE Begin(n)
    BY <2>1 DEF Begin
  <2>2. CASE Woken(n)
    BY <2>2 DEF Woken
  <2>3. CASE AdmitFails(n)
    BY <2>3 DEF AdmitFails
  <2>4. CASE SetRelease(n)
    BY <2>4 DEF SetRelease
  <2>5. ASSUME NEW tight \in BOOLEAN, Enter(n, tight)
        PROVE  Types'
    BY <2>5 DEF Enter
  <2> QED
    BY <1>4, <2>1, <2>2, <2>3, <2>4, <2>5 DEF Admit
<1>5. ASSUME NEW n \in Turns, Work(n)
      PROVE  Types'
  <2> USE DEF Types, Goto, Steps, LiveSteps, threadVars, schedVars, brokerVars, serverVars
  <2>1. CASE Ask(n) \/ Answered(n) \/ AskFails(n) \/ Finish(n)
    BY <2>1 DEF Ask, Answered, AskFails, Finish
  <2>2. CASE Park(n) \/ Close(n)
    BY <2>2 DEF Park, Close, ReleaseAdmission, WakeAll, WakeNobody
  <2>3. CASE End(n)
    <3>1. CASE pending[owner[n]] # <<>> /\ owner[n] \notin CycleThreads
      <4>1. owner[n] \in Threads
        BY <2>3, Owned DEF End
      <4>2. Len(ran[owner[n]]) < MaxPrompts
        BY <3>1, <4>1, Lengths, Total
      <4>3. NextTurn \in Turns
        BY <4>1, <4>2, Fresh
      <4>4. StartTurn(owner[n], Head(pending[owner[n]]), [pc EXCEPT ![n] = "release"])
        BY <2>3, <3>1 DEF End
      <4>5. [pc EXCEPT ![n] = "release"] \in [Turns -> Steps]
        OBVIOUS
      <4>6. /\ running' \in [Threads -> BOOLEAN] /\ current' \in [Threads -> Turns \cup {NoTurn}]
            /\ owner' \in [Turns -> Threads \cup {Nobody}] /\ pc' \in [Turns -> Steps]
        BY <4>1, <4>3, <4>4, <4>5, StartTypes
      <4> QED
        BY <2>3, <4>6 DEF End
    <3>2. CASE ~(pending[owner[n]] # <<>> /\ owner[n] \notin CycleThreads)
      BY <2>3, <3>2 DEF End
    <3> QED
      BY <3>1, <3>2
  <2> QED
    BY <1>5, <2>1, <2>2, <2>3 DEF Work
<1>6. CASE Gate
  BY <1>6 DEF Gate, GateAsks, GateDone, GateEnter, Types, threadVars, turnVars, brokerVars, serverVars
<1>7. CASE Stop
  <2>1. Born \subseteq Turns
    BY DEF Born
  <2> QED
    BY <1>7, <2>1 DEF Stop, Shutdown, GraceOver, WaitDone, CloseAll, WaitFor, Types,
                      threadVars, turnVars, schedVars, brokerVars, serverVars
<1>8. CASE UNCHANGED vars
  BY <1>8 DEF vars, Types, threadVars, turnVars, schedVars, brokerVars, serverVars
<1> QED
  BY <1>1, <1>2, <1>3, <1>4, <1>5, <1>6, <1>7, <1>8 DEF Next, Clients

LEMMA QueuesNext == ASSUME Flow, [Next]_vars PROVE Queues'
<1> USE DEF Flow
<1>1. CASE UNCHANGED <<pending, ran, sent>>
  BY <1>1 DEF Queues
<1>2. ASSUME NEW t \in Threads, NEW interrupt \in BOOLEAN, Send(t, interrupt)
      PROVE  Queues'
  <2>1. /\ sent[t] < MaxPrompts /\ sent' = [sent EXCEPT ![t] = @ + 1]
        /\ sent[t] + 1 \in 1..MaxPrompts /\ sent' \in [Threads -> 0..MaxPrompts]
    BY <1>2, Total, Lengths DEF Send, Queues
  <2>2. CASE running[t]
    <3>1. pending' = [pending EXCEPT ![t] = Append(@, sent[t] + 1)] /\ ran' = ran
      BY <1>2, <2>2 DEF Send
    <3>2. pending[t] \in Seq(1..MaxPrompts)
      BY DEF Queues
    <3>3. /\ Append(pending[t], sent[t] + 1) \in Seq(1..MaxPrompts)
          /\ Len(Append(pending[t], sent[t] + 1)) = Len(pending[t]) + 1
      BY <2>1, <3>2, AppendProperties
    <3>4. \A u \in Threads : Len(ran[u]) \in Nat /\ Len(pending[u]) \in Nat
      BY Lengths
    <3> QED
      BY <2>1, <3>1, <3>3, <3>4 DEF Queues
  <2>3. CASE ~running[t]
    <3>1. StartTurn(t, sent[t] + 1, pc) /\ pending' = pending
      BY <1>2, <2>3 DEF Send
    <3>2. Len(ran[t]) < MaxPrompts
      <4>1. Len(ran[t]) \in Nat /\ Len(ran[t]) <= sent[t] /\ sent[t] \in Nat
        BY Lengths
      <4> QED
        BY <2>1, <4>1, Total
    <3>3. /\ ran' \in [Threads -> Seq(1..MaxPrompts)] /\ Starts(t, pc)
      BY <2>1, <3>1, <3>2, Started
    <3>4. \A u \in Threads : Len(ran[u]) \in Nat /\ Len(pending[u]) \in Nat
      BY Lengths
    <3>5. \A u \in Threads : Len(ran'[u]) + Len(pending'[u]) = sent'[u]
      <4> TAKE u \in Threads
      <4>1. Len(ran'[u]) = IF u = t THEN Len(ran[u]) + 1 ELSE Len(ran[u])
        BY <3>3 DEF Starts
      <4>2. pending'[u] = pending[u] /\ sent'[u] = IF u = t THEN sent[u] + 1 ELSE sent[u]
        BY <2>1, <3>1 DEF Queues
      <4>3. Len(ran[u]) + Len(pending[u]) = sent[u]
        BY DEF Queues
      <4>4. CASE u = t
        <5>1. Len(ran[u]) \in Nat /\ Len(pending[u]) \in Nat /\ sent[u] \in Nat
          BY <3>4, Lengths
        <5>2. Len(ran'[u]) = Len(ran[u]) + 1
          BY <4>1, <4>4
        <5>3. Len(pending'[u]) = Len(pending[u]) /\ sent'[u] = sent[u] + 1
          BY <4>2, <4>4
        <5>4. (Len(ran[u]) + 1) + Len(pending[u]) = sent[u] + 1
          <6> DEFINE a == Len(ran[u])
                     b == Len(pending[u])
                     c == sent[u]
          <6>1. a \in Nat /\ b \in Nat /\ c \in Nat /\ a + b = c
            BY <4>3, <5>1
          <6> HIDE DEF a, b, c
          <6>2. (a + 1) + b = c + 1
            BY <6>1
          <6> QED
            BY <6>2 DEF a, b, c
        <5> QED
          BY <5>2, <5>3, <5>4, Zenon
      <4>5. CASE u # t
        BY <4>1, <4>2, <4>3, <4>5
      <4> QED
        BY <4>4, <4>5
    <3> QED
      BY <2>1, <3>1, <3>3, <3>5 DEF Queues
  <2> QED
    BY <2>2, <2>3
<1>3. ASSUME NEW n \in Turns, End(n)
      PROVE  Queues'
  <2>1. CASE pending[owner[n]] # <<>> /\ owner[n] \notin CycleThreads
    <3> DEFINE t == owner[n]
    <3>1. /\ t \in Threads /\ StartTurn(t, Head(pending[t]), [pc EXCEPT ![n] = "release"])
          /\ pending' = [pending EXCEPT ![t] = Tail(@)] /\ sent' = sent /\ pending[t] # <<>>
      BY <1>3, <2>1, Owned DEF End
    <3> HIDE DEF t
    <3>2. pending[t] \in Seq(1..MaxPrompts)
      BY <3>1 DEF Queues
    <3>3. /\ Head(pending[t]) \in 1..MaxPrompts /\ Tail(pending[t]) \in Seq(1..MaxPrompts)
          /\ Len(Tail(pending[t])) = Len(pending[t]) - 1
      BY <3>1, <3>2, HeadTailProperties
    <3>4. \A u \in Threads : Len(ran[u]) \in Nat /\ Len(pending[u]) \in Nat
      BY Lengths
    <3>5. Len(ran[t]) < MaxPrompts
      BY <3>1, Lengths, Total
    <3>6. ran' \in [Threads -> Seq(1..MaxPrompts)] /\ Starts(t, [pc EXCEPT ![n] = "release"])
      BY <3>1, <3>3, <3>5, Started
    <3>7. \A u \in Threads : Len(ran'[u]) + Len(pending'[u]) = sent'[u]
      <4> TAKE u \in Threads
      <4>1. Len(ran'[u]) = IF u = t THEN Len(ran[u]) + 1 ELSE Len(ran[u])
        BY <3>6 DEF Starts
      <4>2. Len(pending'[u]) = IF u = t THEN Len(pending[u]) - 1 ELSE Len(pending[u])
        BY <3>1, <3>3 DEF Queues
      <4>3. Len(ran[u]) + Len(pending[u]) = sent[u] /\ sent'[u] = sent[u]
        BY <3>1 DEF Queues
      <4>4. CASE u = t
        <5>1. Len(ran[u]) \in Nat /\ Len(pending[u]) \in Nat /\ sent[u] \in Nat
          BY <3>4, Lengths
        <5>2. Len(ran'[u]) = Len(ran[u]) + 1
          BY <4>1, <4>4
        <5>3. Len(pending'[u]) = Len(pending[u]) - 1 /\ sent'[u] = sent[u]
          BY <4>2, <4>3, <4>4
        <5>4. (Len(ran[u]) + 1) + (Len(pending[u]) - 1) = sent[u]
          <6> DEFINE a == Len(ran[u])
                     b == Len(pending[u])
                     c == sent[u]
          <6>1. a \in Nat /\ b \in Nat /\ c \in Nat /\ a + b = c
            BY <4>3, <5>1
          <6> HIDE DEF a, b, c
          <6>2. (a + 1) + (b - 1) = c
            BY <6>1
          <6> QED
            BY <6>2 DEF a, b, c
        <5> QED
          BY <5>2, <5>3, <5>4, Zenon
      <4>5. CASE u # t
        BY <4>1, <4>2, <4>3, <4>5
      <4> QED
        BY <4>4, <4>5
    <3>8. pending' \in [Threads -> Seq(1..MaxPrompts)]
      BY <3>1, <3>3 DEF Queues
    <3> QED
      BY <3>1, <3>6, <3>7, <3>8 DEF Queues
  <2>2. CASE ~(pending[owner[n]] # <<>> /\ owner[n] \notin CycleThreads)
    BY <1>1, <1>3, <2>2 DEF End
  <2> QED
    BY <2>1, <2>2
<1>4. ASSUME NEW n \in Turns, Admit(n) \/ (Work(n) /\ ~End(n))
      PROVE  Queues'
  BY <1>1, <1>4 DEF Admit, Work, Begin, Enter, Woken, AdmitFails, SetRelease, Ask, Park, Answered, AskFails,
                    Finish, Close, threadVars
<1>5. CASE \/ \E t \in Threads : Cancel(t) \/ SetOverride(t)
           \/ \E n \in Turns : Answer(n)
  BY <1>1, <1>5 DEF Cancel, SetOverride, Answer, threadVars
<1>6. CASE Gate \/ Stop \/ UNCHANGED vars
  BY <1>1, <1>6 DEF Gate, GateAsks, GateDone, GateEnter, Stop, Shutdown, GraceOver, WaitDone, CloseAll, WaitFor,
                    vars, threadVars
<1> QED
  BY <1>2, <1>3, <1>4, <1>5, <1>6 DEF Next, Clients

LEMMA FlowInit == Init => Flow
<1> SUFFICES ASSUME Init PROVE Flow
  OBVIOUS
<1>1. Types
  BY DEF Init, Types, Steps
<1>2. Queues
  BY EmptySeq, Total DEF Init, Queues
<1>3. Born = {} /\ Live = {} /\ Cardinality({}) = 0
  BY FS_EmptySet DEF Init, Born, Live
<1>4. \A t \in Threads : Of(t) = {} /\ Len(ran[t]) = 0
  BY <1>3, EmptySeq DEF Of, Init
<1>5. Births
  <2>1. Cardinality(Born) = 0 /\ Born = 1..0 /\ \A t \in Threads : Cardinality(Of(t)) = Len(ran[t])
    BY <1>3, <1>4
  <2> QED
    BY <1>3, <2>1 DEF Births
<1>6. OneTurn
  BY <1>3 DEF OneTurn, Init
<1> QED
  BY <1>1, <1>2, <1>5, <1>6 DEF Flow

THEOREM FlowKept == Spec => []Flow
<1>1. Flow /\ [Next]_vars => Flow'
  BY TypesNext, QueuesNext, BirthsNext, OneTurnNext DEF Flow
<1> QED
  BY <1>1, FlowInit, PTL DEF Spec

-----------------------------------------------------------------------------
(* Permission prompts *)

\* The turns that asked are those whose prompt is listed, or answered and not
\* yet read, and no prompt is both.
Asking == {n \in Turns : pc[n] \in {"park", "ask"}}
Wants == items \cap answers = {} /\ items \cup answers = Asking

LEMMA WantsNext == ASSUME Flow, Wants, [Next]_vars PROVE Wants'
<1> USE DEF Flow
<1>1. CASE Asking' = Asking /\ UNCHANGED <<items, answers>>
  BY <1>1 DEF Wants
<1>2. ASSUME NEW t \in Threads, NEW at \in [Turns -> Steps], Starts(t, at),
             \A n \in Turns : at[n] \in {"park", "ask"} <=> n \in Asking
      PROVE  Asking' = Asking
  <2>1. NextTurn \in Turns /\ pc[NextTurn] = "unborn"
    BY <1>2, Fresh DEF Starts
  <2>2. pc' = [at EXCEPT ![NextTurn] = "begin"]
    BY <1>2 DEF Starts
  <2> DEFINE k == NextTurn
  <2> HIDE DEF k
  <2> QED
    BY <1>2, <2>1, <2>2 DEF Asking, k
<1>3. ASSUME NEW t \in Threads, NEW interrupt \in BOOLEAN, Send(t, interrupt)
      PROVE  Wants'
  <2>1. CASE running[t]
    BY <1>1, <1>3, <2>1 DEF Send, Asking, brokerVars
  <2>2. CASE ~running[t]
    <3>1. Starts(t, pc) /\ UNCHANGED <<items, answers>>
      BY <1>3, <2>2, SendStarts DEF Send, Sends, brokerVars
    <3>2. Asking' = Asking
      BY <1>2, <3>1 DEF Types, Asking
    <3> QED
      BY <1>1, <3>1, <3>2
  <2> QED
    BY <2>1, <2>2
<1>4. ASSUME NEW n \in Turns, End(n)
      PROVE  Wants'
  <2>1. UNCHANGED <<items, answers>> /\ pc[n] = "end"
    BY <1>4 DEF End, brokerVars
  <2>2. CASE Follows(n)
    <3>1. owner[n] \in Threads /\ [pc EXCEPT ![n] = "release"] \in [Turns -> Steps]
      BY <2>1, Owned DEF Types, Steps
    <3>2. \A m \in Turns : [pc EXCEPT ![n] = "release"][m] \in {"park", "ask"} <=> m \in Asking
      BY <2>1 DEF Types, Asking
    <3> QED
      BY <1>1, <1>2, <2>1, <2>2, <3>1, <3>2 DEF Follows
  <2>3. CASE Goto(n, "release")
    BY <1>1, <2>1, <2>3 DEF Goto, Types, Asking
  <2>4. Follows(n) \/ Goto(n, "release")
    BY <1>4, EndFollows DEF Drains, End
  <2> QED
    BY <2>2, <2>3, <2>4
<1>5. ASSUME NEW n \in Turns, Admit(n) \/ Finish(n) \/ Close(n)
      PROVE  Wants'
  <2>1. Asking' = Asking
    BY <1>5 DEF Admit, Begin, Enter, Woken, AdmitFails, SetRelease, Finish, Close, Goto, Types, Asking
  <2> QED
    BY <1>1, <1>5, <2>1 DEF Admit, Begin, Enter, Woken, AdmitFails, SetRelease, Finish, Close, brokerVars
<1>6. ASSUME NEW n \in Turns, Ask(n) \/ Park(n) \/ Answered(n) \/ AskFails(n) \/ Answer(n)
      PROVE  Wants'
  <2>1. CASE Ask(n)
    <3>1. Asking' = Asking \cup {n} /\ n \notin Asking /\ items' = items \cup {n} /\ answers' = answers
      BY <2>1 DEF Ask, Goto, Types, Asking
    <3> QED
      BY <3>1 DEF Wants
  <2>2. CASE Park(n)
    <3>1. Asking' = Asking /\ UNCHANGED <<items, answers>>
      BY <2>2 DEF Park, Goto, Types, Asking, brokerVars
    <3> QED
      BY <1>1, <3>1
  <2>3. CASE Answered(n)
    <3>1. Asking' = Asking \ {n} /\ n \in answers /\ items' = items /\ answers' = answers \ {n}
      BY <2>3 DEF Answered, Goto, Types, Asking
    <3> QED
      BY <3>1 DEF Wants
  <2>4. CASE AskFails(n)
    <3>1. Asking' = Asking \ {n} /\ items' = items \ {n} /\ answers' = answers \ {n}
      BY <2>4 DEF AskFails, Goto, Types, Asking
    <3> QED
      BY <3>1 DEF Wants
  <2>5. CASE Answer(n)
    <3>1. Asking' = Asking /\ n \in items /\ items' = items \ {n} /\ answers' = answers \cup {n}
      BY <2>5 DEF Answer, turnVars, Asking
    <3> QED
      BY <3>1 DEF Wants
  <2> QED
    BY <1>6, <2>1, <2>2, <2>3, <2>4, <2>5
<1>7. CASE Gate \/ Stop \/ UNCHANGED vars \/ \E t \in Threads : Cancel(t) \/ SetOverride(t)
  <2>1. pc' = pc /\ UNCHANGED <<items, answers>>
    BY <1>7 DEF Gate, GateAsks, GateDone, GateEnter, Stop, Shutdown, GraceOver, WaitDone, CloseAll, WaitFor,
                Cancel, SetOverride, vars, turnVars, brokerVars
  <2> QED
    BY <1>1, <2>1 DEF Asking
<1> QED
  BY <1>3, <1>4, <1>5, <1>6, <1>7 DEF Next, Clients, Work

\* A turn waiting on a permission prompt can be answered, and a prompt a client
\* sees listed has a turn that takes the answer: Broker.items and the waiting
\* goroutines agree through answers, cancellations and parking.
THEOREM PromptsMatched == Spec => []PromptsAnswered
<1>1. Init => Wants
  BY DEF Init, Wants, Asking
<1>2. Flow /\ Wants /\ [Next]_vars => Wants'
  BY WantsNext
<1>3. Wants => PromptsAnswered
  BY DEF Wants, Asking, PromptsAnswered, PromptAnswerable, ListedPromptAlive
<1> QED
  BY <1>1, <1>2, <1>3, FlowKept, PTL DEF Spec

-----------------------------------------------------------------------------
(* Admission *)

\* The turns admitted that have yet to hand their release func to the thread,
\* and the threads that hold one.
Setting == {n \in Turns : pc[n] = "set" /\ got[n] = "leave"}
Holding == {t \in Threads : release[t] = "leave"}

\* The turns at work, or ended and not closed, of a thread that holds one.
Bearing == {n \in Turns : pc[n] \in {"run", "park", "end", "release"} /\ release[owner[n]] = "leave"}

\* A turn of a thread with other turns may have left its admission behind when
\* it ended: the deferred releaseAdmission takes what the thread holds then.
Gone == {n \in Turns : MaxPrompts > 1 /\ pc[n] \in {"release", "closed"}}

Bearers == Gone \cup Setting \cup Bearing

\* The scheduler counts what will be given back, and no more than one turn for
\* each that is admitted or may have left its admission behind.
Owed == turns \in Nat /\ Cardinality(Setting) + Cardinality(Holding) <= turns
Borne == turns <= Cardinality(Bearers)

Admission == Owed /\ Borne /\ HeldForRival

\* A thread has one turn at work, and if one prompt only, one turn ever.
LEMMA Sole ==
    ASSUME Flow, NEW m \in Born, NEW n \in Born, owner[m] = owner[n],
           (m \in Live /\ n \in Live) \/ MaxPrompts <= 1
    PROVE  m = n
<1>1. owner[n] \in Threads
  BY DEF Flow, Births
<1>2. CASE m \in Live /\ n \in Live
  BY <1>1, <1>2 DEF Flow, OneTurn
<1>3. CASE MaxPrompts <= 1
  <2> DEFINE t == owner[n]
  <2>1. {m, n} \subseteq Of(t)
    BY DEF Of
  <2>2. Cardinality(Of(t)) <= 1
    <3>1. Len(ran[t]) <= 1
      BY <1>1, <1>3, Lengths, Total DEF Flow
    <3> QED
      BY <1>1, <3>1 DEF Flow, Births
  <2>3. IsFiniteSet(Of(t)) /\ Cardinality(Of(t)) \in Nat
    <3>1. Of(t) \subseteq Turns
      BY DEF Of, Born
    <3> QED
      BY <3>1, Total, FS_Subset, FS_CardinalityType
  <2>4. Cardinality(Of(t)) # 0
    BY <2>1, <2>3, FS_EmptySet
  <2>5. Cardinality(Of(t)) = 1
    BY <2>2, <2>3, <2>4
  <2>6. \E x : Of(t) = {x}
    BY <2>3, <2>5, FS_Singleton
  <2> QED
    BY <2>1, <2>6
<1> QED
  BY <1>2, <1>3

\* Sizes of subsets of the turns and of the threads.
LEMMA Sized ==
    ASSUME NEW S, S \subseteq Turns \/ S \subseteq Threads
    PROVE  IsFiniteSet(S) /\ Cardinality(S) \in Nat
  BY TurnsAssumption, Total, FS_Subset, FS_CardinalityType

LEMMA Keeps ==
    ASSUME NEW S, NEW Whole, IsFiniteSet(Whole), S \subseteq Whole
    PROVE  Cardinality(S) <= Cardinality(Whole)
  BY FS_Subset

LEMMA Grows ==
    ASSUME NEW S, NEW Whole, NEW x, IsFiniteSet(Whole), S \cup {x} \subseteq Whole, x \notin S
    PROVE  Cardinality(S) + 1 <= Cardinality(Whole)
<1>1. IsFiniteSet(S)
  BY FS_Subset
<1>2. Cardinality(S \cup {x}) = Cardinality(S) + 1
  BY <1>1, FS_AddElement
<1> QED
  BY <1>2, Keeps

LEMMA Shrinks ==
    ASSUME NEW S, NEW Whole, NEW x, IsFiniteSet(S), IsFiniteSet(Whole), S \ {x} \subseteq Whole
    PROVE  Cardinality(S) - 1 <= Cardinality(Whole)
<1>1. Cardinality(S \ {x}) = IF x \in S THEN Cardinality(S) - 1 ELSE Cardinality(S)
  BY FS_RemoveElement
<1>2. Cardinality(S \ {x}) <= Cardinality(Whole)
  BY Keeps
<1>3. Cardinality(S) \in Nat /\ Cardinality(Whole) \in Nat
  BY FS_CardinalityType
<1> QED
  BY <1>1, <1>2, <1>3

LEMMA Counts ==
    ASSUME Types
    PROVE  /\ Setting \subseteq Turns /\ Holding \subseteq Threads /\ Bearers \subseteq Turns
           /\ Setting' \subseteq Turns /\ Holding' \subseteq Threads /\ Bearers' \subseteq Turns
           /\ IsFiniteSet(Setting) /\ IsFiniteSet(Holding) /\ IsFiniteSet(Bearers)
           /\ IsFiniteSet(Setting') /\ IsFiniteSet(Holding') /\ IsFiniteSet(Bearers')
           /\ Cardinality(Setting) \in Nat /\ Cardinality(Holding) \in Nat /\ Cardinality(Bearers) \in Nat
           /\ Cardinality(Setting') \in Nat /\ Cardinality(Holding') \in Nat /\ Cardinality(Bearers') \in Nat
<1>1. /\ Setting \subseteq Turns /\ Holding \subseteq Threads /\ Bearers \subseteq Turns
      /\ Setting' \subseteq Turns /\ Holding' \subseteq Threads /\ Bearers' \subseteq Turns
  BY DEF Setting, Holding, Bearers, Bearing, Gone
<1> HIDE DEF Setting, Holding, Bearers
<1> QED
  BY <1>1, Sized

\* A step that leaves the count alone.
LEMMA CountKept ==
    ASSUME Types, Owed, Borne, turns' = turns,
           Setting' = Setting, Holding' \subseteq Holding, Bearers \subseteq Bearers'
    PROVE  Owed' /\ Borne'
<1>1. Cardinality(Holding') <= Cardinality(Holding) /\ Cardinality(Bearers) <= Cardinality(Bearers')
  BY Counts, Keeps
<1> DEFINE a == Cardinality(Setting)
           b == Cardinality(Holding)
           b2 == Cardinality(Holding')
           c == Cardinality(Bearers)
           c2 == Cardinality(Bearers')
<1>2. /\ a \in Nat /\ b \in Nat /\ b2 \in Nat /\ c \in Nat /\ c2 \in Nat /\ turns \in Nat
      /\ b2 <= b /\ c <= c2 /\ a + b <= turns /\ turns <= c
  BY <1>1, Counts DEF Owed, Borne
<1> HIDE DEF a, b, b2, c, c2
<1>3. a + b2 <= turns /\ turns <= c2
  BY <1>2
<1> QED
  BY <1>2, <1>3 DEF Owed, Borne, a, b, b2, c, c2

\* Entering counts one more turn, which then holds a func it has yet to set.
LEMMA CountEnter ==
    ASSUME Types, Owed, Borne, NEW n \in Turns, turns' = turns + 1,
           Setting' = Setting \cup {n}, Holding' = Holding,
           Bearers \cup {n} \subseteq Bearers', n \notin Bearers
    PROVE  Owed' /\ Borne'
<1>1. n \notin Setting
  BY DEF Bearers
<1>2. Cardinality(Setting') = Cardinality(Setting) + 1
  BY <1>1, Counts, FS_AddElement
<1>3. Cardinality(Bearers) + 1 <= Cardinality(Bearers')
  BY Counts, Grows
<1> DEFINE a == Cardinality(Setting)
           a2 == Cardinality(Setting')
           b == Cardinality(Holding)
           c == Cardinality(Bearers)
           c2 == Cardinality(Bearers')
<1>4. /\ a \in Nat /\ b \in Nat /\ c \in Nat /\ c2 \in Nat /\ turns \in Nat
      /\ a2 = a + 1 /\ c + 1 <= c2 /\ a + b <= turns /\ turns <= c
  BY <1>2, <1>3, Counts DEF Owed, Borne
<1>5. Cardinality(Holding') = b
  OBVIOUS
<1> HIDE DEF a, a2, b, c, c2
<1>6. a2 + b <= turns + 1 /\ turns + 1 <= c2 /\ turns + 1 \in Nat
  BY <1>4
<1> QED
  BY <1>5, <1>6 DEF Owed, Borne, a, a2, c2

\* setRelease hands the func over to the thread.
LEMMA CountSet ==
    ASSUME Types, Owed, Borne, NEW n \in Turns, NEW t \in Threads, turns' = turns,
           n \in Setting, Setting' = Setting \ {n}, Holding' \subseteq Holding \cup {t},
           Bearers \subseteq Bearers'
    PROVE  Owed' /\ Borne'
<1>1. Cardinality(Setting') = Cardinality(Setting) - 1
  BY Counts, FS_RemoveElement
<1>2. Cardinality(Holding') <= Cardinality(Holding \cup {t}) /\ IsFiniteSet(Holding \cup {t})
  BY Counts, FS_AddElement, Keeps
<1>3. Cardinality(Holding \cup {t}) = IF t \in Holding THEN Cardinality(Holding) ELSE Cardinality(Holding) + 1
  BY Counts, FS_AddElement
<1>4. Cardinality(Bearers) <= Cardinality(Bearers')
  BY Counts, Keeps
<1> DEFINE a == Cardinality(Setting)
           a2 == Cardinality(Setting')
           b == Cardinality(Holding)
           b2 == Cardinality(Holding')
           c == Cardinality(Bearers)
           c2 == Cardinality(Bearers')
<1>5. /\ a \in Nat /\ b \in Nat /\ b2 \in Nat /\ c \in Nat /\ c2 \in Nat /\ turns \in Nat
      /\ a2 = a - 1 /\ c <= c2 /\ a + b <= turns /\ turns <= c
  BY <1>1, <1>4, Counts DEF Owed, Borne
<1>6. b2 <= b + 1
  <2>1. Cardinality(Holding \cup {t}) \in Nat
    BY <1>2, FS_CardinalityType
  <2> QED
    BY <1>2, <1>3, <1>5, <2>1
<1> HIDE DEF a, a2, b, b2, c, c2
<1>7. a2 + b2 <= turns /\ turns <= c2
  BY <1>5, <1>6
<1> QED
  BY <1>5, <1>7 DEF Owed, Borne, a2, b2, c2

\* releaseAdmission gives back what the thread holds.
LEMMA CountBack ==
    ASSUME Types, Owed, Borne, NEW t \in Threads, NEW x, turns' = turns - 1,
           t \in Holding, Setting' = Setting, Holding' = Holding \ {t}, Bearers \ {x} \subseteq Bearers'
    PROVE  Owed' /\ Borne' /\ turns > 0
<1>1. Cardinality(Holding') = Cardinality(Holding) - 1
  BY Counts, FS_RemoveElement
<1>2. Cardinality(Bearers) - 1 <= Cardinality(Bearers')
  BY Counts, Shrinks
<1> DEFINE a == Cardinality(Setting)
           b == Cardinality(Holding)
           b2 == Cardinality(Holding')
           c == Cardinality(Bearers)
           c2 == Cardinality(Bearers')
<1>3. /\ a \in Nat /\ b \in Nat /\ b2 \in Nat /\ c \in Nat /\ c2 \in Nat /\ turns \in Nat
      /\ b2 = b - 1 /\ c - 1 <= c2 /\ a + b <= turns /\ turns <= c
  BY <1>1, <1>2, Counts DEF Owed, Borne
<1> HIDE DEF a, b, b2, c, c2
<1>4. a + b2 <= turns - 1 /\ turns - 1 <= c2 /\ turns - 1 \in Nat /\ turns > 0
  BY <1>3
<1> QED
  BY <1>3, <1>4 DEF Owed, Borne, a, b2, c2

\* A turn that lets its thread's admission go loses at most one bearer.
LEMMA ReleaseCounts ==
    ASSUME Flow, Owed, Borne, NEW n \in Turns, NEW l, ReleaseAdmission(owner[n]), owner' = owner,
           got' = got, Goto(n, l),
           \/ pc[n] = "park" /\ l = "ask"
           \/ pc[n] = "release" /\ l = "closed"
    PROVE  Owed' /\ Borne' /\ (release[owner[n]] = "leave" => turns > 0)
<1> USE DEF Flow
<1> DEFINE t == owner[n]
           x == IF running[t] THEN current[t] ELSE n
<1>1. t \in Threads /\ n \in Born
  BY Owned
<1>2. release' = [release EXCEPT ![t] = "nil"] /\ pc' = [pc EXCEPT ![n] = l]
  BY DEF ReleaseAdmission, Goto
<1>3. Setting' = Setting
  BY <1>2 DEF Setting, Types
<1>4. Holding' = Holding \ {t}
  BY <1>1, <1>2 DEF Holding, Types
<1>5. ASSUME NEW m \in Bearers, m \notin Bearers'
      PROVE  owner[m] = t /\ m \in Bearing /\ (m \in Live \/ MaxPrompts <= 1) /\ m \in Born
  <2>1. m \in Turns
    BY DEF Bearers, Bearing, Setting, Gone
  <2>2. m \notin Gone
    BY <1>2, <1>5 DEF Bearers, Gone, Types
  <2>3. m \in Bearing
    BY <1>3, <1>5, <2>2 DEF Bearers
  <2>4. owner[m] = t
    BY <1>1, <1>2, <1>5, <2>3 DEF Bearers, Bearing, Types
  <2>5. m \in Live \/ MaxPrompts <= 1
    BY <2>1, <2>2, <2>3, Total DEF Gone, Bearing, Live
  <2> QED
    BY <2>1, <2>3, <2>4, <2>5 DEF Bearing, Born
<1>6. \E y : Bearers \ {y} \subseteq Bearers'
  <2>1. CASE MaxPrompts <= 1
    <3>1. \A m \in Bearers : m \notin Bearers' => m = n
      BY <1>1, <1>5, <2>1, Sole
    <3> QED
      BY <3>1
  <2>2. CASE ~(MaxPrompts <= 1)
    <3>1. \A m \in Bearers : m \notin Bearers' => m \in Live /\ owner[m] = t
      BY <1>5, <2>2
    <3>2. \A m \in Live : owner[m] = t => m = current[t]
      BY <1>1 DEF OneTurn
    <3> QED
      BY <3>1, <3>2
  <2> QED
    BY <2>1, <2>2
<1>7. CASE release[t] = "leave"
  <2>1. turns' = turns - 1 /\ t \in Holding
    BY <1>1, <1>7 DEF ReleaseAdmission, Holding
  <2> QED
    BY <1>1, <1>3, <1>4, <1>6, <2>1, CountBack
<1>8. CASE release[t] # "leave"
  <2>1. turns' = turns
    BY <1>8 DEF ReleaseAdmission
  <2>2. \A m \in Bearing : owner[m] # t
    BY <1>8 DEF Bearing
  <2>3. Bearers \subseteq Bearers'
    BY <1>5, <2>2
  <2>4. Holding' \subseteq Holding
    BY <1>4
  <2> QED
    BY <1>3, <1>8, <2>1, <2>3, <2>4, CountKept
<1> QED
  BY <1>7, <1>8

\* A step of turn n that leaves the funcs alone and n bearing if it was.
LEMMA StepCounts ==
    ASSUME Types, Owed, Borne, NEW n \in Turns, NEW l, Goto(n, l),
           UNCHANGED <<release, owner, turns>>, \A m \in Turns : m # n => got'[m] = got[m],
           pc[n] # "set" \/ got[n] # "leave", l # "set" \/ got'[n] # "leave",
           n \notin Bearers \/ (pc[n] \in {"run", "end"} /\ l \in {"park", "end", "release"})
    PROVE  Owed' /\ Borne'
<1>1. pc' = [pc EXCEPT ![n] = l]
  BY DEF Goto
<1>2. Setting' = Setting
  BY <1>1 DEF Setting, Types
<1>3. Holding' = Holding
  BY DEF Holding
<1>4. Bearers \subseteq Bearers'
  <2>1. \A m \in Bearers : m # n => m \in Bearers'
    BY <1>1 DEF Bearers, Bearing, Setting, Gone, Types
  <2>2. n \in Bearers => n \in Bearers'
    BY <1>1 DEF Bearers, Bearing, Setting, Gone, Types
  <2> QED
    BY <2>1, <2>2
<1> QED
  BY <1>2, <1>3, <1>4, CountKept

\* A turn that starts bears nothing yet.
LEMMA StartCounts ==
    ASSUME Flow, Owed, Borne, NEW t \in Threads, NEW at \in [Turns -> Steps], Starts(t, at),
           UNCHANGED <<release, got, turns>>,
           \A m \in Turns : at[m] = pc[m] \/ (pc[m] = "end" /\ at[m] = "release")
    PROVE  Owed' /\ Borne'
<1> USE DEF Flow
<1> DEFINE k == NextTurn
<1>1. k \in Turns /\ pc[k] = "unborn"
  BY Fresh DEF Starts
<1>2. pc' = [at EXCEPT ![k] = "begin"] /\ owner' = [owner EXCEPT ![k] = t]
  BY DEF Starts
<1> HIDE DEF k
<1>3. Setting' = Setting
  BY <1>1, <1>2 DEF Setting
<1>4. Holding' = Holding
  BY DEF Holding
<1>5. \A m \in Turns : m \in Bearers => m # k /\ owner'[m] = owner[m]
  BY <1>1, <1>2 DEF Bearers, Bearing, Setting, Gone, Types
<1>6. Bearers \subseteq Bearers'
  <2>1. Bearers \subseteq Turns
    BY Counts
  <2>2. \A m \in Turns : m \in Bearers => m \in Bearers'
    BY <1>2, <1>5 DEF Bearers, Bearing, Setting, Gone
  <2> QED
    BY <2>1, <2>2
<1> QED
  BY <1>3, <1>4, <1>6, CountKept

LEMMA SetCounts ==
    ASSUME Flow, Owed, Borne, NEW n \in Turns, SetRelease(n)
    PROVE  Owed' /\ Borne'
<1> USE DEF Flow
<1> DEFINE t == owner[n]
<1>1. /\ pc[n] = "set" /\ release' = [release EXCEPT ![t] = got[n]] /\ pc' = [pc EXCEPT ![n] = "run"]
      /\ UNCHANGED <<owner, got, turns>>
  BY DEF SetRelease, Goto, schedVars
<1>2. t \in Threads /\ n \in Born /\ n \in Live
  BY <1>1, Owned DEF Live
<1>3. \A m \in Bearers : m \in Bearers'
  <2> TAKE m \in Bearers
  <2>1. m \in Turns
    BY Counts
  <2>2. CASE m \in Gone
    BY <1>1, <2>1, <2>2 DEF Bearers, Gone, Types
  <2>3. CASE m \in Setting
    BY <1>1, <1>2, <2>1, <2>3 DEF Bearers, Setting, Bearing, Types
  <2>4. CASE m \in Bearing /\ m \notin Gone
    <3>1. m \in Born /\ m # n /\ (m \in Live \/ MaxPrompts <= 1)
      BY <1>1, <2>1, <2>4, Total DEF Born, Bearing, Gone, Live
    <3>2. owner[m] # t
      BY <1>2, <3>1, Sole
    <3> QED
      BY <1>1, <1>2, <2>1, <2>4, <3>1, <3>2 DEF Bearers, Bearing, Types
  <2> QED
    BY <2>2, <2>3, <2>4 DEF Bearers
<1>4. CASE got[n] = "leave"
  <2>1. n \in Setting /\ Setting' = Setting \ {n}
    BY <1>1, <1>4 DEF Setting, Types
  <2>2. Holding' \subseteq Holding \cup {t}
    BY <1>1, <1>2 DEF Holding, Types
  <2> QED
    BY <1>1, <1>2, <1>3, <2>1, <2>2, CountSet
<1>5. CASE got[n] # "leave"
  <2>1. Setting' = Setting
    BY <1>1, <1>5 DEF Setting, Types
  <2>2. Holding' \subseteq Holding
    BY <1>1, <1>2, <1>5 DEF Holding, Types
  <2> QED
    BY <1>1, <1>3, <2>1, <2>2, CountKept
<1> QED
  BY <1>4, <1>5

LEMMA EnterCounts ==
    ASSUME Flow, Owed, Borne, NEW n \in Turns, NEW tight \in BOOLEAN, Enter(n, tight)
    PROVE  Owed' /\ Borne'
<1> USE DEF Flow
<1>1. pc[n] = "enter" /\ UNCHANGED <<release, owner>> /\ n \notin Bearers
  BY DEF Enter, threadVars, Bearers, Bearing, Setting, Gone
<1>2. CASE tight /\ gates > 0
  BY <1>1, <1>2, StepCounts DEF Enter
<1>3. CASE ~(tight /\ gates > 0)
  <2>1. turns' = turns + 1 /\ got' = [got EXCEPT ![n] = "leave"] /\ pc' = [pc EXCEPT ![n] = "set"]
    BY <1>3 DEF Enter, Goto
  <2>2. Setting' = Setting \cup {n} /\ Holding' = Holding
    BY <1>1, <2>1 DEF Setting, Holding, Types
  <2>3. Bearers \cup {n} \subseteq Bearers'
    <3>1. \A m \in Bearers : m # n /\ m \in Turns
      BY <1>1, Counts
    <3>2. \A m \in Bearers : m \in Bearers'
      BY <1>1, <2>1, <3>1 DEF Bearers, Bearing, Setting, Gone, Types
    <3>3. n \in Bearers'
      BY <2>2 DEF Bearers
    <3> QED
      BY <3>2, <3>3
  <2> QED
    BY <1>1, <2>1, <2>2, <2>3, CountEnter
<1> QED
  BY <1>2, <1>3

LEMMA CountsNext == ASSUME Flow, Owed, Borne, [Next]_vars PROVE Owed' /\ Borne'
<1> USE DEF Flow
<1>1. CASE UNCHANGED <<release, owner, got, pc, turns>>
  <2>1. Setting' = Setting /\ Holding' = Holding /\ Bearers' = Bearers
    BY <1>1 DEF Setting, Holding, Bearers, Bearing, Gone
  <2> QED
    BY <1>1, <2>1, CountKept
<1>2. ASSUME NEW t \in Threads, NEW interrupt \in BOOLEAN, Send(t, interrupt)
      PROVE  Owed' /\ Borne'
  <2>1. UNCHANGED <<release, got, turns>>
    BY <1>2 DEF Send, schedVars
  <2>2. CASE running[t]
    BY <1>1, <1>2, <2>1, <2>2 DEF Send
  <2>3. CASE ~running[t]
    BY <1>2, <2>1, <2>3, SendStarts, StartCounts DEF Sends, Types
  <2> QED
    BY <2>2, <2>3
<1>3. ASSUME NEW n \in Turns, Admit(n)
      PROVE  Owed' /\ Borne'
  <2>1. CASE Begin(n)
    <3>1. pc[n] \in {"begin", "unpark"} /\ UNCHANGED <<release, owner, turns>> /\ n \notin Bearers
      BY <2>1 DEF Begin, threadVars, schedVars, Bearers, Bearing, Setting, Gone
    <3>2. CASE override[owner[n]] = "hosted"
      BY <2>1, <3>1, <3>2, StepCounts DEF Begin, Types
    <3>3. CASE override[owner[n]] # "hosted"
      BY <2>1, <3>1, <3>3, StepCounts DEF Begin
    <3> QED
      BY <3>2, <3>3
  <2>2. CASE Woken(n) \/ AdmitFails(n)
    <3>1. pc[n] = "held" /\ UNCHANGED <<release, owner, got, turns>> /\ n \notin Bearers
      BY <2>2 DEF Woken, AdmitFails, threadVars, Bearers, Bearing, Setting, Gone
    <3>2. Goto(n, "enter") \/ Goto(n, "run") \/ Goto(n, "closed")
      BY <2>2 DEF Woken, AdmitFails
    <3> QED
      BY <3>1, <3>2, StepCounts
  <2>3. CASE SetRelease(n)
    BY <2>3, SetCounts
  <2>4. CASE \E tight \in BOOLEAN : Enter(n, tight)
    BY <2>4, EnterCounts
  <2> QED
    BY <1>3, <2>1, <2>2, <2>3, <2>4 DEF Admit
<1>4. ASSUME NEW n \in Turns, Work(n)
      PROVE  Owed' /\ Borne'
  <2>1. CASE Ask(n) \/ Finish(n)
    <3>1. pc[n] = "run" /\ UNCHANGED <<release, owner, got, turns>>
      BY <2>1 DEF Ask, Finish, threadVars, schedVars
    <3>2. Goto(n, "park") \/ Goto(n, "end")
      BY <2>1 DEF Ask, Finish
    <3> QED
      BY <3>1, <3>2, StepCounts
  <2>2. CASE Answered(n) \/ AskFails(n)
    <3>1. pc[n] = "ask" /\ UNCHANGED <<release, owner, got, turns>> /\ n \notin Bearers
      BY <2>2 DEF Answered, AskFails, threadVars, schedVars, Bearers, Bearing, Setting, Gone
    <3>2. Goto(n, "unpark") \/ Goto(n, "run")
      BY <2>2 DEF Answered, AskFails
    <3> QED
      BY <3>1, <3>2, StepCounts
  <2>3. CASE Park(n)
    BY <2>3, ReleaseCounts DEF Park
  <2>4. CASE Close(n)
    BY <2>4, ReleaseCounts DEF Close
  <2>5. CASE End(n)
    <3>1. pc[n] = "end" /\ UNCHANGED <<release, got, turns>>
      BY <2>5 DEF End, schedVars
    <3>2. CASE Drains(n)
      <4>1. Follows(n) /\ owner[n] \in Threads
        BY <2>5, <3>1, <3>2, EndFollows, Owned
      <4>2. [pc EXCEPT ![n] = "release"] \in [Turns -> Steps]
        BY DEF Types, Steps
      <4> QED
        BY <3>1, <4>1, <4>2, StartCounts DEF Follows, Types
    <3>3. CASE ~Drains(n)
      BY <2>5, <3>1, <3>3, StepCounts DEF End, Drains
    <3> QED
      BY <3>2, <3>3
  <2> QED
    BY <1>4, <2>1, <2>2, <2>3, <2>4, <2>5 DEF Work
<1>5. CASE \/ \E t \in Threads : Cancel(t) \/ SetOverride(t)
           \/ \E n \in Turns : Answer(n)
  BY <1>1, <1>5 DEF Cancel, SetOverride, Answer, threadVars, turnVars, schedVars
<1>6. CASE Gate \/ Stop \/ UNCHANGED vars
  BY <1>1, <1>6 DEF Gate, GateAsks, GateDone, GateEnter, Stop, Shutdown, GraceOver, WaitDone, CloseAll, WaitFor,
                    vars, threadVars, turnVars, schedVars
<1> QED
  BY <1>2, <1>3, <1>4, <1>5, <1>6 DEF Next, Clients

\* Whoever is held for memory has a rival ahead, or has been woken.
LEMMA RivalsNext == ASSUME Flow, Owed, Borne, HeldForRival, [Next]_vars PROVE HeldForRival'
<1> USE DEF Flow
<1>1. ASSUME UNCHANGED <<gates, woken, gate>>, \A m \in Turns : pc'[m] = "held" => pc[m] = "held",
             turns' \in {turns, turns + 1}
      PROVE  HeldForRival'
  BY <1>1 DEF HeldForRival, Owed
<1>2. ASSUME NEW n \in Turns, ReleaseAdmission(owner[n]), owner' = owner, got' = got, gates' = gates,
             \/ pc[n] = "park" /\ Goto(n, "ask")
             \/ pc[n] = "release" /\ Goto(n, "closed")
      PROVE  HeldForRival'
  <2>1. \A m \in Turns : pc'[m] = "held" => pc[m] = "held"
    BY <1>2 DEF Goto, Types
  <2>2. CASE release[owner[n]] = "leave"
    BY <1>2, <2>1, <2>2 DEF ReleaseAdmission, WakeAll, HeldForRival, Types
  <2>3. CASE release[owner[n]] # "leave"
    BY <1>1, <1>2, <2>1, <2>3 DEF ReleaseAdmission, WakeNobody, Owed
  <2> QED
    BY <2>2, <2>3
<1>3. ASSUME NEW t \in Threads, NEW at \in [Turns -> Steps], Starts(t, at), UNCHANGED schedVars,
             \A m \in Turns : at[m] = "held" => pc[m] = "held"
      PROVE  HeldForRival'
  <2>1. NextTurn \in Turns /\ pc' = [at EXCEPT ![NextTurn] = "begin"]
    BY <1>3, Fresh DEF Starts
  <2>2. \A m \in Turns : pc'[m] = "held" => pc[m] = "held"
    <3> DEFINE k == NextTurn
    <3> HIDE DEF k
    <3>1. k \in Turns /\ pc' = [at EXCEPT ![k] = "begin"]
      BY <2>1 DEF k
    <3> QED
      BY <1>3, <3>1
  <2> QED
    BY <1>1, <1>3, <2>2 DEF schedVars, Owed
<1>4. ASSUME NEW t \in Threads, NEW interrupt \in BOOLEAN, Send(t, interrupt)
      PROVE  HeldForRival'
  <2>1. CASE running[t]
    BY <1>1, <1>4, <2>1 DEF Send, schedVars, Owed
  <2>2. CASE ~running[t]
    BY <1>3, <1>4, <2>2, SendStarts DEF Send, Sends, Types
  <2> QED
    BY <2>1, <2>2
<1>5. ASSUME NEW n \in Turns, Admit(n)
      PROVE  HeldForRival'
  <2>1. CASE Begin(n) \/ SetRelease(n)
    <3>1. UNCHANGED schedVars
      BY <2>1 DEF Begin, SetRelease
    <3>2. \A m \in Turns : pc'[m] = "held" => pc[m] = "held"
      BY <2>1 DEF Begin, SetRelease, Goto, Types
    <3> QED
      BY <1>1, <3>1, <3>2 DEF schedVars, Owed
  <2>2. CASE Woken(n) \/ AdmitFails(n)
    BY <2>2 DEF Woken, AdmitFails, Goto, Types, HeldForRival
  <2>3. ASSUME NEW tight \in BOOLEAN, Enter(n, tight)
        PROVE  HeldForRival'
    <3>1. CASE tight /\ gates > 0
      BY <2>3, <3>1 DEF Enter, Goto, Types, HeldForRival
    <3>2. CASE ~(tight /\ gates > 0)
      <4>1. turns' = turns + 1 /\ UNCHANGED <<gates, woken, gate>>
        BY <2>3, <3>2 DEF Enter
      <4>2. \A m \in Turns : pc'[m] = "held" => pc[m] = "held"
        BY <2>3, <3>2 DEF Enter, Goto, Types
      <4> QED
        BY <1>1, <4>1, <4>2 DEF Owed
    <3> QED
      BY <3>1, <3>2
  <2> QED
    BY <1>5, <2>1, <2>2, <2>3 DEF Admit
<1>6. ASSUME NEW n \in Turns, Work(n)
      PROVE  HeldForRival'
  <2>1. CASE Ask(n) \/ Answered(n) \/ AskFails(n) \/ Finish(n)
    <3>1. UNCHANGED schedVars
      BY <2>1 DEF Ask, Answered, AskFails, Finish
    <3>2. \A m \in Turns : pc'[m] = "held" => pc[m] = "held"
      BY <2>1 DEF Ask, Answered, AskFails, Finish, Goto, Types
    <3> QED
      BY <1>1, <3>1, <3>2 DEF schedVars, Owed
  <2>2. CASE Park(n) \/ Close(n)
    BY <1>2, <2>2 DEF Park, Close
  <2>3. CASE End(n)
    <3>1. pc[n] = "end" /\ UNCHANGED schedVars
      BY <2>3 DEF End
    <3>2. CASE Drains(n)
      <4>1. Follows(n) /\ owner[n] \in Threads
        BY <2>3, <3>1, <3>2, EndFollows, Owned
      <4>2. [pc EXCEPT ![n] = "release"] \in [Turns -> Steps]
        BY DEF Types, Steps
      <4> QED
        BY <1>3, <3>1, <4>1, <4>2 DEF Follows, Types
    <3>3. CASE ~Drains(n)
      <4>1. \A m \in Turns : pc'[m] = "held" => pc[m] = "held"
        BY <2>3, <3>3 DEF End, Goto, Types, Drains
      <4> QED
        BY <1>1, <3>1, <4>1 DEF schedVars, Owed
    <3> QED
      BY <3>2, <3>3
  <2> QED
    BY <1>6, <2>1, <2>2, <2>3 DEF Work
<1>7. CASE \/ \E t \in Threads : Cancel(t) \/ SetOverride(t)
           \/ \E n \in Turns : Answer(n)
           \/ Stop \/ UNCHANGED vars
  <2>1. pc' = pc /\ UNCHANGED schedVars
    BY <1>7 DEF Cancel, SetOverride, Answer, Stop, Shutdown, GraceOver, WaitDone, CloseAll, WaitFor, vars, turnVars
  <2> QED
    BY <1>1, <2>1 DEF schedVars, Owed
<1>8. CASE Gate
  <2>1. CASE GateAsks
    BY <2>1 DEF GateAsks, turnVars, HeldForRival
  <2>2. CASE GateDone
    BY <2>2 DEF GateDone, turnVars, HeldForRival
  <2>3. ASSUME NEW tight \in BOOLEAN, GateEnter(tight)
        PROVE  HeldForRival'
    BY <2>3 DEF GateEnter, turnVars, HeldForRival, Types
  <2> QED
    BY <1>8, <2>1, <2>2, <2>3 DEF Gate
<1> QED
  BY <1>4, <1>5, <1>6, <1>7, <1>8 DEF Next, Clients

LEMMA AdmissionInit == Init => Admission
<1> SUFFICES ASSUME Init PROVE Admission
  OBVIOUS
<1>1. Setting = {} /\ Holding = {} /\ Cardinality({}) = 0
  BY FS_EmptySet DEF Init, Setting, Holding
<1>2. Types
  BY FlowInit DEF Flow
<1>3. Cardinality(Bearers) \in Nat
  BY <1>2, Counts
<1> QED
  BY <1>1, <1>3 DEF Init, Admission, Owed, Borne, HeldForRival

LEMMA AdmissionKept == Spec => [](Flow /\ Admission)
<1>1. Flow /\ Admission /\ [Next]_vars => Admission'
  BY CountsNext, RivalsNext DEF Admission
<1> QED
  BY <1>1, AdmissionInit, FlowKept, PTL DEF Spec

LEMMA FlowTyped == Flow /\ Admission => TypeOK
<1> SUFFICES ASSUME Flow, Admission PROVE TypeOK
  OBVIOUS
<1>1. turns \in 0..Cardinality(Turns)
  <2>1. Cardinality(Bearers) <= Cardinality(Turns)
    BY Counts, Total, Keeps DEF Flow
  <2>2. Cardinality(Bearers) \in Nat /\ Cardinality(Turns) \in Nat
    BY Counts, Total DEF Flow
  <2> QED
    BY <2>1, <2>2 DEF Admission, Owed, Borne
<1>2. gates \in 0..1
  BY DEF Flow, Types
<1> QED
  BY <1>1, <1>2 DEF Flow, Types, Queues, TypeOK

\* Every variable keeps its type, the scheduler's count of turns among them:
\* whatever releaseAdmission takes and setRelease overwrites, the count never
\* falls below zero nor beyond the turns there were.
THEOREM TurnsTypeCorrect == Spec => []TypeOK
  BY AdmissionKept, FlowTyped, PTL

\* A turn or gate run held for memory has a rival that still runs, or has been
\* woken by the last one's leave, so nobody waits for what is over.
THEOREM HeldOnlyForRivals == Spec => []HeldForRival
<1>1. Flow /\ Admission => HeldForRival
  BY DEF Admission
<1> QED
  BY <1>1, AdmissionKept, PTL

\* When no thread is sent a second prompt, admission as a whole is sound: it is
\* given back with the turn and while the turn parks.  With a second prompt TLC
\* refutes AdmissionReturned (turns_leak): the next turn's setRelease can
\* overwrite the func of the last.
THEOREM AdmissionGivenBack ==
    ASSUME MaxPrompts <= 1
    PROVE  Spec => []AdmissionSound
<1>1. Flow /\ Admission => AdmissionSound
  <2> SUFFICES ASSUME Flow, Admission PROVE AdmissionSound
    OBVIOUS
  <2>1. Gone = {}
    BY Total DEF Gone
  <2>2. ASSUME \A n \in Turns : pc[n] \in {"unborn", "closed", "ask"}
        PROVE  turns = 0
    <3>1. Bearers = {}
      BY <2>1, <2>2 DEF Bearers, Bearing, Setting
    <3>2. Cardinality(Bearers) = 0
      BY <3>1, FS_EmptySet
    <3> QED
      BY <3>2 DEF Admission, Owed, Borne
  <2>3. AdmissionReturned /\ ParkedHoldsNothing
    BY <2>2 DEF AdmissionReturned, ParkedHoldsNothing
  <2> QED
    BY <2>3, FlowTyped DEF AdmissionSound, Admission
<1> QED
  BY <1>1, AdmissionKept, PTL

-----------------------------------------------------------------------------
(* Shutdown *)

\* Nothing is ever taken from a queue: a thread gets one prompt at most, or
\* runs a cycle, whose end does not drain the queue.
NoQueue == MaxPrompts <= 1 \/ CycleThreads = Threads

LEMMA NeverDrains == ASSUME Flow, NoQueue, NEW n \in Turns, pc[n] = "end" PROVE ~Drains(n)
<1> DEFINE t == owner[n]
<1>1. t \in Threads /\ n \in Born
  BY Owned DEF Flow
<1>2. CASE CycleThreads = Threads
  BY <1>1, <1>2 DEF Drains
<1>3. CASE MaxPrompts <= 1
  <2>1. n \in Of(t) /\ Of(t) \subseteq Turns
    BY <1>1 DEF Of, Born
  <2>2. Cardinality(Of(t)) # 0
    BY <2>1, Sized, FS_EmptySet
  <2>3. Len(ran[t]) # 0
    BY <1>1, <2>2 DEF Flow, Births
  <2>4. /\ Len(ran[t]) \in Nat /\ sent[t] \in Nat /\ sent[t] <= MaxPrompts
        /\ pending[t] # <<>> => Len(ran[t]) < sent[t]
    BY <1>1, Lengths DEF Flow
  <2>5. pending[t] = <<>>
    BY <1>3, <2>3, <2>4, Total
  <2> QED
    BY <2>5 DEF Drains
<1> QED
  BY <1>2, <1>3 DEF NoQueue

\* The threads Shutdown has looked at are idle, but for the one it waits for.
Waited ==
    /\ server = "up" => visited = {}
    /\ server # "draining" => awaiting = NoTurn
    /\ server = "closed" => visited = Threads
    /\ \A t \in visited : running[t] => awaiting = current[t]

LEMMA WaitedNext == ASSUME NoQueue, Flow, Waited, [Next]_vars PROVE Waited'
<1> USE DEF Flow
<1>1. ASSUME UNCHANGED serverVars, \A t \in Threads : running'[t] => running[t] /\ current'[t] = current[t]
      PROVE  Waited'
  BY <1>1 DEF Waited, serverVars, Types
<1>2. ASSUME NEW t \in Threads, NEW interrupt \in BOOLEAN, Send(t, interrupt)
      PROVE  Waited'
  BY <1>2 DEF Send, Waited, serverVars
<1>3. ASSUME NEW n \in Turns, Admit(n) \/ Work(n)
      PROVE  Waited'
  <2>1. UNCHANGED serverVars
    BY <1>3 DEF Admit, Work, Begin, Enter, Woken, AdmitFails, SetRelease, Ask, Park, Answered, AskFails, Finish,
                End, Close
  <2>2. CASE AdmitFails(n)
    BY <1>1, <2>1, <2>2 DEF AdmitFails, Types
  <2>3. CASE End(n)
    <3>1. ~Drains(n)
      BY <2>3, NeverDrains DEF End
    <3> QED
      BY <1>1, <2>1, <2>3, <3>1 DEF End, Drains, Types
  <2>4. CASE ~AdmitFails(n) /\ ~End(n)
    BY <1>1, <1>3, <2>1, <2>4 DEF Admit, Work, Begin, Enter, Woken, SetRelease, Ask, Park, Answered, AskFails,
                                  Finish, Close, threadVars
  <2> QED
    BY <2>2, <2>3, <2>4
<1>4. CASE \/ \E t \in Threads : Cancel(t) \/ SetOverride(t)
           \/ \E n \in Turns : Answer(n)
           \/ Gate \/ UNCHANGED vars
  BY <1>1, <1>4 DEF Cancel, SetOverride, Answer, Gate, GateAsks, GateDone, GateEnter, vars, threadVars
<1>5. CASE Stop
  <2>1. \A t \in Threads : running[t] => current[t] \in Live /\ current[t] # NoTurn
    BY Total DEF OneTurn, Live, NoTurn
  <2>2. running' = running /\ current' = current
    BY <1>5 DEF Stop, Shutdown, GraceOver, WaitDone, CloseAll, WaitFor, threadVars
  <2>3. CASE Shutdown \/ GraceOver \/ CloseAll
    BY <2>2, <2>3 DEF Shutdown, GraceOver, CloseAll, Waited, serverVars
  <2>4. CASE WaitDone
    <3>1. \A t \in visited : ~running[t]
      BY <2>1, <2>4 DEF WaitDone, Waited, Live, Types
    <3> QED
      BY <2>2, <2>4, <3>1 DEF WaitDone, Waited
  <2>5. ASSUME NEW t \in Threads, WaitFor(t)
        PROVE  Waited'
    <3>1. \A u \in visited : ~running[u]
      BY <2>1, <2>5 DEF WaitFor, Waited, Types
    <3> QED
      BY <2>2, <2>5, <3>1 DEF WaitFor, Waited
  <2> QED
    BY <1>5, <2>3, <2>4, <2>5 DEF Stop
<1> QED
  BY <1>2, <1>3, <1>4, <1>5 DEF Next, Clients

\* Once Shutdown has closed the event logs no turn is at work.  It needs that
\* no turn is started from a queue: waitIdle reads the turn of a thread once,
\* and a queued prompt's turn that starts at the end of that one is not waited
\* for (TLC shows it with a second prompt).
THEOREM ShutdownWaits ==
    ASSUME NoQueue
    PROVE  Spec => []NoTurnAfterClose
<1>1. Init => Waited
  BY DEF Init, Waited
<1>2. Flow /\ Waited /\ [Next]_vars => Waited'
  BY WaitedNext
<1>3. Flow /\ Waited => NoTurnAfterClose
  <2> SUFFICES ASSUME Flow, Waited, server = "closed", NEW n \in Live
               PROVE  FALSE
    BY DEF NoTurnAfterClose
  <2>1. owner[n] \in Threads /\ n \in Turns
    BY Owned DEF Flow, Live
  <2>2. running[owner[n]] /\ n = current[owner[n]]
    BY <2>1 DEF Flow, OneTurn
  <2>3. n = NoTurn
    BY <2>1, <2>2 DEF Waited
  <2> QED
    BY <2>1, <2>3, Total DEF NoTurn
<1> QED
  BY <1>1, <1>2, <1>3, FlowKept, PTL DEF Spec

-----------------------------------------------------------------------------
(* The order of prompts *)

\* No turn ends without a look at its thread's queue: none runs a cycle, and no
\* admission waits, so none can be canceled while it does.
AlwaysDrains == CycleThreads = {} /\ (~Gated \/ Tiers = {"hosted"})

NoHold ==
    /\ \A n \in Turns : pc[n] # "held" /\ (Tiers = {"hosted"} => pc[n] # "enter")
    /\ ~Gated => gate = "idle"

\* PromptOrder position by position.
InOrder ==
    \A t \in Threads :
        /\ \A i \in 1..Len(ran[t]) : ran[t][i] = i
        /\ \A i \in 1..Len(pending[t]) : pending[t][i] = Len(ran[t]) + i

Ordered == NoHold /\ InOrder /\ QueuedHasRunner

LEMMA OrderedPrompts == ASSUME Queues, InOrder PROVE PromptOrder
<1> SUFFICES ASSUME NEW t \in Threads
             PROVE  ran[t] \o pending[t] = [i \in 1..sent[t] |-> i]
  BY DEF PromptOrder
<1> DEFINE r == ran[t]
           q == pending[t]
           a == Len(r)
           b == Len(q)
           s == sent[t]
<1>1. /\ r \in Seq(1..MaxPrompts) /\ q \in Seq(1..MaxPrompts) /\ a \in Nat /\ b \in Nat /\ a + b = s
      /\ \A i \in 1..a : r[i] = i
      /\ \A i \in 1..b : q[i] = a + i
  BY LenProperties DEF Queues, InOrder
<1> HIDE DEF r, q, s
<1>2. /\ r \o q \in Seq(1..MaxPrompts) /\ Len(r \o q) = a + b
      /\ \A i \in 1..(a + b) : (r \o q)[i] = IF i <= a THEN r[i] ELSE q[i - a]
  BY <1>1, ConcatProperties
<1>3. r \o q \in [1..(a + b) -> 1..MaxPrompts]
  BY <1>2, LenProperties
<1> HIDE DEF a, b
<1>4. \A i \in 1..(a + b) : (r \o q)[i] = i
  <2> TAKE i \in 1..(a + b)
  <2>1. CASE i <= a
    BY <1>1, <1>2, <2>1
  <2>2. CASE ~(i <= a)
    <3>1. i - a \in 1..b
      BY <1>1, <2>2
    <3>2. q[i - a] = a + (i - a)
      BY <1>1, <3>1
    <3> QED
      BY <1>1, <1>2, <2>2, <3>2
  <2> QED
    BY <2>1, <2>2
<1>5. r \o q = [i \in 1..(a + b) |-> i]
  BY <1>3, <1>4
<1> QED
  BY <1>1, <1>5 DEF r, q, s

LEMMA NoHoldNext == ASSUME AlwaysDrains, Flow, NoHold, [Next]_vars PROVE NoHold'
<1> USE DEF Flow
<1>1. ASSUME NEW t \in Threads, NEW at \in [Turns -> Steps], Starts(t, at), gate' = gate,
             \A m \in Turns : at[m] = pc[m] \/ at[m] = "release"
      PROVE  NoHold'
  <2> DEFINE k == NextTurn
  <2>1. k \in Turns /\ pc' = [at EXCEPT ![k] = "begin"]
    BY <1>1, Fresh DEF Starts
  <2> HIDE DEF k
  <2> QED
    BY <1>1, <2>1 DEF NoHold
<1>2. ASSUME NEW t \in Threads, NEW interrupt \in BOOLEAN, Send(t, interrupt)
      PROVE  NoHold'
  <2>1. CASE running[t]
    BY <1>2, <2>1 DEF Send, NoHold, schedVars
  <2>2. CASE ~running[t]
    BY <1>1, <1>2, <2>2, SendStarts DEF Send, Sends, Types, schedVars
  <2> QED
    BY <2>1, <2>2
<1>3. ASSUME NEW n \in Turns, Admit(n)
      PROVE  NoHold'
  <2>1. CASE Begin(n)
    <3>1. owner[n] \in Threads /\ override[owner[n]] \in Tiers /\ pc[n] # "unborn"
      BY <2>1, Owned DEF Begin, Types
    <3> QED
      BY <2>1, <3>1 DEF Begin, Goto, Types, NoHold, schedVars
  <2>2. CASE Woken(n) \/ AdmitFails(n)
    BY <2>2 DEF Woken, AdmitFails, NoHold
  <2>3. CASE SetRelease(n)
    BY <2>3 DEF SetRelease, Goto, Types, NoHold, schedVars
  <2>4. ASSUME NEW tight \in BOOLEAN, Enter(n, tight)
        PROVE  NoHold'
    <3>1. ~Gated /\ gates = 0
      BY <2>4 DEF Enter, NoHold, AlwaysDrains, Types
    <3> QED
      BY <2>4, <3>1 DEF Enter, Goto, Types, NoHold
  <2> QED
    BY <1>3, <2>1, <2>2, <2>3, <2>4 DEF Admit
<1>4. ASSUME NEW n \in Turns, Work(n)
      PROVE  NoHold'
  <2>1. CASE Ask(n) \/ Answered(n) \/ AskFails(n) \/ Finish(n)
    BY <2>1 DEF Ask, Answered, AskFails, Finish, Goto, Types, NoHold, schedVars
  <2>2. CASE Park(n) \/ Close(n)
    <3>1. \A m \in Turns : pc'[m] \in {"held", "enter"} => pc'[m] = pc[m]
      BY <2>2 DEF Park, Close, Goto, Types
    <3>2. gate' = gate \/ (gate = "held" /\ gate' = "enter")
      BY <2>2 DEF Park, Close, ReleaseAdmission, WakeAll, WakeNobody
    <3> QED
      BY <3>1, <3>2 DEF NoHold
  <2>3. CASE End(n)
    <3>1. pc[n] = "end" /\ gate' = gate
      BY <2>3 DEF End, schedVars
    <3>2. CASE Drains(n)
      <4>1. Follows(n) /\ owner[n] \in Threads
        BY <2>3, <3>1, <3>2, EndFollows, Owned
      <4>2. [pc EXCEPT ![n] = "release"] \in [Turns -> Steps]
        BY DEF Types, Steps
      <4> QED
        BY <1>1, <3>1, <4>1, <4>2 DEF Follows, Types
    <3>3. CASE ~Drains(n)
      BY <2>3, <3>1, <3>3 DEF End, Goto, Types, Drains, NoHold
    <3> QED
      BY <3>2, <3>3
  <2> QED
    BY <1>4, <2>1, <2>2, <2>3 DEF Work
<1>5. CASE \/ \E t \in Threads : Cancel(t) \/ SetOverride(t)
           \/ \E n \in Turns : Answer(n)
           \/ Stop \/ UNCHANGED vars
  BY <1>5 DEF Cancel, SetOverride, Answer, Stop, Shutdown, GraceOver, WaitDone, CloseAll, WaitFor, vars,
              turnVars, schedVars, NoHold
<1>6. CASE Gate
  BY <1>6 DEF Gate, GateAsks, GateDone, GateEnter, turnVars, NoHold
<1> QED
  BY <1>2, <1>3, <1>4, <1>5, <1>6 DEF Next, Clients

\* A prompt is put behind the others.
LEMMA Queued ==
    ASSUME Queues, InOrder, NEW t \in Threads, sent[t] + 1 \in 1..MaxPrompts, ran' = ran,
           pending' = [pending EXCEPT ![t] = Append(@, sent[t] + 1)]
    PROVE  InOrder'
<1> DEFINE q == pending[t]
           x == sent[t] + 1
<1>1. q \in Seq(1..MaxPrompts) /\ Len(q) \in Nat
  BY LenProperties DEF Queues
<1>2. /\ Len(Append(q, x)) = Len(q) + 1 /\ Append(q, x)[Len(q) + 1] = x
      /\ \A i \in 1..Len(q) : Append(q, x)[i] = q[i]
  BY <1>1, AppendProperties
<1>3. Len(ran[t]) + Len(q) = sent[t] /\ Len(ran[t]) \in Nat
  BY Lengths DEF Queues
<1>4. \A i \in 1..(Len(q) + 1) : Append(q, x)[i] = Len(ran[t]) + i
  <2> TAKE i \in 1..(Len(q) + 1)
  <2>1. CASE i = Len(q) + 1
    <3> DEFINE a == Len(ran[t])
               b == Len(q)
    <3>1. a \in Nat /\ b \in Nat /\ a + b = sent[t]
      BY <1>1, <1>3
    <3> HIDE DEF a, b
    <3>2. x = a + (b + 1)
      BY <3>1
    <3> QED
      BY <1>2, <2>1, <3>2 DEF a, b
  <2>2. CASE i \in 1..Len(q)
    BY <1>2, <2>2 DEF InOrder
  <2> QED
    BY <1>1, <2>1, <2>2
<1>5. pending'[t] = Append(q, x) /\ \A u \in Threads : u # t => pending'[u] = pending[u]
  BY DEF Queues
<1>6. ASSUME NEW u \in Threads
      PROVE  \A i \in 1..Len(pending'[u]) : pending'[u][i] = Len(ran[u]) + i
  BY <1>2, <1>4, <1>5 DEF InOrder
<1> QED
  BY <1>6 DEF InOrder

\* Prompt p, the next in order, is started and leaves rest in the queue.
LEMMA StartedNext ==
    ASSUME Queues, InOrder, NEW t \in Threads, NEW p \in 1..MaxPrompts, NEW rest,
           p = Len(ran[t]) + 1, ran' = [ran EXCEPT ![t] = Append(ran[t], p)],
           pending' = [pending EXCEPT ![t] = rest],
           \A i \in 1..Len(rest) : rest[i] = p + i
    PROVE  InOrder'
<1>1. ran[t] \in Seq(1..MaxPrompts) /\ Len(ran[t]) \in Nat
  BY LenProperties DEF Queues
<1>2. /\ Len(Append(ran[t], p)) = p /\ Append(ran[t], p)[p] = p
      /\ \A i \in 1..Len(ran[t]) : Append(ran[t], p)[i] = ran[t][i]
  BY <1>1, AppendProperties
<1>3. \A i \in 1..p : Append(ran[t], p)[i] = i
  <2> TAKE i \in 1..p
  <2>1. CASE i = p
    BY <1>2, <2>1
  <2>2. CASE i \in 1..Len(ran[t])
    BY <1>2, <2>2 DEF InOrder
  <2> QED
    BY <1>1, <2>1, <2>2
<1>4. /\ ran'[t] = Append(ran[t], p) /\ pending'[t] = rest
      /\ \A u \in Threads : u # t => ran'[u] = ran[u] /\ pending'[u] = pending[u]
  BY DEF Queues
<1>5. ASSUME NEW u \in Threads
      PROVE  /\ \A i \in 1..Len(ran'[u]) : ran'[u][i] = i
             /\ \A i \in 1..Len(pending'[u]) : pending'[u][i] = Len(ran'[u]) + i
  <2>1. CASE u = t
    BY <1>2, <1>3, <1>4, <2>1
  <2>2. CASE u # t
    BY <1>4, <2>2 DEF InOrder
  <2> QED
    BY <2>1, <2>2
<1> QED
  BY <1>5 DEF InOrder

LEMMA OrderedNext == ASSUME AlwaysDrains, Flow, Ordered, [Next]_vars PROVE InOrder' /\ QueuedHasRunner'
<1> USE DEF Flow
<1>1. ASSUME UNCHANGED <<ran, pending>>, \A t \in Threads : pending[t] # <<>> /\ running[t] => running'[t]
      PROVE  InOrder' /\ QueuedHasRunner'
  BY <1>1 DEF Ordered, InOrder, QueuedHasRunner
<1>2. ASSUME NEW t \in Threads, NEW interrupt \in BOOLEAN, Send(t, interrupt)
      PROVE  InOrder' /\ QueuedHasRunner'
  <2>1. sent[t] + 1 \in 1..MaxPrompts
    BY <1>2, Lengths, Total DEF Send
  <2>2. CASE running[t]
    <3>1. ran' = ran /\ running' = running /\ pending' = [pending EXCEPT ![t] = Append(@, sent[t] + 1)]
      BY <1>2, <2>2 DEF Send
    <3>2. QueuedHasRunner'
      BY <2>2, <3>1 DEF Ordered, QueuedHasRunner, Queues
    <3> QED
      BY <2>1, <3>1, <3>2, Queued DEF Ordered
  <2>3. CASE ~running[t]
    <3>1. pending[t] = <<>> /\ pending' = pending /\ StartTurn(t, sent[t] + 1, pc) /\ Len(pending[t]) = 0
      BY <1>2, <2>3, EmptySeq DEF Send, Ordered, QueuedHasRunner
    <3>2. Len(ran[t]) + 1 = sent[t] + 1
      <4> DEFINE a == Len(ran[t])
      <4>1. a \in Nat /\ a + 0 = sent[t]
        BY <3>1, Lengths DEF Queues
      <4> HIDE DEF a
      <4>2. a + 1 = sent[t] + 1
        BY <4>1
      <4> QED
        BY <4>2 DEF a
    <3>3. pending' = [pending EXCEPT ![t] = <<>>] /\ ran' = [ran EXCEPT ![t] = Append(ran[t], sent[t] + 1)]
      BY <3>1 DEF StartTurn, Queues
    <3>4. InOrder'
      <4> DEFINE p == sent[t] + 1
                 rest == <<>>
      <4>1. \A i \in 1..Len(rest) : rest[i] = p + i
        BY EmptySeq
      <4>2. p \in 1..MaxPrompts /\ p = Len(ran[t]) + 1 /\ ran' = [ran EXCEPT ![t] = Append(ran[t], p)]
            /\ pending' = [pending EXCEPT ![t] = rest]
        BY <2>1, <3>2, <3>3
      <4> HIDE DEF p, rest
      <4> QED
        BY <4>1, <4>2, StartedNext DEF Ordered
    <3>5. QueuedHasRunner'
      BY <3>1 DEF StartTurn, Ordered, QueuedHasRunner, Types
    <3> QED
      BY <3>4, <3>5
  <2> QED
    BY <2>2, <2>3
<1>3. ASSUME NEW n \in Turns, End(n)
      PROVE  InOrder' /\ QueuedHasRunner'
  <2> DEFINE t == owner[n]
  <2>1. t \in Threads
    BY <1>3, Owned DEF End
  <2>2. CASE Drains(n)
    <3>1. /\ StartTurn(t, Head(pending[t]), [pc EXCEPT ![n] = "release"])
          /\ pending' = [pending EXCEPT ![t] = Tail(@)] /\ pending[t] # <<>>
      BY <1>3, <2>2 DEF End, Drains
    <3>2. pending[t] \in Seq(1..MaxPrompts)
      BY <2>1 DEF Queues
    <3>3. /\ Head(pending[t]) = pending[t][1] /\ Head(pending[t]) \in 1..MaxPrompts
          /\ Len(Tail(pending[t])) = Len(pending[t]) - 1 /\ Len(pending[t]) \in Nat \ {0}
          /\ \A i \in 1..Len(Tail(pending[t])) : Tail(pending[t])[i] = pending[t][i + 1]
      <4> DEFINE q == pending[t]
      <4> HIDE DEF q
      <4>1. q \in Seq(1..MaxPrompts) /\ q # <<>>
        BY <3>1, <3>2 DEF q
      <4>2. Head(q) = q[1]
        BY <4>1
      <4>3. /\ Head(q) \in 1..MaxPrompts /\ Len(Tail(q)) = Len(q) - 1 /\ Len(q) \in Nat \ {0}
            /\ \A i \in 1..Len(Tail(q)) : Tail(q)[i] = q[i + 1]
        BY <4>1, HeadTailProperties, EmptySeq
      <4> QED
        BY <4>2, <4>3 DEF q
    <3>4. Head(pending[t]) = Len(ran[t]) + 1 /\ Len(ran[t]) \in Nat
      <4>1. Queues /\ InOrder
        BY DEF Flow, Ordered
      <4>2. Len(ran[t]) \in Nat
        BY <2>1, <4>1, Lengths
      <4> HIDE DEF t
      <4>3. 1 \in 1..Len(pending[t])
        BY <3>3
      <4>4. pending[t][1] = Len(ran[t]) + 1
        BY <2>1, <4>1, <4>3 DEF InOrder
      <4> QED
        BY <3>3, <4>2, <4>4
    <3>5. \A i \in 1..Len(Tail(pending[t])) : Tail(pending[t])[i] = Head(pending[t]) + i
      <4> TAKE i \in 1..Len(Tail(pending[t]))
      <4>1. i + 1 \in 1..Len(pending[t])
        BY <3>3
      <4>2. pending[t][i + 1] = Len(ran[t]) + (i + 1)
        BY <2>1, <4>1 DEF Ordered, InOrder
      <4> DEFINE a == Len(ran[t])
                 h == Head(pending[t])
                 y == Tail(pending[t])[i]
      <4>3. y = a + (i + 1) /\ h = a + 1 /\ a \in Nat
        BY <3>3, <3>4, <4>2
      <4> HIDE DEF a, h, y
      <4>4. y = h + i
        BY <4>3
      <4> QED
        BY <4>4 DEF h, y
    <3>6. /\ ran' = [ran EXCEPT ![t] = Append(ran[t], Head(pending[t]))]
          /\ pending' = [pending EXCEPT ![t] = Tail(pending[t])]
      BY <3>1 DEF StartTurn
    <3>7. InOrder'
      <4> HIDE DEF t
      <4> QED
        BY <2>1, <3>3, <3>4, <3>5, <3>6, StartedNext DEF Ordered
    <3>8. QueuedHasRunner'
      BY <2>1, <3>1 DEF StartTurn, Ordered, QueuedHasRunner, Types, Queues
    <3> QED
      BY <3>7, <3>8
  <2>3. CASE ~Drains(n)
    <3>1. pending[t] = <<>>
      BY <2>3 DEF Drains, AlwaysDrains
    <3> QED
      BY <1>1, <1>3, <2>1, <3>1 DEF End, Types
  <2> QED
    BY <2>2, <2>3
<1>4. ASSUME NEW n \in Turns, Admit(n)
      PROVE  InOrder' /\ QueuedHasRunner'
  <2>1. ~AdmitFails(n)
    BY DEF AdmitFails, Ordered, NoHold
  <2> QED
    BY <1>1, <1>4, <2>1 DEF Admit, Begin, Enter, Woken, SetRelease, threadVars
<1>5. ASSUME NEW n \in Turns, Work(n), ~End(n)
      PROVE  InOrder' /\ QueuedHasRunner'
  BY <1>1, <1>5 DEF Work, Ask, Park, Answered, AskFails, Finish, Close, threadVars
<1>6. CASE \/ \E t \in Threads : Cancel(t) \/ SetOverride(t)
           \/ \E n \in Turns : Answer(n)
           \/ Gate \/ Stop \/ UNCHANGED vars
  BY <1>1, <1>6 DEF Cancel, SetOverride, Answer, Gate, GateAsks, GateDone, GateEnter, Stop, Shutdown, GraceOver,
                    WaitDone, CloseAll, WaitFor, vars, threadVars
<1> QED
  BY <1>2, <1>3, <1>4, <1>5, <1>6 DEF Next, Clients

\* Prompts of a thread run one turn at a time and in the order they were sent,
\* and a queued prompt has a turn ahead that starts it as it ends.  It needs
\* AlwaysDrains: a turn whose admission is canceled, and a cycle, end without
\* drainPending, and TLC shows the prompt they leave behind.
THEOREM PromptsServedInTurn ==
    ASSUME AlwaysDrains
    PROVE  Spec => []PromptsInTurn
<1>1. Init => Ordered
  <2> SUFFICES ASSUME Init PROVE Ordered
    OBVIOUS
  <2>1. \A t \in Threads : ran[t] = <<>> /\ pending[t] = <<>> /\ Len(<<>>) = 0
    BY EmptySeq DEF Init
  <2> QED
    BY <2>1 DEF Init, Ordered, NoHold, InOrder, QueuedHasRunner
<1>2. Flow /\ Ordered /\ [Next]_vars => Ordered'
  BY NoHoldNext, OrderedNext DEF Ordered
<1>3. Flow /\ Admission /\ Ordered => PromptsInTurn
  BY FlowTyped, OrderedPrompts DEF Flow, Ordered, PromptsInTurn
<1> QED
  BY <1>1, <1>2, <1>3, AdmissionKept, PTL DEF Spec

\* Whatever ends a turn, a thread has one turn at work when it says it runs and
\* none when it does not.
THEOREM OneTurnAtWork == Spec => []OneTurn
<1>1. Flow => OneTurn
  BY DEF Flow
<1> QED
  BY <1>1, FlowKept, PTL
-----------------------------------------------------------------------------
(* Cycles *)

SeenFields == {"reproduced", "fixed", "green", "untriaged"}
LedgerFields == {"rows", "swept", "dismissed", "artifact"}

\* What a run's exit conditions have read when it is in a phase, and at its end.
Earned(seen, i) ==
    /\ i >= 2 => seen.reproduced # {}
    /\ i >= 3 => seen.fixed # {} /\ seen.green
CycleInv ==
    /\ x1 \in {"idle", "driving", "judging"} /\ x2 \in 1..3 /\ x14 \in Nat
    /\ DOMAIN x15 = SeenFields /\ DOMAIN x10 = LedgerFields /\ x10.artifact \in BOOLEAN
    /\ x1 # "idle" => Earned(x15, x2)
    /\ x4 = "done" => x1 = "idle" /\ Y!DoneEarned

\* A row of the ledger is kept, whatever a later call of the tools says (RecordSweep).
LEMMA SweepKeeps ==
  ASSUME NEW rows, NEW sites, NEW artifact \in BOOLEAN, DOMAIN rows = LedgerFields,
         rows.artifact \in BOOLEAN
  PROVE  LET after == Y!RecordSweep(rows, sites, artifact)
         IN  /\ DOMAIN after = LedgerFields /\ after.artifact \in BOOLEAN
             /\ after.rows = rows.rows /\ rows.dismissed \subseteq after.dismissed
             /\ (rows.artifact => after.artifact)
BY DEF LedgerFields, Y!RecordSweep

LEMMA CycleBegins == Y!Init => CycleInv
<1>1. SUFFICES ASSUME Y!Init PROVE CycleInv
  OBVIOUS
<1>2. x15 = [reproduced |-> {}, fixed |-> {}, green |-> FALSE, untriaged |-> {}]
      /\ x10 = [rows |-> {}, swept |-> FALSE, dismissed |-> {}, artifact |-> FALSE]
      /\ x1 = "idle" /\ x2 = 1 /\ x14 = 0 /\ x4 = "idle"
  BY <1>1 DEF Y!Init, Y!Unread, Y!NoRows
<1> QED
  BY <1>2 DEF CycleInv, SeenFields, LedgerFields, Y!DoneEarned

\* A phase ends on what its exit condition read (Holds).
LEMMA ReadingEarns ==
  ASSUME CycleInv, x1 # "idle", Y!Holds(x2)
  PROVE  /\ DOMAIN Y!Reading = SeenFields
         /\ x2 < 3 => Earned(Y!Reading, x2 + 1)
         /\ x2 = 3 => Earned(Y!Reading, 3) /\ Y!Reading.untriaged = {} /\ x10.swept
<1>1. x2 \in {1, 2, 3} /\ DOMAIN x15 = SeenFields /\ Earned(x15, x2)
  BY DEF CycleInv
<1>2. CASE x2 = 1
  <2>1. Y!Phases[x2] = "reproduce"
    BY <1>2 DEF Y!Phases
  <2>2. Y!Failing # {} /\ Y!Reading = [x15 EXCEPT !.reproduced = Y!Failing]
    BY <2>1 DEF Y!Holds, Y!Reading, Y!ArtifactFails
  <2> QED
    BY <1>1, <1>2, <2>2 DEF Earned, SeenFields
<1>3. CASE x2 = 2
  <2>1. Y!Phases[x2] = "fix"
    BY <1>3 DEF Y!Phases
  <2>2. Y!ChangedTests \ Y!Failing # {} /\ x11
        /\ Y!Reading = [x15 EXCEPT !.fixed = Y!ChangedTests \ Y!Failing, !.green = x11]
    BY <2>1 DEF Y!Holds, Y!Reading, Y!ArtifactPasses, Y!GatesGreen
  <2> QED
    BY <1>1, <1>3, <2>2 DEF Earned, SeenFields
<1>4. CASE x2 = 3
  <2>1. Y!Phases[x2] = "generalize"
    BY <1>4 DEF Y!Phases
  <2>2. /\ x10.swept /\ (Y!untriaged = {} \/ Y!durableArtifact)
        /\ Y!Reading = [x15 EXCEPT !.untriaged = IF Y!durableArtifact THEN {} ELSE Y!untriaged]
    BY <2>1 DEF Y!Holds, Y!Reading, Y!SweepAccounted
  <2> QED
    BY <1>1, <1>4, <2>2 DEF Earned, SeenFields
<1> QED
  BY <1>1, <1>2, <1>3, <1>4

LEMMA CycleNext == ASSUME CycleInv, Y!Next PROVE CycleInv' /\ Y!LedgerKept
<1>1. CASE Y!Begin
  <2>1. /\ x1' = "driving" /\ x2' = 1 /\ x4' = "working" /\ x14' = x14 + 1
        /\ x15' = [reproduced |-> {}, fixed |-> {}, green |-> FALSE, untriaged |-> {}]
        /\ x10' = [rows |-> {}, swept |-> FALSE, dismissed |-> {}, artifact |-> FALSE]
    BY <1>1 DEF Y!Begin, Y!Unread, Y!NoRows
  <2>2. x14 \in Nat
    BY DEF CycleInv
  <2>3. Y!LedgerKept
    BY <2>1, <2>2 DEF Y!LedgerKept
  <2> QED
    BY <2>1, <2>2, <2>3 DEF CycleInv, SeenFields, LedgerFields, Earned
<1>2. CASE /\ x1' = x1 /\ x2' = x2 /\ x4' = x4 /\ x14' = x14 /\ x15' = x15
           /\ DOMAIN x10' = LedgerFields /\ x10'.artifact \in BOOLEAN
           /\ x10.rows \subseteq x10'.rows /\ x10.dismissed \subseteq x10'.dismissed
           /\ (x10.artifact => x10'.artifact)
           /\ x1 = "idle" => x10' = x10
  <2>1. Y!LedgerKept
    BY <1>2 DEF Y!LedgerKept
  <2> QED
    BY <1>2, <2>1 DEF CycleInv, Earned, Y!DoneEarned
<1>3. CASE Y!EditTest \/ Y!EditCode \/ Y!Cancel
  BY <1>2, <1>3 DEF Y!EditTest, Y!EditCode, Y!Cancel, CycleInv
<1>4. CASE Y!Hypothesize
  BY <1>2, <1>4 DEF Y!Hypothesize, CycleInv, LedgerFields
<1>5. CASE Y!Sweep
  <2>1. PICK sites \in {{}} \cup {{s} : s \in CycleSites}, artifact \in BOOLEAN :
          x10' = Y!RecordSweep(x10, sites, artifact)
    BY <1>5 DEF Y!Sweep
  <2>2. DOMAIN x10 = LedgerFields /\ x10.artifact \in BOOLEAN
    BY DEF CycleInv
  <2>3. x1 = "driving" /\ x1' = x1 /\ x2' = x2 /\ x4' = x4 /\ x14' = x14 /\ x15' = x15
    BY <1>5 DEF Y!Sweep
  <2> QED
    BY <1>2, <2>1, <2>2, <2>3, SweepKeeps
<1>6. CASE Y!DriveEnds
  <2>1. /\ x1 = "driving" /\ x1' = "judging" /\ x2' = x2 /\ x4' = x4 /\ x14' = x14 /\ x15' = x15
        /\ x10' = x10
    BY <1>6 DEF Y!DriveEnds
  <2>2. Y!LedgerKept
    BY <2>1 DEF Y!LedgerKept
  <2> QED
    BY <2>1, <2>2 DEF CycleInv, Earned
<1>7. CASE Y!Judge
  <2>1. x1 = "judging" /\ x14' = x14 /\ x10' = x10 /\ x4 # "done"
    BY <1>7 DEF Y!Judge, CycleInv
  <2>2. Y!LedgerKept
    BY <2>1 DEF Y!LedgerKept
  <2>3. x2 \in {1, 2, 3} /\ DOMAIN x15 = SeenFields /\ Earned(x15, x2)
    BY <2>1 DEF CycleInv
  <2>4. Len(Y!Phases) = 3
    BY DEF Y!Phases
  <2>5. CASE Y!Holds(x2)
    <3>1. x15' = Y!Reading
      BY <1>7, <2>5 DEF Y!Judge
    <3>2. /\ DOMAIN Y!Reading = SeenFields
          /\ x2 < 3 => Earned(Y!Reading, x2 + 1)
          /\ x2 = 3 => Earned(Y!Reading, 3) /\ Y!Reading.untriaged = {} /\ x10.swept
      BY <2>1, <2>5, ReadingEarns
    <3>3. CASE x2 = 3
      <4>1. x1' = "idle" /\ x4' = "done" /\ x2' = x2
        BY <1>7, <2>4, <2>5, <3>3 DEF Y!Judge, Y!Finish
      <4> QED
        BY <2>1, <2>2, <3>1, <3>2, <3>3, <4>1 DEF CycleInv, Y!DoneEarned, Earned
    <3>4. CASE x2 # 3
      <4>1. x1' = "driving" /\ x2' = x2 + 1 /\ x4' = x4
        BY <1>7, <2>3, <2>4, <2>5, <3>4 DEF Y!Judge
      <4> QED
        BY <2>1, <2>2, <2>3, <3>1, <3>2, <3>4, <4>1 DEF CycleInv
    <3> QED
      BY <3>3, <3>4
  <2>6. CASE ~Y!Holds(x2)
    <3>1. x15' = x15 /\ x2' = x2 /\ x1' \in {"driving", "idle"} /\ x4' \in {x4, "failed"}
      BY <1>7, <2>6 DEF Y!Judge, Y!Finish
    <3> QED
      BY <2>1, <2>2, <2>3, <3>1 DEF CycleInv
  <2> QED
    BY <2>5, <2>6
<1>8. CASE Y!Broken
  <2>1. /\ x1 # "idle" /\ x1' = "idle" /\ x4' \in {x4, "failed"} /\ x2' = x2 /\ x14' = x14
        /\ x15' = x15 /\ x10' = x10
    BY <1>8 DEF Y!Broken
  <2>2. Y!LedgerKept
    BY <2>1 DEF Y!LedgerKept
  <2> QED
    BY <2>1, <2>2 DEF CycleInv
<1> QED
  BY <1>1, <1>3, <1>4, <1>5, <1>6, <1>7, <1>8 DEF Y!Next
-----------------------------------------------------------------------------
(* Finish checks *)

\* What a finished run found is what Check finds of the tree it stopped at.
FinishInv ==
    /\ DOMAIN x8 = {"read", "wrote"} /\ x8.wrote \subseteq RunFiles
    /\ N!FixtureReported

LEMMA RunBegins == N!Init => FinishInv
<1> SUFFICES ASSUME N!Init PROVE FinishInv
  OBVIOUS
<1> QED
  BY DEF N!Init, FinishInv, N!FixtureReported

\* Nothing happens after a run has stopped, and the stop that completes it is the check.
LEMMA FinishNext == ASSUME FinishInv, N!Next PROVE FinishInv'
<1>1. CASE \E kind \in {"read", "edit", "write", "shell"}, f \in RunFiles, v \in RunTexts,
            allowed \in BOOLEAN, pre, post \in N!HookEnds : N!RunTool(kind, f, v, allowed, pre, post)
  <2>1. PICK kind \in {"read", "edit", "write", "shell"}, f \in RunFiles, v \in RunTexts,
            allowed \in BOOLEAN, pre \in N!HookEnds, post \in N!HookEnds :
            N!RunTool(kind, f, v, allowed, pre, post)
    BY <1>1
  <2>2. x11' = "" /\ (x8' = x8 \/ N!Tool(kind, f, v))
    BY <2>1 DEF N!RunTool
  <2>3. x8' \in {x8, [x8 EXCEPT !.read = @ \cup {f}], [x8 EXCEPT !.wrote = @ \cup {f}]}
    BY <2>2 DEF N!Tool
  <2> QED
    BY <2>2, <2>3 DEF FinishInv, N!FixtureReported
<1>2. CASE \E f \in RunFiles, v \in RunTexts, w \in BOOLEAN : N!Other(f, v, w)
  BY <1>2 DEF N!Other, FinishInv, N!FixtureReported
<1>3. CASE \E a \in RunTasks : N!EndTurn([paths |-> a.paths, syms |-> a.syms, said |-> TRUE])
  BY <1>3 DEF N!EndTurn, FinishInv, N!FixtureReported
<1>4. CASE N!Complete(TRUE)
  <2>1. /\ x10' = N!Check /\ x1' = x1 /\ x5' = x5 /\ x8' = x8 /\ x9' = x9
    BY <1>4 DEF N!Complete
  <2>2. ASSUME x5, NEW f \in x8.wrote \cap RunFixtures, x1[f] # RunStart[f], f \notin x9.paths
        PROVE  <<"fixture", f>> \in N!Check
    <3>1. f \in N!wrote
      BY <2>2 DEF N!wrote, FinishInv
    <3>2. <<"fixture", f>> \in N!FixturesAreAccountedFor
      BY <2>2, <3>1 DEF N!FixturesAreAccountedFor
    <3> QED
      BY <3>2 DEF N!Check
  <2> QED
    BY <2>1, <2>2 DEF FinishInv, N!FixtureReported
<1>5. CASE N!Complete(FALSE) \/ \E ok \in BOOLEAN : N!Abandon(ok)
  BY <1>5 DEF N!Complete, N!Abandon, FinishInv, N!FixtureReported
<1> QED
  BY <1>1, <1>2, <1>3, <1>4, <1>5 DEF N!Next
-----------------------------------------------------------------------------
(* Lists and confirmations *)

NoPrompt == [id |-> "none", thread |-> "none", question |-> FALSE]
\* A field that is open was opened for a question, so what is typed in it is for one.
AnswersInv ==
    /\ \A a \in x8 : a.prompt.question => a.text /\ a.typedFor.question
    /\ "answering" \in DOMAIN x5 /\ (x5.answering # NoPrompt => x5.answering.question)
    /\ "answering" \in DOMAIN x7 /\ (x7.answering # NoPrompt => x7.answering.question)

LEMMA ListsBegin ==
  ASSUME NEW Views, NEW MaxFlight, Lists(Views, MaxFlight)!Init
  PROVE  AnswersInv
BY DEF Lists!Init, AnswersInv, Lists!None, NoPrompt

LEMMA ListsNext ==
  ASSUME NEW Views, NEW MaxFlight, AnswersInv, Lists(Views, MaxFlight)!Next
  PROVE  AnswersInv'
<1>1. CASE UNCHANGED <<x5, x7, x8>>
  BY <1>1 DEF AnswersInv
<1>2. CASE Lists(Views, MaxFlight)!Ask \/ Lists(Views, MaxFlight)!Withdraw
           \/ Lists(Views, MaxFlight)!forwardPending \/ Lists(Views, MaxFlight)!Serve
           \/ Lists(Views, MaxFlight)!list \/ Lists(Views, MaxFlight)!refresh
  BY <1>1, <1>2 DEF Lists!Ask, Lists!Withdraw, Lists!forwardPending, Lists!Serve, Lists!list,
     Lists!refresh
<1>3. CASE Lists(Views, MaxFlight)!Apply \/ Lists(Views, MaxFlight)!toggleScope
           \/ Lists(Views, MaxFlight)!toggleArchiveView
           \/ Lists(Views, MaxFlight)!archiveSelection \/ Lists(Views, MaxFlight)!Move
  <2>1. x7' = x7 /\ x8' = x8
    BY <1>3 DEF Lists!Apply, Lists!toggleScope, Lists!toggleArchiveView,
       Lists!archiveSelection, Lists!Move
  <2>2. DOMAIN x5' = DOMAIN x5 /\ x5'.answering = x5.answering
    <3>1. CASE Lists(Views, MaxFlight)!Apply
      BY <3>1 DEF Lists!Apply, Lists!replaceThreads, Lists!upsertThread, AnswersInv
    <3>2. CASE Lists(Views, MaxFlight)!toggleScope \/ Lists(Views, MaxFlight)!toggleArchiveView
               \/ Lists(Views, MaxFlight)!archiveSelection
      BY <3>2 DEF Lists!toggleScope, Lists!toggleArchiveView, Lists!archiveSelection, AnswersInv
    <3>3. CASE Lists(Views, MaxFlight)!Move
      BY <3>3 DEF Lists!Move, AnswersInv
    <3> QED
      BY <1>3, <3>1, <3>2, <3>3
  <2> QED
    BY <2>1, <2>2 DEF AnswersInv
<1>4. CASE Lists(Views, MaxFlight)!HomeAnswerKey
  <2>1. x7' = x7
    BY <1>4 DEF Lists!HomeAnswerKey, Lists!homeAnswerSelection
  <2>2. CASE Lists(Views, MaxFlight)!homeAnswerSelection
    <3> DEFINE ps == Lists(Views, MaxFlight)!Answerable(x5.selected)
    <3>1. x8' = {Lists(Views, MaxFlight)!Answer(p, FALSE, Lists(Views, MaxFlight)!None) : p \in ps}
      BY <2>2 DEF Lists!homeAnswerSelection
    <3>2. \A p \in ps : ~p.question
      BY DEF Lists!Answerable
    <3>3. DOMAIN x5' = DOMAIN x5 /\ x5'.answering = x5.answering
      BY <2>2 DEF Lists!homeAnswerSelection, AnswersInv
    <3>4. ASSUME NEW a \in x8' PROVE ~a.prompt.question
      BY <3>1, <3>2, <3>4 DEF Lists!Answer
    <3> QED
      BY <2>1, <3>3, <3>4 DEF AnswersInv
  <2>3. CASE Lists(Views, MaxFlight)!homeAnswer
    <3> DEFINE p == Lists(Views, MaxFlight)!pendingFor(Lists(Views, MaxFlight)!Row)
    <3>1. CASE x8' = x8 /\ x5' = [x5 EXCEPT !.answering = NoPrompt]
      BY <2>1, <3>1 DEF AnswersInv
    <3>2. CASE x8' = x8 /\ p.question /\ x5' = [x5 EXCEPT !.answering = p]
      BY <2>1, <3>2 DEF AnswersInv
    <3>3. CASE /\ p.question => x5.answering # NoPrompt
               /\ x8' = {Lists(Views, MaxFlight)!Answer(p, p.question, x5.answering)}
               /\ x5' = [x5 EXCEPT !.answering = NoPrompt]
      <4>1. ASSUME NEW a \in x8', a.prompt.question PROVE a.text /\ a.typedFor.question
        <5>1. /\ a = [prompt |-> p, text |-> p.question, typedFor |-> x5.answering]
          BY <3>3, <4>1 DEF Lists!Answer
        <5>2. a.prompt = p /\ a.text = p.question /\ a.typedFor = x5.answering
          BY <5>1
        <5>3. p.question
          BY <4>1, <5>2
        <5> QED
          BY <3>3, <5>2, <5>3 DEF AnswersInv
      <4> QED
        BY <2>1, <3>3, <4>1 DEF AnswersInv
    <3> QED
      BY <2>3, <3>1, <3>2, <3>3 DEF Lists!homeAnswer, Lists!None, NoPrompt
  <2> QED
    BY <1>4, <2>2, <2>3 DEF Lists!HomeAnswerKey
<1>5. CASE Lists(Views, MaxFlight)!InboxKey
  <2> DEFINE row == x6[Lists(Views, MaxFlight)!cappedCursor(Len(x6), x7.cursor)]
  <2>1. x5' = x5
    BY <1>5 DEF Lists!InboxKey
  <2>2. CASE row.question /\ x7' = [x7 EXCEPT !.answering = row] /\ x8' = x8
    BY <2>1, <2>2 DEF AnswersInv
  <2>3. CASE x8' = x8 /\ \E i \in DOMAIN x6 : x7' = [x7 EXCEPT !.cursor = i]
    BY <2>1, <2>3 DEF AnswersInv
  <2>4. CASE /\ row.question => x7.answering # NoPrompt
             /\ x8' = {Lists(Views, MaxFlight)!Answer(row, x7.answering # NoPrompt, x7.answering)}
             /\ x7' = [x7 EXCEPT !.answering = NoPrompt]
    <3>1. ASSUME NEW a \in x8', a.prompt.question PROVE a.text /\ a.typedFor.question
      <4>1. a = [prompt |-> row, text |-> x7.answering # NoPrompt, typedFor |-> x7.answering]
        BY <2>4, <3>1 DEF Lists!Answer
      <4>2. a.prompt = row /\ a.text = (x7.answering # NoPrompt) /\ a.typedFor = x7.answering
        BY <4>1
      <4> QED
        BY <2>4, <3>1, <4>2 DEF AnswersInv
    <3> QED
      BY <2>1, <2>4, <3>1 DEF AnswersInv
  <2> QED
    BY <1>5, <2>2, <2>3, <2>4 DEF Lists!InboxKey, Lists!None, NoPrompt
<1>6. CASE Lists(Views, MaxFlight)!ThreadAnswerKey
  <2>1. PICK p : /\ ~p.question
                 /\ x8' = {Lists(Views, MaxFlight)!Answer(p, FALSE, Lists(Views, MaxFlight)!None)}
                 /\ x5' = [x5 EXCEPT !.answering = Lists(Views, MaxFlight)!None]
                 /\ x7' = x7
    BY <1>6 DEF Lists!ThreadAnswerKey
  <2>2. \A a \in x8' : ~a.prompt.question
    BY <2>1 DEF Lists!Answer
  <2> QED
    BY <2>1, <2>2 DEF AnswersInv, Lists!None, NoPrompt
<1> QED
  BY <1>2, <1>3, <1>4, <1>5, <1>6 DEF Lists!Next
-----------------------------------------------------------------------------
\* A command under way that changes what is installed carries the user's word for its model.
AgreedInv ==
    \A f \in x9 : f.kind \in {"install", "remove"} /\ f.confirm => \E a \in x6 : a.model = f.model

LEMMA DialogBegins ==
  ASSUME NEW Models, NEW Parts, Dialog(Models, Parts)!Init
  PROVE  AgreedInv
BY DEF Dialog!Init, AgreedInv

LEMMA DialogNext ==
  ASSUME NEW Models, NEW Parts, AgreedInv, Dialog(Models, Parts)!Next
  PROVE  AgreedInv' /\ Dialog(Models, Parts)!OnlyAgreed
<1>1. x6 \subseteq x6'
  BY DEF Dialog!Next, Dialog!modelVars, Dialog!requestRestore, Dialog!RestoreKey, Dialog!ServeRestore,
     Dialog!ApplyRestore, Dialog!ModelList, Dialog!ModelConfirm, Dialog!saveModelField,
     Dialog!ServeModel, Dialog!ApplyModels
<1>2. ASSUME x3' = x3,
             \A f \in x9' \ x9 : f.kind \in {"install", "remove"} /\ f.confirm =>
                                   \E a \in x6' : a.model = f.model
      PROVE  AgreedInv' /\ Dialog(Models, Parts)!OnlyAgreed
  BY <1>1, <1>2 DEF AgreedInv, Dialog!OnlyAgreed
<1>3. CASE Dialog(Models, Parts)!requestRestore
  BY <1>2, <1>3 DEF Dialog!requestRestore, Dialog!Send, Dialog!restoreTo, Dialog!modelVars
<1>4. CASE Dialog(Models, Parts)!RestoreKey
  BY <1>2, <1>4 DEF Dialog!RestoreKey, Dialog!Send, Dialog!restoreTo, Dialog!modelVars
<1>5. CASE Dialog(Models, Parts)!ServeRestore
  BY <1>2, <1>5 DEF Dialog!ServeRestore, Dialog!Served, Dialog!modelVars
<1>6. CASE Dialog(Models, Parts)!ApplyRestore
  BY <1>2, <1>6 DEF Dialog!ApplyRestore, Dialog!Served, Dialog!modelVars
<1>7. CASE Dialog(Models, Parts)!ModelList
  <2>1. PICK kind, m : x9' = x9 \cup {[kind |-> kind, model |-> m, confirm |-> FALSE]}
    BY <1>7 DEF Dialog!ModelList, Dialog!requestPreview, Dialog!Send, Dialog!command
  <2>2. \A f \in x9' \ x9 : ~f.confirm
    BY <2>1
  <2>3. x3' = x3
    BY <1>7 DEF Dialog!ModelList
  <2> QED
    BY <1>2, <2>2, <2>3
<1>8. CASE Dialog(Models, Parts)!ModelConfirm
  <2>1. x3' = x3
    BY <1>8 DEF Dialog!ModelConfirm
  <2>2. CASE x9' = x9
    BY <1>2, <2>1, <2>2
  <2>3. CASE /\ x9' = x9 \cup {Dialog(Models, Parts)!command(x5.action, x5.pending, TRUE)}
             /\ x6' = x6 \cup {[action |-> x5.action, model |-> x5.pending]}
    <3>1. \A f \in x9' \ x9 : f.model = x5.pending
      BY <2>3 DEF Dialog!command
    <3> DEFINE yes == [action |-> x5.action, model |-> x5.pending]
    <3>2. yes \in x6' /\ yes.model = x5.pending
      BY <2>3
    <3> HIDE DEF yes
    <3> QED
      BY <1>2, <2>1, <3>1, <3>2
  <2> QED
    BY <1>8, <2>2, <2>3 DEF Dialog!ModelConfirm, Dialog!Send
<1>9. CASE Dialog(Models, Parts)!saveModelField
  BY <1>2, <1>9 DEF Dialog!saveModelField, Dialog!Send
<1>10. CASE Dialog(Models, Parts)!ServeModel
  <2>1. PICK f \in x9 :
          \/ /\ x3' = x3
             /\ \E list, note : x9' = (x9 \ {f}) \cup {[kind |-> "listing", list |-> list, note |-> note]}
          \/ x3' = x3 /\ x9' = (x9 \ {f}) \cup {[kind |-> "failed"]}
          \/ /\ f.kind = "install" /\ x3' = (IF f.confirm THEN x3 \cup {f.model} ELSE x3)
             /\ \E list, note : x9' = (x9 \ {f}) \cup {[kind |-> "listing", list |-> list, note |-> note]}
          \/ /\ f.kind = "remove" /\ x3' = (IF f.confirm THEN x3 \ {f.model} ELSE x3)
             /\ \E list, note : x9' = (x9 \ {f}) \cup {[kind |-> "listing", list |-> list, note |-> note]}
    BY <1>10 DEF Dialog!ServeModel, Dialog!Served, Dialog!Listing, Dialog!installModel, Dialog!removeModel
  <2>2. \A g \in x9' \ x9 : g.kind \in {"listing", "failed"}
    BY <2>1
  <2>3. AgreedInv'
    BY <1>1, <2>2 DEF AgreedInv
  <2>4. ASSUME NEW m \in Models, (m \in x3) # (m \in x3') PROVE \E a \in x6 : a.model = m
    <3>1. f.kind \in {"install", "remove"} /\ f.confirm /\ m = f.model
      BY <2>1, <2>4
    <3> QED
      BY <3>1 DEF AgreedInv
  <2> QED
    BY <2>3, <2>4 DEF Dialog!OnlyAgreed
<1>11. CASE Dialog(Models, Parts)!ApplyModels
  BY <1>2, <1>11 DEF Dialog!ApplyModels, Dialog!Served
<1> QED
  BY <1>3, <1>4, <1>5, <1>6, <1>7, <1>8, <1>9, <1>10, <1>11 DEF Dialog!Next
-----------------------------------------------------------------------------
(* The theorems about MCWork's components *)

WorkInv ==
    /\ part = "cycle" => CycleInv
    /\ part = "finish" => FinishInv
    /\ part \in {"home", "archive"} => AnswersInv
    /\ part \in {"actions", "settings"} => AgreedInv

LEMMA WorkBegins == WorkInit => WorkInv
<1> SUFFICES ASSUME WorkInit PROVE WorkInv
  OBVIOUS
<1>1. /\ part = "cycle" => Y!Init
      /\ part = "finish" => N!Init
      /\ part = "home" => Lists(Watched, 1)!Init
      /\ part = "archive" => Lists(Archived, 2)!Init
      /\ part = "actions" => Dialog(ActionModels, {"actions"})!Init
      /\ part = "settings" => Dialog(SettingsModels, {"settings"})!Init
  BY DEF WorkInit, PartInit
<1> QED
  BY <1>1, CycleBegins, RunBegins, ListsBegin, DialogBegins DEF WorkInv

LEMMA WorkKept ==
  ASSUME WorkInv, [WorkNext]_workVars
  PROVE  /\ WorkInv'
         /\ part = "cycle" => Y!LedgerKept
         /\ part = "actions" => Dialog(ActionModels, {"actions"})!OnlyAgreed
         /\ part = "settings" => Dialog(SettingsModels, {"settings"})!OnlyAgreed
<1>1. CASE WorkNext
  <2>1. /\ part' = part
        /\ part = "cycle" => Y!Next
        /\ part = "finish" => N!Next
        /\ part = "home" => Lists(Watched, 1)!Next
        /\ part = "archive" => Lists(Archived, 2)!Next
        /\ part = "actions" => Dialog(ActionModels, {"actions"})!Next
        /\ part = "settings" => Dialog(SettingsModels, {"settings"})!Next
    BY <1>1 DEF WorkNext, OtherNext
  <2> QED
    BY <2>1, CycleNext, FinishNext, ListsNext, DialogNext DEF WorkInv
<1>2. CASE UNCHANGED workVars
  <2>1. part' = part /\ others' = others
    BY <1>2 DEF workVars
  <2>2. CycleInv => CycleInv' /\ Y!LedgerKept
    BY <2>1 DEF others, CycleInv, Earned, Y!DoneEarned, Y!LedgerKept
  <2>3. FinishInv => FinishInv'
    BY <2>1 DEF others, FinishInv, N!FixtureReported
  <2>4. (AnswersInv => AnswersInv') /\ (AgreedInv => AgreedInv')
    BY <2>1 DEF others, AnswersInv, AgreedInv
  <2>5. /\ Dialog(ActionModels, {"actions"})!OnlyAgreed
        /\ Dialog(SettingsModels, {"settings"})!OnlyAgreed
    BY <2>1 DEF others, Dialog!OnlyAgreed
  <2> QED
    BY <2>1, <2>2, <2>3, <2>4, <2>5 DEF WorkInv
<1> QED
  BY <1>1, <1>2

\* A cycle is done only on what its exit conditions read of the tree, over a ledger that
\* only grows, and a golden fixture that a completed run left changed is in its answer or in
\* its findings (run.go, conditions.go, ledger.go, app/finish.go).
THEOREM WorkIsEarned == WorkSpec => WorkEarned
<1>1. WorkInv => (part = "cycle" => Y!DoneEarned) /\ (part = "finish" => N!FixtureReported)
  BY DEF WorkInv, CycleInv, FinishInv, Y!DoneEarned
<1> QED
  BY <1>1, WorkBegins, WorkKept, PTL DEF WorkSpec, WorkEarned

\* Whatever list shifts under the cursor and in whatever order replies come, no key alone
\* answers a question, and no model is installed or removed without the user's word for it
\* (home.go, inbox.go, thread.go, models.go).
THEOREM AnswersAreMeant == WorkSpec => AnswersMeant
<1>1. WorkInv => /\ part = "home" => Lists(Watched, 1)!QuestionsGetText
                 /\ part = "archive" => Lists(Archived, 2)!QuestionsGetText
  BY DEF WorkInv, AnswersInv, Lists!QuestionsGetText
<1> QED
  BY <1>1, WorkBegins, WorkKept, PTL DEF WorkSpec, AnswersMeant
=============================================================================

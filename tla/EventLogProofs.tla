--------------------------- MODULE EventLogProofs ----------------------------
(***************************************************************************)
(* Proofs about EventLog: a subscription is the log from where it was      *)
(* asked for.                                                              *)
(***************************************************************************)
EXTENDS EventLog, FiniteSetTheorems, TLAPS

\* The stages of a subscription the log knows of.
On == {"since", "backlog", "drain", "batch", "wait"}

Subscription ==
    [stage : On \cup {"none", "failed"}, from : Nat, head : Nat, queue : Seq(Nat), lagged : BOOLEAN,
     notify : BOOLEAN, todo : Seq(Nat), got : Seq(Nat)]

\* The events in q, whether it says that some are missing, and that none is there twice.
In(q) == {q[i] : i \in DOMAIN q} \ {Lag}
HasLag(q) == \E i \in DOMAIN q : q[i] = Lag
Single(q) == \A i, j \in DOMAIN q : i # j => q[i] = Lag \/ q[i] # q[j]

\* The numbers of the first n events that come after from.
Beyond(from, n) == {e \in 1..n : e > from}

\* What appenders have still to offer to s.
Pending(s) == {offering[a].ev : a \in {b \in Appenders : s \in offering[b].to}}

-----------------------------------------------------------------------------
(* What holds of a subscription r when n events are on file, the last      *)
(* number given is m and those of P are still to be offered to it.         *)

\* The backlog is of events up to the head, what is offered comes after it.
Bounded(r, n, m, P) ==
    /\ r.from <= r.head /\ r.head <= m
    /\ P \subseteq Beyond(r.head, n) /\ In(r.queue) \subseteq Beyond(r.head, n) /\ ~HasLag(r.queue)
    /\ In(r.got) \cup In(r.todo) \subseteq Beyond(r.from, n)

\* No event is in two places, or twice in one.
Once(r, P) ==
    /\ Single(r.got) /\ Single(r.todo) /\ Single(r.queue)
    /\ In(r.got) \cap In(r.todo) = {} /\ In(r.got) \cap In(r.queue) = {} /\ In(r.got) \cap P = {}
    /\ In(r.todo) \cap In(r.queue) = {} /\ In(r.todo) \cap P = {} /\ In(r.queue) \cap P = {}

\* Nothing is missing unless the subscriber has been, or will be, told so.
Whole(r, n, P) ==
    ~r.lagged /\ ~HasLag(r.got) /\ ~HasLag(r.todo) =>
        Beyond(IF r.stage = "since" THEN r.head ELSE r.from, n)
            = In(r.got) \cup In(r.todo) \cup In(r.queue) \cup P

\* forward sleeps over an empty queue only.
Awake(r) ==
    /\ r.stage = "since" => r.got = <<>> /\ r.todo = <<>>
    /\ r.stage \in {"drain", "wait"} => r.todo = <<>>
    /\ r.stage \in {"batch", "wait"} /\ ~r.notify => r.queue = <<>> /\ ~r.lagged

Sound(r, n, m, P) ==
    IF r.stage \in On THEN Bounded(r, n, m, P) /\ Once(r, P) /\ Whole(r, n, P) /\ Awake(r)
                      ELSE r.got = <<>> /\ (r.stage = "none" => P = {})

\* The file is the events in order, the ring the newest of them.
Filed ==
    /\ disk \in Seq(Nat) /\ \A i \in DOMAIN disk : disk[i] = i
    /\ ring \in Seq(Nat) /\ Len(ring) <= Len(disk)
    /\ \A i \in DOMAIN ring : ring[i] = Len(disk) - Len(ring) + i
    /\ seq \in Nat /\ seq >= Len(disk) /\ (~broken => seq = Len(disk))

\* Appenders have different events to offer.
Offered ==
    /\ offering \in [Appenders -> [ev : Nat, to : SUBSET Subs]]
    /\ \A a \in Appenders : offering[a].ev <= Len(disk)
    /\ \A a, b \in Appenders :
          a # b /\ offering[a].to # {} /\ offering[b].to # {} => offering[a].ev # offering[b].ev

StreamInv ==
    /\ Filed /\ Offered /\ sub \in [Subs -> Subscription]
    /\ \A s \in Subs : Sound(sub[s], Len(disk), seq, Pending(s))

-----------------------------------------------------------------------------
(* Choosing from a sequence *)

\* Counting the members up to each numbers a finite set of numbers.
LEMMA Ranks ==
    ASSUME NEW len \in Nat, NEW at \in SUBSET (1..len)
    PROVE  /\ Cardinality(at) \in Nat
           /\ \A i \in at : Cardinality({j \in at : j <= i}) \in 1..Cardinality(at)
           /\ \A i, k \in at :
                Cardinality({j \in at : j <= i}) = Cardinality({j \in at : j <= k}) => i = k
           /\ \A n \in 1..Cardinality(at) : \E i \in at : Cardinality({j \in at : j <= i}) = n
<1> DEFINE UpToHere(i) == {j \in at : j <= i}
           card == Cardinality(at)
<1>1. IsFiniteSet(at) /\ card \in Nat
  <2>1. IsFiniteSet(1..len)
    BY FS_Interval
  <2> QED
    BY <2>1, FS_Subset, FS_CardinalityType
<1>2. \A i \in at : /\ UpToHere(i) \in SUBSET at /\ IsFiniteSet(UpToHere(i))
                    /\ Cardinality(UpToHere(i)) \in 1..card
  <2> SUFFICES ASSUME NEW i \in at
               PROVE  /\ UpToHere(i) \in SUBSET at /\ IsFiniteSet(UpToHere(i))
                      /\ Cardinality(UpToHere(i)) \in 1..card
    OBVIOUS
  <2>1. UpToHere(i) \in SUBSET at /\ i \in UpToHere(i)
    OBVIOUS
  <2> DEFINE U == UpToHere(i)
  <2> HIDE DEF UpToHere
  <2>2. IsFiniteSet(U) /\ Cardinality(U) <= card /\ Cardinality(U) \in Nat
    BY <1>1, <2>1, FS_Subset, FS_CardinalityType
  <2>3. Cardinality(U) # 0
    BY <2>1, <2>2, FS_EmptySet
  <2> QED
    BY <1>1, <2>1, <2>2, <2>3
<1>3. \A i, k \in at : i < k => Cardinality(UpToHere(i)) # Cardinality(UpToHere(k))
  <2> SUFFICES ASSUME NEW i \in at, NEW k \in at, i < k
               PROVE  Cardinality(UpToHere(i)) # Cardinality(UpToHere(k))
    OBVIOUS
  <2>1. UpToHere(i) \in SUBSET UpToHere(k) /\ UpToHere(i) # UpToHere(k)
    <3>1. k \in UpToHere(k) /\ k \notin UpToHere(i)
      OBVIOUS
    <3>2. \A j \in at : j <= i => j <= k
      OBVIOUS
    <3> QED
      BY <3>1, <3>2
  <2> HIDE DEF UpToHere
  <2> QED
    BY <1>2, <2>1, FS_Subset
<1> HIDE DEF UpToHere
<1>4. \A i, k \in at : Cardinality(UpToHere(i)) = Cardinality(UpToHere(k)) => i = k
  <2>1. \A i, k \in at : i = k \/ i < k \/ k < i
    OBVIOUS
  <2> QED
    BY <1>3, <2>1
<1>5. \A n \in 1..card : \E i \in at : Cardinality(UpToHere(i)) = n
  <2> DEFINE rank == [i \in at |-> Cardinality(UpToHere(i))]
  <2>1. rank \in Injection(at, 1..card)
    BY <1>2, <1>4 DEF Injection, IsInjective
  <2>2. IsFiniteSet(1..card) /\ Cardinality(1..card) = card
    BY <1>1, FS_Interval
  <2>3. rank \in Surjection(at, 1..card)
    <3> HIDE DEF rank
    <3> QED
      BY <2>1, <2>2, FS_Injection
  <2> QED
    BY <2>3 DEF Surjection
<1> QED
  BY <1>1, <1>2, <1>4, <1>5 DEF UpToHere

\* What is picked is what is at the positions, each once.
LEMMA PickedFacts ==
    ASSUME NEW S, NEW q \in Seq(S), NEW at \in SUBSET DOMAIN q
    PROVE  \E p \in Seq(S) :
              /\ p = Picked(q, at)
              /\ \A n \in DOMAIN p : \E i \in at : p[n] = q[i]
              /\ \A i \in at : \E n \in DOMAIN p : p[n] = q[i]
              /\ \A m, n \in DOMAIN p : m # n =>
                    \E i, j \in at : i # j /\ p[m] = q[i] /\ p[n] = q[j]
<1> DEFINE Rank(i) == Cardinality({j \in at : j <= i})
           Pos(n) == CHOOSE i \in at : Rank(i) = n
           card == Cardinality(at)
           p == Picked(q, at)
<1>1. /\ card \in Nat
      /\ \A i \in at : Rank(i) \in 1..card
      /\ \A i, k \in at : Rank(i) = Rank(k) => i = k
      /\ \A n \in 1..card : \E i \in at : Rank(i) = n
  <2>1. Len(q) \in Nat /\ at \in SUBSET (1..Len(q))
    OBVIOUS
  <2> DEFINE len == Len(q)
  <2> HIDE DEF len
  <2>2. len \in Nat /\ at \in SUBSET (1..len)
    BY <2>1 DEF len
  <2> QED
    BY <2>2, Ranks
<1> HIDE DEF Rank
<1>2. \A n \in 1..card : Pos(n) \in at /\ Rank(Pos(n)) = n
  BY <1>1
<1>3. p = [n \in 1..card |-> q[Pos(n)]]
  BY DEF Picked, Rank
<1> HIDE DEF Pos, p, card
<1>4. \A i \in at : q[i] \in S
  OBVIOUS
<1>5. p \in Seq(S) /\ DOMAIN p = 1..card
  BY <1>1, <1>2, <1>3, <1>4
<1>6. \A i \in at : p[Rank(i)] = q[i] /\ Rank(i) \in 1..card
  BY <1>1, <1>2, <1>3
<1>7. /\ \A n \in DOMAIN p : \E i \in at : p[n] = q[i]
      /\ \A i \in at : \E n \in DOMAIN p : p[n] = q[i]
  BY <1>2, <1>3, <1>5, <1>6
<1>8. \A m, n \in DOMAIN p : m # n => \E i, j \in at : i # j /\ p[m] = q[i] /\ p[n] = q[j]
  BY <1>2, <1>3, <1>5
<1> QED
  BY <1>5, <1>7, <1>8 DEF p

-----------------------------------------------------------------------------
(* The events in a queue *)

LEMMA EmptyFacts ==
    In(<<>>) = {} /\ ~HasLag(<<>>) /\ Single(<<>>)
BY DEF In, HasLag, Single

LEMMA OneFacts ==
    ASSUME NEW e \in Nat
    PROVE  In(<<e>>) = {e} \ {Lag} /\ (HasLag(<<e>>) <=> e = Lag) /\ Single(<<e>>)
BY DEF In, HasLag, Single

LEMMA AppendFacts ==
    ASSUME NEW q \in Seq(Nat), NEW e \in Nat
    PROVE  /\ Append(q, e) \in Seq(Nat)
           /\ In(Append(q, e)) = In(q) \cup ({e} \ {Lag})
           /\ HasLag(Append(q, e)) <=> HasLag(q) \/ e = Lag
           /\ Single(q) /\ (e = Lag \/ e \notin In(q)) => Single(Append(q, e))
<1> DEFINE p == Append(q, e)
           len == Len(q)
<1>1. /\ p \in Seq(Nat) /\ len \in Nat /\ DOMAIN p = 1..(len + 1) /\ DOMAIN q = 1..len
      /\ p[len + 1] = e /\ \A i \in 1..len : p[i] = q[i]
  OBVIOUS
<1> HIDE DEF p, len
<1>2. \A i \in DOMAIN p : i \in DOMAIN q \/ i = len + 1
  BY <1>1
<1>3. len + 1 \in DOMAIN p /\ (\A i \in DOMAIN q : i \in DOMAIN p /\ p[i] = q[i])
  BY <1>1
<1>4. In(p) = In(q) \cup ({e} \ {Lag})
  BY <1>1, <1>2, <1>3 DEF In
<1>5. HasLag(p) <=> HasLag(q) \/ e = Lag
  BY <1>1, <1>2, <1>3 DEF HasLag
<1>6. ASSUME Single(q), e = Lag \/ e \notin In(q)
      PROVE  Single(p)
  <2> SUFFICES ASSUME NEW i \in DOMAIN p, NEW j \in DOMAIN p, i # j
               PROVE  p[i] = Lag \/ p[i] # p[j]
    BY DEF Single
  <2> QED
    BY <1>1, <1>2, <1>3, <1>6 DEF Single, In
<1> QED
  BY <1>1, <1>4, <1>5, <1>6 DEF p

LEMMA TailFacts ==
    ASSUME NEW q \in Seq(Nat), q # <<>>
    PROVE  /\ Head(q) \in Nat /\ Tail(q) \in Seq(Nat)
           /\ In(q) = In(Tail(q)) \cup ({Head(q)} \ {Lag})
           /\ HasLag(q) <=> HasLag(Tail(q)) \/ Head(q) = Lag
           /\ Single(q) => Single(Tail(q)) /\ (Head(q) = Lag \/ Head(q) \notin In(Tail(q)))
<1> DEFINE p == Tail(q)
           len == Len(q)
<1>1. /\ p \in Seq(Nat) /\ len \in Nat \ {0} /\ DOMAIN p = 1..(len - 1) /\ DOMAIN q = 1..len
      /\ Head(q) = q[1] /\ q[1] \in Nat /\ \A i \in 1..(len - 1) : p[i] = q[i + 1]
  OBVIOUS
<1> HIDE DEF p, len
<1>2. \A i \in DOMAIN q : i = 1 \/ (i - 1 \in DOMAIN p /\ p[i - 1] = q[i])
  BY <1>1
<1>3. 1 \in DOMAIN q /\ \A i \in DOMAIN p : i + 1 \in DOMAIN q /\ p[i] = q[i + 1] /\ i + 1 # 1
  BY <1>1
<1>4. In(q) = In(p) \cup ({q[1]} \ {Lag})
  <2>1. In(q) \subseteq In(p) \cup ({q[1]} \ {Lag})
    BY <1>2 DEF In
  <2>2. In(p) \cup ({q[1]} \ {Lag}) \subseteq In(q)
    BY <1>3 DEF In
  <2> QED
    BY <2>1, <2>2
<1>5. HasLag(q) <=> HasLag(p) \/ q[1] = Lag
  BY <1>2, <1>3 DEF HasLag
<1>6. ASSUME Single(q)
      PROVE  Single(p) /\ (q[1] = Lag \/ q[1] \notin In(p))
  <2>1. \A i, j \in DOMAIN p : i # j => i + 1 # j + 1
    BY <1>1
  <2>2. Single(p)
    BY <1>3, <1>6, <2>1 DEF Single
  <2>3. q[1] = Lag \/ q[1] \notin In(p)
    BY <1>3, <1>6 DEF Single, In
  <2> QED
    BY <2>2, <2>3
<1> QED
  BY <1>1, <1>4, <1>5, <1>6 DEF p

\* Picking repeats nothing that was not repeated.
LEMMA PickedOnce ==
    ASSUME NEW q \in Seq(Nat), NEW at \in SUBSET DOMAIN q
    PROVE  /\ Picked(q, at) \in Seq(Nat)
           /\ In(Picked(q, at)) = {q[i] : i \in at} \ {Lag}
           /\ HasLag(Picked(q, at)) => \E i \in at : q[i] = Lag
           /\ Single(q) => Single(Picked(q, at))
<1>1. PICK p \in Seq(Nat) :
        /\ p = Picked(q, at)
        /\ \A n \in DOMAIN p : \E i \in at : p[n] = q[i]
        /\ \A i \in at : \E n \in DOMAIN p : p[n] = q[i]
        /\ \A m, n \in DOMAIN p : m # n => \E i, j \in at : i # j /\ p[m] = q[i] /\ p[n] = q[j]
  BY PickedFacts
<1>2. In(p) = {q[i] : i \in at} \ {Lag}
  BY <1>1 DEF In
<1>3. HasLag(p) => \E i \in at : q[i] = Lag
  BY <1>1 DEF HasLag
<1>4. Single(q) => Single(p)
  BY <1>1 DEF Single
<1> QED
  BY <1>1, <1>2, <1>3, <1>4

LEMMA AfterFacts ==
    ASSUME NEW q \in Seq(Nat), NEW from \in Nat
    PROVE  /\ After(q, from) \in Seq(Nat)
           /\ In(After(q, from)) = {e \in In(q) : e > from}
           /\ ~HasLag(After(q, from))
           /\ Single(q) => Single(After(q, from))
<1> DEFINE at == {i \in DOMAIN q : q[i] > from}
<1>1. /\ After(q, from) \in Seq(Nat)
      /\ In(After(q, from)) = {q[i] : i \in at} \ {Lag}
      /\ HasLag(After(q, from)) => \E i \in at : q[i] = Lag
      /\ Single(q) => Single(After(q, from))
  BY PickedOnce DEF After
<1>2. \A i \in at : q[i] # Lag
  BY DEF Lag
<1>3. {q[i] : i \in at} \ {Lag} = {e \in In(q) : e > from}
  BY DEF In
<1> QED
  BY <1>1, <1>2, <1>3

LEMMA UpToFacts ==
    ASSUME NEW q \in Seq(Nat), NEW head \in Nat, ~HasLag(q)
    PROVE  /\ UpTo(q, head) \in Seq(Nat)
           /\ In(UpTo(q, head)) = {e \in In(q) : e <= head}
           /\ ~HasLag(UpTo(q, head))
           /\ Single(q) => Single(UpTo(q, head))
<1> DEFINE at == {i \in DOMAIN q : q[i] <= head}
<1>1. /\ UpTo(q, head) \in Seq(Nat)
      /\ In(UpTo(q, head)) = {q[i] : i \in at} \ {Lag}
      /\ HasLag(UpTo(q, head)) => \E i \in at : q[i] = Lag
      /\ Single(q) => Single(UpTo(q, head))
  BY PickedOnce DEF UpTo
<1>2. \A i \in at : q[i] # Lag
  BY DEF HasLag
<1>3. {q[i] : i \in at} \ {Lag} = {e \in In(q) : e <= head}
  BY DEF In
<1> QED
  BY <1>1, <1>2, <1>3

-----------------------------------------------------------------------------
(* What each step does to a subscription *)

LEMMA BeyondNext ==
    ASSUME NEW from \in Nat, NEW n \in Nat, from <= n
    PROVE  Beyond(from, n + 1) = Beyond(from, n) \cup {n + 1}
BY DEF Beyond

\* An append is still to be offered to the subscriptions of the time.
LEMMA AppendSound ==
    ASSUME NEW r \in Subscription, NEW n \in Nat, NEW P, Sound(r, n, n, P)
    PROVE  Sound(r, n + 1, n + 1, IF r.stage \in On THEN P \cup {n + 1} ELSE P)
<1>1. CASE r.stage \notin On
  BY <1>1 DEF Sound
<1>2. CASE r.stage \in On
  <2>1. Bounded(r, n, n, P) /\ Once(r, P) /\ Whole(r, n, P) /\ Awake(r)
    BY <1>2 DEF Sound
  <2>2. r.from \in Nat /\ r.head \in Nat /\ r.from <= n /\ r.head <= n
    BY <2>1 DEF Bounded, Subscription
  <2>3. /\ Beyond(r.from, n + 1) = Beyond(r.from, n) \cup {n + 1}
        /\ Beyond(r.head, n + 1) = Beyond(r.head, n) \cup {n + 1}
    BY <2>2, BeyondNext
  <2>4. n + 1 \notin Beyond(r.from, n) /\ n + 1 \notin Beyond(r.head, n)
    BY DEF Beyond
  <2>5. Bounded(r, n + 1, n + 1, P \cup {n + 1})
    BY <2>1, <2>2, <2>3 DEF Bounded
  <2>6. Once(r, P \cup {n + 1})
    BY <2>1, <2>4 DEF Once, Bounded
  <2>7. Whole(r, n + 1, P \cup {n + 1})
    BY <2>1, <2>3 DEF Whole
  <2> QED
    BY <1>2, <2>1, <2>5, <2>6, <2>7 DEF Sound
<1> QED
  BY <1>1, <1>2

\* A number that is given and lost changes nothing.
LEMMA NumberSound ==
    ASSUME NEW r \in Subscription, NEW n \in Nat, NEW m \in Nat, NEW P, Sound(r, n, m, P)
    PROVE  Sound(r, n, m + 1, P)
BY DEF Sound, Bounded, Subscription

\* An offered event goes to the queue, or takes the place of all that is there.
LEMMA OfferSound ==
    ASSUME NEW r \in Subscription, NEW t \in Subscription, NEW n \in Nat, NEW m \in Nat, NEW P,
           Sound(r, n, m, P), NEW e \in P, e \in Nat,
           t.stage = r.stage, t.from = r.from, t.head = r.head, t.todo = r.todo, t.got = r.got, t.notify,
           \/ t.queue = Append(r.queue, e) /\ t.lagged = r.lagged
           \/ t.queue = <<e>> /\ t.lagged
    PROVE  Sound(t, n, m, P \ {e})
<1>1. CASE r.stage \notin On
  BY <1>1 DEF Sound
<1>2. CASE r.stage \in On
  <2>1. Bounded(r, n, m, P) /\ Once(r, P) /\ Whole(r, n, P) /\ Awake(r)
    BY <1>2 DEF Sound
  <2>2. e \in Beyond(r.head, n) /\ e # Lag
    BY <2>1 DEF Bounded, Beyond, Lag
  <2>3. r.queue \in Seq(Nat)
    BY DEF Subscription
  <2>4. e \notin In(r.queue) /\ e \notin In(r.todo) /\ e \notin In(r.got)
    BY <2>1 DEF Once
  <2>5. CASE t.queue = Append(r.queue, e) /\ t.lagged = r.lagged
    <3>1. /\ In(t.queue) = In(r.queue) \cup {e} /\ (HasLag(t.queue) <=> HasLag(r.queue))
          /\ Single(r.queue) => Single(t.queue)
      BY <2>2, <2>3, <2>4, <2>5, AppendFacts
    <3>2. Bounded(t, n, m, P \ {e})
      BY <2>1, <2>2, <3>1 DEF Bounded
    <3>3. Once(t, P \ {e})
      BY <2>1, <2>4, <3>1 DEF Once
    <3>4. Whole(t, n, P \ {e})
      BY <2>1, <2>5, <3>1 DEF Whole
    <3>5. Awake(t)
      BY <2>1 DEF Awake
    <3> QED
      BY <1>2, <3>2, <3>3, <3>4, <3>5 DEF Sound
  <2>6. CASE t.queue = <<e>> /\ t.lagged
    <3>1. In(t.queue) = {e} /\ ~HasLag(t.queue) /\ Single(t.queue)
      BY <2>2, <2>6, OneFacts
    <3>2. Bounded(t, n, m, P \ {e})
      BY <2>1, <2>2, <3>1 DEF Bounded
    <3>3. Once(t, P \ {e})
      BY <2>1, <2>4, <3>1 DEF Once
    <3>4. Whole(t, n, P \ {e})
      BY <2>6 DEF Whole
    <3>5. Awake(t)
      BY <2>1 DEF Awake
    <3> QED
      BY <1>2, <3>2, <3>3, <3>4, <3>5 DEF Sound
  <2> QED
    BY <2>5, <2>6
<1> QED
  BY <1>1, <1>2

\* A new subscription starts after the events there are.
LEMMA SubscribeSound ==
    ASSUME NEW t \in Subscription, NEW n \in Nat, NEW m \in Nat, n <= m,
           t.stage = "since", t.from <= m, t.head = m, t.queue = <<>>, t.todo = <<>>, t.got = <<>>
    PROVE  Sound(t, n, m, {})
<1>1. Beyond(t.head, n) = {}
  BY DEF Beyond
<1>2. t.from \in Nat
  BY DEF Subscription
<1> QED
  BY <1>1, <1>2, EmptyFacts DEF Sound, On, Bounded, Once, Whole, Awake

\* The backlog is what is on file from where the subscriber asked up to the head.
LEMMA BacklogSound ==
    ASSUME NEW r \in Subscription, NEW t \in Subscription, NEW n \in Nat, NEW m \in Nat, NEW P,
           Sound(r, n, m, P), r.stage = "since", t.stage = "backlog",
           t.from = r.from, t.head = r.head, t.queue = r.queue, t.lagged = r.lagged, t.got = r.got,
           In(t.todo) = {e \in Beyond(r.from, n) : e <= r.head}, Single(t.todo), ~HasLag(t.todo)
    PROVE  Sound(t, n, m, P)
<1>1. Bounded(r, n, m, P) /\ Once(r, P) /\ Whole(r, n, P) /\ Awake(r)
  BY DEF Sound, On
<1>2. r.got = <<>> /\ r.todo = <<>>
  BY <1>1 DEF Awake
<1>3. r.from \in Nat /\ r.head \in Nat /\ r.from <= r.head
  BY <1>1 DEF Subscription, Bounded
<1>4. /\ In(t.todo) \cap Beyond(r.head, n) = {}
      /\ In(t.todo) \cup Beyond(r.head, n) = Beyond(r.from, n)
      /\ In(t.todo) \subseteq Beyond(r.from, n)
  BY <1>3 DEF Beyond
<1>5. Bounded(t, n, m, P)
  BY <1>1, <1>2, <1>4, EmptyFacts DEF Bounded
<1>6. Once(t, P)
  BY <1>1, <1>2, <1>4, EmptyFacts DEF Once, Bounded
<1>7. Whole(t, n, P)
  <2> SUFFICES ASSUME ~t.lagged
               PROVE  Beyond(t.from, n) = In(t.got) \cup In(t.todo) \cup In(t.queue) \cup P
    BY DEF Whole
  <2>1. Beyond(r.head, n) = In(r.queue) \cup P
    BY <1>1, <1>2, EmptyFacts DEF Whole
  <2> QED
    BY <1>2, <1>4, <2>1, EmptyFacts
<1>8. Awake(t)
  BY DEF Awake
<1> QED
  BY <1>5, <1>6, <1>7, <1>8 DEF Sound, On

\* What is sent has come.
LEMMA SendSound ==
    ASSUME NEW r \in Subscription, NEW t \in Subscription, NEW n \in Nat, NEW m \in Nat, NEW P,
           Sound(r, n, m, P), r.stage \in {"backlog", "batch"}, r.todo # <<>>, t.stage = r.stage,
           t.from = r.from, t.head = r.head, t.queue = r.queue, t.lagged = r.lagged, t.notify = r.notify,
           t.got = Append(r.got, Head(r.todo)), t.todo = Tail(r.todo)
    PROVE  Sound(t, n, m, P)
<1>1. Bounded(r, n, m, P) /\ Once(r, P) /\ Whole(r, n, P) /\ Awake(r)
  BY DEF Sound, On
<1> DEFINE e == Head(r.todo)
<1>2. /\ e \in Nat /\ In(r.todo) = In(t.todo) \cup ({e} \ {Lag})
      /\ HasLag(r.todo) <=> HasLag(t.todo) \/ e = Lag
      /\ Single(r.todo) => Single(t.todo) /\ (e = Lag \/ e \notin In(t.todo))
  BY TailFacts DEF Subscription
<1>3. /\ In(t.got) = In(r.got) \cup ({e} \ {Lag}) /\ (HasLag(t.got) <=> HasLag(r.got) \/ e = Lag)
      /\ Single(r.got) /\ (e = Lag \/ e \notin In(r.got)) => Single(t.got)
  <2>1. r.got \in Seq(Nat)
    BY DEF Subscription
  <2> QED
    BY <1>2, <2>1, AppendFacts
<1> HIDE DEF e
<1>4. Bounded(t, n, m, P)
  BY <1>1, <1>2, <1>3 DEF Bounded
<1>5. Once(t, P)
  BY <1>1, <1>2, <1>3 DEF Once
<1>6. Whole(t, n, P)
  BY <1>1, <1>2, <1>3 DEF Whole
<1>7. Awake(t)
  BY <1>1 DEF Awake
<1> QED
  BY <1>4, <1>5, <1>6, <1>7 DEF Sound, On

\* A batch is what waits in the queue, or the word that something was dropped.
LEMMA DrainSound ==
    ASSUME NEW r \in Subscription, NEW t \in Subscription, NEW n \in Nat, NEW m \in Nat, NEW P,
           Sound(r, n, m, P), r.stage = "drain", t.stage = "batch",
           t.from = r.from, t.head = r.head, t.queue = <<>>, ~t.lagged, t.got = r.got,
           t.todo = IF r.lagged THEN <<Lag>> ELSE After(r.queue, r.head)
    PROVE  Sound(t, n, m, P)
<1>1. Bounded(r, n, m, P) /\ Once(r, P) /\ Whole(r, n, P) /\ Awake(r)
  BY DEF Sound, On
<1>2. r.todo = <<>> /\ r.from <= r.head /\ r.from \in Nat /\ r.head \in Nat /\ r.queue \in Seq(Nat)
  BY <1>1 DEF Awake, Bounded, Subscription
<1>3. Beyond(r.head, n) \subseteq Beyond(r.from, n) /\ \A e \in Beyond(r.head, n) : e > r.head
  BY <1>2 DEF Beyond
<1>4. CASE r.lagged
  <2>1. In(t.todo) = {} /\ HasLag(t.todo) /\ Single(t.todo)
    BY <1>4, OneFacts DEF Lag
  <2>2. Bounded(t, n, m, P)
    BY <1>1, <2>1, EmptyFacts DEF Bounded
  <2>3. Once(t, P)
    BY <1>1, <2>1, EmptyFacts DEF Once
  <2>4. Whole(t, n, P) /\ Awake(t)
    BY <2>1 DEF Whole, Awake
  <2> QED
    BY <2>2, <2>3, <2>4 DEF Sound, On
<1>5. CASE ~r.lagged
  <2>1. /\ In(t.todo) = In(r.queue) /\ ~HasLag(t.todo) /\ (Single(r.queue) => Single(t.todo))
    <3>1. {e \in In(r.queue) : e > r.head} = In(r.queue)
      BY <1>1, <1>3 DEF Bounded
    <3> QED
      BY <1>2, <1>5, <3>1, AfterFacts
  <2>2. Bounded(t, n, m, P)
    BY <1>1, <1>3, <2>1, EmptyFacts DEF Bounded
  <2>3. Once(t, P)
    BY <1>1, <2>1, EmptyFacts DEF Once
  <2>4. Whole(t, n, P)
    BY <1>1, <1>2, <1>5, <2>1, EmptyFacts DEF Whole
  <2>5. Awake(t)
    BY DEF Awake
  <2> QED
    BY <2>2, <2>3, <2>4, <2>5 DEF Sound, On
<1> QED
  BY <1>4, <1>5

\* forward goes on: from the backlog to the queue, to sleep, and awake again.
LEMMA TurnSound ==
    ASSUME NEW r \in Subscription, NEW t \in Subscription, NEW n \in Nat, NEW m \in Nat, NEW P,
           Sound(r, n, m, P), r.todo = <<>>,
           t.from = r.from, t.head = r.head, t.queue = r.queue, t.lagged = r.lagged,
           t.todo = r.todo, t.got = r.got,
           \/ r.stage = "backlog" /\ t.stage = "drain"
           \/ r.stage = "batch" /\ t.stage = "wait" /\ t.notify = r.notify
           \/ r.stage = "wait" /\ t.stage = "drain"
    PROVE  Sound(t, n, m, P)
<1>1. r.stage \in On \ {"since"} /\ t.stage \in On \ {"since"}
  BY DEF On
<1>2. Bounded(r, n, m, P) /\ Once(r, P) /\ Whole(r, n, P) /\ Awake(r)
  BY <1>1 DEF Sound
<1>3. Bounded(t, n, m, P) /\ Once(t, P) /\ Whole(t, n, P)
  BY <1>1, <1>2 DEF Bounded, Once, Whole
<1>4. Awake(t)
  BY <1>2 DEF Awake
<1> QED
  BY <1>1, <1>3, <1>4 DEF Sound

-----------------------------------------------------------------------------
(* The file and the ring *)

LEMMA NewestFacts ==
    ASSUME NEW k \in Nat, NEW q \in Seq(Nat)
    PROVE  /\ Newest(k, q) \in Seq(Nat) /\ Len(Newest(k, q)) <= Len(q)
           /\ \A i \in DOMAIN Newest(k, q) : Newest(k, q)[i] = q[Len(q) - Len(Newest(k, q)) + i]
<1> DEFINE len == Len(q)
           first == IF len > k THEN len - k + 1 ELSE 1
           p == SubSeq(q, first, len)
<1>1. len \in Nat /\ first \in 1..(len + 1)
  OBVIOUS
<1> HIDE DEF first
<1>2. p \in Seq(Nat) /\ Len(p) = len - first + 1 /\ \A i \in 1..(len - first + 1) : p[i] = q[first + i - 1]
  <2>1. \A i \in first..len : q[i] \in Nat
    BY <1>1
  <2> QED
    BY <1>1, <2>1
<1> HIDE DEF len, p
<1>3. DOMAIN p = 1..(len - first + 1)
  BY <1>1, <1>2
<1>4. Len(p) <= len
  BY <1>1, <1>2
<1>5. \A i \in DOMAIN p : p[i] = q[len - Len(p) + i]
  <2> SUFFICES ASSUME NEW i \in DOMAIN p PROVE p[i] = q[len - Len(p) + i]
    OBVIOUS
  <2>1. i \in Int /\ len - Len(p) + i = first + i - 1
    BY <1>1, <1>2, <1>3
  <2> QED
    BY <1>2, <1>3, <2>1
<1> QED
  BY <1>2, <1>4, <1>5 DEF p, len, first, Newest

\* The file and the ring are the events in order, to the end.
LEMMA FiledFacts ==
    ASSUME Filed
    PROVE  /\ In(disk) = 1..Len(disk) /\ ~HasLag(disk) /\ Single(disk)
           /\ In(ring) = Beyond(Len(disk) - Len(ring), Len(disk)) /\ ~HasLag(ring) /\ Single(ring)
<1> DEFINE n == Len(disk)
           k == Len(ring)
<1>1. /\ n \in Nat /\ k \in Nat /\ k <= n /\ DOMAIN disk = 1..n /\ DOMAIN ring = 1..k
      /\ \A i \in 1..n : disk[i] = i
      /\ \A i \in 1..k : ring[i] = n - k + i
  BY DEF Filed
<1> HIDE DEF n, k
<1>2. In(disk) = 1..n /\ ~HasLag(disk) /\ Single(disk)
  BY <1>1 DEF In, HasLag, Single, Lag
<1>3. ~HasLag(ring) /\ Single(ring)
  BY <1>1 DEF HasLag, Single, Lag
<1>4. In(ring) = Beyond(n - k, n)
  <2>1. \A i \in 1..k : ring[i] \in Beyond(n - k, n) /\ ring[i] # Lag
    BY <1>1 DEF Beyond, Lag
  <2>2. \A e \in Beyond(n - k, n) : e - (n - k) \in 1..k /\ ring[e - (n - k)] = e /\ e # Lag
    BY <1>1 DEF Beyond, Lag
  <2> QED
    BY <1>1, <2>1, <2>2 DEF In
<1> QED
  BY <1>2, <1>3, <1>4 DEF n, k

\* Since: the ring or the file, either gives every event from there.
LEMMA SinceFacts ==
    ASSUME Filed, NEW from \in Nat
    PROVE  /\ Since(from) \in Seq(Nat) /\ In(Since(from)) = Beyond(from, Len(disk))
           /\ ~HasLag(Since(from)) /\ Single(Since(from))
<1>1. disk \in Seq(Nat) /\ ring \in Seq(Nat) /\ Len(ring) <= Len(disk)
  BY DEF Filed
<1>2. CASE InMemory(from)
  <2>1. ring[1] = Len(disk) - Len(ring) + 1
    BY <1>1, <1>2 DEF Filed, InMemory
  <2> DEFINE n == Len(disk)
             k == Len(ring)
  <2>2. n \in Nat /\ k \in Nat /\ k <= n /\ from + 1 >= n - k + 1
    BY <1>1, <1>2, <2>1 DEF InMemory
  <2> HIDE DEF n, k
  <2>3. {e \in Beyond(n - k, n) : e > from} = Beyond(from, n)
    BY <2>2 DEF Beyond
  <2> QED
    BY <1>1, <1>2, <2>3, AfterFacts, FiledFacts DEF Since, n, k
<1>3. CASE ~InMemory(from)
  <2>1. {e \in 1..Len(disk) : e > from} = Beyond(from, Len(disk))
    BY DEF Beyond
  <2> QED
    BY <1>1, <1>3, <2>1, AfterFacts, FiledFacts DEF Since
<1> QED
  BY <1>2, <1>3

\* An event that is written is on file and the newest in memory.
LEMMA FiledNext ==
    ASSUME Filed, seq = Len(disk),
           disk' = Append(disk, seq + 1), ring' = Newest(RingCap, Append(ring, seq + 1)),
           seq' = seq + 1
    PROVE  Filed' /\ Len(disk') = Len(disk) + 1
<1> DEFINE n == Len(disk)
           k == Len(ring)
           p == Append(ring, n + 1)
           l == Len(ring')
<1>1. /\ n \in Nat /\ k \in Nat /\ k <= n /\ DOMAIN disk = 1..n /\ DOMAIN ring = 1..k
      /\ \A i \in 1..n : disk[i] = i
      /\ \A i \in 1..k : ring[i] = n - k + i
  BY DEF Filed
<1>2. /\ p \in Seq(Nat) /\ Len(p) = k + 1 /\ p[k + 1] = n + 1 /\ \A i \in 1..k : p[i] = ring[i]
  BY DEF Filed
<1>3. /\ disk' \in Seq(Nat) /\ Len(disk') = n + 1 /\ disk'[n + 1] = n + 1
      /\ \A i \in 1..n : disk'[i] = disk[i]
  BY DEF Filed
<1>4. /\ ring' \in Seq(Nat) /\ l <= Len(p) /\ l \in Nat /\ DOMAIN ring' = 1..l
      /\ \A i \in DOMAIN ring' : ring'[i] = p[Len(p) - l + i]
  <2>1. ring' = Newest(RingCap, p)
    OBVIOUS
  <2> HIDE DEF p
  <2>2. /\ Newest(RingCap, p) \in Seq(Nat) /\ Len(Newest(RingCap, p)) <= Len(p)
        /\ \A i \in DOMAIN Newest(RingCap, p) :
              Newest(RingCap, p)[i] = p[Len(p) - Len(Newest(RingCap, p)) + i]
    BY <1>2, NewestFacts, LogAssumption
  <2>3. /\ ring' \in Seq(Nat) /\ Len(ring') <= Len(p)
        /\ \A i \in DOMAIN ring' : ring'[i] = p[Len(p) - Len(ring') + i]
    BY <2>1, <2>2, Zenon
  <2> QED
    BY <2>3
<1> HIDE DEF n, k, p, l
<1>5. \A i \in 1..(k + 1) : p[i] = n - k + i
  <2>1. \A i \in 1..(k + 1) : i = k + 1 \/ i \in 1..k
    BY <1>1
  <2> QED
    BY <1>1, <1>2, <2>1
<1>6. \A i \in 1..l : ring'[i] = (n + 1) - l + i
  <2> SUFFICES ASSUME NEW i \in 1..l PROVE ring'[i] = (n + 1) - l + i
    OBVIOUS
  <2>1. k + 1 - l + i \in 1..(k + 1) /\ ring'[i] = p[k + 1 - l + i]
    <3>1. l \in Nat /\ k \in Nat /\ l <= k + 1 /\ Len(p) = k + 1
      BY <1>1, <1>2, <1>4
    <3>2. ring'[i] = p[k + 1 - l + i]
      <4>1. i \in DOMAIN ring'
        BY <1>4, Zenon
      <4>2. ring'[i] = p[Len(p) - l + i]
        BY <1>4, <4>1, Zenon
      <4> QED
        BY <3>1, <4>2
    <3> QED
      BY <3>1, <3>2
  <2>2. p[k + 1 - l + i] = n - k + (k + 1 - l + i)
    BY <1>5, <2>1
  <2>3. l \in Nat /\ i \in Int /\ n \in Nat /\ k \in Nat
    BY <1>1, <1>4
  <2>4. n - k + (k + 1 - l + i) = (n + 1) - l + i
    BY <2>3
  <2> QED
    BY <2>1, <2>2, <2>4, Zenon
<1>7. \A i \in 1..(n + 1) : disk'[i] = i
  <2>1. \A i \in 1..(n + 1) : i = n + 1 \/ i \in 1..n
    BY <1>1
  <2> QED
    BY <1>1, <1>3, <2>1
<1>8. l <= n + 1
  BY <1>1, <1>2, <1>4
<1>9. DOMAIN disk' = 1..(n + 1) /\ seq' = n + 1
  BY <1>3 DEF n
<1>10. disk' \in Seq(Nat) /\ \A i \in DOMAIN disk' : disk'[i] = i
  BY <1>3, <1>7, <1>9
<1>11. /\ ring' \in Seq(Nat) /\ Len(ring') <= Len(disk')
       /\ \A i \in DOMAIN ring' : ring'[i] = Len(disk') - Len(ring') + i
  BY <1>3, <1>4, <1>6, <1>8 DEF l
<1>12. seq' \in Nat /\ seq' = Len(disk') /\ Len(disk') = n + 1
  BY <1>1, <1>3, <1>9
<1> QED
  BY <1>10, <1>11, <1>12 DEF Filed, n

-----------------------------------------------------------------------------
(* The steps of the appenders *)

LEMMA RegisteredOn ==
    ASSUME sub \in [Subs -> Subscription], NEW s \in Subs
    PROVE  s \in Registered <=> sub[s].stage \in On
BY DEF Registered, Subscription, On

LEMMA Append1Keeps ==
    ASSUME StreamInv, NEW a \in Appenders, Append1(a)
    PROVE  StreamInv'
<1> DEFINE n == Len(disk)
<1>1. /\ Filed /\ Offered /\ sub \in [Subs -> Subscription]
      /\ \A s \in Subs : Sound(sub[s], n, seq, Pending(s))
  BY DEF StreamInv
<1>2. /\ ~broken /\ offering[a] = Nothing /\ seq' = seq + 1
      /\ disk' = Append(disk, seq + 1) /\ ring' = Newest(RingCap, Append(ring, seq + 1))
      /\ offering' = [offering EXCEPT ![a] = [ev |-> seq + 1, to |-> Registered]]
      /\ UNCHANGED <<torn, broken, state, sub, faults>>
  BY DEF Append1
<1>3. seq = n /\ n \in Nat
  BY <1>1, <1>2 DEF Filed
<1>4. Filed' /\ Len(disk') = n + 1
  BY <1>1, <1>2, <1>3, FiledNext
<1> HIDE DEF n
<1>5. /\ offering'[a] = [ev |-> n + 1, to |-> Registered] /\ Registered \subseteq Subs
      /\ \A b \in Appenders \ {a} : offering'[b] = offering[b]
      /\ offering' \in [Appenders -> [ev : Nat, to : SUBSET Subs]]
  BY <1>1, <1>2, <1>3 DEF Offered, Registered
<1>6. \A b \in Appenders : offering[b].ev \in Nat /\ offering[b].ev <= n /\ offering[b].ev # n + 1
  BY <1>1, <1>3 DEF Offered, n
<1>7. Offered'
  <2>1. \A b \in Appenders : offering'[b].ev <= n + 1
    BY <1>3, <1>5, <1>6
  <2>2. ASSUME NEW b \in Appenders, NEW c \in Appenders,
               b # c, offering'[b].to # {}, offering'[c].to # {}
        PROVE  offering'[b].ev # offering'[c].ev
    <3>1. offering'[a].ev = n + 1
      BY <1>5
    <3>2. CASE b = a \/ c = a
      BY <1>5, <1>6, <2>2, <3>1, <3>2
    <3>3. CASE b # a /\ c # a
      BY <1>1, <1>5, <2>2, <3>3 DEF Offered
    <3> QED
      BY <3>2, <3>3
  <2> QED
    BY <1>4, <1>5, <2>1, <2>2 DEF Offered
<1>8. ASSUME NEW s \in Subs
      PROVE  Sound(sub[s], n + 1, n + 1, Pending(s)')
  <2>1. Sound(sub[s], n, n, Pending(s)) /\ sub[s] \in Subscription
    BY <1>1, <1>3
  <2>2. Pending(s)' = IF sub[s].stage \in On THEN Pending(s) \cup {n + 1} ELSE Pending(s)
    <3>1. s \in offering'[a].to <=> sub[s].stage \in On
      BY <1>1, <1>5, RegisteredOn
    <3>2. s \notin offering[a].to
      BY <1>2 DEF Nothing
    <3>3. {b \in Appenders : s \in offering'[b].to}
              = {b \in Appenders : s \in offering[b].to} \cup (IF sub[s].stage \in On THEN {a} ELSE {})
      BY <1>5, <3>1, <3>2
    <3> QED
      BY <1>5, <3>1, <3>2, <3>3 DEF Pending
  <2> QED
    BY <1>3, <2>1, <2>2, AppendSound
<1>9. \A s \in Subs : Sound(sub[s], Len(disk), seq, Pending(s))'
  BY <1>2, <1>3, <1>4, <1>8
<1> QED
  BY <1>1, <1>2, <1>4, <1>7, <1>9 DEF StreamInv

LEMMA AppendFailsKeeps ==
    ASSUME StreamInv, AppendFails
    PROVE  StreamInv'
<1>1. /\ Filed /\ Offered /\ sub \in [Subs -> Subscription]
      /\ \A s \in Subs : Sound(sub[s], Len(disk), seq, Pending(s))
  BY DEF StreamInv
<1>2. /\ seq' \in {seq, seq + 1} /\ broken' /\ UNCHANGED <<disk, ring, offering, sub>>
  BY DEF AppendFails
<1>3. Filed' /\ Offered'
  BY <1>1, <1>2 DEF Filed, Offered
<1>4. ASSUME NEW s \in Subs
      PROVE  Sound(sub[s], Len(disk), seq, Pending(s))'
  <2>1. Pending(s)' = Pending(s)
    BY <1>2 DEF Pending
  <2>2. sub[s] \in Subscription /\ Len(disk) \in Nat /\ seq \in Nat
    BY <1>1 DEF Filed
  <2>3. Sound(sub[s], Len(disk), seq, Pending(s)) /\ Sound(sub[s], Len(disk), seq + 1, Pending(s))
    BY <1>1, <2>2, NumberSound
  <2> QED
    BY <1>2, <2>1, <2>3
<1> QED
  BY <1>1, <1>2, <1>3, <1>4 DEF StreamInv

LEMMA OfferKeeps ==
    ASSUME StreamInv, NEW a \in Appenders, NEW s \in Subs, Offer(a, s)
    PROVE  StreamInv'
<1> DEFINE n == Len(disk)
           e == offering[a].ev
           full == Len(sub[s].queue) >= QueueCap
           t == [sub[s] EXCEPT !.queue = IF full THEN <<e>> ELSE Append(sub[s].queue, e),
                               !.lagged = sub[s].lagged \/ full, !.notify = TRUE]
           o == IF offering[a].to = {s} THEN Nothing
                ELSE [ev |-> e, to |-> offering[a].to \ {s}]
<1>1. /\ Filed /\ Offered /\ sub \in [Subs -> Subscription]
      /\ \A u \in Subs : Sound(sub[u], n, seq, Pending(u))
  BY DEF StreamInv
<1>2. /\ s \in offering[a].to /\ sub' = [sub EXCEPT ![s] = t]
      /\ offering' = [offering EXCEPT ![a] = o]
      /\ UNCHANGED <<disk, torn, seq, ring, broken, state, faults>>
  <2>1. /\ s \in offering[a].to /\ sub' = OfferTo(s, e)
        /\ UNCHANGED <<disk, torn, seq, ring, broken, state, faults>>
    BY DEF Offer
  <2>2. sub' = [sub EXCEPT ![s] = t]
    BY <1>1, <2>1 DEF OfferTo
  <2>3. offering' = [offering EXCEPT ![a] = o]
    BY <1>1 DEF Offer, Offered
  <2> QED
    BY <2>1, <2>2, <2>3
<1>3. n \in Nat /\ seq \in Nat /\ e \in Nat /\ sub[s] \in Subscription
  BY <1>1 DEF Filed, Offered
<1>4. /\ t \in Subscription
      /\ t.stage = sub[s].stage /\ t.from = sub[s].from /\ t.head = sub[s].head
      /\ t.todo = sub[s].todo /\ t.got = sub[s].got /\ t.notify
      /\ \/ t.queue = Append(sub[s].queue, e) /\ t.lagged = sub[s].lagged
         \/ t.queue = <<e>> /\ t.lagged
  <2>1. <<e>> \in Seq(Nat) /\ Append(sub[s].queue, e) \in Seq(Nat)
    BY <1>3 DEF Subscription
  <2> HIDE DEF full, e
  <2>2. CASE full
    BY <1>3, <2>1, <2>2 DEF Subscription
  <2>3. CASE ~full
    BY <1>3, <2>1, <2>3 DEF Subscription
  <2> QED
    BY <2>2, <2>3
<1>5. \/ o = Nothing /\ offering[a].to = {s}
      \/ o = [ev |-> e, to |-> offering[a].to \ {s}] /\ offering[a].to # {s}
  OBVIOUS
<1> HIDE DEF t, e, n, o, full
<1>6. /\ offering'[a].to = offering[a].to \ {s} /\ (offering'[a].to # {} => offering'[a].ev = e)
      /\ offering'[a] \in [ev : Nat, to : SUBSET Subs] /\ offering'[a].ev <= n
      /\ \A b \in Appenders \ {a} : offering'[b] = offering[b]
      /\ offering' \in [Appenders -> [ev : Nat, to : SUBSET Subs]]
  <2>1. offering[a] \in [ev : Nat, to : SUBSET Subs] /\ e <= n
    BY <1>1 DEF Offered, e, n
  <2>2. offering'[a] = o
    BY <1>1, <1>2 DEF Offered
  <2>3. o \in [ev : Nat, to : SUBSET Subs] /\ o.to = offering[a].to \ {s} /\ (o.to # {} => o.ev = e) /\ o.ev <= n
    BY <1>2, <1>3, <1>5, <2>1 DEF Nothing, e
  <2> QED
    BY <1>1, <1>2, <2>2, <2>3 DEF Offered
<1>7. Filed' /\ Offered'
  <2>1. Filed'
    BY <1>1, <1>2 DEF Filed
  <2>2. ASSUME NEW b \in Appenders, NEW c \in Appenders,
               b # c, offering'[b].to # {}, offering'[c].to # {}
        PROVE  offering'[b].ev # offering'[c].ev
    <3>1. \A d \in Appenders : offering'[d].to # {} =>
            offering[d].to # {} /\ offering'[d].ev = offering[d].ev
      BY <1>6 DEF e
    <3> QED
      BY <1>1, <2>2, <3>1 DEF Offered
  <2>3. \A b \in Appenders : offering'[b].ev <= n
    BY <1>1, <1>6 DEF Offered, n
  <2> QED
    BY <1>2, <1>6, <2>1, <2>2, <2>3 DEF Offered, n
<1>8. \A u \in Subs \ {s} : Pending(u)' = Pending(u)
  <2> SUFFICES ASSUME NEW u \in Subs \ {s} PROVE Pending(u)' = Pending(u)
    OBVIOUS
  <2>1. \A b \in Appenders : u \in offering'[b].to <=> u \in offering[b].to
    BY <1>6
  <2>2. \A b \in Appenders : u \in offering'[b].to => offering'[b].ev = offering[b].ev
    BY <1>6 DEF e
  <2> QED
    BY <2>1, <2>2 DEF Pending
<1>9. Pending(s)' = Pending(s) \ {e} /\ e \in Pending(s)
  <2>1. \A b \in Appenders : s \in offering'[b].to <=> s \in offering[b].to /\ b # a
    BY <1>6
  <2>2. \A b \in Appenders \ {a} : s \in offering[b].to => offering[b].ev # e
    BY <1>1, <1>2 DEF Offered, e
  <2> QED
    BY <1>2, <1>6, <2>1, <2>2 DEF Pending, e
<1>10. ASSUME NEW u \in Subs
      PROVE  Sound(sub'[u], n, seq, Pending(u)')
  <2>1. CASE u = s
    <3>1. sub'[u] = t
      BY <1>1, <1>2, <2>1
    <3> QED
      BY <1>1, <1>3, <1>4, <1>9, <2>1, <3>1, OfferSound
  <2>2. CASE u # s
    BY <1>1, <1>2, <1>8, <2>2
  <2> QED
    BY <2>1, <2>2
<1>11. sub' \in [Subs -> Subscription]
  BY <1>1, <1>2, <1>4
<1> QED
  BY <1>2, <1>7, <1>10, <1>11 DEF StreamInv, n

LEMMA AppendAloneKeeps ==
    ASSUME StreamInv, NEW a \in Appenders, AppendAlone(a)
    PROVE  StreamInv'
<1>1. /\ Filed /\ Offered /\ sub \in [Subs -> Subscription]
      /\ \A s \in Subs : Sound(sub[s], Len(disk), seq, Pending(s))
  BY DEF StreamInv
<1>2. /\ offering[a].to = {} /\ offering' = [offering EXCEPT ![a] = Nothing]
      /\ UNCHANGED <<disk, torn, seq, ring, broken, state, sub, faults>>
  BY DEF AppendAlone
<1>3. /\ offering'[a] = Nothing /\ \A b \in Appenders \ {a} : offering'[b] = offering[b]
      /\ offering' \in [Appenders -> [ev : Nat, to : SUBSET Subs]] /\ Len(disk) \in Nat
  BY <1>1, <1>2 DEF Offered, Nothing, Filed
<1>4. Filed' /\ Offered'
  BY <1>1, <1>2, <1>3 DEF Filed, Offered, Nothing
<1>5. \A s \in Subs : Pending(s)' = Pending(s)
  <2> SUFFICES ASSUME NEW s \in Subs PROVE Pending(s)' = Pending(s)
    OBVIOUS
  <2>1. \A b \in Appenders : s \in offering'[b].to <=> s \in offering[b].to
    BY <1>2, <1>3 DEF Nothing
  <2>2. \A b \in Appenders : s \in offering'[b].to => offering'[b].ev = offering[b].ev
    BY <1>3 DEF Nothing
  <2> QED
    BY <2>1, <2>2 DEF Pending
<1> QED
  BY <1>1, <1>2, <1>4, <1>5 DEF StreamInv

-----------------------------------------------------------------------------
(* The steps of a subscription *)

\* A step of one subscription keeps what it leaves sound.
LEMMA OwnStep ==
    ASSUME StreamInv, Others, NEW s \in Subs, NEW t \in Subscription, sub' = [sub EXCEPT ![s] = t],
           Sound(t, Len(disk), seq, Pending(s))
    PROVE  StreamInv'
<1>1. /\ Filed /\ Offered /\ sub \in [Subs -> Subscription]
      /\ \A u \in Subs : Sound(sub[u], Len(disk), seq, Pending(u))
  BY DEF StreamInv
<1>2. UNCHANGED <<disk, torn, seq, ring, broken, state, offering, faults>>
  BY DEF Others
<1>3. Filed' /\ Offered' /\ \A u \in Subs : Pending(u)' = Pending(u)
  BY <1>1, <1>2 DEF Filed, Offered, Pending
<1>4. sub' \in [Subs -> Subscription]
  BY <1>1
<1>5. \A u \in Subs : Sound(sub'[u], Len(disk), seq, Pending(u))
  BY <1>1
<1> QED
  BY <1>2, <1>3, <1>4, <1>5 DEF StreamInv

LEMMA IdleFacts ==
    /\ <<>> \in Seq(Nat) /\ Idle \in Subscription
    /\ Idle.stage = "none" /\ Idle.queue = <<>> /\ Idle.todo = <<>> /\ Idle.got = <<>>
<1>1. <<>> \in Seq(Nat)
  OBVIOUS
<1>2. \A q \in Seq(Nat) : [stage |-> "none", from |-> 0, head |-> 0, queue |-> q, lagged |-> FALSE,
                          notify |-> FALSE, todo |-> q, got |-> q] \in Subscription
  BY DEF Subscription
<1>3. Idle \in Subscription
  BY <1>1, <1>2 DEF Idle
<1> QED
  BY <1>1, <1>3 DEF Idle

LEMMA OwnSteps ==
    ASSUME StreamInv, NEW s \in Subs,
           \/ \E from \in 0..seq : Subscribe(s, from)
           \/ SubscribeBacklog(s) \/ SubscribeFails(s)
           \/ Send(s) \/ BacklogDone(s) \/ Drain(s) \/ BatchDone(s) \/ Notified(s)
    PROVE  StreamInv'
<1> DEFINE r == sub[s]
           n == Len(disk)
<1>1. /\ Filed /\ r \in Subscription /\ Sound(r, n, seq, Pending(s))
      /\ sub \in [Subs -> Subscription]
  BY DEF StreamInv
<1>2. n \in Nat /\ seq \in Nat /\ n <= seq
  BY <1>1 DEF Filed
<1>3. /\ r.stage \in On \cup {"none", "failed"} /\ r.from \in Nat /\ r.head \in Nat
      /\ r.queue \in Seq(Nat) /\ r.lagged \in BOOLEAN /\ r.notify \in BOOLEAN
      /\ r.todo \in Seq(Nat) /\ r.got \in Seq(Nat)
  BY <1>1 DEF Subscription
<1> HIDE DEF n
<1>4. ASSUME NEW from \in 0..seq, Subscribe(s, from)
      PROVE  StreamInv'
  <2> DEFINE t == [Idle EXCEPT !.stage = "since", !.from = from, !.head = seq]
  <2>1. r.stage = "none" /\ sub' = [sub EXCEPT ![s] = t] /\ Others
    BY <1>4 DEF Subscribe
  <2>2. /\ t \in Subscription /\ t.stage = "since" /\ t.from = from /\ t.head = seq
        /\ t.queue = <<>> /\ t.todo = <<>> /\ t.got = <<>>
    <3>1. from \in Nat /\ Idle \in Subscription
      BY <1>2, IdleFacts
    <3>2. t \in Subscription
      BY <1>2, <3>1 DEF Subscription, On
    <3> QED
      BY <3>1, <3>2, IdleFacts DEF Subscription
  <2>3. Pending(s) = {}
    BY <1>1, <2>1 DEF Sound, On
  <2> HIDE DEF t
  <2>4. Sound(t, n, seq, Pending(s))
    BY <1>2, <2>2, <2>3, SubscribeSound
  <2> QED
    BY <2>1, <2>2, <2>4, OwnStep DEF n
<1>5. CASE SubscribeBacklog(s)
  <2> DEFINE b == UpTo(Since(r.from), r.head)
             t == [r EXCEPT !.stage = "backlog", !.todo = b]
  <2>1. r.stage = "since" /\ sub' = [sub EXCEPT ![s] = t] /\ Others
    BY <1>1, <1>5 DEF SubscribeBacklog
  <2>2. /\ b \in Seq(Nat) /\ In(b) = {e \in Beyond(r.from, n) : e <= r.head}
        /\ Single(b) /\ ~HasLag(b)
    <3>1. /\ Since(r.from) \in Seq(Nat) /\ In(Since(r.from)) = Beyond(r.from, n)
          /\ ~HasLag(Since(r.from)) /\ Single(Since(r.from))
      BY <1>1, <1>3, SinceFacts DEF n
    <3> QED
      BY <1>3, <3>1, UpToFacts
  <2> HIDE DEF b
  <2>3. /\ t \in Subscription /\ t.stage = "backlog" /\ t.from = r.from /\ t.head = r.head
        /\ t.queue = r.queue /\ t.lagged = r.lagged /\ t.got = r.got /\ t.todo = b
    BY <1>1, <2>2 DEF Subscription, On
  <2> HIDE DEF t, r
  <2>4. Sound(t, n, seq, Pending(s))
    BY <1>1, <1>2, <2>1, <2>2, <2>3, BacklogSound
  <2> QED
    BY <2>1, <2>3, <2>4, OwnStep DEF n
<1>6. CASE SubscribeFails(s)
  <2> DEFINE t == [Idle EXCEPT !.stage = "failed"]
  <2>1. sub' = [sub EXCEPT ![s] = t] /\ Others
    BY <1>6 DEF SubscribeFails
  <2>2. t \in Subscription /\ t.stage = "failed" /\ t.got = <<>>
    BY IdleFacts DEF Subscription, On
  <2> HIDE DEF t
  <2>3. Sound(t, n, seq, Pending(s))
    BY <2>2 DEF Sound, On
  <2> QED
    BY <2>1, <2>2, <2>3, OwnStep DEF n
<1>7. CASE Send(s)
  <2> DEFINE g == Append(r.got, Head(r.todo))
             d == Tail(r.todo)
             t == [r EXCEPT !.got = g, !.todo = d]
  <2>1. /\ r.stage \in {"backlog", "batch"} /\ r.todo # <<>>
        /\ sub' = [sub EXCEPT ![s] = t] /\ Others
    BY <1>1, <1>7 DEF Send
  <2>2. g \in Seq(Nat) /\ d \in Seq(Nat)
    BY <1>3, <2>1, TailFacts
  <2> HIDE DEF g, d
  <2>3. /\ t \in Subscription /\ t.stage = r.stage /\ t.from = r.from /\ t.head = r.head
        /\ t.queue = r.queue /\ t.lagged = r.lagged /\ t.notify = r.notify /\ t.got = g /\ t.todo = d
    BY <1>1, <2>2 DEF Subscription
  <2> HIDE DEF t, r
  <2>4. Sound(t, n, seq, Pending(s))
    BY <1>1, <1>2, <2>1, <2>3, SendSound DEF g, d
  <2> QED
    BY <2>1, <2>3, <2>4, OwnStep DEF n
<1>8. CASE Drain(s)
  <2> DEFINE d == IF r.lagged THEN <<Lag>> ELSE After(r.queue, r.head)
             t == [r EXCEPT !.stage = "batch", !.queue = <<>>, !.lagged = FALSE, !.todo = d]
  <2>1. r.stage = "drain" /\ sub' = [sub EXCEPT ![s] = t] /\ Others
    BY <1>1, <1>8 DEF Drain
  <2>2. d \in Seq(Nat)
    <3>1. <<Lag>> \in Seq(Nat)
      BY DEF Lag
    <3> QED
      BY <1>3, <3>1, AfterFacts
  <2> HIDE DEF d
  <2>3. /\ t \in Subscription /\ t.stage = "batch" /\ t.from = r.from /\ t.head = r.head
        /\ t.queue = <<>> /\ ~t.lagged /\ t.got = r.got /\ t.todo = d
    BY <1>1, <2>2, IdleFacts DEF Subscription, On
  <2> HIDE DEF t, r
  <2>4. Sound(t, n, seq, Pending(s))
    BY <1>1, <1>2, <2>1, <2>3, DrainSound DEF d
  <2> QED
    BY <2>1, <2>3, <2>4, OwnStep DEF n
<1>9. CASE BacklogDone(s) \/ BatchDone(s) \/ Notified(s)
  <2>1. PICK st \in On, no \in BOOLEAN :
          /\ \/ r.stage = "backlog" /\ st = "drain" /\ no = r.notify
             \/ r.stage = "batch" /\ st = "wait" /\ no = r.notify
             \/ r.stage = "wait" /\ st = "drain" /\ no = FALSE
          /\ sub' = [sub EXCEPT ![s] = [r EXCEPT !.stage = st, !.notify = no]] /\ Others
    <3>1. CASE BacklogDone(s)
      <4>1. r.stage = "backlog" /\ sub' = [sub EXCEPT ![s] = [r EXCEPT !.stage = "drain", !.notify = r.notify]]
        BY <1>1, <3>1 DEF BacklogDone, Subscription
      <4> QED
        BY <1>3, <3>1, <4>1 DEF BacklogDone, On
    <3>2. CASE BatchDone(s)
      <4>1. r.stage = "batch" /\ sub' = [sub EXCEPT ![s] = [r EXCEPT !.stage = "wait", !.notify = r.notify]]
        BY <1>1, <3>2 DEF BatchDone, Subscription
      <4> QED
        BY <1>3, <3>2, <4>1 DEF BatchDone, On
    <3>3. CASE Notified(s)
      <4>1. r.stage = "wait" /\ sub' = [sub EXCEPT ![s] = [r EXCEPT !.stage = "drain", !.notify = FALSE]]
        BY <1>1, <3>3 DEF Notified, Subscription
      <4> QED
        BY <3>3, <4>1 DEF Notified, On
    <3> QED
      BY <1>9, <3>1, <3>2, <3>3
  <2> DEFINE t == [r EXCEPT !.stage = st, !.notify = no]
  <2>2. /\ t \in Subscription /\ t.stage = st /\ t.notify = no /\ t.from = r.from /\ t.head = r.head
        /\ t.queue = r.queue /\ t.lagged = r.lagged /\ t.got = r.got /\ t.todo = r.todo
    BY <1>1 DEF Subscription
  <2>3. r.todo = <<>>
    <3>1. r.stage = "wait" => r.todo = <<>>
      BY <1>1 DEF Sound, On, Awake
    <3> QED
      BY <1>9, <3>1 DEF BacklogDone, BatchDone, Notified
  <2> HIDE DEF t, r
  <2>4. Sound(t, n, seq, Pending(s))
    BY <1>1, <1>2, <2>1, <2>2, <2>3, TurnSound
  <2> QED
    BY <2>1, <2>2, <2>4, OwnStep DEF n, t
<1> QED
  BY <1>4, <1>5, <1>6, <1>7, <1>8, <1>9

-----------------------------------------------------------------------------
(* Leaving, closing, crashing *)

LEMMA UnsubscribeKeeps ==
    ASSUME StreamInv, NEW s \in Subs, Unsubscribe(s)
    PROVE  StreamInv'
<1>1. /\ Filed /\ Offered /\ sub \in [Subs -> Subscription]
      /\ \A u \in Subs : Sound(sub[u], Len(disk), seq, Pending(u))
  BY DEF StreamInv
<1>2. /\ sub' = [sub EXCEPT ![s] = Idle] /\ UNCHANGED <<disk, seq, ring, broken>>
      /\ offering' = [a \in Appenders |-> [offering[a] EXCEPT !.to = @ \ {s}]]
  BY DEF Unsubscribe
<1>3. /\ \A a \in Appenders : offering'[a].ev = offering[a].ev /\ offering'[a].to = offering[a].to \ {s}
      /\ offering' \in [Appenders -> [ev : Nat, to : SUBSET Subs]]
  BY <1>1, <1>2 DEF Offered
<1>4. Filed' /\ Offered'
  <2>1. Filed'
    BY <1>1, <1>2 DEF Filed
  <2>2. \A a \in Appenders : offering'[a].to # {} => offering[a].to # {}
    BY <1>3
  <2>3. \A a \in Appenders : offering'[a].ev <= Len(disk')
    <3>1. \A a \in Appenders : offering[a].ev <= Len(disk)
      BY <1>1 DEF Offered
    <3> QED
      BY <1>2, <1>3, <3>1
  <2>4. \A b, c \in Appenders : b # c /\ offering'[b].to # {} /\ offering'[c].to # {}
                                  => offering'[b].ev # offering'[c].ev
    <3>1. \A b, c \in Appenders : b # c /\ offering[b].to # {} /\ offering[c].to # {}
                                    => offering[b].ev # offering[c].ev
      BY <1>1 DEF Offered
    <3> QED
      BY <1>3, <2>2, <3>1
  <2> QED
    BY <1>3, <2>1, <2>3, <2>4 DEF Offered
<1>5. ASSUME NEW u \in Subs
      PROVE  Sound(sub'[u], Len(disk), seq, Pending(u)')
  <2>1. CASE u = s
    <3>1. Pending(u)' = {}
      BY <1>3, <2>1 DEF Pending
    <3>2. sub'[u] = Idle
      BY <1>1, <1>2, <2>1
    <3> QED
      BY <3>1, <3>2, IdleFacts DEF Sound, On
  <2>2. CASE u # s
    <3>1. \A a \in Appenders : u \in offering'[a].to <=> u \in offering[a].to
      BY <1>3, <2>2
    <3>2. Pending(u)' = Pending(u)
      BY <1>3, <3>1 DEF Pending
    <3> QED
      BY <1>1, <1>2, <2>2, <3>2
  <2> QED
    BY <2>1, <2>2
<1>6. sub' \in [Subs -> Subscription]
  BY <1>1, <1>2, IdleFacts
<1> QED
  BY <1>2, <1>4, <1>5, <1>6 DEF StreamInv

\* Another process reads what is on file and knows no subscriber.
LEMMA ReopenKeeps ==
    ASSUME StreamInv, Reopen
    PROVE  StreamInv'
<1> DEFINE n == Len(disk)
<1>1. Filed /\ Offered
  BY DEF StreamInv
<1>2. /\ seq' = IF disk = <<>> THEN 0 ELSE disk[n]
      /\ ring' = Newest(RingCap, disk) /\ UNCHANGED disk
      /\ offering' = [a \in Appenders |-> Nothing] /\ sub' = [s \in Subs |-> Idle]
  BY DEF Reopen
<1>3. disk \in Seq(Nat) /\ n \in Nat /\ (\A i \in DOMAIN disk : disk[i] = i) /\ DOMAIN disk = 1..n
  BY <1>1 DEF Filed
<1>4. seq' = n
  <2>1. CASE disk = <<>>
    BY <1>2, <2>1
  <2>2. CASE disk # <<>>
    <3>1. n \in DOMAIN disk
      BY <1>3, <2>2
    <3> QED
      BY <1>2, <1>3, <2>2, <3>1
  <2> QED
    BY <2>1, <2>2
<1>5. /\ ring' \in Seq(Nat) /\ Len(ring') <= n
      /\ \A i \in DOMAIN ring' : ring'[i] = n - Len(ring') + i
  <2>1. /\ Newest(RingCap, disk) \in Seq(Nat) /\ Len(Newest(RingCap, disk)) <= n
        /\ \A i \in DOMAIN Newest(RingCap, disk) :
              Newest(RingCap, disk)[i] = disk[n - Len(Newest(RingCap, disk)) + i]
    BY <1>3, NewestFacts, LogAssumption
  <2> DEFINE p == Newest(RingCap, disk)
             l == Len(p)
  <2>2. /\ p \in Seq(Nat) /\ l <= n /\ \A i \in DOMAIN p : p[i] = disk[n - l + i]
    BY <2>1
  <2> HIDE DEF p
  <2>3. l \in Nat /\ DOMAIN p = 1..l
    BY <2>2
  <2> HIDE DEF l, n
  <2>4. \A i \in DOMAIN p : p[i] = n - l + i
    <3> SUFFICES ASSUME NEW i \in 1..l PROVE p[i] = n - l + i
      BY <2>3
    <3>1. n - l + i \in 1..n
      BY <1>3, <2>2, <2>3
    <3>2. p[i] = disk[n - l + i]
      BY <2>2, <2>3
    <3> QED
      BY <1>3, <3>1, <3>2
  <2>5. ring' = p
    BY <1>2 DEF p
  <2> QED
    BY <2>2, <2>4, <2>5 DEF l
<1>6. Filed'
  BY <1>2, <1>3, <1>4, <1>5 DEF Filed
<1>7. Offered'
  <2>1. offering' \in [Appenders -> [ev : Nat, to : SUBSET Subs]]
    BY <1>2 DEF Nothing
  <2>2. \A a \in Appenders : offering'[a].ev = 0 /\ offering'[a].to = {}
    BY <1>2 DEF Nothing
  <2>3. Len(disk') \in Nat
    BY <1>2, <1>3
  <2> QED
    BY <2>1, <2>2, <2>3 DEF Offered
<1>8. ASSUME NEW s \in Subs
      PROVE  Sound(sub[s], Len(disk), seq, Pending(s))'
  <2>1. sub'[s] = Idle /\ Pending(s)' = {}
    BY <1>2 DEF Pending, Nothing
  <2> QED
    BY <2>1, IdleFacts DEF Sound, On
<1>9. sub' \in [Subs -> Subscription]
  BY <1>2, IdleFacts
<1> QED
  BY <1>6, <1>7, <1>8, <1>9 DEF StreamInv

LEMMA StreamKept ==
    ASSUME StreamInv, [Next]_vars
    PROVE  StreamInv'
<1>1. CASE UNCHANGED vars
  <2>1. UNCHANGED <<disk, seq, ring, broken, offering, sub>>
    BY <1>1 DEF vars
  <2> QED
    BY <2>1 DEF StreamInv, Filed, Offered, Pending
<1>2. CASE Close
  <2>1. UNCHANGED <<disk, seq, ring, broken, offering, sub>>
    BY <1>2 DEF Close
  <2> QED
    BY <2>1 DEF StreamInv, Filed, Offered, Pending
<1>3. ASSUME NEW a \in Appenders, Append1(a) \/ AppendAlone(a) \/ \E s \in Subs : Offer(a, s)
      PROVE  StreamInv'
  BY <1>3, Append1Keeps, AppendAloneKeeps, OfferKeeps
<1>4. ASSUME NEW s \in Subs,
             \/ \E from \in 0..seq : Subscribe(s, from)
             \/ SubscribeBacklog(s) \/ SubscribeFails(s)
             \/ Send(s) \/ BacklogDone(s) \/ Drain(s) \/ BatchDone(s) \/ Notified(s)
             \/ Unsubscribe(s)
      PROVE  StreamInv'
  BY <1>4, OwnSteps, UnsubscribeKeeps
<1>5. CASE AppendFails \/ Reopen
  BY <1>5, AppendFailsKeeps, ReopenKeeps
<1> QED
  BY <1>1, <1>2, <1>3, <1>4, <1>5 DEF Next

LEMMA StreamFirst ==
    ASSUME Init
    PROVE  StreamInv
<1>1. <<>> \in Seq(Nat) /\ Len(<<>>) = 0 /\ DOMAIN <<>> = {}
  OBVIOUS
<1>2. Filed
  BY <1>1 DEF Init, Filed
<1>3. Offered
  BY <1>1 DEF Init, Offered, Nothing
<1>4. sub \in [Subs -> Subscription]
  BY IdleFacts DEF Init
<1>5. ASSUME NEW s \in Subs
      PROVE  Sound(sub[s], Len(disk), seq, Pending(s))
  <2>1. sub[s] = Idle /\ Pending(s) = {}
    BY DEF Init, Pending, Nothing
  <2> QED
    BY <2>1, IdleFacts DEF Sound, On
<1> QED
  BY <1>2, <1>3, <1>4, <1>5 DEF StreamInv

\* A subscription that has settled has nothing left in the queue or on the way.
LEMMA StreamImplies ==
    ASSUME StreamInv
    PROVE  StreamExact
<1> SUFFICES ASSUME NEW s \in Subs
             PROVE  /\ \A i, j \in DOMAIN sub[s].got :
                          i # j => sub[s].got[i] = Lag \/ sub[s].got[i] # sub[s].got[j]
                    /\ Settled(s) /\ ~WasLagged(s) =>
                          Events(s) = {n \in ToSet(disk) : n > sub[s].from}
  BY DEF StreamExact
<1>1. Filed /\ sub[s] \in Subscription /\ Sound(sub[s], Len(disk), seq, Pending(s))
  BY DEF StreamInv
<1>2. Single(sub[s].got)
  BY <1>1, EmptyFacts DEF Sound, Once
<1>3. ASSUME Settled(s), ~WasLagged(s)
      PROVE  Events(s) = {n \in ToSet(disk) : n > sub[s].from}
  <2>1. /\ sub[s].stage = "wait" /\ ~sub[s].notify /\ Pending(s) = {}
        /\ ~HasLag(sub[s].got)
    BY <1>3 DEF Settled, WasLagged, HasLag, Pending
  <2>2. Awake(sub[s]) /\ Whole(sub[s], Len(disk), Pending(s))
    BY <1>1, <2>1 DEF Sound, On
  <2>3. sub[s].queue = <<>> /\ sub[s].todo = <<>> /\ ~sub[s].lagged
    BY <2>1, <2>2 DEF Awake
  <2>4. Beyond(sub[s].from, Len(disk)) = In(sub[s].got)
    BY <2>1, <2>2, <2>3, EmptyFacts DEF Whole
  <2>5. ToSet(disk) = 1..Len(disk)
    <3>1. disk \in Seq(Nat) /\ \A i \in 1..Len(disk) : disk[i] = i
      BY <1>1 DEF Filed
    <3> QED
      BY <3>1 DEF ToSet
  <2> QED
    BY <2>4, <2>5 DEF Beyond, Events, In
<1> QED
  BY <1>2, <1>3 DEF Single

(***************************************************************************)
(* Whoever appends and subscribes, in whatever order, with writes that     *)
(* fail, queues that overflow and a process that ends and another that     *)
(* opens the file: no subscription is told an event twice, and one that    *)
(* has settled without being told it lagged has been told all that is on   *)
(* file from where it asked (eventlog.go Append, Since; subscriber.go      *)
(* Subscribe, offer, drain, forward).                                      *)
(***************************************************************************)
THEOREM StreamsAreExact == Spec => []StreamExact
<1>1. Init => StreamInv
  BY StreamFirst
<1>2. StreamInv /\ [Next]_vars => StreamInv'
  BY StreamKept
<1>3. StreamInv => StreamExact
  BY StreamImplies
<1> QED
  BY <1>1, <1>2, <1>3, PTL DEF Spec
=============================================================================

------------------------------ MODULE EventLog ------------------------------
(***************************************************************************)
(* A thread's event log and its subscribers: eventlog/eventlog.go and      *)
(* eventlog/subscriber.go.                                                 *)
(*                                                                         *)
(* Events are their sequence numbers.  Append numbers, writes and keeps an *)
(* event under the log's lock and offers it to the subscribers outside it; *)
(* Subscribe registers under the lock, reads the backlog outside it, and a *)
(* goroutine (forward) sends backlog and live events on.                   *)
(***************************************************************************)
EXTENDS Integers, Sequences, FiniteSets, SequencesExt

CONSTANTS Appenders,   \* goroutines that append: the run, the connections, the archive
          Subs,        \* subscriptions
          RingCap,     \* Options.Ring
          QueueCap,    \* Options.Queue
          MaxSeq,      \* bound: events
          MaxFaults    \* bound: failed writes, crashes and canceled subscriptions

ASSUME LogAssumption == RingCap \in Nat

VARIABLES
    disk,      \* the events on file, in order
    torn,      \* the file ends in part of a line
    seq,       \* Log.seq
    ring,      \* the newest events, oldest first
    broken,    \* the bufio.Writer has failed; its error is sticky
    state,     \* "open", "closed", or "unreadable": Open returned an error
    offering,  \* per appender: the event and the subscribers it is still to be offered to
    sub,       \* per subscription: see Idle
    faults

vars == <<disk, torn, seq, ring, broken, state, offering, sub, faults>>

Nothing == [ev |-> 0, to |-> {}]

\* stage: where Subscribe and forward are; todo: what forward has still to send;
\* got: what came out of the channel, Lag for an Update with Lagged set.
Idle == [stage |-> "none", from |-> 0, head |-> 0, queue |-> <<>>, lagged |-> FALSE,
         notify |-> FALSE, todo |-> <<>>, got |-> <<>>]
Lag == 0

Registered == {s \in Subs : sub[s].stage \notin {"none", "failed"}}
Newest(n, q) == SubSeq(q, IF Len(q) > n THEN Len(q) - n + 1 ELSE 1, Len(q))

\* What is at the positions `at' of q, in order.
Picked(q, at) ==
    LET Rank(i) == Cardinality({j \in at : j <= i})
    IN  [n \in 1..Cardinality(at) |-> q[CHOOSE i \in at : Rank(i) = n]]
After(q, from) == Picked(q, {i \in DOMAIN q : q[i] > from})
UpTo(q, head) == Picked(q, {i \in DOMAIN q : q[i] <= head})

-----------------------------------------------------------------------------
Init ==
    /\ disk = <<>> /\ torn = FALSE /\ seq = 0 /\ ring = <<>>
    /\ broken = FALSE /\ state = "open"
    /\ offering = [a \in Appenders |-> Nothing]
    /\ sub = [s \in Subs |-> Idle]
    /\ faults = 0

Append1(a) ==
    /\ state = "open" /\ ~broken /\ seq < MaxSeq
    /\ offering[a] = Nothing
    /\ seq' = seq + 1
    /\ disk' = Append(disk, seq + 1)
    /\ ring' = Newest(RingCap, Append(ring, seq + 1))
    /\ offering' = [offering EXCEPT ![a] = [ev |-> seq + 1, to |-> Registered]]
    /\ UNCHANGED <<torn, broken, state, sub, faults>>

\* A write that fails takes the number back, a flush that fails does not; part of the line
\* may be on file, and every later append fails.
AppendFails ==
    /\ state = "open" /\ ~broken /\ faults < MaxFaults /\ seq < MaxSeq
    /\ seq' \in {seq, seq + 1}
    /\ torn' \in BOOLEAN
    /\ broken' = TRUE
    /\ faults' = faults + 1
    /\ UNCHANGED <<disk, ring, state, offering, sub>>

\* The notification is lost when forward is not at its select.
OfferToUnbuffered(s, ev) ==
    LET full == Len(sub[s].queue) >= QueueCap
    IN  [sub EXCEPT ![s].queue = IF full THEN <<ev>> ELSE Append(@, ev),
                    ![s].lagged = @ \/ full,
                    ![s].notify = (sub[s].stage = "wait")]

\* offer: a full queue is dropped, and the subscriber told.
OfferTo(s, ev) ==
    LET full == Len(sub[s].queue) >= QueueCap
    IN  [sub EXCEPT ![s].queue = IF full THEN <<ev>> ELSE Append(@, ev),
                    ![s].lagged = @ \/ full,
                    ![s].notify = TRUE]

Offer(a, s) ==
    /\ s \in offering[a].to
    /\ sub' = OfferTo(s, offering[a].ev)
    /\ offering' = [offering EXCEPT ![a] =
          IF @.to = {s} THEN Nothing ELSE [ev |-> @.ev, to |-> @.to \ {s}]]
    /\ UNCHANGED <<disk, torn, seq, ring, broken, state, faults>>

AppendAlone(a) ==
    /\ offering[a] # Nothing /\ offering[a].to = {}
    /\ offering' = [offering EXCEPT ![a] = Nothing]
    /\ UNCHANGED <<disk, torn, seq, ring, broken, state, sub, faults>>

-----------------------------------------------------------------------------
Others == UNCHANGED <<disk, torn, seq, ring, broken, state, offering, faults>>

Subscribe(s, from) ==
    /\ state = "open" /\ sub[s].stage = "none"
    /\ sub' = [sub EXCEPT ![s] = [Idle EXCEPT !.stage = "since", !.from = from, !.head = seq]]
    /\ Others

\* Since: from memory when the ring reaches back far enough, else from the file.
InMemory(from) == ring # <<>> /\ from + 1 >= ring[1]
Since(from) == IF InMemory(from) THEN After(ring, from) ELSE After(disk, from)

SubscribeBacklogUnfiltered(s) ==
    /\ sub[s].stage = "since"
    /\ InMemory(sub[s].from) \/ ~torn
    /\ sub' = [sub EXCEPT ![s].stage = "backlog", ![s].todo = Since(sub[s].from)]
    /\ Others
SubscribeBacklog(s) ==
    /\ sub[s].stage = "since"
    /\ InMemory(sub[s].from) \/ ~torn
    /\ sub' = [sub EXCEPT ![s].stage = "backlog",
                          ![s].todo = UpTo(Since(sub[s].from), sub[s].head)]
    /\ Others

SubscribeFails(s) ==
    /\ sub[s].stage = "since" /\ ~InMemory(sub[s].from) /\ torn
    /\ sub' = [sub EXCEPT ![s] = [Idle EXCEPT !.stage = "failed"]]
    /\ Others

\* forward: send the next of the backlog or of a drained batch, or go on.
Send(s) ==
    /\ sub[s].stage \in {"backlog", "batch"} /\ sub[s].todo # <<>>
    /\ sub' = [sub EXCEPT ![s].got = Append(@, Head(sub[s].todo)), ![s].todo = Tail(@)]
    /\ Others

BacklogDone(s) ==
    /\ sub[s].stage = "backlog" /\ sub[s].todo = <<>>
    /\ sub' = [sub EXCEPT ![s].stage = "drain"]
    /\ Others

Drain(s) ==
    /\ sub[s].stage = "drain"
    /\ sub' = [sub EXCEPT ![s] =
          [@ EXCEPT !.stage = "batch", !.queue = <<>>, !.lagged = FALSE,
                    !.todo = IF sub[s].lagged THEN <<Lag>> ELSE After(sub[s].queue, sub[s].head)]]
    /\ Others

BatchDone(s) ==
    /\ sub[s].stage = "batch" /\ sub[s].todo = <<>>
    /\ sub' = [sub EXCEPT ![s].stage = "wait"]
    /\ Others

Notified(s) ==
    /\ sub[s].stage = "wait" /\ sub[s].notify
    /\ sub' = [sub EXCEPT ![s].stage = "drain", ![s].notify = FALSE]
    /\ Others

\* The subscription's context is done: forward returns and unsubscribes.  What is still
\* offered to it goes nowhere.
Unsubscribe(s) ==
    /\ s \in Registered /\ sub[s].stage # "since" /\ faults < MaxFaults
    /\ sub' = [sub EXCEPT ![s] = Idle]
    /\ offering' = [a \in Appenders |-> [offering[a] EXCEPT !.to = @ \ {s}]]
    /\ faults' = faults + 1
    /\ UNCHANGED <<disk, torn, seq, ring, broken, state>>

-----------------------------------------------------------------------------
Close ==
    /\ state = "open" /\ faults < MaxFaults
    /\ state' = "closed" /\ faults' = faults + 1
    /\ UNCHANGED <<disk, torn, seq, ring, broken, offering, sub>>

\* The process ends, possibly inside a write, and another opens the file: replay fails on a
\* line it cannot decode.
Reopen ==
    /\ faults < MaxFaults /\ faults' = faults + 1
    /\ torn' \in {torn, TRUE}
    /\ state' = IF torn' THEN "unreadable" ELSE "open"
    /\ seq' = IF disk = <<>> THEN 0 ELSE disk[Len(disk)]
    /\ ring' = Newest(RingCap, disk)
    /\ broken' = FALSE
    /\ offering' = [a \in Appenders |-> Nothing]
    /\ sub' = [s \in Subs |-> Idle]
    /\ UNCHANGED disk

Next ==
    \/ \E a \in Appenders : Append1(a) \/ AppendAlone(a) \/ \E s \in Subs : Offer(a, s)
    \/ \E s \in Subs :
          \/ \E from \in 0..seq : Subscribe(s, from)
          \/ SubscribeBacklog(s) \/ SubscribeFails(s)
          \/ Send(s) \/ BacklogDone(s) \/ Drain(s) \/ BatchDone(s) \/ Notified(s)
          \/ Unsubscribe(s)
    \/ AppendFails \/ Close \/ Reopen

\* Goroutines that can run do; nobody has to subscribe, append or fail.
Progress ==
    \/ \E a \in Appenders : AppendAlone(a) \/ \E s \in Subs : Offer(a, s)
    \/ \E s \in Subs : \/ SubscribeBacklog(s) \/ SubscribeFails(s) \/ Send(s) \/ BacklogDone(s)
                      \/ Drain(s) \/ BatchDone(s) \/ Notified(s)
Fairness == WF_vars(Progress)

Spec == Init /\ [][Next]_vars
FairSpec == Spec /\ Fairness

-----------------------------------------------------------------------------
Events(s) == {sub[s].got[i] : i \in DOMAIN sub[s].got} \ {Lag}
WasLagged(s) == \E i \in DOMAIN sub[s].got : sub[s].got[i] = Lag
Settled(s) ==
    /\ sub[s].stage = "wait" /\ ~sub[s].notify
    /\ \A a \in Appenders : s \notin offering[a].to

(* A subscription is the log from where it was asked for: no event comes   *)
(* twice, whatever was appended between registering, reading the backlog   *)
(* and the first drain, and once it has settled none on file is missing    *)
(* unless it was told it lagged (eventlog/subscriber.go, Subscribe).       *)
StreamExact ==
    \A s \in Subs :
        /\ \A i, j \in DOMAIN sub[s].got :
              i # j => sub[s].got[i] = Lag \/ sub[s].got[i] # sub[s].got[j]
        /\ Settled(s) /\ ~WasLagged(s) =>
              Events(s) = {n \in ToSet(disk) : n > sub[s].from}

(* Every event on file reaches every subscription that asked for it, or    *)
(* the subscription learns of a gap: no notification is lost between an    *)
(* offer and a drain (eventlog/subscriber.go, offer, drain, forward).      *)
Delivered ==
    \A s \in Subs : \A n \in 1..MaxSeq :
        (s \in Registered /\ n \in ToSet(disk) /\ n > sub[s].from) ~>
            (s \notin Registered \/ n \in Events(s) \/ WasLagged(s))

-----------------------------------------------------------------------------
(* What comments in the code say and TLC refutes: README, Disagreements.   *)

\* event/event.go:88: "Seq is unique and monotonic per thread, so a client can resume a
\* stream from its last Seq": events reach a subscription in order.
InOrder ==
    \A s \in Subs : \A i, j \in DOMAIN sub[s].got :
        i < j /\ sub[s].got[i] # Lag /\ sub[s].got[j] # Lag => sub[s].got[i] < sub[s].got[j]

\* eventlog/subscriber.go:68: the "returned channel is closed when ctx is done or the log is
\* closed".
CloseEndsStreams == \A s \in Subs : [](state = "closed" => <>(s \notin Registered))

\* thread/history.go:136 of the sidecar, "A truncated tail is what a killed process leaves":
\* the log beside it can be opened again too.
ReopensAfterCrash == state # "unreadable"
=============================================================================

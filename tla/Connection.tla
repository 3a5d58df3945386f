----------------------------- MODULE Connection -----------------------------
(***************************************************************************)
(* One client connection: daemon/conn.go on the daemon's side and          *)
(* api/client.go with tui/bridge.go on the client's.                       *)
(*                                                                         *)
(* The daemon reads commands one after another and answers each before it  *)
(* reads the next; forwarders push the pending list and the events of      *)
(* subscribed threads.  All of them put messages on `out`, which one       *)
(* writer goroutine sends.  The client hands a reply to the call that      *)
(* waits for its id and everything else to a bounded channel of events.    *)
(***************************************************************************)
EXTENDS Integers, Sequences, FiniteSets, SequencesExt

CONSTANTS MaxCmds,      \* bound: commands the client issues after its hello
          MaxPushes,    \* bound: changes of the pending list, and events of a thread
          OutCap,       \* outQueueSize
          EventCap      \* eventBuffer

VARIABLES
    up,          \* both ends of the socket are open
    inbound,     \* commands on the socket, not yet read
    reader,      \* handleConn's own goroutine: see Init
    reply,       \* the message the reader is sending
    subscribed,  \* conn.subs
    forwarder,   \* per forwarder: "none", "wait", "send", "done"
    push,        \* per forwarder: the message it is sending
    out,         \* conn.out
    outClosed,
    writing,     \* the writer goroutine has not returned
    wake,        \* conn.wake holds a token
    pending,     \* the broker's list, as the number of its changes
    event,       \* events the subscribed thread's log has for this connection
    outbound,    \* messages on the socket, not yet read by the client
    call,        \* per command: "new", "waiting", "done", "timeout", "failed"
    events,      \* Client.events
    closed,      \* the client's read goroutine has returned
    shown        \* the pending list the client was last handed

daemon == <<inbound, reader, reply, subscribed, forwarder, push, out, outClosed,
            writing, wake>>
client == <<call, events, closed, shown>>
vars == <<up, daemon, pending, event, outbound, client>>

Cmds == 0..MaxCmds        \* command 0 is Dial's hello
Kinds == {"hello", "subscribe", "other"}
Forwarders == {"pending", "events"}
Message(kind, n) == [kind |-> kind, n |-> n]
Pushed == Message("none", 0)

\* reader: "read" at Scan, "handle" inside a handler, "send" with a reply to queue, then
\* "stop" (wg.Wait), "drain" (writerWG.Wait) and "gone" of the teardown.
Init ==
    /\ up = TRUE /\ inbound = <<>> /\ reader = "read" /\ reply = Pushed
    /\ subscribed = FALSE
    /\ forwarder = [f \in Forwarders |-> IF f = "pending" THEN "wait" ELSE "none"]
    /\ push = [f \in Forwarders |-> Pushed]
    /\ out = <<>> /\ outClosed = FALSE /\ writing = TRUE /\ wake = FALSE
    /\ pending = 0 /\ event = 0 /\ outbound = <<>>
    /\ call = [c \in Cmds |-> "new"] /\ events = <<>> /\ closed = FALSE /\ shown = 0

-----------------------------------------------------------------------------
(* The client.                                                             *)

\* Do: register a waiter, then write.  Everything but the hello waits for Dial to return.
Do(c, kind) ==
    /\ ~closed /\ call[c] = "new"
    /\ IF c = 0 THEN kind = "hello" ELSE kind # "hello" /\ call[0] = "done"
    /\ call' = [call EXCEPT ![c] = IF up THEN "waiting" ELSE "failed"]
    /\ inbound' = IF up THEN Append(inbound, Message(kind, c)) ELSE inbound
    /\ UNCHANGED <<up, reader, reply, subscribed, forwarder, push, out, outClosed,
                   writing, wake, pending, event, outbound, events, closed, shown>>

\* The caller's context runs out; Do forgets the waiter.
Timeout(c) ==
    /\ call[c] = "waiting"
    /\ call' = [call EXCEPT ![c] = "timeout"]
    /\ UNCHANGED <<up, daemon, pending, event, outbound, events, closed, shown>>

\* deliver: to the waiter, else to the events channel, which drops what it has no room for.
Deliver ==
    /\ ~closed /\ outbound # <<>>
    /\ LET m == Head(outbound)
           waited == m.kind = "reply" /\ call[m.n] = "waiting"
       IN /\ call' = IF waited THEN [call EXCEPT ![m.n] = "done"] ELSE call
          /\ events' = IF waited \/ Len(events) >= EventCap THEN events ELSE Append(events, m)
    /\ outbound' = Tail(outbound)
    /\ UNCHANGED <<up, daemon, pending, event, closed, shown>>

\* The socket ends: every waiter fails and the events channel closes.
ReadEnds ==
    /\ ~closed /\ ~up /\ outbound = <<>>
    /\ closed' = TRUE
    /\ call' = [c \in Cmds |-> IF call[c] = "waiting" THEN "failed" ELSE call[c]]
    /\ UNCHANGED <<up, daemon, pending, event, outbound, events, shown>>

\* bridge.forward hands what came to the program.
Forward ==
    /\ events # <<>>
    /\ shown' = IF Head(events).kind = "pending" THEN Head(events).n ELSE shown
    /\ events' = Tail(events)
    /\ UNCHANGED <<up, daemon, pending, event, outbound, call, closed>>

\* The client closes, or dies.
Hangup ==
    /\ up /\ up' = FALSE
    /\ UNCHANGED <<daemon, pending, event, outbound, client>>

-----------------------------------------------------------------------------
(* The daemon's reader.                                                    *)

World == UNCHANGED <<up, pending, event, outbound, client>>

\* readLoop.  A first command that is not a hello ends the connection; Dial's is one.
Read ==
    /\ reader = "read" /\ inbound # <<>>
    /\ reader' = "handle" /\ reply' = Message(Head(inbound).kind, Head(inbound).n)
    /\ inbound' = Tail(inbound)
    /\ UNCHANGED <<subscribed, forwarder, push, out, outClosed, writing, wake>> /\ World

\* A handler does its work and has its one answer; a routine or a model pull takes long.
\* handleSubscribe starts a forwarder the first time only.
Handle ==
    /\ reader = "handle"
    /\ reader' = "send"
    /\ UNCHANGED <<inbound, reply, subscribed, forwarder, push, out, outClosed,
                   writing, wake>> /\ World

Stopped == reader \in {"stop", "drain", "gone"}

Reply ==
    /\ reader = "send" /\ Len(out) < OutCap
    /\ out' = Append(out, Message("reply", reply.n))
    /\ subscribed' = (subscribed \/ reply.kind = "subscribe")
    /\ forwarder' = IF reply.kind = "subscribe" /\ ~subscribed
                    THEN [forwarder EXCEPT !["events"] = "wait"] ELSE forwarder
    /\ reader' = "read" /\ reply' = Pushed
    /\ UNCHANGED <<inbound, push, outClosed, writing, wake>> /\ World

ReadLoopEnds ==
    /\ reader = "read" /\ inbound = <<>> /\ ~up
    /\ reader' = "stop"
    /\ UNCHANGED <<inbound, reply, subscribed, forwarder, push, out, outClosed,
                   writing, wake>> /\ World

ForwardersLeft ==
    /\ reader = "stop"
    /\ reader' = "drain" /\ outClosed' = TRUE
    /\ UNCHANGED <<inbound, reply, subscribed, forwarder, push, out, writing, wake>>
    /\ World

ForwardersDoneOutOpen ==
    /\ reader = "stop"
    /\ \A f \in Forwarders : forwarder[f] \in {"none", "done"}
    /\ reader' = "drain"
    /\ UNCHANGED <<inbound, reply, subscribed, forwarder, push, out, outClosed, writing, wake>>
    /\ World

\* close(c.stop) and cancel happened; wg.Wait returns once the forwarders have.
ForwardersDone ==
    /\ reader = "stop"
    /\ \A f \in Forwarders : forwarder[f] \in {"none", "done"}
    /\ reader' = "drain" /\ outClosed' = TRUE
    /\ UNCHANGED <<inbound, reply, subscribed, forwarder, push, out, writing, wake>>
    /\ World

ConnClosed ==
    /\ reader = "drain" /\ ~writing
    /\ reader' = "gone" /\ up' = FALSE
    /\ UNCHANGED <<inbound, reply, subscribed, forwarder, push, out, outClosed,
                   writing, wake, pending, event, outbound, client>>

-----------------------------------------------------------------------------
(* The daemon's forwarders and writer.                                     *)

ForwarderVars == <<inbound, reader, reply, subscribed, outClosed, writing>>

\* forwardPending: the list is read after the token is taken.
ForwardPending ==
    /\ forwarder["pending"] = "wait" /\ wake /\ ~Stopped
    /\ wake' = FALSE
    /\ push' = [push EXCEPT !["pending"] = Message("pending", pending)]
    /\ forwarder' = [forwarder EXCEPT !["pending"] = "send"]
    /\ UNCHANGED <<ForwarderVars, out>> /\ World

ForwardEvents ==
    /\ forwarder["events"] = "wait" /\ event > push["events"].n /\ ~Stopped
    /\ push' = [push EXCEPT !["events"] = Message("event", @.n + 1)]
    /\ forwarder' = [forwarder EXCEPT !["events"] = "send"]
    /\ UNCHANGED <<ForwarderVars, out, wake>> /\ World

Send(f) ==
    /\ forwarder[f] = "send" /\ Len(out) < OutCap
    /\ out' = Append(out, push[f])
    /\ forwarder' = [forwarder EXCEPT ![f] = "wait"]
    /\ UNCHANGED <<ForwarderVars, push, wake>> /\ World

\* Both the select of a forwarder and its send give way to stop.
Stop(f) ==
    /\ Stopped /\ forwarder[f] \in {"wait", "send"}
    /\ forwarder' = [forwarder EXCEPT ![f] = "done"]
    /\ UNCHANGED <<ForwarderVars, push, out, wake>> /\ World

Write ==
    /\ writing /\ out # <<>> /\ up
    /\ outbound' = Append(outbound, Head(out))
    /\ out' = Tail(out)
    /\ UNCHANGED <<inbound, reader, reply, subscribed, forwarder, push, outClosed,
                   writing, wake, up, pending, event, client>>

\* A write fails, or out is closed and empty.
WriterEnds ==
    /\ writing /\ ((out # <<>> /\ ~up) \/ (out = <<>> /\ outClosed))
    /\ writing' = FALSE
    /\ out' = IF out = <<>> THEN out ELSE Tail(out)
    /\ UNCHANGED <<inbound, reader, reply, subscribed, forwarder, push, outClosed, wake>>
    /\ World

-----------------------------------------------------------------------------
(* The broker changes, and wakePending leaves a token; a thread logs.      *)
BrokerChangesUnbuffered ==
    /\ pending < MaxPushes
    /\ pending' = pending + 1 /\ wake' = (forwarder["pending"] = "wait")
    /\ UNCHANGED <<up, inbound, reader, reply, subscribed, forwarder, push, out,
                   outClosed, writing, event, outbound, client>>
BrokerChanges ==
    /\ pending < MaxPushes
    /\ pending' = pending + 1 /\ wake' = TRUE
    /\ UNCHANGED <<up, inbound, reader, reply, subscribed, forwarder, push, out,
                   outClosed, writing, event, outbound, client>>

ThreadLogs ==
    /\ subscribed /\ event < MaxPushes
    /\ event' = event + 1
    /\ UNCHANGED <<up, daemon, pending, outbound, client>>

DaemonStep ==
    \/ Read \/ Handle \/ Reply \/ ReadLoopEnds \/ ForwardersDone \/ ConnClosed
    \/ ForwardPending \/ ForwardEvents \/ Write \/ WriterEnds
    \/ \E f \in Forwarders : Send(f) \/ Stop(f)

Next ==
    \/ DaemonStep
    \/ \E c \in Cmds : Timeout(c) \/ \E kind \in Kinds : Do(c, kind)
    \/ Deliver \/ ReadEnds \/ Forward \/ Hangup
    \/ BrokerChanges \/ ThreadLogs

\* Goroutines run and handlers end; nobody has to call, hang up or change anything.
Progress == DaemonStep \/ Deliver \/ ReadEnds \/ Forward
Fairness == WF_vars(Progress)

Spec == Init /\ [][Next]_vars
FairSpec == Spec /\ Fairness

-----------------------------------------------------------------------------
(* No goroutine sends on the closed channel `out`, which would end the     *)
(* daemon: it is closed after every forwarder has left, whenever the peer  *)
(* hangs up (daemon/conn.go, handleConn).                                  *)
NoSendOnClosed ==
    outClosed => /\ reader \in {"drain", "gone"}
                 /\ \A f \in Forwarders : forwarder[f] \in {"none", "done"}

(* A change of the pending list reaches a client that stays connected, or  *)
(* is overtaken by a later one, although one token stands for any number   *)
(* of changes (daemon/conn.go, forwardPending; daemon.go, wakePending).    *)
PendingShown ==
    \A n \in 1..MaxPushes : pending = n ~> (shown >= n \/ ~up)

(* A connection whose peer is gone is taken down to the last goroutine     *)
(* (daemon/conn.go, handleConn).                                           *)
GoneTornDown == ~up ~> reader = "gone"

-----------------------------------------------------------------------------
(* What comments in the code say and TLC refutes: README, Disagreements.   *)

\* daemon/routines.go:62: "a client that disconnects mid-run stops it": a handler does not
\* stay at work with its context live while nobody is connected.
DisconnectStops == [](~up /\ reader = "handle" => Stopped)

\* daemon/conn.go:129: "A reply or a subscribed backlog must never be dropped for a slow
\* reader".
NothingDropped == [][Deliver /\ call' = call => Len(events') = Len(events) + 1]_vars
=============================================================================

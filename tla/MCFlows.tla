------------------------------ MODULE MCFlows -------------------------------
(***************************************************************************)
(* Three components in which goroutines pass a stream to each other: the   *)
(* event log, a client connection and a pty call.  They share no state: a  *)
(* behaviour is of one of them, and `part' says which; the others stand at *)
(* their initial states.  The log is EventLog's own, with the constants of *)
(* the configuration; the other two are instances.                         *)
(***************************************************************************)
EXTENDS EventLog

VARIABLES part,
          c_up, c_inbound, c_reader, c_reply, c_subscribed, c_forwarder, c_push, c_out,
          c_outClosed, c_writing, c_wake, c_pending, c_event, c_outbound, c_call, c_events,
          c_closed, c_shown,
          p_call, p_prog, p_tty, p_screen, p_reader, p_answerer, p_mu, p_exited, p_seen

c_vars == <<c_up, c_inbound, c_reader, c_reply, c_subscribed, c_forwarder, c_push, c_out, c_outClosed,
           c_writing, c_wake, c_pending, c_event, c_outbound, c_call, c_events, c_closed, c_shown>>
p_vars == <<p_call, p_prog, p_tty, p_screen, p_reader, p_answerer, p_mu, p_exited, p_seen>>
flowVars == <<part, vars, c_vars, p_vars>>

\* A connection whose queues hold all it can be sent: what happens at their bounds is in the
\* README.
C == INSTANCE Connection WITH
    MaxCmds <- 1, MaxPushes <- 2, OutCap <- 6, EventCap <- 6, up <- c_up, inbound <- c_inbound,
    reader <- c_reader, reply <- c_reply, subscribed <- c_subscribed, forwarder <- c_forwarder,
    push <- c_push, out <- c_out, outClosed <- c_outClosed, writing <- c_writing, wake <- c_wake,
    pending <- c_pending, event <- c_event, outbound <- c_outbound, call <- c_call,
    events <- c_events, closed <- c_closed, shown <- c_shown

\* One key and two bytes of output: an answer, an echo of it, two queries.
P == INSTANCE Pty WITH
    Keys <- {"a", "e"}, MaxKeys <- 1, Draws <- {"a", "q"}, MaxOut <- 2, call <- p_call,
    prog <- p_prog, tty <- p_tty, screen <- p_screen, reader <- p_reader, answerer <- p_answerer,
    mu <- p_mu, exited <- p_exited, seen <- p_seen

FlowsInit ==
    /\ part \in {"log", "conn", "pty"}
    /\ Init
    /\ C!Init
    /\ P!Init /\ (part = "pty" \/ (p_call.keys = << >> /\ p_tty.mode = "off"))

FlowsNext ==
    \/ part = "log" /\ Next /\ UNCHANGED <<part, c_vars, p_vars>>
    \/ part = "conn" /\ C!Next /\ UNCHANGED <<part, vars, p_vars>>
    \/ part = "pty" /\ P!Next /\ UNCHANGED <<part, vars, c_vars>>

\* The fairness of each component: goroutines that can run do.
FlowsProgress ==
    \/ part = "log" /\ Progress /\ UNCHANGED <<part, c_vars, p_vars>>
    \/ part = "conn" /\ C!Progress /\ UNCHANGED <<part, vars, p_vars>>
    \/ part = "pty" /\ P!Progress /\ UNCHANGED <<part, vars, c_vars>>

FlowsSpec == FlowsInit /\ [][FlowsNext]_flowVars /\ WF_flowVars(FlowsProgress)

-----------------------------------------------------------------------------
(* Of the log: EventLog's StreamExact and Delivered. *)

\* No goroutine sends on a connection's closed queue, which would end the daemon
\* (Connection!NoSendOnClosed); a client that stays connected is shown the prompts as they
\* stand last, and one that hung up is torn down to the last goroutine
\* (Connection!PendingShown, GoneTornDown).
ClientsServed ==
    /\ [](part = "conn" => C!NoSendOnClosed)
    /\ part = "conn" => C!PendingShown /\ C!GoneTornDown

\* A pty call answers with all of an exited program's output and never takes a key's echo for
\* the answer (Pty!LastWords, AnswerIsReal), and it returns whatever its program does, the
\* program dead and forgotten (Pty!CallReturns).
CallReturns ==
    /\ [](part = "pty" => P!LastWords /\ P!AnswerIsReal)
    /\ part = "pty" => P!CallReturns
=============================================================================

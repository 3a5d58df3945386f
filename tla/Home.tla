-------------------------------- MODULE Home --------------------------------
(***************************************************************************)
(* The lists the terminal client works from (internal/tui home.go,         *)
(* inbox.go, thread.go, bridge.go, run.go) and the answers it sends: the   *)
(* thread list of one project or the fleet, working or archived, asked for *)
(* by keys and by the poll; the prompts the daemon pushes; the selection,  *)
(* and the four places a prompt is answered from.  Every command runs on   *)
(* its own goroutine, so they reach the daemon, and their replies the      *)
(* model, in any order.                                                    *)
(***************************************************************************)
EXTENDS Integers, Sequences, FiniteSets, Functions

CONSTANTS Threads,      \* the threads of every loaded project
          Local,        \* those of the launch root
          Prompts,      \* the prompts that will be asked, [id, thread, question]
          Views,        \* the keys of this instance: a subset of {"scope", "archive", "select", "inbox"}
          MaxFlight     \* commands and replies under way at once

VARIABLES away,         \* the daemon's archived threads
          asked,        \* the prompts it has yet to ask
          open,         \* its pending prompts, oldest first
          flight,       \* commands not yet served and replies not yet applied
          home,         \* fleet, archived, cursor, selected, answering and the rows shown
          pending,      \* the client's list of prompts
          inbox,        \* the inbox's cursor and answer field
          last          \* the answers the last answering key sent, each with what it was typed for

vars == <<away, asked, open, flight, home, pending, inbox, last>>

None == [id |-> "none", thread |-> "none", question |-> FALSE]

Answer(p, text, for) == [prompt |-> p, text |-> text, typedFor |-> for]

Shown == Range(home.rows)

TypeOK ==
    /\ away \subseteq Threads /\ asked \subseteq Prompts /\ Range(open) \subseteq Prompts
    /\ home.fleet \in BOOLEAN /\ home.archived \in BOOLEAN /\ home.answering \in Prompts \cup {None}
    /\ Shown \subseteq Threads /\ home.selected \subseteq Threads /\ home.cursor \in Nat
    /\ Range(pending) \subseteq Prompts
    /\ inbox.cursor \in Nat /\ inbox.answering \in Prompts \cup {None}
    /\ \A a \in last : a.prompt \in Prompts /\ a.typedFor \in Prompts \cup {None}

Init ==
    /\ away \in IF "archive" \in Views THEN SUBSET Threads ELSE {{}}
    /\ asked = Prompts /\ open = << >> /\ flight = {} /\ pending = << >>
    /\ home = [fleet |-> FALSE, archived |-> FALSE, cursor |-> 1, selected |-> {},
               answering |-> None, rows |-> << >>]
    /\ inbox = [cursor |-> 1, answering |-> None]
    /\ last = {}

(***************************************************************************)
(* The daemon.  A list request is answered with the threads of its scope   *)
(* on its side of the archive line, in an order the rows' times decide.    *)
(***************************************************************************)
listThreads(fleet, archived) ==
    {t \in (IF fleet THEN Threads ELSE Local) : t \in away <=> archived}

Ask ==
    /\ \E p \in asked :
         /\ \A i \in DOMAIN open : open[i].thread # p.thread
         /\ asked' = asked \ {p} /\ open' = Append(open, p)
         /\ flight' = flight \cup {[kind |-> "wake"]}
    /\ UNCHANGED <<away, home, pending, inbox, last>>

\* A prompt's run is canceled: it leaves the list with nobody's answer.
Withdraw ==
    /\ \E p \in Range(open) : open' = SelectSeq(open, LAMBDA q : q # p)
    /\ flight' = flight \cup {[kind |-> "wake"]}
    /\ UNCHANGED <<away, asked, home, pending, inbox, last>>

Served(f, reply) == flight' = (flight \ {f}) \cup reply

\* forwardPending reads the list when it is woken; its pushes arrive in the order sent.
forwardPending ==
    \E f \in flight :
      /\ f.kind = "wake" /\ \A g \in flight : g.kind # "push"
      /\ Served(f, {[kind |-> "push", prompts |-> open]})
      /\ UNCHANGED <<away, asked, open, home, pending, inbox, last>>

\* One command of the connection is handled.  An answer to a prompt that is gone is an
\* error the client shows as a lost connection.
Serve ==
    \E f \in flight :
      /\ \/ /\ f.kind = "list"
            /\ LET listed == listThreads(f.fleet, f.archived)
               IN  \E rows \in Bijection(1..Cardinality(listed), listed) :
                     Served(f, {[kind |-> "threads", rows |-> rows]})
            /\ UNCHANGED <<away, open>>
         \/ /\ f.kind = "archive"
            /\ away' = IF f.archived THEN away \cup {f.thread} ELSE away \ {f.thread}
            /\ Served(f, {[kind |-> "thread", thread |-> f.thread]}) /\ UNCHANGED open
         \/ /\ f.kind = "answer" /\ f.prompt \in Range(open)
            /\ open' = SelectSeq(open, LAMBDA q : q # f.prompt)
            /\ Served(f, {[kind |-> "answered", prompts |-> open'], [kind |-> "wake"]})
            /\ UNCHANGED away
         \/ /\ f.kind = "answer" /\ f.prompt \notin Range(open)
            /\ Served(f, {}) /\ UNCHANGED <<away, open>>
      /\ UNCHANGED <<asked, home, pending, inbox, last>>

(***************************************************************************)
(* The bridge.  setScope and setArchiveView store what they were given and *)
(* the request reads it back when it runs; the poll reads the scope alone. *)
(***************************************************************************)
Room(n) == Cardinality({f \in flight : f.kind \notin {"wake", "push"}}) + n <= MaxFlight

Send(fs) == flight' = flight \cup fs

listCmd == [kind |-> "relist"]

list ==
    \E f \in flight :
      /\ f.kind = "relist"
      /\ Served(f, {[kind |-> "list", fleet |-> home.fleet, archived |-> home.archived]})
      /\ UNCHANGED <<away, asked, open, home, pending, inbox, last>>

refresh ==
    /\ Room(1)
    /\ Send({[kind |-> "list", fleet |-> home.fleet, archived |-> FALSE]})
    /\ UNCHANGED <<away, asked, open, home, pending, inbox, last>>

replaceThreads(rows) == [home EXCEPT !.rows = rows]

upsertThread(t) == [home EXCEPT !.rows = IF t \in Range(@) THEN @ ELSE Append(@, t)]

\* applyReply, whichever way the reply came.
Apply ==
    \E f \in flight :
      /\ \/ f.kind = "threads" /\ home' = replaceThreads(f.rows) /\ UNCHANGED pending
         \/ f.kind = "thread" /\ home' = upsertThread(f.thread) /\ UNCHANGED pending
         \/ f.kind \in {"push", "answered"} /\ pending' = f.prompts /\ UNCHANGED home
      /\ Served(f, {})
      /\ UNCHANGED <<away, asked, open, inbox, last>>

(***************************************************************************)
(* Home's keys.                                                            *)
(***************************************************************************)
toggleScope ==
    /\ "scope" \in Views /\ Room(1)
    /\ home' = [home EXCEPT !.fleet = ~@, !.cursor = 1] /\ Send({listCmd})
    /\ UNCHANGED <<away, asked, open, pending, inbox, last>>

toggleArchiveView ==
    /\ "archive" \in Views /\ Room(1)
    /\ home' = [home EXCEPT !.archived = ~@, !.cursor = 1, !.selected = {}] /\ Send({listCmd})
    /\ UNCHANGED <<away, asked, open, pending, inbox, last>>

cappedCursor(n, cursor) == IF cursor > n THEN n ELSE cursor

Row == home.rows[cappedCursor(Len(home.rows), home.cursor)]

selectedIDs ==
    IF home.selected \cap Shown # {} THEN home.selected \cap Shown ELSE {Row}

archiveSelection ==
    /\ "archive" \in Views /\ home.rows # << >> /\ Room(Cardinality(selectedIDs) + 1)
    /\ Send({[kind |-> "archive", thread |-> t, archived |-> ~home.archived] : t \in selectedIDs}
            \cup {listCmd})
    /\ home' = [home EXCEPT !.selected = {}]
    /\ UNCHANGED <<away, asked, open, pending, inbox, last>>

\* j, k, space and *.
Move ==
    /\ home.rows # << >>
    /\ \/ \E i \in DOMAIN home.rows : home' = [home EXCEPT !.cursor = i]
       \/ "select" \in Views
          /\ home' = [home EXCEPT !.selected = IF Row \in @ THEN @ \ {Row} ELSE @ \cup {Row}]
       \/ "select" \in Views
          /\ home' = [home EXCEPT !.selected = IF Shown \subseteq @ THEN {} ELSE @ \cup Shown]
    /\ UNCHANGED <<away, asked, open, flight, pending, inbox, last>>

(***************************************************************************)
(* Answers.                                                                *)
(***************************************************************************)
pendingFor(t) ==
    LET mine == SelectSeq(pending, LAMBDA p : p.thread = t)
    IN IF mine = << >> THEN None ELSE Head(mine)

dropPending(ps) == SelectSeq(pending, LAMBDA p : p \notin ps)

sendAnswers(ps) == Send({[kind |-> "answer", prompt |-> p] : p \in ps})

\* The bulk answer that takes every prompt of the selection.
AnswerableAll(ids) == {pendingFor(t) : t \in ids} \ {None}

\* The prompts of a selection one key answers: a question needs its own words.
Answerable(ids) == {p \in {pendingFor(t) : t \in ids} \ {None} : ~p.question}

\* y, n and a with a selection, which they answer wherever the cursor is.
homeAnswerSelection ==
    LET ps == Answerable(home.selected)
    IN /\ Room(Cardinality(ps))
       /\ sendAnswers(ps) /\ pending' = dropPending(ps)
       /\ home' = [home EXCEPT !.selected = {t \in @ : pendingFor(t) \notin ps}]
       /\ last' = {Answer(p, FALSE, None) : p \in ps}
       /\ UNCHANGED <<away, asked, open, inbox>>

\* homeAnswer on the cursor's row: y, n and a answer a permission and open a question's
\* field; in an open field they are letters, unless the row under it is no question.
homeAnswer ==
    LET p == pendingFor(Row)
    IN \/ /\ p = None /\ home.answering # None
          /\ home' = [home EXCEPT !.answering = None] /\ UNCHANGED <<pending, last, flight>>
       \/ /\ p.question /\ home.answering = None
          /\ home' = [home EXCEPT !.answering = p] /\ UNCHANGED <<pending, last, flight>>
       \/ /\ p # None /\ (p.question => home.answering # None) /\ Room(1)
          /\ sendAnswers({p}) /\ pending' = dropPending({p})
          /\ last' = {Answer(p, p.question, home.answering)}
          /\ home' = [home EXCEPT !.answering = None]

HomeAnswerKey ==
    /\ home.rows # << >>
    /\ IF home.answering = None /\ home.selected # {}
       THEN /\ pendingFor(Row) # None \/ \E t \in home.selected : pendingFor(t) # None
            /\ homeAnswerSelection
       ELSE homeAnswer /\ UNCHANGED <<away, asked, open, inbox>>

\* The inbox: its row is whatever stands at the cursor by the time of the key, and the list
\* keeps an answered row until the daemon's next one.
InboxKey ==
    /\ "inbox" \in Views /\ pending # << >>
    /\ LET row == pending[cappedCursor(Len(pending), inbox.cursor)]
       IN \/ /\ inbox.answering = None /\ row.question
             /\ inbox' = [inbox EXCEPT !.answering = row] /\ UNCHANGED <<flight, last>>
          \/ /\ inbox.answering = None
             /\ \E i \in DOMAIN pending : inbox' = [inbox EXCEPT !.cursor = i]
             /\ UNCHANGED <<flight, last>>
          \/ /\ (row.question => inbox.answering # None) /\ Room(1)
             /\ sendAnswers({row}) /\ last' = {Answer(row, inbox.answering # None, inbox.answering)}
             /\ inbox' = [inbox EXCEPT !.answering = None]
    /\ UNCHANGED <<away, asked, open, home, pending>>

\* threadAnswerKey: the active thread's permission prompt, from the transcript panel.
ThreadAnswerKey ==
    /\ Room(1)
    /\ \E t \in Shown :
         LET p == pendingFor(t)
         IN /\ p # None /\ ~p.question
            /\ sendAnswers({p}) /\ pending' = dropPending({p})
            /\ last' = {Answer(p, FALSE, None)}
            /\ home' = [home EXCEPT !.answering = None]
    /\ UNCHANGED <<away, asked, open, inbox>>

Next == \/ Ask \/ Withdraw \/ forwardPending \/ Serve \/ list \/ refresh \/ Apply
        \/ toggleScope \/ toggleArchiveView \/ archiveSelection \/ Move
        \/ HomeAnswerKey \/ InboxKey \/ ThreadAnswerKey

Spec == Init /\ [][Next]_vars

(***************************************************************************)
(* Properties.                                                             *)
(***************************************************************************)

\* No key alone answers a question: whatever list shifted under the cursor or whatever the
\* selection holds, a question gets an answer only with the text typed for some question
\* (homeAnswerSelection: "a selection answers only the plain permission prompts").
QuestionsGetText ==
    \A a \in last : a.prompt.question => a.text /\ a.typedFor.question

Quiet == flight = {}

\* Refuted: with nothing under way Home shows the side of the archive line the user chose.
\* setArchiveView says it stores the side "for this request and for every poll after it",
\* but refresh sends the scope alone, so the first poll after z puts the working threads
\* under the archive's title, and A then restores them.
ArchiveViewHolds == Quiet /\ Shown # {} => \A t \in Shown : t \in away <=> home.archived

\* Refuted: a poll under way when w is pressed replaces the list w asked for
\* (run.go refresh: "a `w` toggle that won a race against this poll would otherwise be
\* undone by it").
ScopeHolds == Quiet => (Shown \subseteq Local \/ home.fleet)

\* Refuted: a text typed for one question answers another prompt, a permission included:
\* the row is read again at Enter, after a push may have shifted it, and in Home's open
\* field y, n and a answer whatever permission the cursor is on by then (thread.go:
\* "widening a permission by mistyping is the one outcome worth costing a Tab to prevent").
AnswersAsOpened == \A a \in last : a.typedFor # None => a.prompt = a.typedFor

\* Refuted: w keeps the selection that z drops, and y answers the prompts of selected
\* threads that are no longer on screen (home.go toggleArchiveView: "a row that crossed the
\* line is no longer on screen to unmark").
AnswersShown ==
    [][HomeAnswerKey /\ last' # last => \A a \in last' : a.prompt.thread \in Shown]_vars
=============================================================================

------------------------------ MODULE History ------------------------------
(***************************************************************************)
(* What a thread remembers and what its runs show the model.               *)
(*                                                                         *)
(* thread/thread.go keeps the messages of a thread in memory and, one line *)
(* each, in a sidecar file (thread/history.go); agent/compact.go builds    *)
(* the messages of a request out of them with the rules of                 *)
(* thread/compaction.go.  A tool result's text is its body and how much of *)
(* it is left: all of it ("full"), its first and last lines ("cut"), or a  *)
(* one-line reference.  Sizes are estimated tokens.                        *)
(***************************************************************************)
EXTENDS Integers, Sequences, FiniteSets, SequencesExt

CONSTANTS Bodies,      \* the texts tools return
          Size,        \* Size[b]: the tokens of b
          CutSize,     \* CutSize[b]: of its first and last lines; Size[b] when it is short
          MaskCost,    \* of "[tool result from turn n omitted, see thread log]"
          RefCost,     \* of "[same content as turn n, hash h]"
          TextCost,    \* of a message that is not a tool result
          Budgets,     \* the context budgets of the tiers a turn may be routed to
          MaxEntries,  \* bound: lines ever written
          MaxTurns,    \* bound: turns
          MaxFaults    \* bound: failed writes and crashes

VARIABLES
    lines,      \* the sidecar: messages, and NoLine where a line does not decode
    open,       \* its last line has no newline yet
    entries,    \* Thread.entries
    turn,       \* Thread.turn
    compacted,  \* run.compacted
    through,    \* run.compactedThrough
    cold,       \* run.prefixCold
    sent,       \* the messages of the run's last request
    faults      \* how many writes failed and processes died

vars == <<lines, open, entries, turn, compacted, through, cold, sent, faults>>

NoLine == [role |-> "none"]

Text(role) == [role |-> role, turn |-> turn, content |-> [form |-> "text"]]
Result(b) == [role |-> "tool", turn |-> turn, content |-> [form |-> "full", body |-> b]]

-----------------------------------------------------------------------------
(* The rules of thread/compaction.go.                                      *)

Cost(c) ==
    CASE c.form = "full"   -> Size[c.body]
      [] c.form = "cut"    -> CutSize[c.body]
      [] c.form = "masked" -> MaskCost
      [] c.form = "ref"    -> RefCost
      [] c.form = "text"   -> TextCost

EstimateTokens(items) == FoldLeft(LAMBDA n, m : n + Cost(m.content), 0, items)

TruncateToolOutput(items) ==
    [i \in DOMAIN items |->
        IF /\ items[i].role = "tool"
           /\ items[i].content.form = "full"
           /\ CutSize[items[i].content.body] < Size[items[i].content.body]
        THEN [items[i] EXCEPT !.content = [form |-> "cut", body |-> items[i].content.body]]
        ELSE items[i]]

\* From the newest back; the newest is kept whatever it costs.
MaskOldToolResults(items, budget) ==
    LET Keep(m, acc) ==
            [left |-> acc.left - Cost(m.content), newest |-> FALSE, out |-> <<m>> \o acc.out]
        Mask(m, acc) ==
            [acc EXCEPT !.out = <<[m EXCEPT !.content = [form |-> "masked", turn |-> m.turn]]>> \o @]
        Step(m, acc) ==
            IF m.role # "tool" THEN [acc EXCEPT !.out = <<m>> \o @]
            ELSE IF acc.newest \/ Cost(m.content) <= acc.left \/ Cost(m.content) <= MaskCost
            THEN Keep(m, acc)
            ELSE Mask(m, acc)
    IN FoldRight(Step, items, [left |-> budget, newest |-> TRUE, out |-> <<>>]).out

\* hash stands for the content the reference replaced.
DedupeToolReads(items) ==
    LET Same(i) == {j \in 1..i : items[j].role = "tool" /\ items[j].content = items[i].content}
        First(i) == CHOOSE j \in Same(i) : \A k \in Same(i) : j <= k
    IN [i \in DOMAIN items |->
           IF /\ items[i].role = "tool"
              /\ First(i) # i
              /\ Cost(items[i].content) > RefCost
           THEN [items[i] EXCEPT !.content =
                    [form |-> "ref", turn |-> items[First(i)].turn, hash |-> items[i].content]]
           ELSE items[i]]

CompactSwapped(items, budget) ==
    MaskOldToolResults(DedupeToolReads(TruncateToolOutput(items)), budget)
Compact(items, budget) ==
    DedupeToolReads(MaskOldToolResults(TruncateToolOutput(items), budget))

-----------------------------------------------------------------------------
(* agent/compact.go.                                                       *)

Messages(prefix, k) == DedupeToolReads(prefix \o SubSeq(entries, k + 1, Len(entries)))

\* Below the trigger nothing is compacted: three quarters of the budget, a quarter when
\* the provider's cache is cold.
Crosses(estimated, budget) ==
    IF cold THEN 4 * estimated >= budget ELSE 4 * estimated >= 3 * budget

Fresh(budget) == Compact(SubSeq(entries, through + 1, Len(entries)), (2 * budget) \div 5)

Saves(budget) ==
    EstimateTokens(SubSeq(entries, through + 1, Len(entries))) > EstimateTokens(Fresh(budget))

MaybeCompactWhole(budget) ==
    IF Crosses(EstimateTokens(Messages(compacted, through)), budget) /\ Len(entries) > through
    THEN [prefix |-> Compact(entries, (2 * budget) \div 5), upto |-> Len(entries)]
    ELSE [prefix |-> compacted, upto |-> through]

MaybeCompact(budget) ==
    IF /\ Crosses(EstimateTokens(Messages(compacted, through)), budget)
       /\ Len(entries) > through
       /\ Saves(budget)
    THEN [prefix |-> compacted \o Fresh(budget), upto |-> Len(entries)]
    ELSE [prefix |-> compacted, upto |-> through]

-----------------------------------------------------------------------------
(* thread/history.go.                                                      *)

\* historyEntries stops at the first line that does not decode.
Readable(file) ==
    LET bad == {i \in DOMAIN file : file[i] = NoLine}
    IN IF bad = {} THEN file
       ELSE SubSeq(file, 1, (CHOOSE i \in bad : \A j \in bad : i <= j) - 1)

LastTurn(items) == FoldLeft(LAMBDA n, m : IF m.turn > n THEN m.turn ELSE n, 0, items)

\* A write lands after whatever the file ends in: an unterminated line swallows it.
Written(m) == IF open THEN [lines EXCEPT ![Len(lines)] = NoLine] ELSE Append(lines, m)

-----------------------------------------------------------------------------
Init ==
    /\ lines = <<>> /\ open = FALSE /\ entries = <<>> /\ turn = 0
    /\ compacted = <<>> /\ through = 0 /\ cold = FALSE /\ sent = <<>> /\ faults = 0

\* record: the sidecar first, then memory.
Record(m) ==
    /\ Len(lines) < MaxEntries
    /\ lines' = Written(m) /\ open' = FALSE
    /\ entries' = Append(entries, m)
    /\ UNCHANGED <<turn, faults>>

\* A run of the thread: its own compaction, over the history it finds and the prompt.
BeginRun ==
    /\ Record(Text("user"))
    /\ compacted' = <<>> /\ through' = 0 /\ cold' = FALSE /\ sent' = <<>>

Running == entries # <<>> /\ UNCHANGED <<compacted, through, cold, sent>>

AppendUser == Running /\ Record(Text("user"))
AppendAssistant == Running /\ Record(Text("assistant"))
AppendToolResult(b) == Running /\ Record(Result(b))

\* The write fails part-way: the file has a piece of the line, memory has nothing.
RecordFails ==
    /\ Len(lines) < MaxEntries /\ faults < MaxFaults
    /\ faults' = faults + 1
    /\ lines' = Written(NoLine) /\ open' = TRUE
    /\ UNCHANGED <<entries, turn, compacted, through, cold, sent>>

\* BeginTurn, maybeCompact and messages, as Loop.turn runs them.
Request(budget) ==
    LET c == MaybeCompact(budget)
    IN /\ entries # <<>>
       /\ turn' = turn + 1
       /\ compacted' = c.prefix /\ through' = c.upto /\ cold' = FALSE
       /\ sent' = Messages(c.prefix, c.upto)
       /\ UNCHANGED <<lines, open, entries, faults>>

\* A person took longer to answer than the provider's cache lives.
CreditHumanWait ==
    /\ ~cold /\ cold' = TRUE
    /\ UNCHANGED <<lines, open, entries, turn, compacted, through, sent, faults>>

\* The process dies, possibly inside a write, and the thread is opened again.  The piece a
\* write left may lack only its newline, and then it decodes.
Reopen(file, unterminated) ==
    /\ faults < MaxFaults /\ faults' = faults + 1
    /\ lines' = file /\ open' = unterminated
    /\ entries' = Readable(file) /\ turn' = LastTurn(Readable(file))
    /\ compacted' = <<>> /\ through' = 0 /\ cold' = FALSE /\ sent' = <<>>

Crash ==
    \/ Reopen(lines, open)
    \/ /\ Len(lines) < MaxEntries
       /\ \E m \in {NoLine, Text("assistant")} : Reopen(Written(m), TRUE)

Next ==
    \/ BeginRun \/ AppendUser \/ AppendAssistant \/ RecordFails
    \/ CreditHumanWait \/ Crash
    \/ \E b \in Bodies : AppendToolResult(b)
    \/ \E budget \in Budgets : turn < MaxTurns /\ Request(budget)

Spec == Init /\ [][Next]_vars

-----------------------------------------------------------------------------
(* A reference in a request can be followed: the text it stands for is in  *)
(* an earlier message of the same request, so what the model is told to    *)
(* look up was not masked after it was referred to (thread/compaction.go,  *)
(* the order truncate, mask, dedupe; agent/compact.go, messages).          *)
RefsResolve ==
    \A i \in DOMAIN sent :
        sent[i].content.form = "ref" =>
            \E j \in 1..(i - 1) : sent[j].content = sent[i].content.hash

\* The newest tool result of a request is text, or refers to text.
LatestShown ==
    LET tools == {i \in DOMAIN sent : sent[i].role = "tool"}
        newest == CHOOSE i \in tools : \A j \in tools : j <= i
        c == sent[newest].content
    IN tools # {} => IF c.form = "ref" THEN c.hash.form # "masked" ELSE c.form # "masked"

\* Turn numbers never go back along the history, also across a crash.
TurnsInOrder == \A i, j \in DOMAIN entries : i < j => entries[i].turn <= entries[j].turn

(* What the model sees: references that resolve, the latest observation,   *)
(* turn numbers that identify turns.                                       *)
RequestSound == RefsResolve /\ LatestShown /\ TurnsInOrder

(* Within a run, the messages a compaction has settled are sent unchanged  *)
(* in every later request, references put in at the edge included: the     *)
(* provider's cached prefix stays valid (agent/compact.go, maybeCompact).  *)
PrefixKept == through' >= through => SubSeq(sent', 1, through) = SubSeq(sent, 1, through)
PrefixStable == [][PrefixKept]_vars

-----------------------------------------------------------------------------
(* What comments in the code say and TLC refutes: README, Disagreements.   *)

\* agent/compact.go:117: "so no message the model has seen ever changes".
SeenNeverChanges == [][sent' # <<>> => SubSeq(sent', 1, Len(sent)) = sent]_vars

\* thread/history.go:81: "the point of the file is the run that did not end the way it meant
\* to": what memory holds, a restart reads.
SidecarComplete == entries = Readable(lines)
=============================================================================

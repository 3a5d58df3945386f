------------------------------- MODULE Finish -------------------------------
(***************************************************************************)
(* A run's tool calls behind the gate and the hooks, and the deterministic *)
(* checks over what it finished with: internal/hook, internal/finish, the  *)
(* checker that joins them (internal/app/finish.go) and their places in    *)
(* the loop (internal/agent).  Another thread of the project reads and     *)
(* writes the same tree through the same record of opened files.           *)
(*                                                                         *)
(* A file's content is a name; Names gives the identifiers it spells and   *)
(* Diff what a diff between two contents is made of.  An answer is the     *)
(* paths and symbols it names.                                             *)
(***************************************************************************)
EXTENDS Naturals, Sequences, FiniteSets

CONSTANTS
    Files,      \* every path an answer or a task may name
    Start,      \* [Files -> content or Absent] when the run starts
    Texts,      \* what a write leaves
    Names,      \* [content -> set of symbols]
    Diff(_, _), \* the kinds of line that differ: "code", "comment", "star"
    Tasks,      \* what a task or an answer may name: [paths, syms]
    Goal,
    Fixtures, Untested, Tested, \* files by pattern, extension and coverage
    Hook,       \* {"pre", "post"}: the hooks configured
    MaxCalls

Absent == "absent"
NoAnswer == [paths |-> {}, syms |-> {}, said |-> FALSE]
\* Any other exit, a timeout and a command that does not start are one failure.
HookEnds == {"exit 0", "exit 2", "failed"}

VARIABLES
    tree,       \* [Files -> content or Absent]
    index,      \* the symbols the index holds, built before the run
    opened,     \* the files the project's threads have read
    task, marker, \* what was asked, and whether a checkpoint was taken
    history,    \* every path and symbol in the run's transcript
    changes,    \* the recorded changes: sets of [f, ranged]
    mine,       \* ghost: files this run read, files it wrote
    answer, findings, stop, calls, log
vars == <<tree, index, opened, task, marker, history, changes, mine, answer, findings, stop, calls, log>>

Spelled(t) == UNION {Names[t[f]] : f \in {g \in Files : t[g] # Absent}}

Init ==
    /\ tree = Start /\ index = Spelled(Start)
    /\ opened = {} /\ task \in Tasks /\ marker \in BOOLEAN
    /\ history = task.paths \cup task.syms
    /\ changes = {} /\ mine = [read |-> {}, wrote |-> {}]
    /\ answer = NoAnswer /\ findings = {} /\ stop = "" /\ calls = 0 /\ log = {}

---------------------------------------------------------------------------
(* One tool call: gate, hook, tool, hook *)

\* PreToolUse: only a hook that ran to its end and exited 0 lets a call by.
PreToolUse(end) == "pre" \notin Hook \/ end = "exit 0"

\* PostToolUse reports and never refuses.
PostToolUse(end) == "post" \notin Hook \/ end = "exit 0"

Body(f) == IF tree[f] = Absent THEN {} ELSE Names[tree[f]]

\* What the tool does: a read shows the file, an edit records its change with
\* the lines or, for a whole file, without, and a shell command regenerates a
\* file behind the tools, which record nothing where the tree is not read.
Tool(kind, f, v) ==
    CASE kind = "read" ->
            /\ opened' = opened \cup {f} /\ mine' = [mine EXCEPT !.read = @ \cup {f}]
            /\ history' = history \cup Body(f) \cup {f}
            /\ UNCHANGED <<tree, changes>>
      [] kind \in {"edit", "write"} ->
            /\ tree' = [tree EXCEPT ![f] = v]
            /\ changes' = changes \cup {[f |-> f, ranged |-> kind = "edit"]}
            /\ mine' = [mine EXCEPT !.wrote = @ \cup {f}]
            /\ history' = history \cup Names[v] \cup {f}
            /\ UNCHANGED opened
      [] OTHER ->
            /\ tree' = [tree EXCEPT ![f] = v]
            /\ mine' = [mine EXCEPT !.wrote = @ \cup {f}]
            /\ UNCHANGED <<opened, changes, history>>

RunTool(kind, f, v, allowed, pre, post) ==
    /\ stop = "" /\ calls < MaxCalls /\ calls' = calls + 1
    /\ IF allowed /\ PreToolUse(pre)
       THEN /\ Tool(kind, f, v)
            /\ log' = IF PostToolUse(post) THEN log ELSE log \cup {"post hook failed"}
       ELSE /\ log' = IF allowed THEN log \cup {"pre hook refused"} ELSE log
            /\ UNCHANGED <<tree, opened, changes, mine, history>>
    /\ UNCHANGED <<index, task, marker, answer, findings, stop>>

\* Another thread reads or writes; the record of opened files is shared.
Other(f, v, writes) ==
    /\ stop = "" /\ calls < MaxCalls /\ calls' = calls + 1
    /\ IF writes THEN tree' = [tree EXCEPT ![f] = v] /\ UNCHANGED opened
       ELSE opened' = opened \cup {f} /\ UNCHANGED tree
    /\ UNCHANGED <<index, task, marker, history, changes, mine, answer, findings, stop, log>>

---------------------------------------------------------------------------
(* The checks *)

Changed == {c.f : c \in changes}

\* sawName: in the transcript or in a file the run changed
seen(n) == n \in history \/ \E f \in Changed : n \in Body(f)

\* NamedThingsExist, with missingPaths, missingSymbols and indexHolds
NamedThingsExist ==
    {<<"missing", p>> : p \in {q \in answer.paths : ~seen(q) /\ tree[q] = Absent}}
    \cup {<<"unknown", s>> : s \in {n \in answer.syms : ~seen(n) /\ n \notin index}}

\* ChangeSetMatchesTask and ChangeSetMatchesGoal: text that names nothing abstains.
matches(check, text) ==
    IF \/ text.paths = {} /\ text.syms = {}
       \/ Changed \cap text.paths # {}
       \/ \E f \in Changed : Body(f) \cap text.syms # {}
    THEN {} ELSE {<<check, "">>}

\* ChangedLinesAreTested abstains when nothing in the change set is covered.
ChangedLinesAreTested ==
    LET ranged == {c.f : c \in {d \in changes : d.ranged}} \ Untested
    IN  IF ranged \cap Tested = {} \/ ranged \subseteq Tested THEN {}
        ELSE {<<"untested", f>> : f \in ranged \ Tested}

\* ChangeHasSubstance over the diff from the run's checkpoint: a line that
\* opens with * or # counts as a comment.
ChangeHasSubstance ==
    LET lines == UNION {Diff(Start[f], tree[f]) : f \in Changed}
    IN  IF marker /\ lines # {} /\ "code" \notin lines THEN {<<"comments only", "">>} ELSE {}

\* AnswerReadsWhatItNames, for a run that changed nothing
AnswerReadsWhatItNames ==
    IF Changed # {} THEN {}
    ELSE {<<"unopened", p>> : p \in {q \in answer.paths : tree[q] # Absent /\ q \notin opened}}

\* A plausible slip: only what the edit tools recorded counts as written.
wroteRecorded == Changed

\* wrote: what version control says changed since the checkpoint, whoever
\* wrote it; without a checkpoint, the recorded changes
wrote == IF marker THEN {f \in Files : tree[f] # Start[f]} ELSE Changed

FixturesAreAccountedFor == {<<"fixture", f>> : f \in (wrote \cap Fixtures) \ answer.paths}

\* FinishChecker.Check
Check ==
    NamedThingsExist \cup matches("task", task)
    \cup (IF Goal # task THEN matches("goal", Goal) ELSE {})
    \cup ChangedLinesAreTested \cup ChangeHasSubstance \cup AnswerReadsWhatItNames
    \cup FixturesAreAccountedFor

---------------------------------------------------------------------------
(* The end of the run *)

\* The model ends its turn: its text joins the history and is the answer.
EndTurn(a) ==
    /\ stop = "" /\ calls < MaxCalls /\ calls' = calls + 1
    /\ history' = history \cup a.paths \cup a.syms
    /\ answer' = [a EXCEPT !.said = TRUE]
    /\ UNCHANGED <<tree, index, opened, task, marker, changes, mine, findings, stop, log>>

\* complete: findings never fail a run, a lookup that fails does.
Complete(ok) ==
    /\ stop = "" /\ answer.said
    /\ findings' = IF ok THEN Check ELSE {}
    /\ stop' = IF ok THEN "complete" ELSE "error"
    /\ UNCHANGED <<tree, index, opened, task, marker, history, changes, mine, answer, calls, log>>

\* checkAbandoned: a bound ends the run; a failed check is only logged.
Abandon(ok) ==
    /\ stop = ""
    /\ findings' = IF answer.said /\ ok THEN Check ELSE {}
    /\ log' = IF answer.said /\ ~ok THEN log \cup {"checks did not run"} ELSE log
    /\ stop' = "bound"
    /\ UNCHANGED <<tree, index, opened, task, marker, history, changes, mine, answer, calls>>

Next ==
    \/ \E kind \in {"read", "edit", "write", "shell"}, f \in Files, v \in Texts, allowed \in BOOLEAN,
          pre, post \in HookEnds :
          RunTool(kind, f, v, allowed, pre, post)
    \/ \E f \in Files, v \in Texts, w \in BOOLEAN : Other(f, v, w)
    \/ \E a \in Tasks : EndTurn([paths |-> a.paths, syms |-> a.syms, said |-> TRUE])
    \/ \E ok \in BOOLEAN : Complete(ok) \/ Abandon(ok)

Spec == Init /\ [][Next]_vars

---------------------------------------------------------------------------
(* Properties *)

\* A run whose checks ran and that left a golden fixture different from its
\* checkpoint, by whatever tool, either names the fixture in its answer or has
\* the finding that says so.
FixtureReported ==
    stop = "complete" /\ marker =>
        \A f \in mine.wrote \cap Fixtures :
            tree[f] # Start[f] => f \in answer.paths \/ <<"fixture", f>> \in findings

---------------------------------------------------------------------------
(* Stated by the code's comments, and false. *)

\* NamedThingsExist "reports every path and symbol the closing answer names
\* that the tree and the index do not hold": the transcript it clears names by
\* already holds the closing answer.
InventedReported ==
    stop = "complete" =>
        \A p \in answer.paths :
            p \notin task.paths /\ p \notin mine.read \cup mine.wrote /\ tree[p] = Absent /\ Start[p] = Absent
                => <<"missing", p>> \in findings

\* AnswerReadsWhatItNames "reports every existing file the closing answer names
\* that the run never opened": another thread's reads count.
UnopenedReported ==
    stop = "complete" /\ Changed = {} =>
        \A p \in answer.paths : tree[p] # Absent /\ p \notin mine.read => <<"unopened", p>> \in findings

\* "It must never call real code a comment."
SubstanceSound ==
    <<"comments only", "">> \in findings => \A f \in Changed : "star" \notin Diff(Start[f], tree[f])
=============================================================================

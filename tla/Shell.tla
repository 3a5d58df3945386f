------------------------------- MODULE Shell -------------------------------
(***************************************************************************)
(* The shell tool (internal/tools/shell.go) of several threads over one    *)
(* tree, with the project's approval store (internal/permission): a line   *)
(* is judged, approved, leased, run and accounted for in separate steps,   *)
(* and other threads edit the tree between them.                           *)
(*                                                                         *)
(* Lines are named; Line gives the tree each spells and Body what a file   *)
(* holding a content reads as.  Leases are taken in one step: their order  *)
(* and their waiting are the lease manager's.                              *)
(***************************************************************************)
EXTENDS Guard

CONSTANTS
    Threads,
    Files,
    Trees,      \* the trees a run may start from: [Files -> content or Absent]
    Texts,      \* what a write leaves in a file: a content, or Absent
    Line,       \* [line name -> command]
    LongKeys,   \* the lines longer than maxStoredKey
    Body,       \* [content -> [form : {"shell", "other", "large", "unreadable"}, cmd : command]]
    MaxCalls, MaxEdits, MaxCrashes

Lines == DOMAIN Line
Absent == "absent"

VARIABLES
    tree,       \* [Files -> [now : content, ver : Nat]]: a file and its modification time
    base,       \* [Files -> content]: the working-copy commit's parent
    pc, call,   \* each thread's step and the call it is in
    held,       \* [Files -> thread or ""]: leases
    granted,    \* the store's keys in memory
    file,       \* the store's file: keys, "torn" for half a line
    open,       \* the store opened when the daemon started
    yes,        \* ghost: the lines a user answered allow-always to
    calls, edits, crashes
vars == <<tree, base, pc, call, held, granted, file, open, yes, calls, edits, crashes>>
counters == <<calls, edits, crashes>>

NoCall == [line |-> "", verdict |-> "allow", judged |-> <<>>, answer |-> "", before |-> <<>>, own |-> {},
           left |-> {}, changes |-> {}]

Init ==
    /\ base \in Trees
    /\ tree = [f \in Files |-> [now |-> base[f], ver |-> 0]]
    /\ pc = [t \in Threads |-> "idle"] /\ call = [t \in Threads |-> NoCall]
    /\ held = [f \in Files |-> ""]
    /\ granted = {} /\ file = <<>> /\ open = TRUE /\ yes = {}
    /\ calls = 0 /\ edits = 0 /\ crashes = 0

---------------------------------------------------------------------------
(* Judging *)

\* classifyScript: a file that is not there is no script; one the project
\* vouches for is not read; one that cannot be read as shell asks.
classifyScript(f) ==
    IF tree[f].now = Absent \/ VouchedFor(f) THEN "allow"
    ELSE IF Body[tree[f].now].form # "shell" THEN "ask"
    ELSE Classify(Body[tree[f].now].cmd)

\* A plausible slip: the scripts are read only for a line that already asks.
classifyUnread(c) ==
    LET v == Classify(Line[c])
    IN  IF v # "ask" THEN v ELSE worst({v} \cup {classifyScript(f) : f \in ExecutedScripts(Line[c])})

classify(c) ==
    LET v == Classify(Line[c])
    IN  IF v = "refuse" THEN v ELSE worst({v} \cup {classifyScript(f) : f \in ExecutedScripts(Line[c])})

\* A plausible slip: an approval covers the program a line starts with.
approvalKeyProgram(c) == Line[c].top[1][1].words[1].base

\* approvalKey: the whole line, its spacing normalised
approvalKey(c) == c

---------------------------------------------------------------------------
(* The tree on either side of a run *)

\* snapshot: the files that differ from the commit below, each with its size
\* and modification time; a deleted one reads "absent" whenever it went.
snapshot ==
    LET listed == {f \in Files : tree[f].now # base[f]}
    IN  [f \in listed |-> IF tree[f].now = Absent THEN Absent ELSE ToString(tree[f].ver)]

\* A plausible slip: a path that left the listing is not looked for.
wroteListed(before, after) == {f \in DOMAIN after : f \notin DOMAIN before \/ before[f] # after[f]}

wrote(before, after) ==
    {f \in DOMAIN after : f \notin DOMAIN before \/ before[f] # after[f]} \cup (DOMAIN before \ DOMAIN after)

\* What running the line writes (external: the shell and its programs), inside
\* the sandbox's write boundary: the project without its protected paths.
Writable(w) == w.kind = "inside"
Writes(cmd) ==
    {w.file : w \in {v \in UNION {stageTargets(s) :
        s \in Stages(cmd.top) \cup UNION {Stages(x.top) : x \in cmd.subs}} : Writable(v)}}
Runs(cmd) == UNION {scriptsIn(withoutAssignments(w)) :
                      w \in Stages(cmd.top) \cup UNION {Stages(x.top) : x \in cmd.subs}} \ {""}
Effects(c) ==
    Writes(Line[c]) \cup UNION {IF tree[f].now = Absent THEN {} ELSE Writes(Body[tree[f].now].cmd) :
                                f \in Runs(Line[c])}

---------------------------------------------------------------------------
(* Run, step by step *)

\* alreadyKnown: a check the gates have a status for, whole or covering what
\* the line names, and a question to version control.
alreadyKnown(c, status, covers) ==
    \/ /\ status
       /\ \/ ProjectCheck(Line[c])
          \/ DeclaredCheck(Line[c]) /\ (DeclaredPaths(Line[c]) => covers)
          \/ GoPackageSweep(Line[c]) /\ covers
    \/ VCSInspect(Line[c])

Call(t, c, status, covers) ==
    LET v == classify(c)
        judged == [f \in ExecutedScripts(Line[c]) |-> tree[f].now]
        to(p, a) == /\ pc' = [pc EXCEPT ![t] = p]
                    /\ call' = [call EXCEPT ![t] = [NoCall EXCEPT !.line = c, !.verdict = v, !.judged = judged,
                                                                  !.answer = a]]
    IN  /\ open /\ pc[t] = "idle" /\ calls < MaxCalls
        /\ calls' = calls + 1
        /\ IF alreadyKnown(c, status, covers) \/ InPlaceEdit(Line[c]) \/ v = "refuse"
           THEN UNCHANGED <<pc, call>>
           ELSE IF v = "allow" THEN to("lease", "")
           ELSE IF approvalKey(c) \in granted THEN to("lease", "stored")
           ELSE to("asked", "")
        /\ UNCHANGED <<tree, base, held, granted, file, open, yes, edits, crashes>>

\* The gate answers, or the wait ends in an error. Persisting writes an
\* allow-always down; a write that fails changes nothing of the answer.
Answer(t, d, saved) ==
    LET c == call[t].line
        keep == d = "always" /\ saved /\ c \notin LongKeys
    IN  /\ pc[t] = "asked"
        /\ IF d \in {"deny", "error"}
           THEN pc' = [pc EXCEPT ![t] = "idle"] /\ call' = [call EXCEPT ![t] = NoCall]
           ELSE pc' = [pc EXCEPT ![t] = "lease"] /\ call' = [call EXCEPT ![t].answer = d]
        /\ granted' = IF keep THEN granted \cup {approvalKey(c)} ELSE granted
        /\ file' = IF keep THEN Append(file, approvalKey(c)) ELSE file
        /\ yes' = IF d = "always" THEN yes \cup {c} ELSE yes
        /\ UNCHANGED <<tree, base, held, open, counters>>

\* holdAll, then the snapshot before
Take(t) ==
    LET want == WriteTargets(Line[call[t].line]) \cap Files
    IN  /\ pc[t] = "lease"
        /\ \A f \in want : held[f] \in {"", t}
        /\ held' = [f \in Files |-> IF f \in want THEN t ELSE held[f]]
        /\ pc' = [pc EXCEPT ![t] = "run"]
        /\ call' = [call EXCEPT ![t].before = snapshot, ![t].left = Effects(call[t].line)]
        /\ UNCHANGED <<tree, base, granted, file, open, yes, counters>>

Put(f, v) == tree' = [tree EXCEPT ![f] = [now |-> v, ver |-> @.ver + 1]]

\* The command writes one of its files, or gives up on it.
RunWrite(t, f, v) ==
    /\ pc[t] = "run" /\ f \in call[t].left
    /\ Put(f, v)
    /\ call' = [call EXCEPT ![t].left = @ \ {f}, ![t].own = @ \cup {f}]
    /\ UNCHANGED <<base, pc, held, granted, file, open, yes, counters>>

\* The command ends, whatever is left undone; the snapshot after, the release
Finish(t) ==
    /\ pc[t] = "run"
    /\ call' = [call EXCEPT ![t].changes = wrote(call[t].before, snapshot)]
    /\ pc' = [pc EXCEPT ![t] = "done"]
    /\ held' = [f \in Files |-> IF held[f] = t THEN "" ELSE held[f]]
    /\ UNCHANGED <<tree, base, granted, file, open, yes, counters>>

Return(t) ==
    /\ pc[t] = "done"
    /\ pc' = [pc EXCEPT ![t] = "idle"] /\ call' = [call EXCEPT ![t] = NoCall]
    /\ UNCHANGED <<tree, base, held, granted, file, open, yes, counters>>

\* Another tool of an idle thread writes a file it can lease.
Edit(t, f, v) ==
    /\ pc[t] = "idle" /\ held[f] = "" /\ edits < MaxEdits
    /\ edits' = edits + 1
    /\ Put(f, v)
    /\ UNCHANGED <<base, pc, call, held, granted, file, open, yes, calls, crashes>>

\* The daemon dies, possibly halfway through the line it was appending, and
\* OpenStore reads the file back; half a line fails the whole open.
Crash(torn) ==
    LET on == IF torn THEN Append(file, "torn") ELSE file
    IN  /\ crashes < MaxCrashes /\ crashes' = crashes + 1
        /\ torn => \E t \in Threads : pc[t] = "asked"
        /\ file' = on
        /\ open' = ("torn" \notin ToSet(on))
        /\ granted' = IF open' THEN ToSet(on) ELSE {}
        /\ pc' = [t \in Threads |-> "idle"] /\ call' = [t \in Threads |-> NoCall]
        /\ held' = [f \in Files |-> ""]
        /\ UNCHANGED <<tree, base, yes, calls, edits>>

Next ==
    \/ \E t \in Threads, c \in Lines, s, k \in BOOLEAN : Call(t, c, s, k)
    \/ \E t \in Threads, d \in {"allow", "always", "deny", "error"}, s \in BOOLEAN : Answer(t, d, s)
    \/ \E t \in Threads : Take(t) \/ Finish(t) \/ Return(t)
    \/ \E t \in Threads, f \in Files, v \in Texts : RunWrite(t, f, v) \/ Edit(t, f, v)
    \/ \E torn \in BOOLEAN : Crash(torn)

Spec == Init /\ [][Next]_vars

---------------------------------------------------------------------------
(* Properties *)

\* The commands a line's reading reaches, and the scripts as they were judged.
Reached(cmd) == Stages(cmd.top) \cup UNION {Stages(s.top) : s \in Subs(cmd)}
Judged(t) ==
    {Body[call[t].judged[f]] : f \in {g \in DOMAIN call[t].judged :
                                        call[t].judged[g] # Absent /\ ~VouchedFor(g)}}
AllReached(t) ==
    Reached(Line[call[t].line]) \cup UNION {Reached(b.cmd) : b \in {x \in Judged(t) : x.form = "shell"}}

\* Nothing a rule refuses runs, whether it stands in the line, in one of its
\* substitutions or in a script it runs, and whatever was approved; and what a
\* rule asks about runs only after a user said yes to this very line, now or
\* by an allow-always that the store carried across a restart.
RunsCleared ==
    \A t \in Threads : pc[t] = "run" =>
        /\ \A w \in AllReached(t) : classifyTokens(w) # "refuse"
        /\ (\E w \in AllReached(t) : classifyTokens(w) = "ask") \/ (\E b \in Judged(t) : b.form # "shell")
               => call[t].answer \in {"allow", "always"} \/ (call[t].answer = "stored" /\ call[t].line \in yes)

\* Every file the command wrote and left different from how it found it is
\* among the changes its result carries, one put back to the committed text
\* included: what the gates and the undo of the run are told.
ReportsOwnWork ==
    \A t \in Threads : Finish(t) =>
        \A f \in call[t].own :
            LET was == call[t].before
            IN  (f \in DOMAIN was /\ tree[f].now = base[f]) \/ (f \notin DOMAIN was /\ tree[f].now # base[f])
                    => f \in call'[t].changes
ShellReports == [][ReportsOwnWork]_vars

---------------------------------------------------------------------------
(* Stated by the code's comments, and false. *)

\* "A verdict may never depend on the parse succeeding."
ParseIndependent ==
    \A c \in Lines : Classify(Line[c]) = Classify([Line[c] EXCEPT !.parses = TRUE])

\* "This is the step that is": a script judged is the script that runs.
RunsAsJudged ==
    \A t \in Threads : pc[t] = "run" /\ call[t].own = {} =>
        \A f \in DOMAIN call[t].judged : tree[f].now = call[t].judged[f]

\* A result's changes are the command's own (the tree is read on either side,
\* and another thread writes what the command did not lease).
ReportsOnlyOwn == \A t \in Threads : pc[t] = "done" => call[t].changes \subseteq call[t].own
=============================================================================

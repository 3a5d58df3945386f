------------------------------- MODULE MCWork -------------------------------
(***************************************************************************)
(* Components around a run: the prompts of its thread, the history it      *)
(* sends, the write tools and the edits they make, cycles, fan-outs and    *)
(* finish checks, and the terminal client's screens, composer, lists and   *)
(* confirmations.                                                          *)
(* They share no state: a behaviour is of one of them and `part' says      *)
(* which.  Prompts have variables of their own, which stand still in the   *)
(* other parts; x1, x2, ... are those of the others.                       *)
(***************************************************************************)
EXTENDS Turns

CONSTANTS
    CycleTests, CycleFileOf, CycleSites,        \* Cycles: tests, their files, the sweep's sites
    CycleAttempts, CycleRuns, CycleRows,
    RunFiles, RunStart, RunTexts, RunNames, RunDiff(_, _),  \* Finish: a tree, the texts a run
    RunTasks, RunGoal, RunFixtures, RunUntested, RunTested, \* leaves, what is asked of it
    RunHooks, RunCalls,                                     \* and its hooks
    HomeThreads, HomeLocal, HomePrompts,        \* Home: the daemon's threads and prompts
    DialogThreads, DialogEdits, DialogFlight,   \* Confirm: restores
    ActionModels, SettingsModels                \* and models

VARIABLES part, x1, x2, x3, x4, x5, x6, x7, x8, x9, x10, x11, x12, x13, x14, x15

others == <<x1, x2, x3, x4, x5, x6, x7, x8, x9, x10, x11, x12, x13, x14, x15>>
workVars == <<part, vars, others>>

\* History: a result that is cut, one that is masked, and a budget two of them cross.
Bodies == {"big", "mid"}
Size == [big |-> 9, mid |-> 5]
CutSize == [big |-> 6, mid |-> 5]

\* Replace: the files differ in what a looser match may forgive (indentation, blank lines,
\* runs of spaces, entities, line ends); some texts occur twice, some overlap.
Sources ==
    {<<"x", "a", "a", "y">>,
     <<"a", "nl", "b", "nl", "c">>,
     <<"tab", "a", "nl", "tab", "tab", "b", "nl", "nl", "tab", "c">>,
     <<"a", "sp", "b", "nl", "a", "sp", "b", "nl", "c">>,
     <<"tab", "a", "sp", "sp", "b", "nl", "sp", "nl", "tab", "c", "nl", "a", "nl", "tab", "c">>,
     <<"amp", "name", "nl", "a", "nl", "b">>,
     <<"a", "crnl", "b", "nl", "c">>}
Texts ==
    {<<"a">>, <<"b">>, <<"c">>, <<"a", "sp", "b">>, <<"x", "a">>, <<"a", "y">>, <<"a", "nl", "b">>,
     <<"b", "nl", "c">>, <<"a", "tab", "b", "nl", "c">>, <<"func", "c">>, <<"ent">>, <<"sp", "a", "sp", "b">>}
Edits ==
    [old : Texts, new : {<<>>, <<"z">>, <<"x", "a", "a">>}, all : {FALSE}]
        \cup [old : Texts, new : {<<"sp", "z", "nl", "tab", "ent">>}, all : {TRUE}]

\* EditTools: a file whose second declaration uses its first, one that uses that in turn, and
\* a path in another directory that is free.
Declares(name, uses) == [n |-> name, u |-> uses, w |-> {}]
InitialDisk ==
    <<[is |-> TRUE, ls |-> <<Declares("A", "none"), Declares("B", "A")>>],
      [is |-> TRUE, ls |-> <<Declares("C", "B")>>],
      [is |-> FALSE, ls |-> <<>>]>>
Kits ==
    {{"read", "replace_lines", "write", "undo"}, {"str_replace", "undo", "delete"},
     {"move", "declare"}, {"rename", "delete"}, {"write", "str_replace", "undo"}}

\* Fan-out: tasks that name nothing, a directory, files below it, files apart.
TaskPaths == {{}, {<<"a">>}, {<<"a", "b">>}, {<<"a", "c">>}, {<<"d">>}, {<<"a", "b">>, <<"d">>}}

\* Cycles: two tests of one file.
OneFile == [t1 |-> "f", t2 |-> "f"]

\* Finish: a text with a new symbol, one that differs in a comment only, one that is starred.
Start == [a |-> "base", b |-> "base", x |-> "absent"]
Names == [base |-> {"S"}, code |-> {"S", "T"}, note |-> {"S"}, star |-> {"S"}]
Diff(u, v) == {k \in {"comment", "star", "code"} :
                 u # v /\ k = (IF v = "note" THEN "comment" ELSE IF v = "star" THEN "star" ELSE "code")}
Tasks == {[paths |-> {}, syms |-> {}], [paths |-> {"a"}, syms |-> {"T"}], [paths |-> {"b", "x"}, syms |-> {"Q"}]}
Goal == [paths |-> {"b"}, syms |-> {}]

\* Lists: a question and a permission, of two threads.
TwoPrompts == {[id |-> "p1", thread |-> "t1", question |-> TRUE], [id |-> "p2", thread |-> "t2", question |-> FALSE]}

\* A thread of two turns, a crash among them.
K == INSTANCE History WITH
    Bodies <- Bodies, Size <- Size, CutSize <- CutSize, MaskCost <- 3, RefCost <- 2,
    TextCost <- 1, Budgets <- {14}, MaxEntries <- 4, MaxTurns <- 2, MaxFaults <- 1, lines <- x1,
    open <- x2, entries <- x3, turn <- x4, compacted <- x5, through <- x6, cold <- x7,
    sent <- x8, faults <- x9

\* Two threads that call the write tools on the same files.
T == INSTANCE EditTools WITH
    Threads <- {"t1", "t2"}, Files <- {1, 2, 3}, Dir <- <<"a", "a", "b">>,
    Names <- {"A", "B", "C"}, None <- "none", InitialDisk <- InitialDisk, Kits <- Kits,
    MaxCalls <- 2, tools <- x1, disk <- x2, read <- x3, stale <- x4, origin <- x5, shown <- x6,
    refused <- x7, lease <- x8, call <- x9, calls <- x10, unreported <- x11

\* Every batch of two edits on every file.
M == INSTANCE Replace WITH
    Sources <- Sources, Edits <- Edits, MaxBatch <- 2, source <- x1, batch <- x2, result <- x3,
    advice <- x4

\* Every diff of five lines.
R == INSTANCE Revert WITH
    Lines <- {1, 2}, MaxOps <- 5, Context <- 1, diff <- x1, patch <- x2, next <- x3,
    content <- x4

\* A fix cycle of two attempts a phase.
Y == INSTANCE Cycles WITH
    Tests <- CycleTests, FileOf <- CycleFileOf, Sites <- CycleSites, MaxAttempts <- CycleAttempts,
    MaxRuns <- CycleRuns, MaxRows <- CycleRows, pc <- x1, phase <- x2, attempt <- x3, state <- x4,
    canceled <- x5, tree <- x6, left <- x7, changes <- x8, logs <- x9, ledger <- x10,
    complete <- x11, spent <- x12, counted <- x13, runs <- x14, seen <- x15

\* Every job of three tasks over two lanes.
F == INSTANCE Fanout WITH
    TaskPaths <- TaskPaths, Weights <- {0, 2}, MaxTasks <- 3, MaxLanes <- 2, tasks <- x1,
    n <- x2, lanes <- x3, step <- x4, ended <- x5, wrote <- x6

\* A run of two calls, its hooks and its finish checks.
N == INSTANCE Finish WITH
    Files <- RunFiles, Start <- RunStart, Texts <- RunTexts, Names <- RunNames,
    Diff <- RunDiff, Tasks <- RunTasks, Goal <- RunGoal, Fixtures <- RunFixtures,
    Untested <- RunUntested, Tested <- RunTested, Hook <- RunHooks, MaxCalls <- RunCalls,
    tree <- x1, index <- x2, opened <- x3, task <- x4, marker <- x5, history <- x6, changes <- x7,
    mine <- x8, answer <- x9, findings <- x10, stop <- x11, calls <- x12, log <- x13

\* Every screen that keeps keys of its own, three deep.
G == INSTANCE Screens WITH
    Screens <- {"home", "thread", "inbox", "models", "newthread", "summary", "timeline", "schedule"},
    MaxDepth <- 3, ui <- x1, asked <- x2

\* Words and blanks on one line.
W == INSTANCE Composer WITH
    Runes <- {"w", " "}, Snippet <- <<(<<"w", " ">>)>>, maxUndo <- 1, MaxLines <- 1,
    MaxRunes <- 2, v <- x1

\* Two lines, and an undo stack of one.
C == INSTANCE Composer WITH
    Runes <- {"w"}, Snippet <- <<(<<"w">>), (<< >>)>>, maxUndo <- 1, MaxLines <- 2,
    MaxRunes <- 2, v <- x1

\* Lists: of the launch root and the fleet, which change under the cursor; and the archive,
\* with replies out of order.
Lists(Views, MaxFlight) == INSTANCE Home WITH
    Threads <- HomeThreads, Local <- HomeLocal, Prompts <- HomePrompts, away <- x1, asked <- x2,
    open <- x3, flight <- x4, home <- x5, pending <- x6, inbox <- x7, last <- x8
Watched == {"scope", "select", "inbox"}
Archived == {"archive"}

\* Confirmations: the restore dialog, and the models screen's install and remove and settings.
Dialog(Models, Parts) == INSTANCE Confirm WITH
    ThreadIDs <- DialogThreads, MaxEdits <- DialogEdits, MaxFlight <- DialogFlight,
    restore <- x1, undone <- x2, installed <- x3, settings <- x4, models <- x5, agreed <- x6,
    asShown <- x7, saved <- x8, flight <- x9

PartInit ==
    \/ part = "queue"
       /\ x1 = 0 /\ x2 = 0 /\ x3 = 0 /\ x4 = 0 /\ x5 = 0 /\ x6 = 0 /\ x7 = 0 /\ x8 = 0
       /\ x9 = 0 /\ x10 = 0 /\ x11 = 0 /\ x12 = 0 /\ x13 = 0 /\ x14 = 0 /\ x15 = 0
    \/ part = "history" /\ K!Init
       /\ x10 = 0 /\ x11 = 0 /\ x12 = 0 /\ x13 = 0 /\ x14 = 0 /\ x15 = 0
    \/ part = "tools" /\ T!Init
       /\ x12 = 0 /\ x13 = 0 /\ x14 = 0 /\ x15 = 0
    \/ part = "replace" /\ M!Init
       /\ x5 = 0 /\ x6 = 0 /\ x7 = 0 /\ x8 = 0 /\ x9 = 0 /\ x10 = 0 /\ x11 = 0 /\ x12 = 0
       /\ x13 = 0 /\ x14 = 0 /\ x15 = 0
    \/ part = "revert" /\ R!Init
       /\ x5 = 0 /\ x6 = 0 /\ x7 = 0 /\ x8 = 0 /\ x9 = 0 /\ x10 = 0 /\ x11 = 0 /\ x12 = 0
       /\ x13 = 0 /\ x14 = 0 /\ x15 = 0
    \/ part = "cycle" /\ Y!Init
    \/ part = "fanout" /\ F!Init
       /\ x7 = 0 /\ x8 = 0 /\ x9 = 0 /\ x10 = 0 /\ x11 = 0 /\ x12 = 0 /\ x13 = 0 /\ x14 = 0
       /\ x15 = 0
    \/ part = "finish" /\ N!Init
       /\ x14 = 0 /\ x15 = 0
    \/ part = "screens" /\ G!Init
       /\ x3 = 0 /\ x4 = 0 /\ x5 = 0 /\ x6 = 0 /\ x7 = 0 /\ x8 = 0 /\ x9 = 0 /\ x10 = 0
       /\ x11 = 0 /\ x12 = 0 /\ x13 = 0 /\ x14 = 0 /\ x15 = 0
    \/ part = "words" /\ W!Init
       /\ x2 = 0 /\ x3 = 0 /\ x4 = 0 /\ x5 = 0 /\ x6 = 0 /\ x7 = 0 /\ x8 = 0 /\ x9 = 0
       /\ x10 = 0 /\ x11 = 0 /\ x12 = 0 /\ x13 = 0 /\ x14 = 0 /\ x15 = 0
    \/ part = "composer" /\ C!Init
       /\ x2 = 0 /\ x3 = 0 /\ x4 = 0 /\ x5 = 0 /\ x6 = 0 /\ x7 = 0 /\ x8 = 0 /\ x9 = 0
       /\ x10 = 0 /\ x11 = 0 /\ x12 = 0 /\ x13 = 0 /\ x14 = 0 /\ x15 = 0
    \/ part = "home" /\ Lists(Watched, 1)!Init
       /\ x9 = 0 /\ x10 = 0 /\ x11 = 0 /\ x12 = 0 /\ x13 = 0 /\ x14 = 0 /\ x15 = 0
    \/ part = "archive" /\ Lists(Archived, 2)!Init
       /\ x9 = 0 /\ x10 = 0 /\ x11 = 0 /\ x12 = 0 /\ x13 = 0 /\ x14 = 0 /\ x15 = 0
    \/ part = "undo" /\ Dialog(SettingsModels, {"undo"})!Init
       /\ x10 = 0 /\ x11 = 0 /\ x12 = 0 /\ x13 = 0 /\ x14 = 0 /\ x15 = 0
    \/ part = "actions" /\ Dialog(ActionModels, {"actions"})!Init
       /\ x10 = 0 /\ x11 = 0 /\ x12 = 0 /\ x13 = 0 /\ x14 = 0 /\ x15 = 0
    \/ part = "settings" /\ Dialog(SettingsModels, {"settings"})!Init
       /\ x10 = 0 /\ x11 = 0 /\ x12 = 0 /\ x13 = 0 /\ x14 = 0 /\ x15 = 0

OtherNext ==
    \/ part = "history" /\ K!Next /\ UNCHANGED <<part, x10, x11, x12, x13, x14, x15>>
    \/ part = "tools" /\ T!Next /\ UNCHANGED <<part, x12, x13, x14, x15>>
    \/ part = "replace" /\ M!Next
       /\ UNCHANGED <<part, x5, x6, x7, x8, x9, x10, x11, x12, x13, x14, x15>>
    \/ part = "revert" /\ R!Next
       /\ UNCHANGED <<part, x5, x6, x7, x8, x9, x10, x11, x12, x13, x14, x15>>
    \/ part = "cycle" /\ Y!Next /\ UNCHANGED part
    \/ part = "fanout" /\ F!Next /\ UNCHANGED <<part, x7, x8, x9, x10, x11, x12, x13, x14, x15>>
    \/ part = "finish" /\ N!Next /\ UNCHANGED <<part, x14, x15>>
    \/ part = "screens" /\ G!Next
       /\ UNCHANGED <<part, x3, x4, x5, x6, x7, x8, x9, x10, x11, x12, x13, x14, x15>>
    \/ part = "words" /\ W!Next
       /\ UNCHANGED <<part, x2, x3, x4, x5, x6, x7, x8, x9, x10, x11, x12, x13, x14, x15>>
    \/ part = "composer" /\ C!Next
       /\ UNCHANGED <<part, x2, x3, x4, x5, x6, x7, x8, x9, x10, x11, x12, x13, x14, x15>>
    \/ part = "home" /\ Lists(Watched, 1)!Next
       /\ UNCHANGED <<part, x9, x10, x11, x12, x13, x14, x15>>
    \/ part = "archive" /\ Lists(Archived, 2)!Next
       /\ UNCHANGED <<part, x9, x10, x11, x12, x13, x14, x15>>
    \/ part = "undo" /\ Dialog(SettingsModels, {"undo"})!Next
       /\ UNCHANGED <<part, x10, x11, x12, x13, x14, x15>>
    \/ part = "actions" /\ Dialog(ActionModels, {"actions"})!Next
       /\ UNCHANGED <<part, x10, x11, x12, x13, x14, x15>>
    \/ part = "settings" /\ Dialog(SettingsModels, {"settings"})!Next
       /\ UNCHANGED <<part, x10, x11, x12, x13, x14, x15>>

\* The tier a thread is pinned to matters to its own part only.
WorkInit == Init /\ PartInit /\ (part # "queue" => \A t \in Threads : override[t] = "local")
WorkNext ==
    \/ part = "queue" /\ Next /\ UNCHANGED <<part, others>>
    \/ OtherNext /\ UNCHANGED vars

WorkSpec == WorkInit /\ [][WorkNext]_workVars

-----------------------------------------------------------------------------
\* A request to the model resolves every reference it makes, shows the latest read of a file
\* and numbers turns apart (History!RequestSound), and within a run the messages a compaction
\* has settled never change again (History!PrefixStable).
HistorySound ==
    /\ [](part = "history" => K!RequestSound)
    /\ [][part = "history" => K!PrefixKept]_workVars

\* Edits do what was asked and no more: lines are replaced as the model was shown them, the
\* text to go back to is the one from before the run's first write (EditTools!LinesAsShown,
\* OriginUntouched), a batch is its edits one after the other (Replace!BatchExact) and a
\* reverted hunk is that hunk (Revert!RevertExact).
EditsExact ==
    /\ part = "tools" => T!TypeOK /\ T!LinesAsShown /\ T!OriginUntouched
    /\ part = "replace" => M!BatchExact
    /\ part = "revert" => R!RevertExact

\* Work called done is: a cycle's fix reproduced, fixed, green and swept, over a ledger that
\* only grows (Cycles!DoneEarned, LedgerGrows), and a golden fixture that a finished run
\* changed in its answer or its findings (Finish!FixtureReported).
WorkEarned ==
    /\ [](part = "cycle" => Y!DoneEarned)
    /\ [][part = "cycle" => Y!LedgerKept]_workVars
    /\ [](part = "finish" => N!FixtureReported)

\* The lanes of a fan-out share no path and hold every task once (Fanout!SplitSound).
LanesApart == part = "fanout" => F!SplitSound

\* Esc leads home from every screen (Screens!EscClimbs); the composer's cursor is on the
\* text, and u gives back what was there (Composer!CursorValid, UndoExact); lists and
\* dialogs stay in their bounds, whatever replies arrive in whatever order.
NavigationSound ==
    /\ part = "screens" => G!TypeOK /\ G!EscClimbs
    /\ part = "composer" => C!TypeOK /\ C!CursorValid /\ C!UndoExact
    /\ part = "words" => W!CursorValid /\ W!UndoExact
    /\ part = "home" => Lists(Watched, 1)!TypeOK
    /\ part = "archive" => Lists(Archived, 2)!TypeOK
    /\ part = "undo" => Dialog(SettingsModels, {"undo"})!TypeOK
    /\ part = "actions" => Dialog(ActionModels, {"actions"})!TypeOK
    /\ part = "settings" => Dialog(SettingsModels, {"settings"})!TypeOK

\* Keys answer what the user was asked: a question gets text and never a bare yes
\* (Home!QuestionsGetText), and nothing is installed or removed that the user did not agree
\* to for that model (Confirm!NothingUnconfirmed).
AnswersMeant ==
    /\ [](part = "home" => Lists(Watched, 1)!QuestionsGetText)
    /\ [](part = "archive" => Lists(Archived, 2)!QuestionsGetText)
    /\ [][part = "actions" => Dialog(ActionModels, {"actions"})!OnlyAgreed]_workVars
    /\ [][part = "settings" => Dialog(SettingsModels, {"settings"})!OnlyAgreed]_workVars
=============================================================================

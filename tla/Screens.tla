------------------------------ MODULE Screens ------------------------------
(***************************************************************************)
(* The terminal client's navigation (internal/tui): the stack of screens,  *)
(* the overlays above it, the panel that has focus, the modal composer and *)
(* who receives a key.  What the screens show is left out: a list is here  *)
(* only as what a key on it may open.                                      *)
(***************************************************************************)
EXTENDS Integers, Sequences, FiniteSetsExt

CONSTANTS Screens,   \* the screens of this instance, "home" and "thread" among them
          MaxDepth   \* how deep the screen stack may grow

VARIABLES ui,        \* the Model's navigation state
          asked      \* an undo preview the daemon has not answered yet

vars == <<ui, asked>>

focusTranscript == 0
focusDiff == 1
focusInput == 2

TypeOK ==
    /\ ui.stack \in UNION {[1..n -> Screens] : n \in 1..MaxDepth} /\ ui.stack[1] = "home"
    /\ ui.focus \in focusTranscript..focusInput
    /\ ui.search \in {"no", "editing", "set"} /\ ui.mode \in {"normal", "insert"}
    /\ \A f \in DOMAIN ui \ {"stack", "focus", "search", "mode"} : ui[f] \in BOOLEAN
    /\ asked \in BOOLEAN

New == [stack |-> <<"home">>, focus |-> focusTranscript,
        help |-> FALSE, palette |-> FALSE, goal |-> FALSE, restore |-> FALSE,
        search |-> "no", filter |-> FALSE, mode |-> "normal", fullscreen |-> FALSE,
        filtering |-> FALSE, selected |-> FALSE, answering |-> FALSE, inboxAnswering |-> FALSE,
        naming |-> FALSE, editing |-> FALSE, action |-> FALSE, settings |-> FALSE,
        quitting |-> FALSE]

Init == ui = New /\ asked = FALSE

top(u) == u.stack[Len(u.stack)]

push(u, s) ==
    IF top(u) = s THEN u
    ELSE [u EXCEPT !.stack = Append(@, s), !.focus = focusTranscript]

Room(u, s) == s \in Screens /\ (top(u) = s \/ Len(u.stack) < MaxDepth)

(***************************************************************************)
(* The Esc ladder.  A rung is what is open and the state with it closed;   *)
(* Esc takes the first open one, and pops the stack when none is.          *)
(***************************************************************************)
\* The composer whose normal mode keeps the focus.
popComposerStuck(u) ==
    IF u.mode = "insert" THEN [u EXCEPT !.mode = "normal"]
    ELSE [u EXCEPT !.fullscreen = FALSE]

popComposer(u) ==
    IF u.mode = "insert" THEN [u EXCEPT !.mode = "normal"]
    ELSE IF u.fullscreen THEN [u EXCEPT !.fullscreen = FALSE]
    ELSE [u EXCEPT !.focus = focusTranscript, !.mode = "normal"]

clearSearch(u) == [u EXCEPT !.search = "no"]

closeModelsOverlay(u) ==
    << <<u.naming, [u EXCEPT !.naming = FALSE]>>,
       <<u.editing, [u EXCEPT !.editing = FALSE]>>,
       <<u.action, [u EXCEPT !.action = FALSE]>>,
       <<u.settings, [u EXCEPT !.settings = FALSE]>> >>

closeScreenState(u) ==
    CASE top(u) = "thread" -> << <<u.focus = focusInput, popComposer(u)>>,
                                 <<u.search # "no", clearSearch(u)>>,
                                 <<u.filter, [u EXCEPT !.filter = FALSE]>> >>
      [] top(u) = "models" -> closeModelsOverlay(u)
      [] top(u) = "home" -> << <<u.filtering, [u EXCEPT !.filtering = FALSE]>>,
                               <<u.selected, [u EXCEPT !.selected = FALSE]>> >>
      [] OTHER -> << >>

closeOverlay(u) ==
    << <<u.help, [u EXCEPT !.help = FALSE]>>,
       <<u.palette, [u EXCEPT !.palette = FALSE]>>,
       <<u.goal, [u EXCEPT !.goal = FALSE]>>,
       <<u.restore, [u EXCEPT !.restore = FALSE]>> >> \o closeScreenState(u)

popOrClose(u) ==
    LET rungs == closeOverlay(u)
        open == {i \in DOMAIN rungs : rungs[i][1]}
    IN IF open # {} THEN rungs[Min(open)][2]
       ELSE IF Len(u.stack) > 1
            THEN [u EXCEPT !.stack = SubSeq(@, 1, Len(@) - 1), !.focus = focusTranscript]
            ELSE u

(***************************************************************************)
(* Who owns a key.                                                         *)
(***************************************************************************)
composing(u) == top(u) = "thread" /\ u.fullscreen

capturingText(u) ==
    \/ u.palette \/ u.restore
    \/ top(u) = "home" /\ (u.filtering \/ u.answering)
    \/ top(u) = "inbox" /\ u.inboxAnswering
    \/ top(u) = "thread" /\ (u.search = "editing" \/ u.focus = focusInput)
    \/ top(u) = "newthread"
    \/ top(u) = "models" /\ (u.naming \/ u.editing)

\* The composer's own focus follows the panel: focusing it starts insert mode.
syncInputFocus(u) ==
    IF top(u) # "thread" THEN u
    ELSE [u EXCEPT !.mode = IF u.focus = focusInput THEN "insert" ELSE "normal"]

panelCount(u) == IF top(u) = "thread" THEN focusInput + 1 ELSE 1

\* The keys the overlays swallow never reach the screen beneath.
Dispatched(u) == ~u.help /\ ~u.palette /\ ~u.restore

(***************************************************************************)
(* Global keys.                                                            *)
(***************************************************************************)
Esc == ui' = popOrClose(ui) /\ UNCHANGED asked

\* Tab and shift-tab: the composer keeps them while it is fullscreen, the new-thread form
\* has them for its two fields.
Tab ==
    /\ ~composing(ui) /\ top(ui) # "newthread"
    /\ \E step \in {-1, 1} :
         ui' = syncInputFocus([ui EXCEPT !.focus = (@ + step + panelCount(ui)) % panelCount(ui)])
    /\ UNCHANGED asked

\* ?, g, :, D, M, R and i, which a text field keeps from the screen; ctrl+c and q quit.
Shortcut ==
    /\ \/ ui' = [ui EXCEPT !.quitting = TRUE]
       \/ /\ ~capturingText(ui)
          /\ \/ ui' = [ui EXCEPT !.help = ~@]
             \/ top(ui) = "thread" /\ ui' = [ui EXCEPT !.goal = ~@]
             \/ ui' = [ui EXCEPT !.palette = TRUE]
             \/ \E s \in {"diagnostics", "models", "routines", "inbox"} :
                  Room(ui, s) /\ ui' = push(ui, s)
    /\ UNCHANGED asked

\* requestRestore: nothing is asked for a thread with no checkpoint.
requestRestore == asked' \in {asked, TRUE}

\* Enter in the palette closes it and runs the entry: a thread or a prompt opens its
\* thread, a verb opens its screen, asks for an undo or changes no screen at all.
Palette ==
    /\ ui.palette /\ ~ui.help
    /\ LET u == [ui EXCEPT !.palette = FALSE]
       IN \/ \E s \in {"thread", "inbox", "diagnostics", "routines", "models"} :
               Room(u, s) /\ ui' = push(u, s) /\ UNCHANGED asked
          \/ ui' = u /\ requestRestore
          \/ ui' = [u EXCEPT !.quitting = TRUE] /\ UNCHANGED asked

\* y, enter and n close the confirmation; y and enter send it.
RestoreKey ==
    /\ ui.restore /\ ~ui.palette /\ ~ui.help
    /\ ui' = [ui EXCEPT !.restore = FALSE] /\ UNCHANGED asked

\* The daemon's preview opens the confirmation wherever the user is by now; a refusal
\* closes it.
RestoreReply ==
    /\ asked /\ asked' = FALSE
    /\ \E open \in BOOLEAN : ui' = [ui EXCEPT !.restore = open]

(***************************************************************************)
(* The screens' own keys.                                                  *)
(***************************************************************************)
openNewThread(u) == [u EXCEPT !.stack = Append(@, "newthread")]

HomeKey ==
    /\ top(ui) = "home" /\ Dispatched(ui)
    /\ IF ui.filtering THEN ui' = [ui EXCEPT !.filtering = FALSE]
       ELSE IF ui.answering THEN ui' = [ui EXCEPT !.answering = FALSE]
       ELSE \/ ui' = [ui EXCEPT !.filtering = TRUE]
            \/ \E s \in {"schedule", "thread"} : Room(ui, s) /\ ui' = push(ui, s)
            \/ "newthread" \in Screens /\ Len(ui.stack) < MaxDepth /\ ui' = openNewThread(ui)
            \/ ui' = [ui EXCEPT !.answering = TRUE]
            \/ \E some \in BOOLEAN : ui' = [ui EXCEPT !.selected = some]
    /\ UNCHANGED asked

InboxKey ==
    /\ top(ui) = "inbox" /\ Dispatched(ui)
    /\ \/ ui.inboxAnswering /\ ui' = [ui EXCEPT !.inboxAnswering = FALSE]
       \/ /\ ~ui.inboxAnswering
          /\ \/ Room(ui, "thread") /\ ui' = push(ui, "thread")
             \/ ui' = [ui EXCEPT !.inboxAnswering = TRUE]
    /\ UNCHANGED asked

toggleCompose(u) ==
    LET full == ~u.fullscreen
    IN IF full /\ u.focus # focusInput
       THEN [u EXCEPT !.fullscreen = TRUE, !.focus = focusInput, !.mode = "insert"]
       ELSE [u EXCEPT !.fullscreen = full]

\* updateComposerKey: normal mode's colon is the palette, its letters are vim's.
ComposerKey ==
    \/ ui.mode = "normal" /\ ui' = [ui EXCEPT !.palette = TRUE]
    \/ ui.mode = "normal" /\ ui' = [ui EXCEPT !.mode = "insert"]

\* threadSearchKey, threadNavKey and askLine, from the transcript or the diff pane.
PanelKey ==
    \/ ui' = [ui EXCEPT !.search = "editing"] /\ UNCHANGED asked
    \/ ui' = [ui EXCEPT !.focus = focusDiff] /\ UNCHANGED asked
    \/ /\ ui.focus = focusDiff
       /\ ui' = [ui EXCEPT !.focus = focusInput, !.mode = "insert"] /\ UNCHANGED asked
    \/ /\ "newthread" \in Screens /\ Len(ui.stack) < MaxDepth
       /\ ui' = openNewThread(ui) /\ UNCHANGED asked
    \/ ui' = ui /\ requestRestore
    \/ \E on \in (IF ui.filter THEN BOOLEAN ELSE {TRUE}) :
         ui' = [ui EXCEPT !.filter = on] /\ UNCHANGED asked
    \/ ui' = clearSearch([ui EXCEPT !.filter = FALSE]) /\ UNCHANGED asked
    \/ \E s \in {"summary", "timeline"} :
         Room(ui, s) /\ ui' = push(ui, s) /\ UNCHANGED asked

ThreadKey ==
    /\ top(ui) = "thread" /\ Dispatched(ui)
    /\ \/ /\ ui.search = "editing"
          /\ \E s \in {"no", "set"} : ui' = [ui EXCEPT !.search = s] /\ UNCHANGED asked
       \/ /\ ui.search # "editing"
          /\ \/ ui' = toggleCompose(ui) /\ UNCHANGED asked
             \/ ui.focus = focusInput /\ ComposerKey /\ UNCHANGED asked
             \/ ui.focus # focusInput /\ PanelKey

\* The model list, its settings pane, the two text fields and the confirmation.
ModelsKey ==
    /\ top(ui) = "models" /\ Dispatched(ui)
    /\ IF ui.naming
       THEN \E named \in BOOLEAN : ui' = [ui EXCEPT !.naming = FALSE, !.action = @ \/ named]
       ELSE IF ui.action THEN ui' = [ui EXCEPT !.action = FALSE]
       ELSE IF ui.editing THEN ui' = [ui EXCEPT !.editing = FALSE]
       ELSE IF ui.settings THEN ui' = [ui EXCEPT !.editing = TRUE]
       ELSE \E f \in {"naming", "action", "settings"} : ui' = [ui EXCEPT ![f] = TRUE]
    /\ UNCHANGED asked

\* Enter in the form sends the thread and is otherwise Esc.
NewThreadKey ==
    /\ top(ui) = "newthread" /\ Dispatched(ui)
    /\ ui' = popOrClose(ui) /\ UNCHANGED asked

ScheduleKey ==
    /\ top(ui) = "schedule" /\ Dispatched(ui)
    /\ Room(ui, "thread") /\ ui' = push(ui, "thread") /\ UNCHANGED asked

Next ==
    /\ ~ui.quitting
    /\ \/ Esc \/ Tab \/ Shortcut \/ Palette \/ RestoreKey \/ RestoreReply
       \/ HomeKey \/ InboxKey \/ ThreadKey \/ ModelsKey \/ NewThreadKey \/ ScheduleKey

Spec == Init /\ [][Next]_vars

(***************************************************************************)
(* Properties.                                                             *)
(***************************************************************************)
B(b) == IF b THEN 1 ELSE 0

\* Everything Esc may still have to close, the screens beneath the top included.
Height(u) ==
    4 * (Len(u.stack) - 1) + u.focus + B(u.mode = "insert") + B(u.fullscreen)
    + B(u.search # "no")
    + Cardinality({f \in {"help", "palette", "goal", "restore", "filter", "filtering", "selected",
                          "naming", "editing", "action", "settings"} : u[f]})

\* Home with nothing above it and nothing of its own to clear.
AtHome(u) ==
    u.stack = <<"home">> /\ ~u.help /\ ~u.palette /\ ~u.goal /\ ~u.restore
    /\ ~u.filtering /\ ~u.selected

\* Esc is always a way back: each press closes one thing or leaves one screen, so a bounded
\* number of them leads home from anywhere, and it never quits (popOrClose: "Esc never
\* quits"; the ladder is spread over four functions and the state of ten screens).
EscClimbs == Height(popOrClose(ui)) < Height(ui) \/ AtHome(ui)

\* Refuted: Tab is taken before the palette, so it moves the focus beneath an open one; the
\* entry then pushes a screen without blurring the composer, and Esc back leaves INSERT on
\* a composer whose letters are the transcript's verbs (vim.go: "every key belongs to this
\* editor while the input panel holds focus"; model.go syncInputFocus has no part in push).
InsertOwnsKeys == ui.mode = "insert" => top(ui) = "thread" /\ ui.focus = focusInput

\* Refuted: a palette jump out of the fullscreen composer and Esc back leave the composer
\* drawn over the whole frame while the transcript panel has the keys, y, n and a included
\* (model.go composing: "whether the fullscreen composer owns the frame").
ComposerOwnsFrame == composing(ui) => ui.focus = focusInput

\* Refuted: render draws the goal above the palette, the confirmation and every screen, but
\* handleKey does not know the goal: a y pressed at a goal on screen confirms an undo.
GoalOwnsKeys == ui.goal => ~ui.palette /\ ~ui.restore

\* Refuted: where Esc has nothing left to do no text field holds the keys.  homeAnswer
\* clears the answer field on Esc, which popOrClose takes first and knows nothing of
\* (home.go, case keyEsc in homeAnswer).
EscCancelsAnswer == popOrClose(ui) = ui => ~capturingText(ui)
=============================================================================

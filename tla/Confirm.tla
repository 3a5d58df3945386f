------------------------------ MODULE Confirm ------------------------------
(***************************************************************************)
(* The two confirmations of the terminal client, which both preview before *)
(* they act: the undo dialog (internal/tui/restore.go) and the model       *)
(* screen (internal/tui/models.go) with the daemon's model commands        *)
(* (internal/daemon/models.go).  Each command is a goroutine's round trip, *)
(* so previews and their replies overlap and overtake each other.  A       *)
(* refusal becomes an error in Client.Do: restoreErrMsg for an undo, and   *)
(* connErrMsg, which touches the status line alone, for a model command.   *)
(***************************************************************************)
EXTENDS Integers, Sequences, FiniteSets

CONSTANTS ThreadIDs,  \* the threads with a checkpoint
          Models,     \* the models the registry knows
          Parts,      \* what this instance uses: a subset of {"undo", "actions", "settings"}
          MaxEdits,   \* edit points per thread
          MaxFlight   \* commands and replies under way at once

VARIABLES restore,    \* the undo dialog
          undone,     \* the last confirmed undo the client sent
          installed,  \* the models on disk
          settings,   \* the registry's settings of each model, one value per field
          models,     \* the model screen: list, action, pending and confirm
          agreed,     \* the confirmations the user gave
          asShown,    \* each of them was to the note of its own action and model
          saved,      \* per model and field, the value the user last saved
          flight      \* commands not yet handled and replies not yet applied

undoVars == <<restore, undone>>
modelVars == <<installed, settings, models, agreed, asShown, saved>>
vars == <<undoVars, modelVars, flight>>

Fields == {"context", "threads"}
Values == 0..1
NoNote == [action |-> "none", model |-> "none"]
NoUndo == [target |-> 0, picked |-> 0, shown |-> 0]
Closed == [open |-> FALSE, thread |-> "none", edits |-> 0, cursor |-> 0, shown |-> 0]

TypeOK ==
    /\ restore.open \in BOOLEAN /\ restore.thread \in ThreadIDs \cup {"none"}
    /\ restore.edits \in 0..MaxEdits /\ restore.cursor \in 0..MaxEdits
    /\ installed \subseteq Models /\ settings \in [Models -> [Fields -> Values]]
    /\ DOMAIN models.list \subseteq Models /\ models.pending \in Models \cup {"none"}
    /\ Cardinality(flight) <= MaxFlight

Init ==
    /\ restore = Closed /\ undone = NoUndo
    /\ installed \in (IF Parts \cap {"actions", "settings"} # {} THEN SUBSET Models ELSE {{}})
    /\ settings = [m \in Models |-> [f \in Fields |-> 0]] /\ saved = settings
    /\ models = [list |-> [m \in {} |-> 0], action |-> "none", pending |-> "none", confirm |-> NoNote]
    /\ agreed = {} /\ asShown = TRUE /\ flight = {}

Room == Cardinality(flight) < MaxFlight
Send(c) == Room /\ flight' = flight \cup {c}
Served(f, reply) == flight' = (flight \ {f}) \cup reply

(***************************************************************************)
(* The undo dialog.                                                        *)
(***************************************************************************)
restoreTo(t, target, confirm) ==
    [kind |-> "restore", thread |-> t, target |-> target, confirm |-> confirm]

\* The operation the cursor restores to; 0 is the run's own baseline.
target(r) == IF r.cursor = 0 \/ r.cursor > r.edits THEN 0 ELSE r.cursor

requestRestore ==
    /\ "undo" \in Parts /\ ~restore.open
    /\ \E t \in ThreadIDs : Send(restoreTo(t, 0, FALSE))
    /\ UNCHANGED <<undoVars, modelVars>>

\* y sends the undo, j and k move the cursor and ask for the new preview, n closes.
RestoreKey ==
    /\ restore.open
    /\ \/ /\ Send(restoreTo(restore.thread, target(restore), TRUE))
          /\ undone' = [target |-> target(restore), picked |-> restore.cursor, shown |-> restore.shown]
          /\ restore' = Closed
       \/ /\ \E c \in {restore.cursor - 1, restore.cursor + 1} :
               /\ c \in 0..restore.edits
               /\ restore' = [restore EXCEPT !.cursor = c]
               /\ Send(restoreTo(restore.thread, target(restore'), FALSE))
          /\ UNCHANGED undone
       \/ restore' = Closed /\ UNCHANGED <<undone, flight>>
    /\ UNCHANGED modelVars

\* The daemon refuses a running thread, an unknown edit point or a clean tree.  Its answer
\* carries the edit points of the moment: a run adds to them, a new one starts them over.
ServeRestore ==
    \E f \in flight :
      /\ f.kind = "restore"
      /\ \/ Served(f, {[kind |-> "refused"]})
         \/ \E n \in f.target..MaxEdits :
              Served(f, {[kind |-> "restored", thread |-> f.thread, edits |-> n,
                          target |-> f.target, confirm |-> f.confirm]})
      /\ UNCHANGED <<undoVars, modelVars>>

\* A preview opens the dialog, or fills it, and keeps the cursor where it was.
applyRestore(r) ==
    IF r.confirm THEN Closed
    ELSE [open |-> TRUE, thread |-> r.thread, shown |-> r.target, cursor |-> restore.cursor,
          edits |-> r.edits]

ApplyRestore ==
    \E f \in flight :
      /\ \/ f.kind = "restored" /\ restore' = applyRestore(f)
         \/ f.kind = "refused" /\ restore' = Closed
      /\ Served(f, {})
      /\ UNCHANGED <<undone, modelVars>>

(***************************************************************************)
(* The model screen.                                                       *)
(***************************************************************************)
command(kind, m, confirm) == [kind |-> kind, model |-> m, confirm |-> confirm]

requestPreview(action, m) ==
    /\ Send(command(action, m, FALSE))
    /\ models' = [models EXCEPT !.action = action, !.pending = m, !.confirm = NoNote]

\* The list's keys: reload or check, uninstall the selected model, install a named one.
ModelList ==
    /\ Parts \cap {"actions", "settings"} # {} /\ models.action = "none"
    /\ \/ Send(command("models", "none", FALSE)) /\ UNCHANGED models
       \/ "actions" \in Parts /\ \E m \in DOMAIN models.list : requestPreview("remove", m)
       \/ "actions" \in Parts /\ \E m \in Models : requestPreview("install", m)
    /\ UNCHANGED <<undoVars, installed, settings, agreed, asShown, saved>>

\* y means nothing until there is a note to agree to; any other key closes.
ModelConfirm ==
    /\ models.action # "none"
    /\ \/ /\ models.confirm # NoNote
          /\ Send(command(models.action, models.pending, TRUE))
          /\ LET a == [action |-> models.action, model |-> models.pending]
             IN agreed' = agreed \cup {a} /\ asShown' = (asShown /\ models.confirm = a)
       \/ UNCHANGED <<agreed, asShown, flight>>
    /\ models' = [models EXCEPT !.action = "none", !.pending = "none", !.confirm = NoNote]
    /\ UNCHANGED <<undoVars, installed, settings, saved>>

\* One field is written into the copy of the settings the list holds, and sent whole.
saveModelField ==
    /\ "settings" \in Parts /\ models.action = "none"
    /\ \E m \in DOMAIN models.list, f \in Fields, v \in Values :
         /\ Send([kind |-> "settings", model |-> m, settings |-> [models.list[m] EXCEPT ![f] = v]])
         /\ saved' = [saved EXCEPT ![m][f] = v]
    /\ UNCHANGED <<undoVars, installed, settings, models, agreed, asShown>>

\* modelInfos: the whole list every model command answers with.
modelInfos(on, set) == [m \in on |-> set[m]]

Listing(on, set, note) == [kind |-> "listing", list |-> modelInfos(on, set), note |-> note]

\* The install that pulls at its preview.
installModelEager(m, confirm) == installed \cup {m}

installModel(m, confirm) == IF confirm THEN installed \cup {m} ELSE installed

removeModel(m, confirm) == IF confirm THEN installed \ {m} ELSE installed

\* A note says what an action would cost or what it did, or that settings were saved.
ServeModel ==
    \E f \in flight :
      /\ \/ /\ f.kind = "models" /\ UNCHANGED <<installed, settings>>
            /\ Served(f, {Listing(installed, settings, NoNote)})
         \/ /\ f.kind = "install" /\ installed' = installModel(f.model, f.confirm)
            /\ Served(f, {Listing(installed', settings, [action |-> "install", model |-> f.model])})
            /\ UNCHANGED settings
         \/ /\ f.kind = "remove" /\ f.model \in installed
            /\ installed' = removeModel(f.model, f.confirm)
            /\ Served(f, {Listing(installed', settings, [action |-> "remove", model |-> f.model])})
            /\ UNCHANGED settings
         \/ /\ f.kind = "settings" /\ settings' = [settings EXCEPT ![f.model] = f.settings]
            /\ Served(f, {Listing(installed, settings', [action |-> "saved", model |-> f.model])})
            /\ UNCHANGED installed
         \/ /\ f.kind \in {"models", "install", "remove"}
            /\ Served(f, {[kind |-> "failed"]}) /\ UNCHANGED <<installed, settings>>
      /\ UNCHANGED <<undoVars, models, agreed, asShown, saved>>

applyModels(r) == [models EXCEPT !.list = r.list, !.confirm = r.note]

ApplyModels ==
    \E f \in flight :
      /\ \/ f.kind = "listing" /\ models' = applyModels(f)
         \/ f.kind = "failed" /\ UNCHANGED models
      /\ Served(f, {})
      /\ UNCHANGED <<undoVars, installed, settings, agreed, asShown, saved>>

Next ==
    \/ requestRestore \/ RestoreKey \/ ServeRestore \/ ApplyRestore
    \/ ModelList \/ ModelConfirm \/ saveModelField \/ ServeModel \/ ApplyModels

Spec == Init /\ [][Next]_vars

(***************************************************************************)
(* Properties.                                                             *)
(***************************************************************************)

\* Nothing is put on disk or taken from it that the user did not agree to for that very
\* model (models.go: "Neither happens without one, because both change what is on disk").
OnlyAgreed ==
    \A m \in Models : (m \in installed) # (m \in installed') => \E a \in agreed : a.model = m
NothingUnconfirmed == [][OnlyAgreed]_vars

\* Refuted: y pressed after j, before the new preview is back, undoes to an edit whose cost
\* is not the one on screen (restore.go: "a confirmation that does not say what it destroys
\* is not a confirmation").
UndoAsShown == undone.target = undone.shown

\* Refuted: a cursor left past the end of a shorter list means the whole run (target).
UndoAsPicked == undone.target = undone.picked

\* Refuted: any model reply fills the open confirmation: the note of another model's
\* preview, or of a settings save, stands for the answer (models.go: "Taking it early
\* installs or removes a model against a question the user was never shown").
ModelAsShown == asShown

\* Refuted: two fields saved before the first reply is back: the second command carries
\* the list's old value of the first.
FieldsKept == flight = {} => settings = saved

\* Refuted: a preview the daemon refused leaves the confirmation open, asking
\* (model.go: "A preview that failed has nothing to confirm against"; that branch handles
\* RepError, which Client.Do has already turned into an error).
FailedPreviewCloses == flight = {} /\ models.action # "none" => models.confirm # NoNote
=============================================================================

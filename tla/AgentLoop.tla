----------------------------- MODULE AgentLoop -----------------------------
(***************************************************************************)
(* One thread's runs of the agent loop (internal/agent/loop.go, review.go, *)
(* compact.go) over the router's tiers (internal/router/router.go): model  *)
(* turns until the model is done, a bound trips, the provider fails on the *)
(* top tier or the run's context ends.                                     *)
(*                                                                         *)
(* What the model, a tool, the verifier or the reviewer answers is a       *)
(* choice.  A context that ends and a clock that passes the deadline are   *)
(* steps of their own, so they fall between any two of the loop's calls.   *)
(* A request's size is whether it is over the fast tier's window.          *)
(***************************************************************************)
EXTENDS Integers, Sequences

CONSTANTS
    Pins,                   \* the tiers a thread may be pinned to (hint.Override)
    EditTasks,              \* whether the prompt may read as an edit (looksLikeEditTask)
    Verifier, Reviewer,     \* whether each is configured
    Compacting,             \* whether compaction is on and may shrink a request
    MaxCalls,               \* bound: tool calls in one response
    MaxRuns,                \* bound: runs of the thread
    MaxTurns, MaxToolCallsPerTurn, MaxStagnantErrors,   \* Options
    MaxVerifyRounds, MaxReviewRounds, TurnsBeforeNudge, \* Options
    MaxNudges

Tiers == <<"fast", "balanced", "deep">>

ASSUME LoopAssumption ==
    /\ Pins \subseteq {Tiers[i] : i \in 1..3} /\ Pins # {}
    /\ EditTasks \subseteq BOOLEAN /\ EditTasks # {}
    /\ Verifier \in BOOLEAN /\ Reviewer \in BOOLEAN /\ Compacting \in BOOLEAN
    /\ MaxCalls \in Nat /\ MaxRuns \in Nat /\ MaxTurns \in Nat
    /\ MaxToolCallsPerTurn \in Nat \ {0} /\ MaxStagnantErrors \in Nat \ {0}
    /\ MaxVerifyRounds \in Nat \ {0} /\ MaxReviewRounds \in Nat \ {0}
    /\ TurnsBeforeNudge \in Nat \ {0} /\ MaxNudges \in Nat

VARIABLES
    pc,             \* where Run stands
    runs,           \* runs started
    stop, state,    \* Outcome.Stop, the thread's state
    pin, editTask,  \* hint.Override, whether the task asks for a change
    canceled, late, \* the context is done; the deadline is past
    turns, route, over,             \* Outcome.Turns, the turn's tier, the request's size
    escalations, stuckEscalated, nudges,
    left, toolCalls, acted,         \* calls to come, turnToolCalls, lastCall # nil
    errors, changed, editAttempted, \* consecutiveErrors, len(changes) > 0
    verifyRounds, reviewRounds,
    orphans,        \* history: a call in the transcript has no result
    failed,         \* history: the highest tier that failed a turn of this run
    checked,        \* history: the last verification passed and nothing changed since
    rejected,       \* history: failed verifications of this run
    told,           \* history: the run was given a critique
    empty           \* history: the last response had neither text nor call

boundVars == <<pin, editTask, runs>>
tierVars == <<route, over, escalations, failed>>
onceVars == <<stuckEscalated, nudges>>
callVars == <<left, toolCalls, acted, errors, changed, editAttempted>>
roundVars == <<verifyRounds, reviewRounds, checked, rejected>>
vars == <<pc, stop, state, boundVars, canceled, late, turns, tierVars, onceVars, callVars,
          roundVars, orphans, told, empty>>

NoTier == "none"
NoStop == "none"

Init ==
    /\ pc = "idle" /\ runs = 0
    /\ stop = NoStop /\ state = "idle"
    /\ pin \in Pins /\ editTask \in EditTasks
    /\ canceled = FALSE /\ late = FALSE
    /\ turns = 0 /\ route = NoTier /\ over = FALSE
    /\ escalations = 0 /\ stuckEscalated = FALSE /\ nudges = 0
    /\ left = 0 /\ toolCalls = 0 /\ acted = FALSE
    /\ errors = 0 /\ changed = FALSE /\ editAttempted = FALSE
    /\ verifyRounds = 0 /\ reviewRounds = 0
    /\ orphans = FALSE /\ failed = NoTier /\ checked = FALSE
    /\ rejected = 0 /\ told = FALSE /\ empty = FALSE

-----------------------------------------------------------------------------
(* Tiers *)

Rank(tier) == IF tier = NoTier THEN 0 ELSE CHOOSE i \in 1..3 : Tiers[i] = tier

RouteFlat(base, big, failures) ==
    IF base = "fast" /\ big THEN "balanced" ELSE base

\* Route: the pin, moved up when the request does not fit the fast tier, then
\* one tier up for each prior failure.
Route(base, big, failures) ==
    LET floor == IF base = "fast" /\ big THEN 2 ELSE Rank(base)
    IN  Tiers[IF floor + failures > 3 THEN 3 ELSE floor + failures]

\* escalate: from every tier but the top one.
CanEscalate == route # "deep"

\* The turn's tier failed it and the run moves up.
Escalate ==
    /\ CanEscalate
    /\ escalations' = escalations + 1
    /\ failed' = IF Rank(route) > Rank(failed) THEN route ELSE failed

-----------------------------------------------------------------------------
(* The ways Run returns *)

End(s, st) ==
    /\ pc' = "over"
    /\ stop' = s
    /\ state' = st

\* An append or SetState under a done context fails, and its error is all that
\* Run returns: no Stop, and the thread's state as it was.
Abort == End(NoStop, state)

\* stopBound, whose SetState needs a live context.
StopBound(s) == IF canceled THEN Abort ELSE End(s, "failed")

StopCanceled == End("canceled", "idle")

\* stopFailed: the provider failed on the top tier.
StopFailed == IF canceled THEN Abort ELSE End("provider_failed", "failed")

Goto(l) == pc' = l /\ UNCHANGED <<stop, state>>

\* The next step is an append to the thread.
Appending(l) == IF canceled THEN Abort ELSE Goto(l)

\* The escalate-then-stop rule: a critique and the tier above, or the stop.
CritiqueOr(s) ==
    \/ /\ Escalate
       /\ Appending("turn")
       /\ told' = TRUE
    \/ /\ ~CanEscalate
       /\ StopBound(s)
       /\ UNCHANGED <<escalations, failed, told>>

-----------------------------------------------------------------------------
(* Starting, and the clock *)

\* Loop.Run up to drive: a new run struct.
Start ==
    /\ pc \in {"idle", "over"} /\ runs < MaxRuns
    /\ runs' = runs + 1
    /\ pc' = "start"
    /\ stop' = NoStop
    /\ canceled' = FALSE /\ late' = FALSE
    /\ turns' = 0 /\ route' = NoTier /\ over' \in {over, TRUE}
    /\ escalations' = 0 /\ stuckEscalated' = FALSE /\ nudges' = 0
    /\ left' = 0 /\ toolCalls' = 0 /\ acted' = FALSE
    /\ errors' = 0 /\ changed' = FALSE /\ editAttempted' = FALSE
    /\ verifyRounds' = 0 /\ reviewRounds' = 0
    /\ failed' = NoTier /\ checked' = FALSE
    /\ rejected' = 0 /\ told' = FALSE /\ empty' = FALSE
    /\ UNCHANGED <<state, pin, editTask, orphans>>

\* The checkpoint, the prompt and the working state, or startupOutcome.
Startup ==
    /\ pc = "start"
    /\ IF canceled THEN End("canceled", state)
       ELSE pc' = "turn" /\ state' = "working" /\ UNCHANGED stop
    /\ UNCHANGED <<boundVars, canceled, late, turns, tierVars, onceVars, callVars, roundVars,
                   orphans, told, empty>>

Running == pc \notin {"idle", "over"}

Cancel ==
    /\ Running /\ ~canceled
    /\ canceled' = TRUE
    /\ UNCHANGED <<pc, stop, state, boundVars, late, turns, tierVars, onceVars, callVars, roundVars,
                   orphans, told, empty>>

Expire ==
    /\ Running /\ ~late
    /\ late' = TRUE
    /\ UNCHANGED <<pc, stop, state, boundVars, canceled, turns, tierVars, onceVars, callVars, roundVars,
                   orphans, told, empty>>

-----------------------------------------------------------------------------
(* A turn up to the model's response *)

DriveOneMore ==
    /\ pc = "turn"
    /\ \/ canceled /\ StopCanceled
       \/ ~canceled /\ late /\ StopBound("deadline")
       \/ ~canceled /\ ~late /\ turns > MaxTurns /\ StopBound("max_turns")
       \/ ~canceled /\ ~late /\ turns <= MaxTurns /\ Goto("prepare")
    /\ UNCHANGED <<boundVars, canceled, late, turns, tierVars, onceVars, callVars, roundVars,
                   orphans, told, empty>>

\* drive's checks.
Drive ==
    /\ pc = "turn"
    /\ \/ canceled /\ StopCanceled
       \/ ~canceled /\ late /\ StopBound("deadline")
       \/ ~canceled /\ ~late /\ turns >= MaxTurns /\ StopBound("max_turns")
       \/ ~canceled /\ ~late /\ turns < MaxTurns /\ Goto("prepare")
    /\ UNCHANGED <<boundVars, canceled, late, turns, tierVars, onceVars, callVars, roundVars,
                   orphans, told, empty>>

Nudged == nudges < MaxNudges /\ ~changed /\ turns + 1 >= TurnsBeforeNudge * (nudges + 1)

PrepareUncounted(feedback, stuck) ==
    /\ pc = "prepare"
    /\ UNCHANGED turns
    /\ toolCalls' = 0 /\ left' = 0
    /\ stuck => changed
    /\ UNCHANGED <<stuckEscalated, escalations, nudges, over, failed>>
    /\ route' = Route(pin, over, escalations)
    /\ Goto("stream")
    /\ UNCHANGED <<boundVars, canceled, late, acted, errors, changed, editAttempted,
                   roundVars, orphans, told, empty>>

\* turn up to the request: gate feedback (a stuck gate moves the run up, on the
\* tier of the turn before), the nudge, compaction, routing and the slot.
Prepare(feedback, stuck) ==
    /\ pc = "prepare"
    /\ turns' = turns + 1
    /\ toolCalls' = 0 /\ left' = 0
    /\ feedback \/ stuck => changed
    /\ stuckEscalated' = (stuckEscalated \/ stuck)
    /\ escalations' = IF stuck /\ ~stuckEscalated /\ CanEscalate THEN escalations + 1 ELSE escalations
    /\ nudges' = IF Nudged THEN nudges + 1 ELSE nudges
    /\ over' \in IF Compacting THEN BOOLEAN ELSE {over, TRUE}
    /\ route' = Route(pin, over', escalations')
    /\ IF canceled /\ (feedback \/ Nudged \/ route' = "fast") THEN Abort ELSE Goto("stream")
    /\ UNCHANGED <<boundVars, canceled, late, failed, acted, errors, changed, editAttempted,
                   roundVars, orphans, told, empty>>

\* streamFailed.
StreamFails ==
    /\ pc = "stream"
    /\ \/ canceled /\ StopCanceled /\ UNCHANGED <<escalations, failed>>
       \/ ~canceled /\ late /\ StopBound("deadline") /\ UNCHANGED <<escalations, failed>>
       \/ ~canceled /\ ~late /\ Escalate /\ Goto("turn")
       \/ ~canceled /\ ~late /\ ~CanEscalate /\ StopFailed /\ UNCHANGED <<escalations, failed>>
    /\ UNCHANGED <<boundVars, canceled, late, turns, route, over, onceVars, callVars, roundVars,
                   orphans, told, empty>>

\* The response carries n calls to run.  A spent ceiling leaves them unrun.
RespondsCalls(n, spent) ==
    /\ pc = "stream"
    /\ IF canceled THEN Abort
       ELSE IF spent THEN StopBound("cost_ceiling") ELSE Goto("tools")
    /\ left' = IF canceled THEN 0 ELSE n
    /\ orphans' = (orphans \/ (spent /\ ~canceled /\ n > 0))
    /\ empty' = FALSE
    /\ UNCHANGED <<boundVars, canceled, late, turns, tierVars, onceVars, toolCalls, acted, errors,
                   changed, editAttempted, roundVars, told>>

\* The provider ends the turn although the response carries calls: the turn is
\* taken as the model's last, and the calls stay in the transcript unrun.
EndsWithCalls ==
    /\ pc = "stream"
    /\ Appending("verify")
    /\ orphans' = (orphans \/ ~canceled)
    /\ empty' = FALSE
    /\ UNCHANGED <<boundVars, canceled, late, turns, tierVars, onceVars, callVars, roundVars, told>>

\* endTurnWithNoCalls: what the text reads as decides.  An empty completion on
\* a lower tier counts as its failure, and the turn is then taken as an answer.
EndsTurn(text) ==
    /\ pc = "stream"
    /\ empty' = (text = "empty")
    /\ IF canceled
       THEN Abort /\ UNCHANGED <<escalations, failed, told>>
       ELSE \/ /\ text = "empty" /\ UNCHANGED told
               /\ \/ Escalate /\ Goto("verify")
                  \/ ~CanEscalate /\ StopFailed /\ UNCHANGED <<escalations, failed>>
            \/ text = "markup" /\ CritiqueOr("malformed_tool_call")
            \/ text = "offer" /\ CritiqueOr("asked_in_prose")
            \/ text = "announce" /\ CritiqueOr("announced_not_done")
            \/ text = "answer" /\ Goto("verify") /\ UNCHANGED <<escalations, failed, told>>
    /\ UNCHANGED <<boundVars, canceled, late, turns, route, over, onceVars, callVars, roundVars, orphans>>

-----------------------------------------------------------------------------
(* Its tool calls *)

\* A result of the call in hand is in the transcript, and failing ones in a row
\* stop the run (checkStagnation); otherwise l is next.
Stagnation(fails, l) ==
    /\ errors' = IF fails THEN errors + 1 ELSE 0
    /\ IF fails /\ errors + 1 >= MaxStagnantErrors THEN StopBound("stagnant") ELSE Goto(l)

\* Leaving the calls after the next `answered` ones without a result.
Leaving(answered) ==
    /\ left' = 0
    /\ orphans' = (orphans \/ left > answered)

ToolsDone ==
    /\ pc = "tools" /\ left = 0
    /\ Goto("turn")
    /\ UNCHANGED <<boundVars, canceled, late, turns, tierVars, onceVars, callVars, roundVars,
                   orphans, told, empty>>

\* The deadline and the flood guard, before each call.
ToolsBound ==
    /\ pc = "tools" /\ left > 0
    /\ \/ late /\ StopBound("deadline")
       \/ ~late /\ toolCalls >= MaxToolCallsPerTurn /\ StopBound("tool_call_flood")
    /\ Leaving(0)
    /\ UNCHANGED <<boundVars, canceled, late, turns, tierVars, onceVars, toolCalls, acted, errors,
                   changed, editAttempted, roundVars, told, empty>>

MayCall == pc = "tools" /\ left > 0 /\ ~late /\ toolCalls < MaxToolCallsPerTurn

\* handleMalformedCall and handleRepeatedCall: answer this call, move up, and
\* go to the next turn with the rest of the calls unanswered.
RejectCall(s) ==
    /\ MayCall
    /\ s = "loop_detected" => acted
    /\ \/ /\ Escalate
          /\ IF canceled
             THEN Abort /\ Leaving(0) /\ UNCHANGED <<errors, toolCalls, told>>
             ELSE /\ Stagnation(TRUE, "turn") /\ Leaving(1)
                  /\ toolCalls' = toolCalls + 1 /\ told' = TRUE
       \/ /\ ~CanEscalate
          /\ StopBound(s) /\ Leaving(0)
          /\ UNCHANGED <<escalations, failed, errors, toolCalls, told>>
    /\ UNCHANGED <<boundVars, canceled, late, turns, route, over, onceVars, acted, changed,
                   editAttempted, roundVars, empty>>

\* runTool: unknown, denied, refused by a hook, or run; then its result.  A
\* tool that ran has changed what it changed, whatever becomes of its result.
RunTool(outcome) ==
    /\ MayCall
    /\ editAttempted' = (editAttempted \/ outcome \in {"edited", "edit_failed"})
    /\ changed' = (changed \/ outcome = "edited")
    /\ checked' = (checked /\ outcome # "edited")
    /\ IF canceled
       THEN Abort /\ Leaving(0) /\ UNCHANGED <<errors, toolCalls, acted>>
       ELSE /\ IF outcome = "refused"
               THEN Goto("tools") /\ UNCHANGED errors
               ELSE Stagnation(outcome \in {"failed", "edit_failed"}, "tools")
            /\ toolCalls' = toolCalls + 1
            /\ acted' = TRUE
            /\ IF pc' = "tools" THEN left' = left - 1 /\ UNCHANGED orphans ELSE Leaving(1)
    /\ UNCHANGED <<boundVars, canceled, late, turns, tierVars, onceVars, verifyRounds, reviewRounds,
                   rejected, told, empty>>

-----------------------------------------------------------------------------
(* Verification and review *)

FinishOrVerifyOnce(verdict) ==
    /\ pc = "verify"
    /\ verdict = "pass"
    /\ verifyRounds' = verifyRounds + 1
    /\ checked' = (checked \/ verifyRounds = 0)
    /\ Goto("review")
    /\ UNCHANGED <<rejected, boundVars, canceled, late, turns, tierVars, onceVars, callVars,
                   reviewRounds, orphans, told, empty>>

\* finishOrVerify: the verifier passes a run without changes unseen.
FinishOrVerify(verdict) ==
    /\ pc = "verify"
    /\ ~Verifier \/ ~changed => verdict = "pass"
    /\ verifyRounds' = IF Verifier THEN verifyRounds + 1 ELSE verifyRounds
    /\ checked' = (Verifier /\ verdict = "pass")
    /\ rejected' = IF verdict = "failed" THEN rejected + 1 ELSE rejected
    /\ \/ verdict = "pass" /\ Goto("review")
       \/ verdict = "unattributed" /\ StopBound("tree_state")
       \/ /\ verdict = "failed"
          /\ IF verifyRounds + 1 >= MaxVerifyRounds THEN StopBound("verify_failed") ELSE Appending("turn")
    /\ UNCHANGED <<boundVars, canceled, late, turns, tierVars, onceVars, callVars, reviewRounds,
                   orphans, told, empty>>

\* complete: the finish checks and the state.
Complete == IF canceled THEN Abort ELSE End("complete", "done")

\* reviewOrComplete: an edit that never happened, the reviewer, or done.
ReviewOrComplete(verdict) ==
    /\ pc = "review"
    /\ \/ /\ ~changed /\ (editAttempted \/ editTask)
          /\ CritiqueOr("stagnant") /\ UNCHANGED reviewRounds
       \/ /\ changed /\ Reviewer
          /\ reviewRounds' = reviewRounds + 1
          /\ IF verdict = "objection" /\ reviewRounds + 1 < MaxReviewRounds
             THEN Appending("turn") ELSE Complete
          /\ UNCHANGED <<escalations, failed, told>>
       \/ /\ IF changed THEN ~Reviewer ELSE ~(editAttempted \/ editTask)
          /\ Complete /\ UNCHANGED <<escalations, failed, told, reviewRounds>>
    /\ UNCHANGED <<boundVars, canceled, late, turns, route, over, onceVars, callVars, verifyRounds,
                   checked, rejected, orphans, empty>>

-----------------------------------------------------------------------------
Texts == {"empty", "markup", "offer", "announce", "answer"}
Results == {"ok", "failed", "refused", "edited", "edit_failed"}

Respond ==
    \/ StreamFails \/ EndsWithCalls
    \/ \E n \in 0..MaxCalls, spent \in BOOLEAN : RespondsCalls(n, spent)
    \/ \E text \in Texts : EndsTurn(text)

Tools ==
    \/ ToolsDone \/ ToolsBound
    \/ \E s \in {"malformed_tool_call", "loop_detected"} : RejectCall(s)
    \/ \E outcome \in Results : RunTool(outcome)

Judge ==
    \/ \E verdict \in {"pass", "failed", "unattributed"} : FinishOrVerify(verdict)
    \/ \E verdict \in {"ok", "objection"} : ReviewOrComplete(verdict)

Step ==
    \/ Startup \/ Drive \/ Respond \/ Tools \/ Judge
    \/ \E feedback, stuck \in BOOLEAN : Prepare(feedback, stuck)

Next == Start \/ Cancel \/ Expire \/ Step

Spec == Init /\ [][Next]_vars

\* A response comes or fails (stream is bounded by the deadline), a tool, the
\* verifier and the reviewer return.  Nobody has to cancel or be late.
FairSpec == Spec /\ WF_vars(Step)

-----------------------------------------------------------------------------
(* Properties *)

Bounds == {"max_turns", "tool_call_flood", "malformed_tool_call", "loop_detected", "stagnant",
           "deadline", "cost_ceiling", "verify_failed", "asked_in_prose", "announced_not_done",
           "tree_state"}

\* Every variable has its type, and the counters of a run keep their bounds:
\* turns, the calls of a turn, the failing results in a row and the reviews.
TypeOK ==
    /\ pc \in {"idle", "start", "turn", "prepare", "stream", "tools", "verify", "review", "over"}
    /\ stop \in Bounds \cup {NoStop, "complete", "canceled", "provider_failed"}
    /\ state \in {"idle", "working", "done", "failed"}
    /\ turns \in 0..MaxTurns /\ left \in 0..MaxCalls
    /\ toolCalls \in 0..MaxToolCallsPerTurn /\ errors \in 0..MaxStagnantErrors
    /\ reviewRounds \in 0..MaxReviewRounds /\ nudges \in 0..MaxNudges
    /\ escalations \in Nat /\ verifyRounds \in 0..MaxTurns
    /\ route \in Pins \cup {NoTier, "balanced", "deep"}

\* A run reported complete is one the verifier passed with every change it
\* made, and never an edit task that changed nothing: the model's own account
\* of itself is not what completes a run.
CompleteChecked ==
    stop = "complete" => /\ Verifier => checked
                         /\ editTask \/ editAttempted => changed

\* "A failing tier is never retried on itself": a request goes to a tier above
\* every tier that failed a turn of the run.
NeverRetriesTier == pc = "stream" => Rank(route) > Rank(failed)

\* A run is bounded, earns the stop it reports and climbs tiers only upward.
LoopSound == TypeOK /\ CompleteChecked /\ NeverRetriesTier

\* Every run returns, by the turn bound if by nothing else, with no help from
\* the clock or the user.
RunEnds == Running ~> pc = "over"

-----------------------------------------------------------------------------
(* What comments in the code say and TLC refutes: README, "Disagreements" *)

\* Every call of the transcript a request carries has its result.
CallsPaired == pc = "stream" => ~orphans

\* A run is complete when the model ended its turn with no pending call.
CompleteNoPending == stop = "complete" => ~orphans

\* A response with neither text nor call is a failure of the provider, not an
\* answer that completes a run.
EmptyNotComplete == stop = "complete" => ~empty

\* A run whose context ended before another stop says it was canceled.
CanceledReported == pc = "over" /\ canceled => stop # NoStop

\* A run stopped for talking instead of acting was told once to act before.
ToldOnceBefore == stop \in {"asked_in_prose", "announced_not_done"} => told

\* A run stopped for failing verification failed it in every round.
VerifyFailedRounds == stop = "verify_failed" => rejected = MaxVerifyRounds
=============================================================================

-------------------------- MODULE AgentLoopProofs --------------------------
(***************************************************************************)
(* Proofs about AgentLoop, for every set of options, pins and tasks.       *)
(***************************************************************************)
EXTENDS AgentLoop, TLAPS

-----------------------------------------------------------------------------
(* The inductive invariant *)

\* The variables TypeOK does not speak of.
MoreTypes ==
    /\ pin \in Pins /\ over \in BOOLEAN /\ canceled \in BOOLEAN
    /\ changed \in BOOLEAN /\ checked \in BOOLEAN
    /\ failed \in {NoTier, "fast", "balanced"}

\* What a counter still has to spare where the loop is about to raise it: a
\* turn has passed since the last verification, and the result or the review
\* that meets its bound ends the run.
Room ==
    /\ pc = "prepare" => turns < MaxTurns
    /\ verifyRounds <= turns
    /\ pc \in {"stream", "tools", "verify"} => verifyRounds < turns
    /\ pc # "over" => errors < MaxStagnantErrors /\ reviewRounds < MaxReviewRounds

\* Only a run that is over has a stop, and the review sees verified work.
Earned ==
    /\ stop # NoStop => pc = "over"
    /\ pc = "review" => (Verifier => checked)

\* The lowest tier a request may go to.
Floor(base, big) == IF base = "fast" /\ big THEN 2 ELSE Rank(base)

\* The rank a climb ends at.
Top(n) == IF n > 3 THEN 3 ELSE n

\* No turn went above the tier the run has climbed to, every tier that failed
\* is below it, and the request in flight is on it.
Climbs ==
    /\ Rank(route) <= Floor(pin, over) + escalations
    /\ Rank(failed) < Floor(pin, over) + escalations
    /\ pc = "stream" => Rank(route) = Top(Floor(pin, over) + escalations)

LoopInv == TypeOK /\ CompleteChecked /\ MoreTypes /\ Room /\ Earned

-----------------------------------------------------------------------------
(* Tiers *)

\* The tiers are ranked in their order, and no tier is below them all.
LEMMA Ranks ==
    /\ Rank(NoTier) = 0 /\ Rank("fast") = 1 /\ Rank("balanced") = 2 /\ Rank("deep") = 3
<1>1. \A tier \in {"fast", "balanced", "deep"} :
        Rank(tier) = CHOOSE i \in 1..3 : Tiers[i] = tier
  BY DEF Rank, NoTier
<1>2. Tiers[1] = "fast" /\ Tiers[2] = "balanced" /\ Tiers[3] = "deep"
  BY DEF Tiers
<1>3. \A i \in 1..3 : i = 1 \/ i = 2 \/ i = 3
  OBVIOUS
<1>4. (CHOOSE i \in 1..3 : Tiers[i] = "fast") = 1
  BY <1>2, <1>3
<1>5. (CHOOSE i \in 1..3 : Tiers[i] = "balanced") = 2
  BY <1>2, <1>3
<1>6. (CHOOSE i \in 1..3 : Tiers[i] = "deep") = 3
  BY <1>2, <1>3
<1> QED
  BY <1>1, <1>4, <1>5, <1>6 DEF Rank

\* Route answers with the pin or a tier above "fast", and climbs one tier for
\* each prior failure as far as the top.
LEMMA RouteTier ==
    ASSUME NEW base \in Pins, NEW big \in BOOLEAN, NEW n \in Nat
    PROVE  /\ Route(base, big, n) \in Pins \cup {"balanced", "deep"}
           /\ Rank(Route(base, big, n)) = Top(Floor(base, big) + n)
<1> DEFINE floor == IF base = "fast" /\ big THEN 2 ELSE Rank(base)
           top == IF floor + n > 3 THEN 3 ELSE floor + n
<1>1. base \in {"fast", "balanced", "deep"}
  BY LoopAssumption DEF Tiers
<1>2. Rank(base) \in 1..3 /\ Tiers[Rank(base)] = base
  BY <1>1, Ranks DEF Tiers
<1>3. floor \in 1..3
  BY <1>2
<1>4. top \in 1..3 /\ (top = 1 => base = "fast")
  BY <1>1, <1>3, Ranks
<1>5. Route(base, big, n) = Tiers[top]
  BY DEF Route
<1>6. /\ top = 1 => Tiers[top] = "fast"
      /\ top = 2 => Tiers[top] = "balanced"
      /\ top = 3 => Tiers[top] = "deep"
  BY DEF Tiers
<1> HIDE DEF top
<1>7. top = 1 \/ top = 2 \/ top = 3
  BY <1>4
<1>8. Tiers[top] \in Pins \cup {"balanced", "deep"} /\ Rank(Tiers[top]) = top
  BY <1>4, <1>6, <1>7, Ranks
<1> QED
  BY <1>5, <1>8 DEF top, Top, Floor

-----------------------------------------------------------------------------
(* A run is bounded and earns the stop it reports *)

\* The options as numbers.
LEMMA Options ==
    /\ MaxCalls \in Nat /\ MaxTurns \in Nat /\ MaxNudges \in Nat
    /\ MaxToolCallsPerTurn \in Nat /\ MaxToolCallsPerTurn > 0
    /\ MaxStagnantErrors \in Nat /\ MaxStagnantErrors > 0
    /\ MaxReviewRounds \in Nat /\ MaxReviewRounds > 0
    /\ Verifier \in BOOLEAN
BY LoopAssumption

\* The initial states satisfy the invariant.
LEMMA LoopInit == Init => LoopInv
<1> USE Options DEF Init, NoTier, NoStop
<1>1. Init => TypeOK
  BY DEF TypeOK
<1>2. Init => CompleteChecked /\ Earned
  BY DEF CompleteChecked, Earned
<1>3. Init => MoreTypes
  BY DEF MoreTypes
<1>4. Init => Room
  BY DEF Room
<1> QED
  BY <1>1, <1>2, <1>3, <1>4 DEF LoopInv

\* The tiers a route may be.
LEMMA RouteTypes ==
    ASSUME LoopInv
    PROVE  route \in {NoTier, "fast", "balanced", "deep"}
<1>1. Pins \subseteq {"fast", "balanced", "deep"}
  BY LoopAssumption DEF Tiers
<1> QED
  BY <1>1 DEF LoopInv, TypeOK

\* Starting a run, ending its context and passing its deadline.
LEMMA OutsideInv ==
    ASSUME LoopInv, Start \/ Cancel \/ Expire \/ Startup
    PROVE  LoopInv'
<1> USE Options
    DEF LoopInv, TypeOK, CompleteChecked, MoreTypes, Room, Earned, NoTier, NoStop, Bounds,
        boundVars, tierVars, onceVars, callVars, roundVars, End, Goto
<1>1. CASE Start
  <2>1. TypeOK'
    BY <1>1 DEF Start
  <2>2. CompleteChecked' /\ Earned'
    BY <1>1 DEF Start
  <2>3. MoreTypes'
    BY <1>1 DEF Start
  <2>4. Room'
    BY <1>1 DEF Start
  <2> QED
    BY <2>1, <2>2, <2>3, <2>4 DEF LoopInv
<1>2. CASE Cancel
  <2>1. TypeOK'
    BY <1>2 DEF Cancel, Running
  <2>2. CompleteChecked' /\ Earned'
    BY <1>2 DEF Cancel, Running
  <2>3. MoreTypes'
    BY <1>2 DEF Cancel, Running
  <2>4. Room'
    BY <1>2 DEF Cancel, Running
  <2> QED
    BY <2>1, <2>2, <2>3, <2>4 DEF LoopInv
<1>3. CASE Expire
  <2>1. TypeOK'
    BY <1>3 DEF Expire, Running
  <2>2. CompleteChecked' /\ Earned'
    BY <1>3 DEF Expire, Running
  <2>3. MoreTypes'
    BY <1>3 DEF Expire, Running
  <2>4. Room'
    BY <1>3 DEF Expire, Running
  <2> QED
    BY <2>1, <2>2, <2>3, <2>4 DEF LoopInv
<1>4. CASE Startup
  <2>1. TypeOK'
    BY <1>4 DEF Startup
  <2>2. CompleteChecked' /\ Earned'
    BY <1>4 DEF Startup
  <2>3. MoreTypes'
    BY <1>4 DEF Startup
  <2>4. Room'
    BY <1>4 DEF Startup
  <2> QED
    BY <2>1, <2>2, <2>3, <2>4 DEF LoopInv
<1> QED
  BY <1>1, <1>2, <1>3, <1>4

\* The turn up to its request.
LEMMA RequestInv ==
    ASSUME LoopInv, Drive \/ \E feedback, stuck \in BOOLEAN : Prepare(feedback, stuck)
    PROVE  LoopInv'
<1> USE Options
    DEF LoopInv, TypeOK, CompleteChecked, MoreTypes, Room, Earned, NoTier, NoStop, Bounds,
        boundVars, tierVars, onceVars, callVars, roundVars, End, Goto, Abort
<1>1. CASE Drive
  <2>1. TypeOK'
    BY <1>1 DEF Drive, StopCanceled, StopBound
  <2>2. CompleteChecked' /\ Earned'
    BY <1>1 DEF Drive, StopCanceled, StopBound
  <2>3. MoreTypes'
    BY <1>1 DEF Drive, StopCanceled, StopBound
  <2>4. Room'
    BY <1>1 DEF Drive, StopCanceled, StopBound
  <2> QED
    BY <2>1, <2>2, <2>3, <2>4 DEF LoopInv
<1>2. ASSUME NEW feedback \in BOOLEAN, NEW stuck \in BOOLEAN, Prepare(feedback, stuck)
      PROVE  LoopInv'
  <2>a. over' \in BOOLEAN /\ escalations' \in Nat
    <3>1. over' \in BOOLEAN
      <4>1. over' \in IF Compacting THEN BOOLEAN ELSE {over, TRUE}
        BY <1>2 DEF Prepare
      <4> QED
        BY <4>1
    <3>2. escalations' \in {escalations, escalations + 1}
      BY <1>2 DEF Prepare
    <3> QED
      BY <3>1, <3>2
  <2>b. route' \in Pins \cup {"balanced", "deep"}
    BY <2>a, <1>2, RouteTier DEF Prepare
  <2>c. nudges' \in 0..MaxNudges
    BY <1>2 DEF Prepare, Nudged
  <2>1. TypeOK'
    BY <1>2, <2>a, <2>b, <2>c DEF Prepare
  <2>2. CompleteChecked' /\ Earned'
    BY <1>2, <2>a, <2>b, <2>c DEF Prepare
  <2>3. MoreTypes'
    BY <1>2, <2>a, <2>b, <2>c DEF Prepare
  <2>4. Room'
    BY <1>2, <2>a, <2>b, <2>c DEF Prepare
  <2> QED
    BY <2>1, <2>2, <2>3, <2>4 DEF LoopInv
<1> QED
  BY <1>1, <1>2

\* The response of the model, or its failure.
LEMMA RespondInv ==
    ASSUME LoopInv, Respond
    PROVE  LoopInv'
<1> USE Options
    DEF LoopInv, TypeOK, CompleteChecked, MoreTypes, Room, Earned, NoTier, NoStop, Bounds,
        boundVars, tierVars, onceVars, callVars, roundVars, End, Goto, Appending, Abort,
        StopBound, StopCanceled, StopFailed
<1>0. ASSUME Escalate
      PROVE  escalations' \in Nat /\ failed' \in {NoTier, "fast", "balanced"}
  BY <1>0, RouteTypes DEF Escalate, CanEscalate
<1>1. CASE StreamFails
  <2>1. TypeOK'
    BY <1>0, <1>1 DEF StreamFails
  <2>2. CompleteChecked' /\ Earned'
    BY <1>0, <1>1 DEF StreamFails
  <2>3. MoreTypes'
    BY <1>0, <1>1 DEF StreamFails
  <2>4. Room'
    BY <1>0, <1>1 DEF StreamFails
  <2> QED
    BY <2>1, <2>2, <2>3, <2>4 DEF LoopInv
<1>2. CASE EndsWithCalls
  <2>1. TypeOK'
    BY <1>2 DEF EndsWithCalls
  <2>2. CompleteChecked' /\ Earned'
    BY <1>2 DEF EndsWithCalls
  <2>3. MoreTypes'
    BY <1>2 DEF EndsWithCalls
  <2>4. Room'
    BY <1>2 DEF EndsWithCalls
  <2> QED
    BY <2>1, <2>2, <2>3, <2>4 DEF LoopInv
<1>3. ASSUME NEW n \in 0..MaxCalls, NEW spent \in BOOLEAN, RespondsCalls(n, spent)
      PROVE  LoopInv'
  <2>1. TypeOK'
    BY <1>3 DEF RespondsCalls
  <2>2. CompleteChecked' /\ Earned'
    BY <1>3 DEF RespondsCalls
  <2>3. MoreTypes'
    BY <1>3 DEF RespondsCalls
  <2>4. Room'
    BY <1>3 DEF RespondsCalls
  <2> QED
    BY <2>1, <2>2, <2>3, <2>4 DEF LoopInv
<1>4. ASSUME NEW text \in Texts, EndsTurn(text)
      PROVE  LoopInv'
  <2>1. TypeOK'
    BY <1>0, <1>4 DEF EndsTurn, CritiqueOr, Texts
  <2>2. CompleteChecked' /\ Earned'
    BY <1>0, <1>4 DEF EndsTurn, CritiqueOr, Texts
  <2>3. MoreTypes'
    BY <1>0, <1>4 DEF EndsTurn, CritiqueOr, Texts
  <2>4. Room'
    BY <1>0, <1>4 DEF EndsTurn, CritiqueOr, Texts
  <2> QED
    BY <2>1, <2>2, <2>3, <2>4 DEF LoopInv
<1> QED
  BY <1>1, <1>2, <1>3, <1>4 DEF Respond

\* The tool calls of a response.
LEMMA ToolsInv ==
    ASSUME LoopInv, Tools
    PROVE  LoopInv'
<1> USE Options
    DEF LoopInv, TypeOK, CompleteChecked, MoreTypes, Room, Earned, NoTier, NoStop, Bounds,
        boundVars, tierVars, onceVars, callVars, roundVars, End, Goto, Abort, StopBound
<1>0. ASSUME Escalate
      PROVE  escalations' \in Nat /\ failed' \in {NoTier, "fast", "balanced"}
  BY <1>0, RouteTypes DEF Escalate, CanEscalate
<1>1. CASE ToolsDone
  <2>1. TypeOK'
    BY <1>1 DEF ToolsDone
  <2>2. CompleteChecked' /\ Earned'
    BY <1>1 DEF ToolsDone
  <2>3. MoreTypes'
    BY <1>1 DEF ToolsDone
  <2>4. Room'
    BY <1>1 DEF ToolsDone
  <2> QED
    BY <2>1, <2>2, <2>3, <2>4 DEF LoopInv
<1>2. CASE ToolsBound
  <2>1. TypeOK'
    BY <1>2 DEF ToolsBound, Leaving
  <2>2. CompleteChecked' /\ Earned'
    BY <1>2 DEF ToolsBound, Leaving
  <2>3. MoreTypes'
    BY <1>2 DEF ToolsBound, Leaving
  <2>4. Room'
    BY <1>2 DEF ToolsBound, Leaving
  <2> QED
    BY <2>1, <2>2, <2>3, <2>4 DEF LoopInv
<1>3. ASSUME NEW s \in {"malformed_tool_call", "loop_detected"}, RejectCall(s)
      PROVE  LoopInv'
  <2>1. TypeOK'
    BY <1>0, <1>3 DEF RejectCall, MayCall, Leaving, Stagnation
  <2>2. CompleteChecked' /\ Earned'
    BY <1>0, <1>3 DEF RejectCall, MayCall, Leaving, Stagnation
  <2>3. MoreTypes'
    BY <1>0, <1>3 DEF RejectCall, MayCall, Leaving, Stagnation
  <2>4. Room'
    BY <1>0, <1>3 DEF RejectCall, MayCall, Leaving, Stagnation
  <2> QED
    BY <2>1, <2>2, <2>3, <2>4 DEF LoopInv
<1>4. ASSUME NEW outcome \in Results, RunTool(outcome)
      PROVE  LoopInv'
  <2>1. TypeOK'
    BY <1>4 DEF RunTool, MayCall, Leaving, Stagnation, Results
  <2>2. CompleteChecked' /\ Earned'
    BY <1>4 DEF RunTool, MayCall, Leaving, Stagnation, Results
  <2>3. MoreTypes'
    BY <1>4 DEF RunTool, MayCall, Leaving, Stagnation, Results
  <2>4. Room'
    BY <1>4 DEF RunTool, MayCall, Leaving, Stagnation, Results
  <2> QED
    BY <2>1, <2>2, <2>3, <2>4 DEF LoopInv
<1> QED
  BY <1>1, <1>2, <1>3, <1>4 DEF Tools

\* The verifier and the reviewer.
LEMMA JudgeInv ==
    ASSUME LoopInv, Judge
    PROVE  LoopInv'
<1> USE Options
    DEF LoopInv, TypeOK, CompleteChecked, MoreTypes, Room, Earned, NoTier, NoStop, Bounds,
        boundVars, tierVars, onceVars, callVars, roundVars, End, Goto, Abort, Appending, StopBound
<1>0. ASSUME Escalate
      PROVE  escalations' \in Nat /\ failed' \in {NoTier, "fast", "balanced"}
  BY <1>0, RouteTypes DEF Escalate, CanEscalate
<1>1. ASSUME NEW verdict \in {"pass", "failed", "unattributed"}, FinishOrVerify(verdict)
      PROVE  LoopInv'
  <2>1. TypeOK'
    BY <1>1 DEF FinishOrVerify
  <2>2. CompleteChecked' /\ Earned'
    BY <1>1 DEF FinishOrVerify
  <2>3. MoreTypes'
    BY <1>1 DEF FinishOrVerify
  <2>4. Room'
    BY <1>1 DEF FinishOrVerify
  <2> QED
    BY <2>1, <2>2, <2>3, <2>4 DEF LoopInv
<1>2. ASSUME NEW verdict \in {"ok", "objection"}, ReviewOrComplete(verdict)
      PROVE  LoopInv'
  <2>1. TypeOK'
    BY <1>0, <1>2 DEF ReviewOrComplete, CritiqueOr, Complete
  <2>2. CompleteChecked' /\ Earned'
    BY <1>0, <1>2 DEF ReviewOrComplete, CritiqueOr, Complete
  <2>3. MoreTypes'
    BY <1>0, <1>2 DEF ReviewOrComplete, CritiqueOr, Complete
  <2>4. Room'
    BY <1>0, <1>2 DEF ReviewOrComplete, CritiqueOr, Complete
  <2> QED
    BY <2>1, <2>2, <2>3, <2>4 DEF LoopInv
<1> QED
  BY <1>1, <1>2 DEF Judge

\* Every step keeps the invariant.
LEMMA LoopNext == LoopInv /\ [Next]_vars => LoopInv'
<1> SUFFICES ASSUME LoopInv, [Next]_vars
             PROVE  LoopInv'
  OBVIOUS
<1>1. CASE Next
  BY <1>1, OutsideInv, RequestInv, RespondInv, ToolsInv, JudgeInv DEF Next, Step
<1>2. CASE UNCHANGED vars
  BY <1>2 DEF vars, boundVars, tierVars, onceVars, callVars, roundVars, LoopInv, TypeOK,
              CompleteChecked, MoreTypes, Room, Earned
<1> QED
  BY <1>1, <1>2

\* Types: a run stays within its bounds of turns, calls per turn, failing
\* results in a row, reviews and nudges, for every value of the options.
THEOREM LoopTypeCorrect == Spec => []TypeOK
<1>1. LoopInv => TypeOK
  BY DEF LoopInv
<1> QED
  BY <1>1, LoopInit, LoopNext, PTL DEF Spec

\* A run that reports "complete" (Loop.complete) was passed by the verifier,
\* if there is one, with every change it made, and is no edit task that
\* changed nothing, whatever the options, the tiers and the compaction.
THEOREM CompletionChecked == Spec => []CompleteChecked
<1>1. LoopInv => CompleteChecked
  BY DEF LoopInv
<1> QED
  BY <1>1, LoopInit, LoopNext, PTL DEF Spec

-----------------------------------------------------------------------------
(* A run climbs the tiers only upward, as long as compaction shrinks no      *)
(* request back into the fast tier's window                                  *)

\* Moving up keeps every tier that failed below the run's.
LEMMA EscalateClimbs ==
    ASSUME LoopInv, Climbs, Escalate, UNCHANGED <<pin, over, route>>
    PROVE  /\ Rank(route') <= Floor(pin', over') + escalations'
           /\ Rank(failed') < Floor(pin', over') + escalations'
<1>1. Rank(route) \in Nat /\ Rank(failed) \in Nat
  BY RouteTypes, Ranks DEF LoopInv, MoreTypes
<1>2. Floor(pin, over) \in Nat /\ Floor(pin', over') = Floor(pin, over)
  <2>1. pin \in {"fast", "balanced", "deep"}
    BY LoopAssumption DEF LoopInv, MoreTypes, Tiers
  <2> QED
    BY <2>1, Ranks DEF Floor
<1>3. escalations' = escalations + 1 /\ escalations \in Nat
  BY DEF Escalate, LoopInv, TypeOK
<1>4. failed' = route \/ failed' = failed
  BY DEF Escalate
<1> QED
  BY <1>1, <1>2, <1>3, <1>4 DEF Climbs

\* Every step of a run without compaction keeps what it has climbed.
LEMMA ClimbsNext ==
    ASSUME ~Compacting, LoopInv, Climbs, [Next]_vars
    PROVE  Climbs'
<1>1. /\ Rank(route) \in Nat /\ Rank(failed) \in Nat
      /\ escalations \in Nat /\ over \in BOOLEAN
  BY RouteTypes, Ranks DEF LoopInv, MoreTypes, TypeOK
<1>2. pin \in {"fast", "balanced", "deep"} /\ pin \in Pins /\ Floor(pin, over) \in 1..3
  <2>1. pin \in {"fast", "balanced", "deep"}
    BY LoopAssumption DEF LoopInv, MoreTypes, Tiers
  <2> QED
    BY <2>1, Ranks DEF Floor, LoopInv, MoreTypes
<1>3. CASE UNCHANGED <<pin, over, route, failed, escalations>> /\ (pc' = "stream" => pc = "stream")
  BY <1>3 DEF Climbs, Floor
<1>4. CASE Escalate /\ UNCHANGED <<pin, over, route>> /\ pc' # "stream"
  BY <1>4, EscalateClimbs DEF Climbs
<1>5. CASE Start
  <2>1. pin' = pin /\ over' \in {over, TRUE} /\ route' = NoTier /\ failed' = NoTier
        /\ escalations' = 0 /\ pc' = "start"
    BY <1>5 DEF Start
  <2>2. Floor(pin', over') \in 1..3
    BY <1>1, <1>2, <2>1, Ranks DEF Floor
  <2>3. Rank(route') = 0 /\ Rank(failed') = 0
    BY <2>1, Ranks
  <2>4. Rank(route') <= Floor(pin', over') + escalations' /\ Rank(failed') < Floor(pin', over') + escalations'
    BY <2>1, <2>2, <2>3
  <2>5. pc' # "stream"
    BY <2>1
  <2> QED
    BY <2>4, <2>5 DEF Climbs
<1>6. ASSUME NEW feedback \in BOOLEAN, NEW stuck \in BOOLEAN, Prepare(feedback, stuck)
      PROVE  Climbs'
  <2>1. pin' = pin /\ over' \in {over, TRUE} /\ failed' = failed
    BY <1>6 DEF Prepare, boundVars
  <2>2. over' \in BOOLEAN
    BY <1>1, <2>1
  <2>3. escalations' \in Nat /\ escalations' >= escalations
    BY <1>1, <1>6 DEF Prepare
  <2>4. Floor(pin', over') \in 1..3 /\ Floor(pin', over') >= Floor(pin, over)
    <3>1. Floor(pin', over') = IF pin = "fast" /\ over' THEN 2 ELSE Rank(pin)
      BY <2>1 DEF Floor
    <3>2. over => over'
      BY <2>1
    <3> QED
      BY <1>1, <1>2, <2>2, <3>1, <3>2, Ranks DEF Floor
  <2>5. route' = Route(pin, over', escalations')
    BY <1>6 DEF Prepare
  <2>6. Rank(route') = Top(Floor(pin', over') + escalations')
    <3>1. Rank(Route(pin, over', escalations')) = Top(Floor(pin, over') + escalations')
      BY <1>2, <2>2, <2>3, RouteTier
    <3> QED
      BY <2>1, <2>5, <3>1
  <2> QED
    <3>1. Rank(route') <= Floor(pin', over') + escalations'
      BY <2>3, <2>4, <2>6 DEF Top
    <3>2. Rank(failed') < Floor(pin', over') + escalations'
      BY <1>1, <1>2, <2>1, <2>3, <2>4 DEF Climbs
    <3> QED
      BY <2>6, <3>1, <3>2 DEF Climbs
<1>7. CASE UNCHANGED vars
  BY <1>3, <1>7 DEF vars, boundVars, tierVars
<1>8. CASE Cancel \/ Expire \/ Startup \/ Drive \/ Tools
  BY <1>3, <1>4, <1>8
  DEF Cancel, Expire, Startup, Drive, Tools, ToolsDone, ToolsBound, RejectCall, RunTool, Stagnation,
      MayCall, boundVars, tierVars, StopBound, StopCanceled, Abort, End, Goto
<1>9. CASE Respond
  BY <1>3, <1>4, <1>9
  DEF Respond, StreamFails, EndsWithCalls, RespondsCalls, EndsTurn, CritiqueOr, Appending,
      boundVars, tierVars, StopBound, StopFailed, StopCanceled, Abort, End, Goto
<1>10. CASE Judge
  BY <1>3, <1>4, <1>10
  DEF Judge, FinishOrVerify, ReviewOrComplete, CritiqueOr, Appending, Complete,
      boundVars, tierVars, StopBound, Abort, End, Goto
<1> QED
  BY <1>5, <1>6, <1>7, <1>8, <1>9, <1>10 DEF Next, Step

\* A request goes to a tier above every tier that failed a turn of the run
\* (streamFailed and escalate, with router.Route): with what is proved for
\* every option, all that the run of AgentLoop checks, where compaction is off.
THEOREM LoopIsSound ==
    ASSUME ~Compacting
    PROVE  Spec => []LoopSound
<1> DEFINE I == LoopInv /\ Climbs
<1>1. Init => I
  <2>1. Init => Floor(pin, over) \in 1..3
    <3>1. Init => pin \in {"fast", "balanced", "deep"}
      BY LoopAssumption DEF Init, Tiers
    <3> QED
      BY <3>1, Ranks DEF Floor
  <2>2. Init => Climbs
    BY <2>1, Ranks DEF Init, Climbs
  <2> QED
    BY <2>2, LoopInit
<1>2. I /\ [Next]_vars => I'
  BY LoopNext, ClimbsNext
<1>3. I => LoopSound
  <2> SUFFICES ASSUME I
               PROVE  LoopSound
    OBVIOUS
  <2>1. pin \in {"fast", "balanced", "deep"}
    BY LoopAssumption DEF LoopInv, MoreTypes, Tiers
  <2>2. Floor(pin, over) \in 1..3 /\ escalations \in Nat
    BY <2>1, Ranks DEF Floor, LoopInv, TypeOK
  <2>3. Rank(failed) \in 0..2
    BY Ranks DEF LoopInv, MoreTypes
  <2>4. NeverRetriesTier
    BY <2>2, <2>3 DEF NeverRetriesTier, Climbs, Top
  <2> QED
    BY <2>4 DEF LoopSound, LoopInv
<1> HIDE DEF I
<1> QED
  BY <1>1, <1>2, <1>3, PTL DEF Spec
=============================================================================

------------------------- MODULE ChangeGateProofs -------------------------
(***************************************************************************)
(* Proofs about ChangeGate, for every finite set of writers, every set of  *)
(* files and gate outcomes, and every capacity and bound.                  *)
(***************************************************************************)
EXTENDS ChangeGate, FiniteSetTheorems, SequenceTheorems, TLAPS

-----------------------------------------------------------------------------
(* The inductive invariant *)

Own(w) == {c \in Changes : c.writer = w}

\* A gate run is over changes of the writer it reports to.
Addressed(r) == r.writer \in Writers /\ r.covers \subseteq Own(r.writer)

\* What TypeOK does not say: whose a change in hand or in a batch is, what the
\* Runner holds at each of its stages, and whom a result is for.
Stages ==
    /\ \A w \in Writers : sending[w] # None => sending[w].writer = w
    /\ \A w \in Writers : batches[w] \subseteq Own(w)
    /\ \A w \in Writers : working[w] => run[w] >= 1
    /\ latest = [w \in Writers |-> latest[w]] /\ pending = [w \in Writers |-> pending[w]]
    /\ \A w \in Writers : latest[w].covers \subseteq Own(w)
    /\ \A w \in Writers : \A r \in pending[w] : r.covers \subseteq Own(w)
    /\ phase \in {"ask", "held", "run"} => batch \in Writers
    /\ IF phase = "deliver" THEN Addressed(result) ELSE result = NoResult
    /\ results = <<>> \/ (results = <<results[1]>> /\ Addressed(results[1]))

\* Where a change may be on its way to a gate run.
InHand(c) == sending[c.writer] = c
InInbox(c) == \E i \in 1..Len(inbox) : inbox[i] = c
InPump(c) == pump = c
InBatch(c) == c \in batches[c.writer]
InResult(c) == c \in result.covers
InChannel(c) == results # <<>> /\ c \in results[1].covers

Under(c) == InHand(c) \/ InInbox(c) \/ InPump(c) \/ InBatch(c) \/ InResult(c) \/ InChannel(c)

\* A recorded change is in exactly one place, or collected, and no other
\* change is anywhere.
OnePlace ==
    /\ \A c \in Changes : c \in made <=> Under(c) \/ c \in covered
    /\ \A c \in covered : ~Under(c)
    /\ \A c \in Changes : InHand(c) => ~InInbox(c) /\ ~InPump(c) /\ ~InBatch(c) /\ ~InResult(c) /\ ~InChannel(c)
    /\ \A c \in Changes : InInbox(c) => ~InPump(c) /\ ~InBatch(c) /\ ~InResult(c) /\ ~InChannel(c)
    /\ \A c \in Changes : InPump(c) => ~InBatch(c) /\ ~InResult(c) /\ ~InChannel(c)
    /\ \A c \in Changes : InBatch(c) => ~InResult(c) /\ ~InChannel(c)
    /\ \A c \in Changes : InResult(c) => ~InChannel(c)

NoRepeats == \A i, j \in 1..Len(inbox) : inbox[i] = inbox[j] => i = j

\* The next edit of a run is a new change.
Numbered ==
    /\ IsFiniteSet(made)
    /\ \A c \in made : /\ c.run <= run[c.writer]
                       /\ c.run = run[c.writer] => c.n <= edits[c.writer]

GateInv == TypeOK /\ Stages /\ OnePlace /\ NoRepeats /\ Numbered /\ HeldForTurn

-----------------------------------------------------------------------------
(* Helpers *)

\* A count that is taken down stops at zero.
LEMMA MaxZero ==
    ASSUME NEW n \in Int
    PROVE  Max({n, 0}) = IF n >= 0 THEN n ELSE 0
<1> DEFINE m == IF n >= 0 THEN n ELSE 0
<1>1. m \in {n, 0} /\ \A y \in {n, 0} : m >= y
  OBVIOUS
<1>2. \A x \in {n, 0} : (\A y \in {n, 0} : x >= y) => x = m
  OBVIOUS
<1> HIDE DEF m
<1>3. (CHOOSE x \in {n, 0} : \A y \in {n, 0} : x >= y) = m
  BY <1>1, <1>2
<1> QED
  BY <1>3 DEF Max, m

\* The bounds as numbers.
LEMMA Bounds == InboxCap \in Nat /\ InboxCap > 0 /\ MaxRuns \in Nat /\ MaxEdits \in Nat /\ StuckAfter \in Nat
BY GateAssumption

\* Two steps that see the same changes everywhere.
LEMMA SamePlaces ==
    ASSUME OnePlace, NoRepeats, UNCHANGED <<feedVars, batches, result, results, made, covered>>
    PROVE  OnePlace' /\ NoRepeats'
BY DEF OnePlace, NoRepeats, Under, InHand, InInbox, InPump, InBatch, InResult, InChannel, feedVars

-----------------------------------------------------------------------------
(* The invariant *)

\* Before the first run nothing is anywhere.
LEMMA GateInit == Init => GateInv
<1> SUFFICES ASSUME Init PROVE GateInv
  OBVIOUS
<1>1. TypeOK
  BY Bounds DEF Init, TypeOK
<1>2. Stages
  BY DEF Init, Stages, NoResult
<1>3. OnePlace /\ NoRepeats
  BY NoneAssumption DEF Init, OnePlace, NoRepeats, Under, InHand, InInbox, InPump, InBatch, InResult,
                        InChannel, NoResult, Changes
<1>4. Numbered
  BY FS_EmptySet DEF Init, Numbered
<1>5. HeldForTurn
  BY DEF Init, HeldForTurn
<1> QED
  BY <1>1, <1>2, <1>3, <1>4, <1>5 DEF GateInv

\* ChangeGate.Begin forgets the run before, and moves no change.
LEMMA BeginInv ==
    ASSUME GateInv, NEW w \in Writers, Begin(w)
    PROVE  GateInv'
<1> USE DEF Begin, feedVars, runnerVars
<1>1. TypeOK'
  BY Bounds DEF GateInv, TypeOK
<1>2. Stages'
  <2>1. \A v \in Writers : run'[v] >= run[v] /\ (v = w => run'[v] >= 1) /\ run[v] \in Nat
    BY DEF GateInv, TypeOK
  <2>2. \A v \in Writers : working'[v] => run'[v] >= 1
    BY <2>1 DEF GateInv, TypeOK, Stages
  <2>3. \A v \in Writers : latest'[v].covers \subseteq Own(v)
    BY DEF GateInv, Stages, NoResult
  <2>4. \A v \in Writers : \A r \in pending'[v] : r.covers \subseteq Own(v)
    BY DEF GateInv, Stages
  <2> QED
    BY <2>2, <2>3, <2>4 DEF GateInv, Stages, Addressed
<1>3. OnePlace' /\ NoRepeats'
  BY SamePlaces DEF GateInv
<1>4. Numbered'
  <2> SUFFICES ASSUME NEW c \in made
               PROVE  /\ c.run <= run'[c.writer]
                      /\ c.run = run'[c.writer] => c.n <= edits'[c.writer]
    BY DEF GateInv, Numbered
  <2>1. c.writer \in Writers /\ c.run \in Int /\ run[c.writer] \in Int
    BY DEF GateInv, TypeOK, Changes
  <2>2. run'[c.writer] = IF c.writer = w THEN run[w] + 1 ELSE run[c.writer]
    BY <2>1 DEF GateInv, TypeOK
  <2>3. c.writer # w => edits'[c.writer] = edits[c.writer]
    BY <2>1 DEF GateInv, TypeOK
  <2> QED
    BY <2>1, <2>2, <2>3 DEF GateInv, Numbered
<1>5. HeldForTurn'
  BY DEF GateInv, TypeOK, HeldForTurn
<1> QED
  BY <1>1, <1>2, <1>3, <1>4, <1>5 DEF GateInv

\* collectGateFeedback hands over what the run has not heard.
LEMMA FeedbackInv ==
    ASSUME GateInv, NEW w \in Writers, Feedback(w)
    PROVE  GateInv'
<1> USE DEF Feedback, feedVars, runnerVars
<1>1. TypeOK'
  BY DEF GateInv, TypeOK
<1>2. Stages'
  BY DEF GateInv, Stages, Addressed
<1>3. OnePlace' /\ NoRepeats'
  BY SamePlaces DEF GateInv
<1>4. Numbered' /\ HeldForTurn'
  BY DEF GateInv, Numbered, HeldForTurn
<1> QED
  BY <1>1, <1>2, <1>3, <1>4 DEF GateInv

\* The end of a turn leaves the gates another local turn to wait for, or wakes
\* them.
LEMMA EndRunInv ==
    ASSUME GateInv, NEW w \in Writers, EndRun(w)
    PROVE  GateInv'
<1> USE DEF EndRun, feedVars, stateVars
<1>1. TypeOK'
  BY DEF GateInv, TypeOK
<1>2. Stages'
  BY DEF GateInv, TypeOK, Stages, Addressed
<1>3. OnePlace' /\ NoRepeats'
  BY SamePlaces DEF GateInv
<1>4. Numbered' /\ HeldForTurn'
  BY DEF GateInv, TypeOK, Numbered, HeldForTurn
<1> QED
  BY <1>1, <1>2, <1>3, <1>4 DEF GateInv

\* The Runner's steps up to a gate run move no change.
LEMMA FiringInv ==
    ASSUME GateInv, Fire \/ (\E w \in Writers : Pick(w)) \/ (\E tight \in BOOLEAN : AdmitGate(tight))
    PROVE  GateInv'
<1> USE DEF Fire, Pick, AdmitGate, feedVars, runVars, stateVars
<1>1. TypeOK'
  BY DEF GateInv, TypeOK
<1>2. Stages'
  BY DEF GateInv, TypeOK, Stages, Addressed
<1>3. OnePlace' /\ NoRepeats'
  <2>1. UNCHANGED <<feedVars, batches, result, results, made, covered>>
    OBVIOUS
  <2> QED
    BY <2>1, SamePlaces DEF GateInv
<1>4. Numbered' /\ HeldForTurn'
  BY DEF GateInv, TypeOK, Numbered, HeldForTurn
<1> QED
  BY <1>1, <1>2, <1>3, <1>4 DEF GateInv

\* gateChanges counts an edit that is in no place yet.
LEMMA EnqueueInv ==
    ASSUME GateInv, NEW w \in Writers, NEW p \in Paths, Enqueue(w, p)
    PROVE  GateInv'
<1> DEFINE d == [writer |-> w, path |-> p, run |-> run[w], n |-> edits[w] + 1]
<1> USE DEF Enqueue
<1>1. run[w] \in 1..MaxRuns /\ edits[w] + 1 \in 1..MaxEdits /\ edits[w] \in Nat
  BY Bounds DEF GateInv, TypeOK, Stages
<1>2. d \in Changes /\ d.writer = w /\ d.run = run[w] /\ d.n = edits[w] + 1
  BY <1>1 DEF Changes
<1>3. d \notin made /\ made' = made \cup {d}
  BY <1>1, <1>2 DEF GateInv, Numbered
<1>4. /\ sending[w] = None /\ sending' = [sending EXCEPT ![w] = d] /\ edits' = [edits EXCEPT ![w] = @ + 1]
      /\ UNCHANGED <<run, working, inbox, pump, batches, result, results, covered, phase>>
  BY DEF runnerVars
<1> HIDE DEF d
<1>5. TypeOK'
  BY <1>1, <1>2, <1>3, <1>4 DEF GateInv, TypeOK, runnerVars
<1>6. Stages'
  BY <1>2, <1>4, NoneAssumption DEF GateInv, TypeOK, Stages, Addressed, runnerVars
<1>7. /\ \A c \in Changes : InHand(c)' <=> InHand(c) \/ c = d
      /\ ~InHand(d)
  <2>1. \A c \in Changes : c.writer \in Writers
    BY DEF Changes
  <2> QED
    BY <1>2, <1>4, <2>1, NoneAssumption DEF GateInv, TypeOK, InHand
<1>8. \A c \in Changes : /\ InInbox(c)' <=> InInbox(c)
                         /\ InPump(c)' <=> InPump(c)
                         /\ InBatch(c)' <=> InBatch(c)
                         /\ InResult(c)' <=> InResult(c)
                         /\ InChannel(c)' <=> InChannel(c)
  BY <1>4 DEF InInbox, InPump, InBatch, InResult, InChannel
<1>9. OnePlace' /\ NoRepeats'
  <2>1. covered' = covered /\ covered \subseteq made /\ made \subseteq Changes
    BY <1>4 DEF GateInv, TypeOK
  <2>2. OnePlace'
    BY <1>2, <1>3, <1>7, <1>8, <2>1 DEF GateInv, OnePlace, Under
  <2> QED
    BY <1>4, <2>2 DEF GateInv, NoRepeats
<1>10. Numbered'
  <2>1. IsFiniteSet(made')
    BY <1>3, FS_AddElement DEF GateInv, Numbered
  <2>2. ASSUME NEW c \in made'
        PROVE  /\ c.run <= run'[c.writer]
               /\ c.run = run'[c.writer] => c.n <= edits'[c.writer]
    <3>1. CASE c = d
      BY <1>1, <1>2, <1>4, <3>1 DEF GateInv, TypeOK
    <3>2. CASE c \in made
      <4>1. c.writer \in Writers /\ c.n \in Int /\ c.run \in Int
        BY <3>2 DEF GateInv, TypeOK, Changes
      <4>2. edits'[c.writer] >= edits[c.writer] /\ edits[c.writer] \in Int /\ edits'[c.writer] \in Int
        BY <1>4, <4>1 DEF GateInv, TypeOK
      <4> QED
        BY <1>4, <3>2, <4>1, <4>2 DEF GateInv, Numbered
    <3> QED
      BY <1>3, <2>2, <3>1, <3>2
  <2> QED
    BY <2>1, <2>2 DEF Numbered
<1>11. HeldForTurn'
  BY <1>4 DEF GateInv, HeldForTurn
<1> QED
  BY <1>5, <1>6, <1>9, <1>10, <1>11 DEF GateInv

\* Enqueue's send puts the change in hand at the end of the inbox.
LEMMA SentInv ==
    ASSUME GateInv, NEW w \in Writers, Sent(w)
    PROVE  GateInv'
<1> DEFINE d == sending[w]
<1> USE DEF Sent
<1>1. d \in Changes /\ d.writer = w /\ InHand(d) /\ d # None
  BY DEF GateInv, TypeOK, Stages, InHand
<1>2. inbox \in Seq(Changes) /\ Len(inbox) \in Nat /\ Len(inbox) < InboxCap
  BY DEF GateInv, TypeOK
<1>3. /\ inbox' = Append(inbox, d) /\ sending' = [sending EXCEPT ![w] = None]
      /\ UNCHANGED <<run, edits, working, made, pump, batches, result, results, covered, phase>>
  BY DEF runVars, runnerVars
<1> HIDE DEF d
<1>4. /\ inbox' \in Seq(Changes)
      /\ Len(inbox') = Len(inbox) + 1
      /\ inbox'[Len(inbox) + 1] = d
      /\ \A i \in 1..Len(inbox) : inbox'[i] = inbox[i]
  BY <1>1, <1>2, <1>3
<1>5. TypeOK'
  BY <1>2, <1>3, <1>4, Bounds DEF GateInv, TypeOK, runVars, stateVars, runnerVars
<1>6. Stages'
  BY <1>3 DEF GateInv, TypeOK, Stages, Addressed, stateVars, runVars, runnerVars
<1>7. \A c \in Changes : InHand(c)' <=> InHand(c) /\ c # d
  <2>1. \A c \in Changes : c.writer \in Writers
    BY DEF Changes
  <2> QED
    BY <1>1, <1>3, <2>1, NoneAssumption DEF GateInv, TypeOK, InHand, d
<1>8. \A c \in Changes : InInbox(c)' <=> InInbox(c) \/ c = d
  <2> TAKE c \in Changes
  <2>1. ASSUME NEW i \in 1..Len(inbox'), inbox'[i] = c
        PROVE  InInbox(c) \/ c = d
    BY <1>2, <1>4, <2>1 DEF InInbox
  <2>2. ASSUME InInbox(c) \/ c = d
        PROVE  \E i \in 1..Len(inbox') : inbox'[i] = c
    BY <1>2, <1>4, <2>2 DEF InInbox
  <2> QED
    BY <2>1, <2>2 DEF InInbox
<1>9. \A c \in Changes : /\ InPump(c)' <=> InPump(c)
                         /\ InBatch(c)' <=> InBatch(c)
                         /\ InResult(c)' <=> InResult(c)
                         /\ InChannel(c)' <=> InChannel(c)
  BY <1>3 DEF InPump, InBatch, InResult, InChannel
<1>10. OnePlace'
  <2>1. covered' = covered /\ made' = made /\ covered \subseteq made /\ made \subseteq Changes
    BY <1>3 DEF GateInv, TypeOK
  <2> QED
    BY <1>1, <1>7, <1>8, <1>9, <2>1 DEF GateInv, OnePlace, Under
<1>11. NoRepeats'
  <2>1. \A i \in 1..Len(inbox) : inbox[i] # d
    BY <1>1 DEF GateInv, OnePlace, InInbox
  <2> QED
    BY <1>2, <1>4, <2>1 DEF GateInv, NoRepeats
<1>12. Numbered' /\ HeldForTurn'
  BY <1>3 DEF GateInv, Numbered, HeldForTurn
<1> QED
  BY <1>5, <1>6, <1>10, <1>11, <1>12 DEF GateInv

\* The pump takes the head of the inbox.
LEMMA PumpTakesInv ==
    ASSUME GateInv, PumpTakes
    PROVE  GateInv'
<1> DEFINE d == Head(inbox)
<1> USE DEF PumpTakes
<1>1. inbox \in Seq(Changes) /\ Len(inbox) \in Nat /\ Len(inbox) >= 1 /\ inbox # <<>> /\ Len(inbox) <= InboxCap
  BY DEF GateInv, TypeOK
<1>2. d \in Changes /\ d = inbox[1] /\ InInbox(d)
  BY <1>1 DEF InInbox
<1>3. /\ pump = None /\ pump' = d /\ inbox' = Tail(inbox)
      /\ UNCHANGED <<run, edits, working, made, sending, batches, result, results, covered, phase>>
  BY DEF runVars, runnerVars
<1> HIDE DEF d
<1>4. /\ inbox' \in Seq(Changes)
      /\ Len(inbox') = Len(inbox) - 1
      /\ \A i \in 1..Len(inbox') : inbox'[i] = inbox[i + 1]
  BY <1>1, <1>3, HeadTailProperties
<1>5. TypeOK'
  BY <1>1, <1>2, <1>3, <1>4, Bounds DEF GateInv, TypeOK, runVars, stateVars, runnerVars
<1>6. Stages'
  BY <1>3 DEF GateInv, TypeOK, Stages, Addressed, stateVars, runVars, runnerVars
<1>7. \A c \in Changes : InInbox(c)' <=> InInbox(c) /\ c # d
  <2> TAKE c \in Changes
  <2>1. ASSUME NEW i \in 1..Len(inbox'), inbox'[i] = c
        PROVE  InInbox(c) /\ c # d
    <3>1. i + 1 \in 1..Len(inbox) /\ inbox[i + 1] = c /\ i + 1 # 1
      BY <1>1, <1>4, <2>1
    <3> QED
      BY <1>1, <1>2, <3>1 DEF GateInv, NoRepeats, InInbox
  <2>2. ASSUME NEW i \in 1..Len(inbox), inbox[i] = c, c # d
        PROVE  \E j \in 1..Len(inbox') : inbox'[j] = c
    <3>1. i - 1 \in 1..Len(inbox')
      BY <1>1, <1>2, <1>4, <2>2
    <3>2. inbox'[i - 1] = c
      BY <1>4, <2>2, <3>1
    <3> QED
      BY <3>1, <3>2
  <2> QED
    BY <2>1, <2>2 DEF InInbox
<1>8. \A c \in Changes : /\ ~InPump(c)
                         /\ InPump(c)' <=> c = d
                         /\ InHand(c)' <=> InHand(c)
                         /\ InBatch(c)' <=> InBatch(c)
                         /\ InResult(c)' <=> InResult(c)
                         /\ InChannel(c)' <=> InChannel(c)
  BY <1>3, NoneAssumption DEF InPump, InHand, InBatch, InResult, InChannel
<1>9. OnePlace'
  <2>1. covered' = covered /\ made' = made /\ covered \subseteq made /\ made \subseteq Changes
    BY <1>3 DEF GateInv, TypeOK
  <2> QED
    BY <1>2, <1>7, <1>8, <2>1 DEF GateInv, OnePlace, Under
<1>10. NoRepeats'
  BY <1>1, <1>4 DEF GateInv, NoRepeats
<1>11. Numbered' /\ HeldForTurn'
  BY <1>3 DEF GateInv, Numbered, HeldForTurn
<1> QED
  BY <1>5, <1>6, <1>9, <1>10, <1>11 DEF GateInv

\* The Runner's select takes the change in the pump's hand into its writer's
\* batch.
LEMMA AcceptInv ==
    ASSUME GateInv, Accept
    PROVE  GateInv'
<1> DEFINE d == pump
<1>1. d \in Changes /\ d.writer \in Writers /\ InPump(d)
  BY DEF Accept, GateInv, TypeOK, Changes, InPump
<1>2. /\ pump' = None /\ batches' = [batches EXCEPT ![d.writer] = @ \cup {d}]
      /\ UNCHANGED <<run, edits, working, made, sending, inbox, result, results, covered, phase, todo, queued>>
  BY DEF Accept, runVars, stateVars
<1>3. \A c \in Changes : InPump(c) <=> c = d
  BY DEF InPump
<1> HIDE DEF d
<1>4. TypeOK'
  BY <1>1, <1>2 DEF GateInv, TypeOK
<1>5. Stages'
  BY <1>1, <1>2 DEF Accept, GateInv, TypeOK, Stages, Addressed, Own, stateVars, runVars
<1>6. \A c \in Changes : InBatch(c)' <=> InBatch(c) \/ c = d
  <2>1. \A c \in Changes : c.writer \in Writers
    BY DEF Changes
  <2> QED
    BY <1>1, <1>2, <2>1 DEF GateInv, TypeOK, InBatch
<1>7. \A c \in Changes : /\ ~InPump(c)'
                         /\ InHand(c)' <=> InHand(c)
                         /\ InInbox(c)' <=> InInbox(c)
                         /\ InResult(c)' <=> InResult(c)
                         /\ InChannel(c)' <=> InChannel(c)
  BY <1>2, NoneAssumption DEF InPump, InHand, InInbox, InResult, InChannel
<1>8. OnePlace'
  <2>1. covered' = covered /\ made' = made /\ covered \subseteq made /\ made \subseteq Changes
    BY <1>2 DEF GateInv, TypeOK
  <2> QED
    BY <1>1, <1>3, <1>6, <1>7, <2>1 DEF GateInv, OnePlace, Under
<1>9. NoRepeats' /\ Numbered' /\ HeldForTurn'
  BY <1>2 DEF GateInv, NoRepeats, Numbered, HeldForTurn
<1> QED
  BY <1>4, <1>5, <1>8, <1>9 DEF GateInv

\* A gate run takes its writer's batch whole.
LEMMA RunBatchInv ==
    ASSUME GateInv, NEW outcome \in Outcomes, RunBatch(outcome)
    PROVE  GateInv'
<1> USE DEF RunBatch
<1>1. batch \in Writers /\ result = NoResult
  BY DEF GateInv, Stages
<1>2. /\ result'.covers = batches[batch] /\ result'.writer = batch
      /\ batches' = [batches EXCEPT ![batch] = {}] /\ phase' = "deliver"
      /\ UNCHANGED <<run, edits, working, made, sending, inbox, pump, results, covered>>
  BY DEF runVars, feedVars
<1>3. batches[batch] \subseteq Own(batch)
  BY <1>1 DEF GateInv, Stages
<1>4. TypeOK'
  BY <1>2 DEF GateInv, TypeOK, runVars, stateVars, feedVars
<1>5. Stages'
  BY <1>1, <1>2, <1>3 DEF GateInv, TypeOK, Stages, Addressed, stateVars, runVars, feedVars
<1>6. \A c \in Changes : /\ ~InResult(c)
                         /\ InResult(c)' <=> InBatch(c) /\ c.writer = batch
                         /\ InBatch(c)' <=> InBatch(c) /\ c.writer # batch
  <2>1. \A c \in Changes : c.writer \in Writers
    BY DEF Changes
  <2> QED
    BY <1>1, <1>2, <1>3, <2>1 DEF GateInv, TypeOK, InResult, InBatch, Own, NoResult
<1>7. \A c \in Changes : /\ InHand(c)' <=> InHand(c)
                         /\ InInbox(c)' <=> InInbox(c)
                         /\ InPump(c)' <=> InPump(c)
                         /\ InChannel(c)' <=> InChannel(c)
  BY <1>2 DEF InPump, InHand, InInbox, InChannel
<1>8. OnePlace'
  <2>1. covered' = covered /\ made' = made /\ covered \subseteq made /\ made \subseteq Changes
    BY <1>2 DEF GateInv, TypeOK
  <2> QED
    BY <1>6, <1>7, <2>1 DEF GateInv, OnePlace, Under
<1>9. NoRepeats' /\ Numbered' /\ HeldForTurn'
  BY <1>2 DEF GateInv, NoRepeats, Numbered, HeldForTurn
<1> QED
  BY <1>4, <1>5, <1>8, <1>9 DEF GateInv

\* The result goes into the empty results channel.
LEMMA DeliverInv ==
    ASSUME GateInv, Deliver
    PROVE  GateInv'
<1> USE DEF Deliver
<1>1. Addressed(result) /\ results = <<>>
  BY DEF GateInv, Stages
<1>2. /\ results' = <<result>> /\ result' = NoResult /\ phase' \in {"idle", "fire"}
      /\ UNCHANGED <<run, edits, working, made, sending, inbox, pump, batches, covered>>
  BY DEF runVars, feedVars
<1>3. TypeOK'
  BY <1>2 DEF GateInv, TypeOK, runVars, stateVars, feedVars
<1>4. Stages'
  BY <1>1, <1>2 DEF GateInv, TypeOK, Stages, Addressed, stateVars, runVars, feedVars
<1>5. \A c \in Changes : /\ ~InChannel(c)
                         /\ InChannel(c)' <=> InResult(c)
                         /\ ~InResult(c)'
  BY <1>1, <1>2 DEF InResult, InChannel, NoResult
<1>6. \A c \in Changes : /\ InHand(c)' <=> InHand(c)
                         /\ InInbox(c)' <=> InInbox(c)
                         /\ InPump(c)' <=> InPump(c)
                         /\ InBatch(c)' <=> InBatch(c)
  BY <1>2 DEF InPump, InHand, InInbox, InBatch
<1>7. OnePlace'
  <2>1. covered' = covered /\ made' = made /\ covered \subseteq made /\ made \subseteq Changes
    BY <1>2 DEF GateInv, TypeOK
  <2> QED
    BY <1>5, <1>6, <2>1 DEF GateInv, OnePlace, Under
<1>8. NoRepeats' /\ Numbered' /\ HeldForTurn'
  BY <1>2 DEF GateInv, NoRepeats, Numbered, HeldForTurn
<1> QED
  BY <1>3, <1>4, <1>7, <1>8 DEF GateInv

\* The collected changes are the batch's: recorded, of one writer, finitely
\* many, and none of them collected before.
LEMMA Batch ==
    ASSUME GateInv, results # <<>>
    PROVE  /\ Head(results) = results[1] /\ Addressed(results[1])
           /\ results[1].covers \subseteq made \ covered
           /\ IsFiniteSet(results[1].covers)
           /\ Cardinality({c.path : c \in results[1].covers}) \in Nat
           /\ Cardinality({c.path : c \in results[1].covers}) <= Cardinality(results[1].covers)
<1> DEFINE S == results[1].covers
           T == {c.path : c \in S}
           f == [c \in S |-> c.path]
<1>1. Head(results) = results[1] /\ Addressed(results[1])
  BY DEF GateInv, Stages
<1>2. S \subseteq Changes
  BY <1>1 DEF Addressed, Own
<1>3. S \subseteq made \ covered
  BY <1>2 DEF GateInv, OnePlace, Under, InChannel
<1>4. IsFiniteSet(S)
  BY <1>3, FS_Subset DEF GateInv, Numbered
<1> HIDE DEF S
<1>5. f \in Surjection(S, T)
  BY DEF Surjection
<1> HIDE DEF f, T
<1>6. IsFiniteSet(T) /\ Cardinality(T) <= Cardinality(S) /\ Cardinality(T) \in Nat
  BY <1>4, <1>5, FS_Surjection, FS_CardinalityType
<1> QED
  BY <1>1, <1>3, <1>4, <1>6 DEF S, T

\* Collect takes the result's changes off the channel for good.
LEMMA CollectInv ==
    ASSUME GateInv, Collect
    PROVE  GateInv'
<1> DEFINE r == results[1]
           n == Cardinality({c.path : c \in results[1].covers})
<1>1. /\ results # <<>> /\ Head(results) = r /\ r.writer \in Writers /\ r.covers \subseteq Own(r.writer)
      /\ r.covers \subseteq made \ covered /\ n \in Nat
  BY Batch DEF Collect, Addressed
<1>2. /\ results' = <<>> /\ covered' = covered \cup r.covers
      /\ UNCHANGED <<run, edits, working, made, sending, inbox, pump, batches, armed, phase, todo, batch, result>>
      /\ latest' = [latest EXCEPT ![r.writer] = r]
      /\ pending' = [pending EXCEPT ![r.writer] = @ \cup {r}]
      /\ queued' = [queued EXCEPT ![r.writer] = Max({@ - n, 0})]
  BY <1>1 DEF Collect, runVars, feedVars
<1> HIDE DEF r, n
<1>3. TypeOK'
  <2>1. queued[r.writer] - n \in Int
    BY <1>1 DEF GateInv, TypeOK
  <2>2. Max({queued[r.writer] - n, 0}) \in Nat
    BY <2>1, MaxZero
  <2>3. queued' \in [Writers -> Nat]
    BY <1>1, <1>2, <2>2 DEF GateInv, TypeOK
  <2> QED
    BY <1>1, <1>2, <2>3 DEF GateInv, TypeOK
<1>4. Stages'
  <2>1. \A v \in Writers : latest'[v].covers \subseteq Own(v)
    BY <1>1, <1>2 DEF GateInv, Stages
  <2>2. \A v \in Writers : \A q \in pending'[v] : q.covers \subseteq Own(v)
    BY <1>1, <1>2 DEF GateInv, Stages
  <2> QED
    BY <1>2, <2>1, <2>2 DEF GateInv, Stages, Addressed
<1>5. \A c \in Changes : /\ c \in covered' <=> c \in covered \/ InChannel(c)
                         /\ ~InChannel(c)'
  BY <1>1, <1>2 DEF InChannel, r
<1>6. \A c \in Changes : /\ InHand(c)' <=> InHand(c)
                         /\ InInbox(c)' <=> InInbox(c)
                         /\ InPump(c)' <=> InPump(c)
                         /\ InBatch(c)' <=> InBatch(c)
                         /\ InResult(c)' <=> InResult(c)
  BY <1>2 DEF InPump, InHand, InInbox, InBatch, InResult
<1>7. OnePlace'
  <2>1. made' = made /\ covered' \subseteq made /\ made \subseteq Changes
    BY <1>1, <1>2 DEF GateInv, TypeOK
  <2> QED
    BY <1>5, <1>6, <2>1 DEF GateInv, OnePlace, Under
<1>8. NoRepeats' /\ Numbered' /\ HeldForTurn'
  BY <1>2 DEF GateInv, NoRepeats, Numbered, HeldForTurn
<1> QED
  BY <1>3, <1>4, <1>7, <1>8 DEF GateInv

\* Every step keeps the invariant.
LEMMA GateNext == GateInv /\ [Next]_vars => GateInv'
<1> SUFFICES ASSUME GateInv, [Next]_vars
             PROVE  GateInv'
  OBVIOUS
<1>1. CASE UNCHANGED vars
  BY <1>1, SamePlaces DEF vars, runVars, stateVars, feedVars, runnerVars, GateInv, TypeOK, Stages, Addressed,
                          Numbered, HeldForTurn
<1>2. CASE Gates
  BY <1>2, PumpTakesInv, AcceptInv, FiringInv, DeliverInv, CollectInv, RunBatchInv DEF Gates
<1>3. ASSUME NEW w \in Writers, Run(w)
      PROVE  GateInv'
  BY <1>3, BeginInv, SentInv, FeedbackInv, EndRunInv, EnqueueInv DEF Run
<1> QED
  BY <1>1, <1>2, <1>3 DEF Next

\* Every edit that Enqueue counted is on its way to a gate run, or a gate run
\* over it has been collected, and never both.
THEOREM ChangesKept == Spec => []NoChangeLost
<1>1. GateInv => NoChangeLost
  <2> SUFFICES ASSUME GateInv PROVE NoChangeLost
    OBVIOUS
  <2>1. ASSUME NEW c
        PROVE  c \in InFlight <=> c \in Changes /\ Under(c)
    <3> DEFINE Hands == {sending[w] : w \in Writers}
               Inbox == {inbox[i] : i \in DOMAIN inbox}
               Pending == UNION {batches[w] : w \in Writers}
               Channel == UNION {results[i].covers : i \in DOMAIN results}
    <3>1. c \in Hands /\ c # None <=> c \in Changes /\ InHand(c)
      BY NoneAssumption DEF GateInv, TypeOK, Stages, InHand, Changes
    <3>2. c \in Inbox /\ c # None <=> c \in Changes /\ InInbox(c)
      <4>1. inbox \in Seq(Changes) /\ DOMAIN inbox = 1..Len(inbox) /\ \A i \in 1..Len(inbox) : inbox[i] \in Changes
        BY LenProperties, ElementOfSeq DEF GateInv, TypeOK
      <4> QED
        BY <4>1, NoneAssumption DEF InInbox
    <3>3. c = pump /\ c # None <=> c \in Changes /\ InPump(c)
      BY NoneAssumption DEF GateInv, TypeOK, InPump
    <3>4. c \in Pending <=> c \in Changes /\ InBatch(c)
      BY DEF GateInv, TypeOK, Stages, Own, InBatch, Changes
    <3>5. c \in result.covers <=> c \in Changes /\ InResult(c)
      BY DEF GateInv, Stages, Addressed, Own, NoResult, InResult
    <3>6. c \in Channel <=> c \in Changes /\ InChannel(c)
      <4>1. DOMAIN results = IF results = <<>> THEN {} ELSE {1}
        BY DEF GateInv, Stages
      <4>2. c \in Channel <=> results # <<>> /\ c \in results[1].covers
        BY <4>1
      <4>3. results # <<>> => results[1].covers \subseteq Changes
        BY DEF GateInv, Stages, Addressed, Own
      <4> QED
        BY <4>2, <4>3 DEF InChannel
    <3>7. c \in InFlight <=> \/ c # None /\ (c \in Hands \/ c \in Inbox \/ c = pump)
                            \/ c \in Pending \/ c \in result.covers \/ c \in Channel
      BY DEF InFlight
    <3> HIDE DEF Hands, Inbox, Pending, Channel
    <3> QED
      BY <3>1, <3>2, <3>3, <3>4, <3>5, <3>6, <3>7 DEF Under
  <2>2. made \subseteq Changes /\ covered \subseteq made
    BY DEF GateInv, TypeOK
  <2> QED
    BY <2>1, <2>2 DEF GateInv, OnePlace, NoChangeLost
<1> QED
  BY <1>1, GateInit, GateNext, PTL DEF Spec

-----------------------------------------------------------------------------
(* What a run hears of the gates *)

\* The changes of a writer that no gate run has covered.
Waits(w) == {c \in made \ covered : c.writer = w}

\* In its first run a writer counts at least as many uncovered changes as it
\* has.  A later run's count goes down by its predecessor's batches too.
Counted == \A w \in Writers : run[w] <= 1 => Cardinality(Waits(w)) <= queued[w]

\* StatusCurrent for the writers in their first run.
FirstStatusCurrent ==
    \A w \in Writers :
        run[w] <= 1 /\ queued[w] = 0 /\ latest[w] # NoResult =>
            \A c \in made : c.writer = w => c \in covered

\* Uncovered changes are finitely many, and a writer that has not run has none.
LEMMA WaitsFinite ==
    ASSUME GateInv, NEW w \in Writers
    PROVE  /\ IsFiniteSet(Waits(w)) /\ Cardinality(Waits(w)) \in Nat
           /\ run[w] = 0 => Cardinality(Waits(w)) = 0
<1>1. Waits(w) \subseteq made
  BY DEF Waits
<1>2. IsFiniteSet(Waits(w)) /\ Cardinality(Waits(w)) \in Nat
  BY <1>1, FS_Subset, FS_CardinalityType DEF GateInv, Numbered
<1>3. ASSUME run[w] = 0
      PROVE  Waits(w) = {}
  <2>1. \A c \in made : c.run \in 1..MaxRuns /\ c.run <= run[c.writer]
    BY DEF GateInv, TypeOK, Changes, Numbered
  <2>2. \A c \in made : c.writer # w
    BY <1>3, <2>1, Bounds
  <2> QED
    BY <2>2 DEF Waits
<1> QED
  BY <1>2, <1>3, FS_EmptySet

\* No step makes a first run count too few.
LEMMA CountedNext ==
    ASSUME GateInv, Counted, [Next]_vars
    PROVE  Counted'
<1>1. \A w \in Writers : queued[w] \in Nat /\ run[w] \in Nat /\ Cardinality(Waits(w)) \in Nat
  BY WaitsFinite DEF GateInv, TypeOK
<1>2. CASE UNCHANGED <<run, queued, made, covered>>
  BY <1>2 DEF Counted, Waits
<1>3. ASSUME NEW w \in Writers, Begin(w)
      PROVE  Counted'
  <2>1. run' = [run EXCEPT ![w] = @ + 1] /\ queued' = [queued EXCEPT ![w] = 0] /\ UNCHANGED <<made, covered>>
    BY <1>3 DEF Begin
  <2>2. \A v \in Writers : Waits(v)' = Waits(v)
    BY <2>1 DEF Waits
  <2>3. ASSUME NEW v \in Writers, run'[v] <= 1
        PROVE  Cardinality(Waits(v)) <= queued'[v]
    <3>1. CASE v = w
      <4>1. queued'[v] = 0 /\ run'[v] = run[v] + 1
        BY <2>1, <3>1 DEF GateInv, TypeOK
      <4>2. run[v] = 0
        BY <1>1, <2>3, <4>1
      <4> QED
        BY <4>1, <4>2, WaitsFinite
    <3>2. CASE v # w
      BY <2>1, <2>3, <3>2 DEF GateInv, TypeOK, Counted
    <3> QED
      BY <3>1, <3>2
  <2> QED
    BY <2>2, <2>3 DEF Counted
<1>4. ASSUME NEW w \in Writers, NEW p \in Paths, Enqueue(w, p)
      PROVE  Counted'
  <2> DEFINE d == [writer |-> w, path |-> p, run |-> run[w], n |-> edits[w] + 1]
  <2>1. /\ made' = made \cup {d} /\ d.writer = w
        /\ queued' = [queued EXCEPT ![w] = @ + 1] /\ UNCHANGED <<run, covered>>
    BY <1>4 DEF Enqueue
  <2> HIDE DEF d
  <2>2. ASSUME NEW v \in Writers
        PROVE  Waits(v)' \subseteq IF v = w THEN Waits(v) \cup {d} ELSE Waits(v)
    BY <2>1 DEF Waits
  <2>3. GateInv'
    BY <1>4, EnqueueInv
  <2>4. ASSUME NEW v \in Writers, run'[v] <= 1
        PROVE  Cardinality(Waits(v)') <= queued'[v]
    <3>1. IsFiniteSet(Waits(v)) /\ Cardinality(Waits(v)) <= queued[v]
      BY <2>1, <2>4, WaitsFinite DEF Counted
    <3>2. IsFiniteSet(Waits(v) \cup {d}) /\ Cardinality(Waits(v) \cup {d}) <= Cardinality(Waits(v)) + 1
      <4>1. Cardinality(Waits(v) \cup {d}) = IF d \in Waits(v) THEN Cardinality(Waits(v))
                                             ELSE Cardinality(Waits(v)) + 1
        BY <3>1, FS_AddElement, Zenon
      <4>2. IsFiniteSet(Waits(v) \cup {d})
        BY <3>1, FS_AddElement, Zenon
      <4>3. Cardinality(Waits(v)) \in Nat
        BY <1>1
      <4> QED
        BY <4>1, <4>2, <4>3
    <3>3. CASE v = w
      <4>1. Cardinality(Waits(v)') <= Cardinality(Waits(v) \cup {d})
            /\ Cardinality(Waits(v) \cup {d}) \in Nat /\ Cardinality(Waits(v)') \in Nat
        BY <2>2, <3>2, <3>3, FS_Subset, FS_CardinalityType
      <4> QED
        BY <1>1, <2>1, <3>1, <3>2, <3>3, <4>1 DEF GateInv, TypeOK
    <3>4. CASE v # w
      <4>1. Cardinality(Waits(v)') <= Cardinality(Waits(v)) /\ Cardinality(Waits(v)') \in Nat
        BY <2>2, <3>1, <3>4, FS_Subset, FS_CardinalityType
      <4>2. queued'[v] = queued[v]
        BY <2>1, <3>4 DEF GateInv, TypeOK
      <4> QED
        BY <1>1, <3>1, <4>1, <4>2
    <3> QED
      BY <3>3, <3>4
  <2> QED
    BY <2>4 DEF Counted
<1>5. CASE Collect
  <2> DEFINE r == results[1]
             n == Cardinality({c.path : c \in results[1].covers})
  <2>1. /\ Head(results) = r /\ r.writer \in Writers /\ r.covers \subseteq Own(r.writer)
        /\ r.covers \subseteq made \ covered /\ IsFiniteSet(r.covers)
        /\ n \in Nat /\ n <= Cardinality(r.covers)
    BY <1>5, Batch DEF Collect, Addressed
  <2>2. /\ covered' = covered \cup r.covers /\ UNCHANGED <<run, made>>
        /\ queued' = [queued EXCEPT ![r.writer] = Max({@ - n, 0})]
    BY <1>5, <2>1 DEF Collect, runVars
  <2> HIDE DEF r, n
  <2>3. ASSUME NEW v \in Writers, run'[v] <= 1
        PROVE  Cardinality(Waits(v)') <= queued'[v]
    <3>1. IsFiniteSet(Waits(v)) /\ Cardinality(Waits(v)) <= queued[v]
      BY <2>2, <2>3, WaitsFinite DEF Counted
    <3>2. CASE v = r.writer
      <4>1. r.covers \subseteq Waits(v) /\ Waits(v)' = Waits(v) \ r.covers
        BY <2>1, <2>2, <3>2 DEF Waits, Own
      <4>2. Waits(v) \cap r.covers = r.covers
        BY <4>1
      <4>3. Cardinality(Waits(v) \ r.covers) = Cardinality(Waits(v)) - Cardinality(r.covers)
            /\ IsFiniteSet(Waits(v) \ r.covers)
        BY <3>1, <4>2, FS_Difference
      <4>4. Cardinality(r.covers) \in Nat /\ Cardinality(Waits(v) \ r.covers) \in Nat
        BY <2>1, <4>3, FS_CardinalityType
      <4>5. queued'[v] = Max({queued[v] - n, 0})
        BY <2>2, <3>2 DEF GateInv, TypeOK
      <4>6. queued'[v] = IF queued[v] - n >= 0 THEN queued[v] - n ELSE 0
        BY <1>1, <2>1, <4>5, MaxZero
      <4>7. Cardinality(Waits(v) \ r.covers) <= queued'[v]
        BY <1>1, <2>1, <3>1, <4>3, <4>4, <4>6
      <4> QED
        BY <4>1, <4>7
    <3>3. CASE v # r.writer
      <4>1. Waits(v)' = Waits(v)
        BY <2>1, <2>2, <3>3 DEF Waits, Own
      <4>2. queued'[v] = queued[v]
        BY <2>2, <3>3 DEF GateInv, TypeOK
      <4> QED
        BY <3>1, <4>1, <4>2
    <3> QED
      BY <3>2, <3>3
  <2> QED
    BY <2>3 DEF Counted
<1>6. ASSUME NEW w \in Writers, Run(w)
      PROVE  Counted'
  <2>1. CASE Sent(w) \/ Feedback(w) \/ EndRun(w)
    BY <1>2, <2>1 DEF Sent, Feedback, EndRun, runVars, stateVars
  <2> QED
    BY <1>3, <1>4, <1>6, <2>1 DEF Run
<1>7. CASE Gates
  <2>1. CASE PumpTakes \/ Accept \/ Fire \/ Deliver
    BY <1>2, <2>1 DEF PumpTakes, Accept, Fire, Deliver, runVars, stateVars
  <2>2. CASE (\E w \in Writers : Pick(w)) \/ (\E tight \in BOOLEAN : AdmitGate(tight))
             \/ \E outcome \in Outcomes : RunBatch(outcome)
    BY <1>2, <2>2 DEF Pick, AdmitGate, RunBatch, runVars, stateVars
  <2> QED
    BY <1>5, <1>7, <2>1, <2>2 DEF Gates
<1>8. CASE UNCHANGED vars
  BY <1>2, <1>8 DEF vars, runVars, stateVars
<1> QED
  BY <1>6, <1>7, <1>8 DEF Next

\* What the gates tell a run is about its own edits (FeedbackOwn), a gate run
\* is held only for a local turn in flight (HeldForTurn), and a thread in its
\* first run reads "passed" or "failed" from ChangeGate.Status only when every
\* edit it made has been through the gates, for any number of runs elsewhere.
THEOREM GateReports == Spec => [](TypeOK /\ FeedbackOwn /\ HeldForTurn /\ FirstStatusCurrent)
<1> DEFINE I == GateInv /\ Counted
<1>1. Init => I
  <2> SUFFICES ASSUME Init PROVE I
    OBVIOUS
  <2>1. \A w \in Writers : Waits(w) = {} /\ queued[w] = 0
    BY DEF Init, Waits
  <2> QED
    BY <2>1, GateInit, FS_EmptySet DEF Counted
<1>2. I /\ [Next]_vars => I'
  BY GateNext, CountedNext
<1>3. I => TypeOK /\ FeedbackOwn /\ HeldForTurn /\ FirstStatusCurrent
  <2> SUFFICES ASSUME I PROVE TypeOK /\ FeedbackOwn /\ HeldForTurn /\ FirstStatusCurrent
    OBVIOUS
  <2>1. FeedbackOwn
    BY DEF GateInv, Stages, Own, FeedbackOwn
  <2>2. ASSUME NEW w \in Writers, run[w] <= 1, queued[w] = 0
        PROVE  \A c \in made : c.writer = w => c \in covered
    <3>1. Cardinality(Waits(w)) = 0 /\ IsFiniteSet(Waits(w))
      BY <2>2, WaitsFinite DEF Counted
    <3>2. Waits(w) = {}
      BY <3>1, FS_EmptySet
    <3> QED
      BY <3>2 DEF Waits
  <2> QED
    BY <2>1, <2>2 DEF GateInv, FirstStatusCurrent
<1> HIDE DEF I
<1> QED
  BY <1>1, <1>2, <1>3, PTL DEF Spec

\* With one run to a thread that is all that the run of ChangeGate checks;
\* from the second run on StatusCurrent fails, as a batch of the first run is
\* taken off the count of the second.
THEOREM GateStatusIsSound ==
    ASSUME MaxRuns <= 1
    PROVE  Spec => []StatusSound
<1>1. TypeOK /\ FeedbackOwn /\ HeldForTurn /\ FirstStatusCurrent => StatusSound
  <2>1. TypeOK => \A w \in Writers : run[w] <= 1
    BY Bounds DEF TypeOK
  <2> QED
    BY <2>1 DEF StatusSound, StatusCurrent, FirstStatusCurrent
<1> QED
  BY <1>1, GateReports, PTL
=============================================================================

-------------------------------- MODULE Pty --------------------------------
(***************************************************************************)
(* One call of the pty tool (internal/tools/pty.go): a program under a     *)
(* pseudo-terminal, the goroutine that reads its screen, the one that      *)
(* types back the emulator's answers, the one that waits for the exit, and *)
(* the call that plays keys and tears it all down.  A byte is a model      *)
(* value: "r" is a carriage return, "e" an escape (which is also what the  *)
(* emulator answers with), "q" a query the emulator answers, others print. *)
(* Every timer may fire at any moment.                                     *)
(***************************************************************************)
EXTENDS Integers, Sequences, SequencesExt

CONSTANTS Keys,     \* the bytes a call may type
          MaxKeys,  \* how many it types at most
          Draws,    \* the bytes the program may write
          MaxOut    \* how many it writes at most

VARIABLES call,     \* pc, the keys left, and how the last wait ended
          prog,     \* alive, bytes left to write, recorded in the process registry
          tty,      \* open, how it echoes, and the output not yet read
          screen,   \* echo still owed, answer, and the program's bytes drawn
          reader,   \* the reading goroutine: reading, done, or blocked with n answers to hand over
          answerer, \* the answering goroutine: waiting, holding, writing or gone
          mu,       \* ttyInputWriter's lock
          exited,   \* cmd.Wait has returned
          seen      \* what the call has met, for the properties

vars == <<call, prog, tty, screen, reader, answerer, mu, exited, seen>>

KeySeqs == UNION {[1..n -> Keys] : n \in 0..MaxKeys}

TypeOK ==
    /\ call.pc \in {"judge", "play", "lock", "write", "settle", "last", "drain", "kill",
                    "close", "closeEmulator", "wait", "returned"}
    /\ call.keys \in KeySeqs /\ prog.left \in 0..MaxOut
    /\ screen.answer \in BOOLEAN /\ screen.drawn \in 0..MaxOut /\ reader.blocked \in 0..MaxOut
    /\ answerer \in {"waiting", "holding", "writing", "gone"} /\ mu \in {"free", "play", "answerer"}

Init ==
    /\ \E keys \in KeySeqs : call = [pc |-> "judge", keys |-> keys, end |-> "none"]
    /\ prog = [alive |-> FALSE, left |-> MaxOut, recorded |-> FALSE]
    /\ \E mode \in {"off", "plain", "caret"} : tty = [open |-> FALSE, mode |-> mode, out |-> << >>]
    /\ screen = [echo |-> << >>, answer |-> FALSE, drawn |-> 0]
    /\ reader = [on |-> FALSE, blocked |-> 0, carried |-> 0]
    /\ answerer = "gone" /\ mu = "free" /\ exited = FALSE
    /\ seen = [drew |-> FALSE, late |-> FALSE, behind |-> FALSE, asked |-> FALSE, left |-> FALSE]

(***************************************************************************)
(* The terminal and the screen.                                            *)
(***************************************************************************)
echoOf(b) == IF b = "r" THEN <<"r", "n">> ELSE <<b>>

caretForm(b) == IF b = "e" THEN <<"^", "[">> ELSE << >>

\* What the line discipline writes back for a byte typed at it.
Echoed(b) ==
    CASE tty.mode = "off" -> << >>
      [] tty.mode = "caret" /\ caretForm(b) # << >> -> caretForm(b)
      [] OTHER -> echoOf(b)

Typed(b) == [tty EXCEPT !.out = @ \o [i \in DOMAIN Echoed(b) |-> [byte |-> Echoed(b)[i], drawn |-> FALSE]]]

\* The match that takes an echo only whole.
noteWhole(b, echo) == IF b = echo THEN << >> ELSE b

\* What of a chunk is left when the echo still owed has been matched against it.
RECURSIVE unmatched(_, _)
unmatched(b, echo) ==
    IF b = << >> \/ echo = << >> THEN b
    ELSE IF Head(b) = Head(echo) THEN unmatched(Tail(b), Tail(echo))
    ELSE LET c == caretForm(Head(echo))
         IN IF c # << >> /\ Len(b) > 1 /\ SubSeq(b, 1, 2) = c
            THEN unmatched(SubSeq(b, 3, Len(b)), Tail(echo))
            ELSE b

note(b, echo) == unmatched(b, echo)

\* The echo still owed after a chunk that was echo from end to end.
RECURSIVE OwedAfter(_, _)
OwedAfter(b, echo) ==
    IF b = << >> \/ echo = << >> THEN echo
    ELSE IF Head(b) = Head(echo) THEN OwedAfter(Tail(b), Tail(echo))
    ELSE OwedAfter(SubSeq(b, 3, Len(b)), Tail(echo))

Noted(b) ==
    IF note(b, screen.echo) = << >> THEN [screen EXCEPT !.echo = OwedAfter(b, @)]
    ELSE [screen EXCEPT !.echo = << >>, !.answer = TRUE]

(***************************************************************************)
(* The call.                                                               *)
(***************************************************************************)
To(pc) == call' = [call EXCEPT !.pc = pc]

\* The guard and the permission gate; a start that fails ends the call with nothing run.
Start ==
    /\ call.pc = "judge"
    /\ \/ To("returned") /\ UNCHANGED <<prog, tty, reader, answerer>>
       \/ /\ To("play")
          /\ prog' = [prog EXCEPT !.alive = TRUE, !.recorded = TRUE]
          /\ tty' = [tty EXCEPT !.open = TRUE]
          /\ reader' = [reader EXCEPT !.on = TRUE] /\ answerer' = "waiting"
    /\ UNCHANGED <<screen, mu, exited, seen>>

\* play: expect records the key, and the writer it is typed through records it again.
Expect ==
    /\ call.pc = "play"
    /\ IF call.keys = << >> THEN To("last") /\ UNCHANGED <<screen, seen>>
       ELSE /\ To("lock")
            /\ screen' = [screen EXCEPT !.echo = echoOf(Head(call.keys)), !.answer = FALSE]
            /\ seen' = [seen EXCEPT !.drew = FALSE,
                          !.behind = @ \/ (\E i \in DOMAIN tty.out : ~tty.out[i].drawn)]
    /\ UNCHANGED <<prog, tty, reader, answerer, mu, exited>>

expectEcho(b) == screen' = [screen EXCEPT !.echo = @ \o echoOf(b)]

Lock ==
    /\ call.pc = "lock" /\ mu = "free"
    /\ mu' = "play" /\ expectEcho(Head(call.keys)) /\ To("write")
    /\ UNCHANGED <<prog, tty, reader, answerer, exited, seen>>

\* A key written to a terminal whose program is gone may fail, which ends the playing.
WriteKey ==
    /\ call.pc = "write" /\ mu' = "free"
    /\ \/ tty' = Typed(Head(call.keys)) /\ call' = [call EXCEPT !.pc = "settle", !.keys = Tail(@)]
       \/ ~prog.alive /\ call' = [call EXCEPT !.pc = "drain", !.end = "failed"] /\ UNCHANGED tty
    /\ UNCHANGED <<prog, screen, reader, answerer, exited, seen>>

\* settle: the exit, a screen that answered and went quiet, an answer window or a bound.
Settled ==
    /\ call.pc \in {"settle", "last"}
    /\ \E end \in (IF exited THEN {"exited"} ELSE {})
                  \cup (IF screen.answer THEN {"quiet"} ELSE {"awaited"}) \cup {"bound"} :
         call' = [call EXCEPT !.pc = IF @ = "settle" THEN "play" ELSE "drain", !.end = end]
    /\ UNCHANGED <<prog, tty, screen, reader, answerer, mu, exited, seen>>

\* The drain that never waits for the reader.
DrainNot ==
    /\ call.pc = "drain" /\ To("kill")
    /\ UNCHANGED <<prog, tty, screen, reader, answerer, mu, exited, seen>>

Drain ==
    /\ call.pc = "drain" /\ To("kill")
    /\ \/ (exited => ~reader.on) /\ UNCHANGED seen
       \/ exited /\ reader.on /\ seen' = [seen EXCEPT !.late = TRUE]
    /\ UNCHANGED <<prog, tty, screen, reader, answerer, mu, exited>>

Kill ==
    /\ call.pc = "kill" /\ To("close") /\ prog' = [prog EXCEPT !.alive = FALSE]
    /\ UNCHANGED <<tty, screen, reader, answerer, mu, exited, seen>>

\* Closing the master discards what nobody has read.
CloseTTY ==
    /\ call.pc = "close" /\ To("closeEmulator")
    /\ tty' = [tty EXCEPT !.open = FALSE, !.out = << >>]
    /\ UNCHANGED <<prog, screen, reader, answerer, mu, exited, seen>>

\* The teardown that leaves the emulator open.
CloseEmulatorNot ==
    /\ call.pc = "closeEmulator" /\ To("wait")
    /\ UNCHANGED <<prog, tty, screen, reader, answerer, mu, exited, seen>>

\* Both goroutines blocked on the emulator's pipe end.
CloseEmulator ==
    /\ call.pc = "closeEmulator" /\ To("wait")
    /\ reader' = [reader EXCEPT !.on = @ /\ reader.blocked = 0, !.blocked = 0]
    /\ answerer' = IF answerer = "waiting" THEN "gone" ELSE answerer
    /\ UNCHANGED <<prog, tty, screen, mu, exited, seen>>

Return ==
    /\ call.pc = "wait" /\ ~reader.on /\ exited
    /\ To("returned") /\ prog' = [prog EXCEPT !.recorded = FALSE]
    /\ UNCHANGED <<tty, screen, reader, answerer, mu, exited, seen>>

(***************************************************************************)
(* The goroutines beside it.                                               *)
(***************************************************************************)
Count(chunk, Test(_)) == Len(SelectSeq(chunk, Test))

\* A read takes any chunk: note first, then the emulator, which blocks on each answer it
\* owes until the answerer takes it.
Read ==
    /\ reader.on /\ reader.blocked = 0 /\ tty.open
    /\ \E n \in 1..Len(tty.out) :
         LET chunk == SubSeq(tty.out, 1, n)
             drawn == Count(chunk, LAMBDA x : x.drawn)
             asks == Count(chunk, LAMBDA x : x.drawn /\ x.byte = "q")
             noted == Noted([i \in 1..n |-> chunk[i].byte])
         IN /\ tty' = [tty EXCEPT !.out = SubSeq(@, n + 1, Len(@))]
            /\ screen' = [noted EXCEPT !.drawn = @ + (IF asks = 0 THEN drawn ELSE 0)]
            /\ reader' = [reader EXCEPT !.blocked = asks, !.carried = IF asks = 0 THEN 0 ELSE drawn]
            /\ seen' = [seen EXCEPT !.drew = @ \/ drawn > 0, !.asked = @ \/ asks > 0]
    /\ UNCHANGED <<call, prog, answerer, mu, exited>>

\* The copy ends with a closed terminal, or at the end of an exited program's output.
ReadEnds ==
    /\ reader.on /\ reader.blocked = 0
    /\ ~tty.open \/ (~prog.alive /\ tty.out = << >>)
    /\ reader' = [reader EXCEPT !.on = FALSE]
    /\ UNCHANGED <<call, prog, tty, screen, answerer, mu, exited, seen>>

TakeAnswer ==
    /\ answerer = "waiting" /\ reader.blocked > 0 /\ answerer' = "holding"
    /\ IF reader.blocked = 1
       THEN /\ screen' = [screen EXCEPT !.drawn = @ + reader.carried]
            /\ reader' = [reader EXCEPT !.blocked = 0, !.carried = 0]
       ELSE reader' = [reader EXCEPT !.blocked = @ - 1] /\ UNCHANGED screen
    /\ UNCHANGED <<call, prog, tty, mu, exited, seen>>

LockAnswer ==
    /\ answerer = "holding" /\ mu = "free" /\ mu' = "answerer" /\ answerer' = "writing"
    /\ expectEcho("e")
    /\ UNCHANGED <<call, prog, tty, reader, exited, seen>>

\* A failed write ends the copy for good, and the emulator's next answer blocks the reader.
WriteAnswer ==
    /\ answerer = "writing" /\ mu' = "free"
    /\ \/ tty.open /\ tty' = Typed("e") /\ answerer' = "waiting"
       \/ (~tty.open \/ ~prog.alive) /\ answerer' = "gone" /\ UNCHANGED tty
    /\ UNCHANGED <<call, prog, screen, reader, exited, seen>>

Wait ==
    /\ call.pc # "judge" /\ ~prog.alive /\ ~exited /\ prog.recorded /\ exited' = TRUE
    /\ UNCHANGED <<call, prog, tty, screen, reader, answerer, mu, seen>>

Draw ==
    /\ prog.alive /\ prog.left > 0 /\ prog' = [prog EXCEPT !.left = @ - 1]
    /\ \E b \in Draws : tty' = [tty EXCEPT !.out = Append(@, [byte |-> b, drawn |-> TRUE])]
    /\ UNCHANGED <<call, screen, reader, answerer, mu, exited, seen>>

Exit ==
    /\ prog.alive /\ prog' = [prog EXCEPT !.alive = FALSE]
    /\ seen' = [seen EXCEPT !.left = call.pc \in {"play", "lock", "write", "settle", "last"}]
    /\ UNCHANGED <<call, tty, screen, reader, answerer, mu, exited>>

Progress ==
    \/ Start \/ Expect \/ Lock \/ WriteKey \/ Settled \/ Drain \/ Kill \/ CloseTTY
    \/ CloseEmulator \/ Return \/ Read \/ ReadEnds \/ TakeAnswer \/ LockAnswer \/ WriteAnswer \/ Wait

Next == Progress \/ Draw \/ Exit

Spec == Init /\ [][Next]_vars
FairSpec == Spec /\ WF_vars(Progress)

(***************************************************************************)
(* Properties.                                                             *)
(***************************************************************************)
Returned == call.pc = "returned"

\* A call always returns, its program dead and forgotten: not when the program queries a
\* terminal whose answerer is gone, nor when it sits at a prompt (drive's teardown: "a
\* program left behind here is one nothing will ever close a terminal on again").
CallReturns == <>(Returned /\ ~prog.alive /\ ~prog.recorded /\ ~reader.on)

\* A wait that ended on the program's exit loses none of its output, unless the reader was
\* still behind after the drain's own bound (drain: "which is how a one-shot program's last
\* line went missing").
LastWords ==
    Returned /\ call.end = "exited" /\ ~seen.late => screen.drawn = MaxOut - prog.left

\* The echo of a key is not taken for the program's answer, however the reads split or join
\* it: while the reader has caught up at each key, the program has asked nothing and the
\* terminal echoes bytes as themselves, an answer is something the program drew.
AnswerIsReal ==
    screen.answer => seen.drew \/ seen.behind \/ seen.asked \/ tty.mode = "caret"

\* Refuted: the program's answer is seen as one.  play hands the key to expect and then to a
\* writer that hands it to expectEcho again, so a second copy is owed, and a program that
\* draws what was typed (cat) has not answered (pty.go expectEcho: "bytes the terminal
\* itself wrote into the program's input", "without touching the keystroke bookkeeping").
AnswerSeen == seen.drew /\ tty.out = << >> => screen.answer

\* Refuted: an answer of the terminal typed before a key, whose echo is read after expect
\* forgot it, ends the wait as the program drawing; so does a caret form that two reads split.
EchoNeverAnswers == screen.answer => seen.drew

\* Refuted: a program that exited while its keys were played loses none of its output.  A
\* wait that its bound or a quiet screen ended may find exited still open, cmd.Wait not yet
\* back, and drain does not wait (drain: "once the program has exited").
NothingLost == Returned /\ ~seen.late /\ seen.left => screen.drawn = MaxOut - prog.left
=============================================================================

------------------------------ MODULE Composer ------------------------------
(***************************************************************************)
(* The modal editor of the terminal client's composer                      *)
(* (internal/tui/vim.go): a buffer of lines, a cursor, vim's normal and    *)
(* insert modes, one register and a bounded stack of undo snapshots.  A    *)
(* rune is its class: "w" of a word, "." punctuation, " " blank.  Rows     *)
(* count from 1 and columns from 0, a column standing before its rune.     *)
(***************************************************************************)
EXTENDS Integers, Sequences, FiniteSetsExt, SequencesExt

CONSTANTS Runes,     \* the classes typed in this instance
          Snippet,   \* the lines a completed snippet inserts
          maxUndo,   \* the bound of the undo stack
          MaxLines,  \* lines the buffer may have
          MaxRunes   \* runes it may hold

VARIABLE v           \* the vimInput

vars == <<v>>

TypeOK ==
    /\ v.lines # << >> /\ \A i \in DOMAIN v.lines : ToSet(v.lines[i]) \subseteq {"w", ".", " "}
    /\ v.mode \in {"normal", "insert"}
    /\ v.pending \in {"", "d", "c", "g"} /\ v.regLine \in BOOLEAN /\ Len(v.undo) <= maxUndo

At(row, col) == [row |-> row, col |-> col]

Init ==
    v = [lines |-> << << >> >>, cur |-> At(1, 0), mode |-> "normal", pending |-> "",
         reg |-> << >>, regLine |-> FALSE, undo |-> << >>]

Least(a, b) == IF a < b THEN a ELSE b
Most(a, b) == IF a < b THEN b ELSE a

(***************************************************************************)
(* The buffer.                                                             *)
(***************************************************************************)
line(u) == u.lines[u.cur.row]

\* The clamp that lets normal mode stand after the last rune.
clampLoose(u) ==
    LET row == Least(Most(u.cur.row, 1), Len(u.lines))
    IN [u EXCEPT !.cur = At(row, Least(Most(u.cur.col, 0), Len(u.lines[row])))]

clamp(u) ==
    LET row == Least(Most(u.cur.row, 1), Len(u.lines))
        n == Len(u.lines[row])
        last == IF u.mode = "normal" /\ n > 0 THEN n - 1 ELSE n
    IN [u EXCEPT !.cur = At(row, Least(Most(u.cur.col, 0), last))]

snapshot(u) ==
    LET all == Append(u.undo, [lines |-> u.lines, cur |-> u.cur])
    IN [u EXCEPT !.undo = SubSeq(all, Most(1, Len(all) - maxUndo + 1), Len(all))]

restore(u) ==
    IF u.undo = << >> THEN u
    ELSE clamp([u EXCEPT !.lines = Last(u.undo).lines, !.cur = Last(u.undo).cur, !.undo = Front(@)])

Take(s, n) == SubSeq(s, 1, n)
Drop(s, n) == SubSeq(s, n + 1, Len(s))

cutSpan(u, a, b) ==
    LET n == Len(line(u))
        from == Least(Most(a, 0), n)
        to == Least(Most(b, from), n)
    IN [u EXCEPT !.reg = <<SubSeq(line(u), from + 1, to)>>, !.regLine = FALSE,
                 !.lines[u.cur.row] = Take(@, from) \o Drop(@, to), !.cur.col = from]

cutLine(u, keep) ==
    LET cut == [u EXCEPT !.reg = <<line(u)>>, !.regLine = TRUE]
        rest == RemoveAt(u.lines, u.cur.row)
        lines == IF rest = << >> THEN << << >> >> ELSE rest
    IN IF keep THEN [cut EXCEPT !.lines[u.cur.row] = << >>, !.cur.col = 0]
       ELSE [cut EXCEPT !.lines = lines, !.cur = At(Least(u.cur.row, Len(lines)), 0)]

openLine(u, row) == [u EXCEPT !.lines = InsertAt(@, row, << >>), !.cur = At(row, 0)]

\* The paste that takes no snapshot of what it pastes into.
pasteUnsaved(u, after) ==
    IF u.reg = << >> THEN u
    ELSE IF u.regLine
    THEN LET row == u.cur.row + (IF after THEN 1 ELSE 0)
         IN clamp([u EXCEPT !.lines = InsertAt(@, row, u.reg[1]), !.cur = At(row, 0)])
    ELSE LET at == Least(u.cur.col + (IF after /\ line(u) # << >> THEN 1 ELSE 0), Len(line(u)))
         IN clamp([u EXCEPT !.lines[u.cur.row] = Take(@, at) \o u.reg[1] \o Drop(@, at),
                            !.cur.col = at + Len(u.reg[1]) - 1])

paste(u, after) == IF u.reg = << >> THEN u ELSE pasteUnsaved(snapshot(u), after)

insertText(u, r) ==
    LET at == Least(u.cur.col, Len(line(u)))
    IN [u EXCEPT !.lines[u.cur.row] = Append(Take(@, at), r) \o Drop(@, at), !.cur.col = at + 1]

backspace(u) ==
    IF u.cur.col > 0 THEN cutSpan(u, u.cur.col - 1, u.cur.col)
    ELSE IF u.cur.row = 1 THEN u
    ELSE LET above == u.lines[u.cur.row - 1]
         IN [u EXCEPT !.lines = RemoveAt([@ EXCEPT ![u.cur.row - 1] = above \o line(u)], u.cur.row),
                      !.cur = At(u.cur.row - 1, Len(above))]

deleteRune(u) == IF u.cur.col < Len(line(u)) THEN cutSpan(u, u.cur.col, u.cur.col + 1) ELSE u

splitLine(u) ==
    LET at == Least(u.cur.col, Len(line(u)))
    IN [u EXCEPT !.lines = InsertAt([@ EXCEPT ![u.cur.row] = Take(@, at)], u.cur.row + 1, Drop(line(u), at)),
                 !.cur = At(u.cur.row + 1, 0)]

(***************************************************************************)
(* Motions.  forward and backward walk every column of every line, the     *)
(* end of a line among them, where the class is a blank's.                 *)
(***************************************************************************)
Walk(u) ==
    FlattenSeq([r \in DOMAIN u.lines |->
        [k \in 1..Len(u.lines[r]) + 1 |->
            [at |-> At(r, k - 1),
             class |-> IF k > Len(u.lines[r]) THEN " " ELSE u.lines[r][k]]]])

Here(u, walk) == CHOOSE i \in DOMAIN walk : walk[i].at = u.cur

\* The ends of the run of one class that i stands in.
RunFrom(walk, i) == Min({j \in 1..i : \A k \in j..i : walk[k].class = walk[i].class})
RunTo(walk, i) == Max({j \in i..Len(walk) : \A k \in i..j : walk[k].class = walk[i].class})

nextWordStart(u) ==
    LET walk == Walk(u)
        i == Here(u, walk)
        past == IF walk[i].class = " " THEN i ELSE RunTo(walk, i) + 1
    IN walk[Min({j \in past..Len(walk) : walk[j].class # " "} \cup {Len(walk)})].at

prevWordStart(u) ==
    LET walk == Walk(u)
        i == Most(Here(u, walk) - 1, 1)
    IN walk[RunFrom(walk, Max({j \in 1..i : walk[j].class # " "} \cup {1}))].at

wordEnd(u) ==
    LET walk == Walk(u)
        i == Least(Here(u, walk) + 1, Len(walk))
    IN walk[RunTo(walk, Min({j \in i..Len(walk) : walk[j].class # " "} \cup {Len(walk)}))].at

firstNonBlank(l) ==
    LET some == {i \in DOMAIN l : l[i] # " "} IN IF some = {} THEN 0 ELSE Min(some) - 1

Motions == {"h", "l", "j", "k", "0", "^", "$", "w", "b", "e", "G"}

target(u, s) ==
    LET row == u.cur.row
        col == u.cur.col
    IN CASE s = "h" -> At(row, col - 1)
         [] s = "l" -> At(row, col + 1)
         [] s = "j" -> At(row + 1, col)
         [] s = "k" -> At(row - 1, col)
         [] s = "0" -> At(row, 0)
         [] s = "^" -> At(row, firstNonBlank(line(u)))
         [] s = "$" -> At(row, Len(line(u)))
         [] s = "w" -> nextWordStart(u)
         [] s = "b" -> prevWordStart(u)
         [] s = "e" -> wordEnd(u)
         [] s = "G" -> At(Len(u.lines), 0)

motion(u, s) == clamp([u EXCEPT !.cur = target(u, s)])

\* The columns of this line an operator takes for a motion.
span(u, s) ==
    LET to == target(u, s)
        col == CASE to.row > u.cur.row -> Len(line(u))
                 [] to.row < u.cur.row -> 0
                 [] OTHER -> to.col + (IF s = "e" THEN 1 ELSE 0)
    IN IF s = "$" THEN <<u.cur.col, Len(line(u))>>
       ELSE <<Least(col, u.cur.col), Most(col, u.cur.col)>>

deleteWordBefore(u) ==
    LET start == prevWordStart(u)
    IN IF u.cur.col = 0 THEN backspace(u)
       ELSE cutSpan(u, IF start.row # u.cur.row THEN 0 ELSE start.col, u.cur.col)

(***************************************************************************)
(* Keys.                                                                   *)
(***************************************************************************)
enterInsert(u, s) ==
    LET w == [snapshot(u) EXCEPT !.mode = "insert"]
    IN clamp(CASE s = "i" -> w
               [] s = "a" -> [w EXCEPT !.cur.col = @ + 1]
               [] s = "I" -> [w EXCEPT !.cur.col = firstNonBlank(line(u))]
               [] s = "A" -> [w EXCEPT !.cur.col = Len(line(u))]
               [] s = "o" -> openLine(w, u.cur.row + 1)
               [] s = "O" -> openLine(w, u.cur.row))

Changing(u, op) == clamp(IF op = "c" THEN [u EXCEPT !.mode = "insert"] ELSE u)

\* The key after d, c or g; what it does not cover drops the operator.
operator(u, s) ==
    LET op == u.pending
        w == [u EXCEPT !.pending = ""]
        m == IF op = "c" /\ s = "w" THEN "e" ELSE s
    IN IF op = "g" THEN IF s = "g" THEN clamp([w EXCEPT !.cur = At(1, 0)]) ELSE w
       ELSE IF s = op THEN Changing(cutLine(snapshot(w), op = "c"), op)
       ELSE IF m \in Motions THEN Changing(cutSpan(snapshot(w), span(w, m)[1], span(w, m)[2]), op)
       ELSE w

normalKey(u, s) ==
    CASE u.pending # "" -> operator(u, s)
      [] s \in {"d", "c", "g"} -> [u EXCEPT !.pending = s]
      [] s \in {"i", "a", "I", "A", "o", "O"} -> enterInsert(u, s)
      [] s = "x" -> clamp(cutSpan(snapshot(u), u.cur.col, u.cur.col + 1))
      [] s \in {"D", "C"} ->
           Changing(cutSpan(snapshot(u), u.cur.col, Len(line(u))), IF s = "C" THEN "c" ELSE "d")
      [] s \in {"p", "P"} -> paste(u, s = "p")
      [] s = "u" -> restore(u)
      [] s \in Motions -> motion(u, s)

NormalKeys == Motions \cup {"d", "c", "g", "i", "a", "I", "A", "o", "O", "x", "D", "C", "p", "P", "u"}

insertKey(u) ==
    {backspace(u), deleteRune(u), splitLine(u), deleteWordBefore(u)}
    \cup {motion(u, s) : s \in {"h", "l", "j", "k", "0", "$"}}
    \cup {insertText(u, r) : r \in Runes}

\* A state this instance keeps.
Fits(u) == Len(u.lines) <= MaxLines /\ Len(FlattenSeq(u.lines)) <= MaxRunes

Normal == v.mode = "normal" /\ \E s \in NormalKeys : v' = normalKey(v, s) /\ Fits(v')

Insert == v.mode = "insert" /\ v' \in insertKey(v) /\ Fits(v')

\* Esc, which the model's ladder owns.
leaveInsert ==
    /\ v.mode = "insert"
    /\ v' = clamp([v EXCEPT !.mode = "normal", !.cur.col = @ - 1, !.pending = ""])

\* The panel takes or loses the focus.
Focus == v.mode = "normal" /\ v' = clamp([v EXCEPT !.mode = "insert"])
Blur == v' = clamp([v EXCEPT !.mode = "normal", !.pending = ""])

Reset == v' = [v EXCEPT !.lines = << << >> >>, !.cur = At(1, 0), !.undo = << >>, !.pending = ""]

\* askLine's anchor, as one line.
SetValue ==
    v' = clamp([v EXCEPT !.lines = <<(<<"w">>)>>, !.cur = At(1, 1), !.undo = << >>, !.pending = ""])

wordBeforeCursor(u) ==
    Min({j \in 0..u.cur.col : \A k \in j + 1..u.cur.col : line(u)[k] = "w"})

replaceSpan(u, from, to, text) ==
    LET n == Len(text)
        parts == [i \in 1..n |-> (IF i = 1 THEN Take(line(u), from) ELSE << >>) \o text[i]]
        whole == [parts EXCEPT ![n] = @ \o Drop(line(u), to)]
    IN [u EXCEPT !.lines = Take(@, u.cur.row - 1) \o whole \o Drop(@, u.cur.row),
                 !.cur = At(u.cur.row + n - 1, Len(parts[n]))]

\* Tab in the fullscreen composer: the word before the cursor becomes its snippet, or the
\* longest prefix its candidates share.
completeSnippet ==
    /\ v.mode = "insert" /\ wordBeforeCursor(v) < v.cur.col
    /\ \E text \in {Snippet, <<(<<"w", "w">>)>>} :
         v' = replaceSpan(snapshot(v), wordBeforeCursor(v), v.cur.col, text)
    /\ Fits(v')

Next == Normal \/ Insert \/ leaveInsert \/ Focus \/ Blur \/ Reset \/ SetValue \/ completeSnippet

Spec == Init /\ [][Next]_vars

(***************************************************************************)
(* Properties.                                                             *)
(***************************************************************************)

\* The cursor is always a place in the buffer, on a rune in normal mode, whatever cut, paste,
\* undo, mode change or completion came before: every edit indexes by it.
CursorValid ==
    /\ v.cur.row \in DOMAIN v.lines
    /\ v.cur.col \in 0..Len(line(v))
    /\ v.mode = "normal" /\ line(v) # << >> => v.cur.col < Len(line(v))

\* u takes back any one command exactly, at the bound of the undo stack too: after a key that
\* changed the text, restore is the text before it.
UndoExact ==
    v.mode = "normal" =>
      \A s \in NormalKeys \ {"u"} :
        LET w == normalKey(v, s) IN w.lines # v.lines => restore(w).lines = v.lines

\* Refuted: u after an insert session takes back that session and no more.  Focus starts one
\* without a snapshot, so u then takes back the command before the session with it
\* (vim_test.go: "u undoes a whole insert session").
SessionSaved == v.mode = "insert" => v.undo # << >>
=============================================================================

------------------------------ MODULE Replace ------------------------------
(***************************************************************************)
(* How an edit's anchor resolves inside one file and how a batch of edits  *)
(* is put together (internal/edit: replace.go, batch.go, entity.go), and   *)
(* what the caller is told when it does not (tools/str_replace.go).        *)
(*                                                                         *)
(* A text is a sequence of tokens: words, spacing ("sp", "tab"), line      *)
(* ends ("nl", "crnl"), and "ent", a character reference that collapsed on *)
(* the way and stands for the words "amp", "name".  One step of the        *)
(* specification resolves one batch against one file as it was read.       *)
(***************************************************************************)
EXTENDS Integers, FiniteSets, SequencesExt, FiniteSetsExt

CONSTANTS Sources,    \* the files, as token sequences
          Edits,      \* the pairs a call may carry: [old, new, all]
          MaxBatch    \* bound on the pairs of a call

VARIABLES source,     \* the file as it is read
          batch,      \* the pairs of the call
          result,     \* what applyAll answered
          advice      \* what the caller is told of a refusal

vars == <<source, batch, result, advice>>

Spacing == {"sp", "tab"}
Fail(e) == [err |-> e, text |-> <<>>]
Found(text) == [err |-> "", text |-> text]

---------------------------------------------------------------------------
(* Exact matches. *)

MatchAt(src, old, i) == i + Len(old) - 1 <= Len(src) /\ SubSeq(src, i, i + Len(old) - 1) = old

\* findAll: the occurrences from the left that do not overlap.
findAll(src, old) ==
    FoldLeft(LAMBDA acc, i : IF MatchAt(src, old, i) /\ (acc = <<>> \/ Last(acc) + Len(old) <= i)
                             THEN Append(acc, i) ELSE acc,
             <<>>, [i \in 1..Len(src) |-> i])

\* src with the len tokens from i replaced.
Splice(src, i, len, new) == SubSeq(src, 1, i - 1) \o new \o SubSeq(src, i + len, Len(src))

\* spliceExact and spliceEvery; from the last occurrence, so that the
\* offsets of the earlier ones still hold.
spliceEvery(src, old, new, idxs) ==
    FoldRight(LAMBDA i, acc : Splice(acc, i, Len(old), new), idxs, src)

---------------------------------------------------------------------------
(* Lines and spacing. *)

Lines(text) ==
    FoldLeft(LAMBDA acc, c : IF c = "nl" THEN Append(acc, <<>>)
                             ELSE ReplaceAt(acc, Len(acc), Append(Last(acc), c)),
             <<<<>>>>, text)
Join(lines) ==
    IF lines = <<>> THEN <<>>
    ELSE FoldLeft(LAMBDA acc, l : acc \o <<"nl">> \o l, Head(lines), Tail(lines))
Replacement(new) == IF new = <<>> THEN <<>> ELSE Lines(new)

leadingWhitespace(l) ==
    LET k == SelectInSeq(l, LAMBDA c : c \notin Spacing)
    IN  IF k = 0 THEN l ELSE SubSeq(l, 1, k - 1)
TrimLeft(l) == SubSeq(l, Len(leadingWhitespace(l)) + 1, Len(l))

\* collapseSpacing: trimmed, and every run of spacing is one space.
collapseSpacing(l) ==
    LET out == FoldLeft(LAMBDA acc, c :
                 IF c \notin Spacing THEN Append(acc, c)
                 ELSE IF acc = <<>> \/ Last(acc) = "sp" THEN acc
                 ELSE Append(acc, "sp"), <<>>, l)
    IN  IF out # <<>> /\ Last(out) = "sp" THEN Front(out) ELSE out
blankLine(l) == collapseSpacing(l) = <<>>
sameLine(a, b) == collapseSpacing(a) = collapseSpacing(b)

firstIndent(lines) ==
    LET k == SelectInSeq(lines, LAMBDA l : ~blankLine(l))
    IN  IF k = 0 THEN <<>> ELSE leadingWhitespace(lines[k])

---------------------------------------------------------------------------
(* The rungs below an exact match. *)

\* fuzzyMatches: where the anchor's lines stand, spacing aside.
fuzzyMatches(src, old) ==
    {i \in 1..Len(src) : i + Len(old) - 1 <= Len(src) /\ \A j \in DOMAIN old : sameLine(src[i + j - 1], old[j])}

\* One fuzzy match: each new line takes the indent of the line it faces,
\* the ones past the end that of the last.
Reindented(src, old, new, start) ==
    LET fresh == Replacement(new)
        facing(j) == src[start + IF j <= Len(old) THEN j - 1 ELSE Len(old) - 1]
    IN  [j \in DOMAIN fresh |-> leadingWhitespace(facing(j)) \o TrimLeft(fresh[j])]

\* spanOverBlanks: the anchor's non-blank lines in order, source blanks
\* between them allowed; where it ends, or 0.
spanOverBlanks(src, wanted, start) ==
    LET solid == SetToSortSeq({i \in start..Len(src) : ~blankLine(src[i])}, <)
    IN  IF /\ Len(wanted) <= Len(solid) /\ solid[1] = start
           /\ \A k \in DOMAIN wanted : collapseSpacing(src[solid[k]]) = wanted[k]
        THEN solid[Len(wanted)] ELSE 0

\* spliceSpan: the new lines shifted from the anchor's indent to the source's.
spliceSpan(src, old, new, start, end) ==
    LET from == firstIndent(old)
        to == leadingWhitespace(src[start])
        shift(l) == IF blankLine(l) THEN l
                    ELSE to \o (IF IsPrefix(from, l) THEN SubSeq(l, Len(from) + 1, Len(l)) ELSE l)
        fresh == Replacement(new)
    IN  SubSeq(src, 1, start - 1) \o [j \in DOMAIN fresh |-> shift(fresh[j])]
          \o SubSeq(src, end + 1, Len(src))

\* spliceEverySpan, from the last span back.
spliceEverySpan(src, old, new, spans) ==
    FoldRight(LAMBDA sp, acc : spliceSpan(acc, old, new, sp[1], sp[2]), spans, src)

InOrder(S) == SetToSortSeq(S, LAMBDA a, b : a[1] < b[1])

\* The anchor's lines that are not blank, and every stretch they span.
Wanted(old) == SelectSeq([j \in DOMAIN old |-> collapseSpacing(old[j])], LAMBDA l : l # <<>>)
Spans(src, wanted) ==
    IF wanted = <<>> THEN {}
    ELSE {sp \in {<<i, spanOverBlanks(src, wanted, i)>> : i \in DOMAIN src} : sp[2] # 0}

spliceOverBlanks(src, old, new, all, spans) ==
    CASE spans = {} -> Fail("not found")
      [] Cardinality(spans) = 1 \/ all -> Found(Join(spliceEverySpan(src, old, new, InOrder(spans))))
      [] OTHER -> Fail("not unique")

spliceFuzzy(src, old, new, all, starts) ==
    LET start == Min(starts)
        n == Len(old)
    IN  CASE starts = {} -> spliceOverBlanks(src, old, new, all, Spans(src, Wanted(old)))
          [] Cardinality(starts) = 1 ->
               Found(Join(SubSeq(src, 1, start - 1) \o Reindented(src, old, new, start)
                            \o SubSeq(src, start + n, Len(src))))
          [] all -> Found(Join(spliceEverySpan(src, old, new, InOrder({<<i, i + n - 1>> : i \in starts}))))
          [] OTHER -> Fail("not unique")

\* The ladder: exact, then by lines with spacing aside, then over blanks.
Ladder(src, old, new, all, idxs) ==
    CASE idxs = <<>> ->
           LET srcLines == Lines(src)
               oldLines == Lines(old)
           IN  spliceFuzzy(srcLines, oldLines, new, all, fuzzyMatches(srcLines, oldLines))
      [] Len(idxs) = 1 \/ all -> Found(spliceEvery(src, old, new, idxs))
      [] OTHER -> Fail("not unique")
doReplace(src, old, new, all) == Ladder(src, old, new, all, findAll(src, old))

---------------------------------------------------------------------------
(* Line endings, the repair of collapsed references, and Holds. *)

Mapped(text, from, to) == [i \in DOMAIN text |-> IF text[i] = from THEN to ELSE text[i]]

WithEndings(src, out) ==
    IF out.err # "" \/ ~Contains(src, "crnl") THEN out ELSE Found(Mapped(out.text, "nl", "crnl"))

\* attempt: a file with any CRLF is matched with plain ends and written
\* back with CRLF throughout.
attempt(src, old, new, all) ==
    LET norm(text) == IF Contains(src, "crnl") THEN Mapped(text, "crnl", "nl") ELSE text
    IN  CASE old = <<>> -> Fail("empty")
          [] old = new -> Fail("no change")
          [] OTHER -> WithEndings(src, doReplace(norm(src), norm(old), norm(new), all))

restoreEntities(text) == FlattenSeq([i \in DOMAIN text |-> IF text[i] = "ent" THEN <<"amp", "name">> ELSE <<text[i]>>])

\* The second answer where the first found nothing and the second did.
FirstFound(first, second) ==
    IF first.err = "not found" /\ second.err = "" THEN second ELSE first
replaceWithRepair(src, old, new, all) ==
    FirstFound(attempt(src, old, new, all),
               IF Contains(old, "ent")
               THEN attempt(src, restoreEntities(old), restoreEntities(new), all)
               ELSE Fail("not found"))

\* Holds asks the same ladder, with a replacement no file has.
Holds(src, anchor) ==
    anchor # <<>> /\ doReplace(src, anchor, Append(anchor, "nul"), FALSE).err \in {"", "not unique"}

---------------------------------------------------------------------------
(* A batch. *)

commonPrefix(a, b) ==
    Max({n \in 0..Min({Len(a), Len(b)}) : SubSeq(a, 1, n) = SubSeq(b, 1, n)})
commonSuffix(a, b) ==
    Max({n \in 0..Min({Len(a), Len(b)}) :
           SubSeq(a, Len(a) - n + 1, Len(a)) = SubSeq(b, Len(b) - n + 1, Len(b))})

\* locate: the tokens [start, end) of src that the pair moves, read back
\* from the text it gives on its own.
Moved(src, res) ==
    LET head == commonPrefix(src, res.text)
        drop(text) == SubSeq(text, head + 1, Len(text))
        tail == commonSuffix(drop(src), drop(res.text))
    IN  IF res.err # "" THEN [err |-> res.err, start |-> 0, end |-> 0, text |-> <<>>]
        ELSE [err |-> "", start |-> head, end |-> Len(src) - tail,
              text |-> SubSeq(res.text, head + 1, Len(res.text) - tail)]
locate(src, p) == Moved(src, replaceWithRepair(src, p.old, p.new, p.all))

\* The order sort.Slice leaves so few spans in: by start, then as sent.
ByStart(spans) ==
    LET order == SetToSortSeq(DOMAIN spans, LAMBDA i, j :
                   spans[i].start < spans[j].start \/ (spans[i].start = spans[j].start /\ i < j))
    IN  [k \in DOMAIN spans |-> spans[order[k]]]

\* The first pair that fails is the batch's error, then spans that overlap;
\* the rest are spliced from the last back.
Joined(src, spans, sorted, text) ==
    LET bad == SelectInSeq(spans, LAMBDA s : s.err # "")
    IN  CASE bad # 0 -> Fail(spans[bad].err)
          [] \E i \in 2..Len(sorted) : sorted[i].start < sorted[i - 1].end -> Fail("overlap")
          [] OTHER -> Found(text)
Put(acc, s) == SubSeq(acc, 1, s.start) \o s.text \o SubSeq(acc, s.end + 1, Len(acc))
spliceForward(src, spans, sorted) == Joined(src, spans, sorted, FoldLeft(Put, src, sorted))
splicePairs(src, spans, sorted) ==
    Joined(src, spans, sorted, FoldRight(LAMBDA s, acc : Put(acc, s), sorted, src))
applyAll(src, spans) == splicePairs(src, spans, ByStart(spans))

---------------------------------------------------------------------------
(* What failedEdit makes of a refusal, from what the scope knows. *)

\* declaredBy: a lone anchor that opens a declaration.
declaredBy(pairs) == Len(pairs) = 1 /\ Head(pairs[1].old) = "func"
\* appliedFiles: some pair's replacement is there and its anchor is not.
Done(src, p) == p.new # <<>> /\ ~Holds(src, p.old) /\ Holds(src, p.new)

failedEdit(src, pairs, err, stale, read) ==
    LET missing == err = "not found" IN
    CASE missing /\ declaredBy(pairs) -> "declare"
      [] missing /\ (\E p \in Range(pairs) : Done(src, p)) -> "applied"
      [] missing /\ stale -> "stale"
      [] missing /\ ~read -> "unread"
      [] err = "not unique" /\ ~pairs[1].all -> "replace all"
      [] missing /\ Len(pairs) > 1 -> "own path"
      [] OTHER -> err

---------------------------------------------------------------------------
Init ==
    /\ source \in Sources
    /\ batch = <<>>
    /\ result = Found(source)
    /\ advice = ""

\* One call with the pairs ps; a pair that replaces a text with itself was
\* dropped before it got here.  The scope may not have read the file, or may
\* have read it before it changed.
Apply(ps) ==
    /\ \A i, j \in DOMAIN ps : i # j => ps[i].old # ps[j].old
    /\ batch' = ps
    /\ result' = applyAll(source, [i \in DOMAIN ps |-> locate(source, ps[i])])
    /\ IF result'.err = "" THEN advice' = ""
       ELSE \E read \in BOOLEAN : \E stale \in {FALSE, read} :
              advice' = failedEdit(source, ps, result'.err, stale, read)
    /\ UNCHANGED source

Next == batch = <<>> /\ \E n \in 1..MaxBatch : \E ps \in [1..n -> Edits] : Apply(ps)

Spec == Init /\ [][Next]_vars

---------------------------------------------------------------------------
(* Properties *)

\* Where a pair stands when its anchor occurs as it was sent, exactly once.
Site(p) == [at |-> findAll(source, p.old)[1], len |-> Len(p.old)]
Exact(p) == ~p.all /\ Len(findAll(source, p.old)) = 1 /\ ~Contains(source, "crnl")
Apart(p, q) ==
    Site(p).at + Site(p).len <= Site(q).at \/ Site(q).at + Site(q).len <= Site(p).at

\* The reference: every pair's replacement put where its anchor stands in
\* the file as it was read.
Expected ==
    LET order == SetToSortSeq(DOMAIN batch, LAMBDA i, j : Site(batch[i]).at < Site(batch[j]).at)
    IN  FoldRight(LAMBDA i, acc : Splice(acc, Site(batch[i]).at, Site(batch[i]).len, batch[i].new),
                  order, source)

Resolvable ==
    /\ \A i \in DOMAIN batch : Exact(batch[i])
    /\ \A i, j \in DOMAIN batch : i # j => Apart(batch[i], batch[j])

\* The span read back lies inside the anchor, so it has not slid over equal
\* text beside it.
Unslid(p) ==
    \E s \in {locate(source, p)} :
        Site(p).at - 1 <= s.start /\ s.end <= Site(p).at - 1 + Site(p).len

\* A batch whose anchors each occur once and stand apart, and whose spans
\* stay inside their anchors, is never refused and gives exactly the file
\* with every replacement in its place, whatever order the pairs came in
\* (applyAll: "resolves every pair against before and splices the accepted
\* ones in from the end").
BatchExact ==
    batch # <<>> /\ Resolvable /\ (\A i \in DOMAIN batch : Unslid(batch[i])) => result = Found(Expected)

---------------------------------------------------------------------------
(* Stated by the code's comments, and false. *)

\* The same without the last condition: an insertion beside equal text slides
\* over it, and lands inside or behind the neighbour's anchor.
BatchExactAlways == batch # <<>> /\ Resolvable => result \in {Found(Expected), Fail("overlap")}

\* "this edit has been made": said of the edit that failed, and judged by any
\* edit of the batch.
AppliedIsTheFailing ==
    advice = "applied" =>
        LET bad == SelectInSeq(batch, LAMBDA p : locate(source, p).err # "")
        IN  Done(source, batch[bad])

\* "The source's line ending style (LF or CRLF) is preserved exactly."
EndingsKept ==
    \A e \in {"nl", "crnl"} :
        batch # <<>> /\ result.err = "" /\ Contains(source, e)
            /\ (\A i \in DOMAIN batch : ~Contains(batch[i].old, e)) => Contains(result.text, e)
=============================================================================

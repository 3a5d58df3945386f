----------------------------- MODULE EditTools -----------------------------
(***************************************************************************)
(* The tools that write source files (internal/tools: str_replace,         *)
(* replace_lines, write, declare, delete, move, rename, undo) as the       *)
(* threads of one project run them side by side.                           *)
(*                                                                         *)
(* A file is its lines; one line is one declaration: the name it declares, *)
(* the name it uses, and (a ghost) the threads whose edits it carries.     *)
(* How an anchor resolves inside a file is the subject of Replace.  The    *)
(* project has ONE Scope (app.go builds it once), shared by its threads:   *)
(* what was read, what was written since, and each file as it was before   *)
(* the first edit.  What a thread was shown is kept per thread.  A lease   *)
(* covers a directory; its own protocol is the module Lease, here it is    *)
(* exclusive.  A symbol search refreshes the index, so locating a name     *)
(* reads the disk as it is, but it does so BEFORE the lease is taken.      *)
(***************************************************************************)
EXTENDS Naturals, FiniteSets, SequencesExt

CONSTANTS Threads,    \* threads of the project
          Files,      \* numbers, so that paths have an order
          Dir,        \* [Files -> directories]
          Names,      \* names a declaration may have
          None,       \* no name, no thread
          InitialDisk,\* [Files -> the files the run finds]
          Kits,       \* the sets of tools a project may offer its threads
          MaxCalls    \* bound on the calls

VARIABLES tools,      \* the tools offered, fixed when the project is loaded
          disk,       \* [Files -> [is |-> it exists, ls |-> its lines]]
          read,       \* Scope: files with readAt > 0
          stale,      \* Scope: files with 0 < readAt < wroteAt
          origin,     \* Scope: [Files -> [got |-> snapshot taken, is, ls]]
          shown,      \* SeenFiles: [Threads -> [Files -> [got, ls]]]
          refused,    \* repeatGuard of str_replace: {<<file, anchor, lines>>}
          lease,      \* [directories -> thread or None]
          call,       \* [Threads -> the call under way]
          calls,      \* calls begun
          unreported  \* ghost: files a failed call wrote without saying so

vars == <<tools, disk, read, stale, origin, shown, refused, lease, call, calls, unreported>>
scope == <<tools, read, stale, shown>>

Line == [n : Names \cup {None}, u : Names \cup {None}, w : SUBSET Threads]
Idle == [tool |-> "none"]
Dirs == {Dir[f] : f \in Files}
Gone == [is |-> FALSE, ls |-> <<>>]
File(ls) == [is |-> TRUE, ls |-> ls]

Init ==
    /\ tools \in Kits
    /\ disk = InitialDisk
    /\ read = {} /\ stale = {}
    /\ origin = [f \in Files |-> [got |-> FALSE, is |-> FALSE, ls |-> <<>>]]
    /\ shown = [t \in Threads |-> [f \in Files |-> [got |-> FALSE, ls |-> <<>>]]]
    /\ refused = {}
    /\ lease = [d \in Dirs |-> None]
    /\ call = [t \in Threads |-> Idle]
    /\ calls = 0
    /\ unreported = {}

---------------------------------------------------------------------------
(* What the calls share. *)

\* Every declaration of name, as <<file, line>>.
Declared(name) ==
    UNION {{<<f, k>> : k \in {i \in DOMAIN disk[f].ls : disk[f].ls[i].n = name}} : f \in Files}
Uses(name) ==
    UNION {{<<f, k>> : k \in {i \in DOMAIN disk[f].ls : disk[f].ls[i].u = name}} : f \in Files}

\* locate: the one place declaring name; several or none are refused.
Locates(name, pos) == Declared(name) = {pos}

\* Scope.snapshotOnce: keep each file as it is before the first edit.
snapshotOnceAnew(fs) ==
    [f \in Files |-> IF f \in fs
                     THEN [got |-> TRUE, is |-> disk[f].is, ls |-> disk[f].ls]
                     ELSE origin[f]]
snapshotOnce(fs) ==
    [f \in Files |-> IF f \in fs /\ ~origin[f].got
                     THEN [got |-> TRUE, is |-> disk[f].is, ls |-> disk[f].ls]
                     ELSE origin[f]]

\* Scope.Wrote: an edit that landed makes what was read before it stale.
Wrote(fs) == stale' = stale \cup (fs \cap read)

\* A call begins: Scope.Edit of the files in fs, then waiting for leases.
Begins(t, fs, c) ==
    /\ call[t] = Idle /\ calls < MaxCalls
    /\ calls' = calls + 1
    /\ call' = [call EXCEPT ![t] = c]
    /\ origin' = snapshotOnce(fs)
    /\ UNCHANGED <<disk, scope, refused, lease, unreported>>

\* The call is over and its leases are given back.
Released(t) == [d \in Dirs |-> IF lease[d] = t THEN None ELSE lease[d]]
Ends(t) ==
    /\ call' = [call EXCEPT ![t] = Idle]
    /\ lease' = Released(t)

Ready(t, tool) == call[t].tool = tool /\ call[t].st = "apply"

\* deps.hold, StrReplace.prepare, Move.hold: the leases in the order named,
\* Scope.Edit of a file just before its own lease is waited for.
TakeShared(t) ==
    /\ call[t].tool # "none" /\ call[t].st = "hold"
    /\ LET c == call[t]
           d == Dir[Head(c.todo)]
           rest == Tail(c.todo) IN
        /\ lease' = [lease EXCEPT ![d] = t]
        /\ call' = [call EXCEPT ![t] = [c EXCEPT !.todo = rest,
                        !.st = IF rest = <<>> THEN "apply" ELSE "hold"]]
        /\ origin' = IF rest = <<>> THEN origin ELSE snapshotOnce({Head(rest)})
    /\ UNCHANGED <<disk, scope, refused, calls, unreported>>
Take(t) ==
    /\ call[t].tool # "none" /\ call[t].st = "hold"
    /\ LET c == call[t]
           d == Dir[Head(c.todo)]
           rest == Tail(c.todo) IN
        /\ lease[d] \in {None, t}
        /\ lease' = [lease EXCEPT ![d] = t]
        /\ call' = [call EXCEPT ![t] = [c EXCEPT !.todo = rest,
                        !.st = IF rest = <<>> THEN "apply" ELSE "hold"]]
        /\ origin' = IF rest = <<>> THEN origin ELSE snapshotOnce({Head(rest)})
    /\ UNCHANGED <<disk, scope, refused, calls, unreported>>

\* Read.readOne: the file comes into scope and its bytes are noted for the
\* thread that read them.
Read(t, f) ==
    /\ call[t] = Idle /\ disk[f].is
    /\ "read" \in tools
    /\ read' = read \cup {f}
    /\ stale' = stale \ {f}
    /\ shown' = [shown EXCEPT ![t][f] = [got |-> TRUE, ls |-> disk[f].ls]]
    /\ UNCHANGED <<tools, disk, origin, refused, lease, call, calls, unreported>>

---------------------------------------------------------------------------
(* str_replace.  A pair names its file by a path, and one file has more    *)
(* than one spelling; the call groups its pairs by the spelling.           *)

Marked(l, t) == [l EXCEPT !.w = @ \cup {t}]
Pairs(t) ==
    UNION {{[p |-> <<f, s>>, old |-> l, new |-> Marked(l, t)] :
               s \in {"plain", "dotted"}, l \in {m \in Range(disk[f].ls) : t \notin m.w}} : f \in Files}

\* The edits a call may carry past shapeError: one or two pairs, no anchor
\* named twice with two replacements, and what dedupedEdits leaves.  The
\* first spelling of a call is as good as any other.
Batches(t) ==
    LET plain == {q \in Pairs(t) : q.p[2] = "plain"} IN
    {<<a>> : a \in plain} \cup
    {b \in plain \X Pairs(t) : b[1] # b[2] /\ (b[1].old = b[2].old => b[1].new = b[2].new)}

\* byFile: the paths in the order they first appear.
byFile(ps) == FoldLeft(LAMBDA acc, q : IF Contains(acc, q.p) THEN acc ELSE Append(acc, q.p), <<>>, ps)

StrReplace(t, ps) ==
    /\ "str_replace" \in tools
    /\ LET todo == [i \in DOMAIN byFile(ps) |-> byFile(ps)[i][1]] IN
        Begins(t, {todo[1]}, [tool |-> "str_replace", st |-> "hold", todo |-> todo, ps |-> ps])

\* planFile: every anchor of a path against the file as it is read, each
\* naming exactly one place.
OfPath(ps, p) == {q \in Range(ps) : q.p = p}
Sites(ls, l) == {i \in DOMAIN ls : ls[i] = l}
Matches(ps) ==
    \A q \in Range(ps) : disk[q.p[1]].is /\ Cardinality(Sites(disk[q.p[1]].ls, q.old)) = 1
planFile(ps, p) ==
    LET ls == disk[p[1]].ls IN
    [i \in DOMAIN ls |-> IF \E q \in OfPath(ps, p) : q.old = ls[i]
                         THEN (CHOOSE q \in OfPath(ps, p) : q.old = ls[i]).new
                         ELSE ls[i]]

\* The writes come after every plan, one file at a time.
Written(ps, paths) ==
    FoldLeft(LAMBDA d, p : [d EXCEPT ![p[1]] = File(planFile(ps, p))], disk, paths)

\* ApplyToFiles, Scope.Wrote and the release.
ReplaceApplies(t) ==
    /\ Ready(t, "str_replace")
    /\ LET ps == call[t].ps IN
        /\ Matches(ps)
        /\ disk' = Written(ps, byFile(ps))
        /\ Wrote({q.p[1] : q \in Range(ps)})
    /\ Ends(t)
    /\ UNCHANGED <<tools, read, origin, shown, refused, calls, unreported>>

\* A batch with an anchor that matches nothing or twice writes nothing, and
\* repeatedRefusal remembers every anchor it carried.
ReplaceRefused(t) ==
    /\ Ready(t, "str_replace")
    /\ LET ps == call[t].ps IN
        /\ ~Matches(ps)
        /\ refused' = refused \cup {<<q.p[1], q.old, disk[q.p[1]].ls>> : q \in Range(ps)}
    /\ Ends(t)
    /\ UNCHANGED <<disk, scope, origin, calls, unreported>>

\* writeAtomic fails after the first j paths: the call answers with an error
\* and no change.
ReplaceWriteFails(t, j) ==
    /\ Ready(t, "str_replace")
    /\ LET ps == call[t].ps
           done == SubSeq(byFile(ps), 1, j) IN
        /\ Matches(ps) /\ j < Len(byFile(ps))
        /\ disk' = Written(ps, done)
        /\ unreported' = unreported \cup {p[1] : p \in Range(done)}
    /\ Ends(t)
    /\ UNCHANGED <<scope, origin, refused, calls>>

---------------------------------------------------------------------------
(* replace_lines: one line by its number, in the file as it was shown.     *)

ReplaceLines(t, f, k) ==
    /\ "replace_lines" \in tools
    /\ Begins(t, {f}, [tool |-> "replace_lines", st |-> "hold", todo |-> <<f>>, f |-> f, k |-> k])

\* Under the lease the file is read and compared with what was shown; the
\* splice that follows reads it once more.
ShownAs(t, f) == shown[t][f].got /\ shown[t][f].ls = disk[f].ls
CheckLines(t) ==
    /\ Ready(t, "replace_lines")
    /\ LET c == call[t] IN
        call' = [call EXCEPT ![t] =
                    IF disk[c.f].is /\ ShownAs(t, c.f) /\ c.k <= Len(disk[c.f].ls)
                    THEN [c EXCEPT !.st = "splice"] ELSE Idle]
    /\ lease' = IF call'[t] = Idle THEN Released(t) ELSE lease
    /\ UNCHANGED <<disk, scope, origin, refused, calls, unreported>>

\* ReplaceLines.apply: the new bytes are noted as shown.
SpliceLines(t) ==
    /\ call[t].tool = "replace_lines" /\ call[t].st = "splice"
    /\ LET f == call[t].f
           k == call[t].k
           after == [disk[f].ls EXCEPT ![k] = Marked(@, t)] IN
        /\ disk' = [disk EXCEPT ![f].ls = after]
        /\ shown' = [shown EXCEPT ![t][f] = [got |-> TRUE, ls |-> after]]
        /\ Wrote({f})
    /\ Ends(t)
    /\ UNCHANGED <<tools, read, origin, refused, calls, unreported>>

---------------------------------------------------------------------------
(* write: a new file, or a rewrite of one the scope has read.              *)

Fresh(t) == <<[n |-> None, u |-> None, w |-> {t}]>>
WriteFile(t, f) ==
    /\ "write" \in tools
    /\ Begins(t, {}, [tool |-> "write", st |-> "hold", todo |-> <<f>>, f |-> f])

WriteApplies(t) ==
    /\ Ready(t, "write")
    /\ LET f == call[t].f
           admitted == ~disk[f].is \/ f \in read IN
        /\ origin' = IF disk[f].is /\ admitted THEN snapshotOnce({f}) ELSE origin
        /\ disk' = IF admitted
                   THEN [disk EXCEPT ![f] = File(Fresh(t))] ELSE disk
        /\ read' = IF admitted THEN read \cup {f} ELSE read
        /\ stale' = IF admitted THEN stale \ {f} ELSE stale
    /\ Ends(t)
    /\ UNCHANGED <<tools, shown, refused, calls, unreported>>

---------------------------------------------------------------------------
(* declare: replace the one declaration of a name, or add it to a file.    *)

\* A new file joins the package of its neighbours, and fails without one.
HasPackage(f) == \E g \in Files : Dir[g] = Dir[f] /\ disk[g].is
Appendable(f) == disk[f].is \/ HasPackage(f)

Declare(t, name, f) ==
    /\ "declare" \in tools
    /\ \/ \E pos \in Declared(name) :
            /\ Locates(name, pos)
            /\ Begins(t, {pos[1]}, [tool |-> "declare", st |-> "hold", todo |-> <<pos[1]>>,
                                    name |-> name, f |-> pos[1], k |-> pos[2]])
       \/ /\ Declared(name) = {}
          /\ Begins(t, {f}, [tool |-> "declare", st |-> "hold", todo |-> <<f>>,
                             name |-> name, f |-> f, k |-> 0])

\* declSpan checks the located lines only against the length of the file.
DeclareApplies(t) ==
    /\ Ready(t, "declare")
    /\ LET c == call[t]
           new == [n |-> c.name, u |-> None, w |-> {t}]
           lands == IF c.k = 0 THEN Appendable(c.f)
                    ELSE disk[c.f].is /\ c.k <= Len(disk[c.f].ls) IN
        /\ disk' = IF ~lands THEN disk
                   ELSE [disk EXCEPT ![c.f] = File(IF c.k = 0 THEN Append(@.ls, new)
                                                   ELSE ReplaceAt(@.ls, c.k, new))]
        /\ Wrote(IF lands THEN {c.f} ELSE {})
    /\ Ends(t)
    /\ UNCHANGED <<tools, read, origin, shown, refused, calls, unreported>>

---------------------------------------------------------------------------
(* delete: the named declarations one at a time.  Uses inside what the     *)
(* same call removes do not count, by the lines those had at its start.    *)

Delete(t, names) ==
    /\ "delete" \in tools
    /\ Begins(t, {}, [tool |-> "delete", st |-> "locate", names |-> names, done |-> {},
                      together |-> {pos \in UNION {Declared(n) : n \in Range(names)} :
                                      \E n \in Range(names) : Locates(n, pos)}])

\* A failed delete answers without the changes of the names already gone.
DeleteFails(t) ==
    /\ unreported' = unreported \cup call[t].done
    /\ Ends(t)
    /\ UNCHANGED <<disk, scope, origin, refused, calls>>

DeleteLocates(t) ==
    /\ call[t].tool = "delete" /\ call[t].st = "locate"
    /\ LET c == call[t]
           name == Head(c.names) IN
        \/ \E pos \in Declared(name) :
            /\ Locates(name, pos)
            /\ Uses(name) \subseteq {pos} \cup c.together
            /\ origin' = snapshotOnce({pos[1]})
            /\ call' = [call EXCEPT ![t] =
                          [tool |-> "delete", st |-> "hold", todo |-> <<pos[1]>>, f |-> pos[1],
                           k |-> pos[2], names |-> c.names, done |-> c.done, together |-> c.together]]
            /\ UNCHANGED <<disk, scope, refused, lease, calls, unreported>>
        \/ /\ ~\E pos \in Declared(name) : Locates(name, pos) /\ Uses(name) \subseteq {pos} \cup c.together
           /\ DeleteFails(t)

DeleteCuts(t) ==
    /\ Ready(t, "delete")
    /\ LET c == call[t]
           rest == Tail(c.names) IN
        IF ~disk[c.f].is \/ c.k > Len(disk[c.f].ls) THEN DeleteFails(t)
        ELSE /\ disk' = [disk EXCEPT ![c.f].ls = RemoveAt(@, c.k)]
             /\ lease' = Released(t)
             /\ call' = [call EXCEPT ![t] =
                           IF rest = <<>> THEN Idle
                           ELSE [tool |-> "delete", st |-> "locate", names |-> rest,
                                 done |-> c.done \cup {c.f}, together |-> c.together]]
             /\ UNCHANGED <<scope, origin, refused, calls, unreported>>

---------------------------------------------------------------------------
(* move: every name is located and admitted, every lease taken, then the   *)
(* sources are cut one file at a time and the destination written last.    *)

\* samePackage lets a destination that does not exist yet through.
Movable(pos, dest) == pos[1] # dest /\ (disk[dest].is => Dir[dest] = Dir[pos[1]])

Move(t, names, dest) ==
    /\ "move" \in tools
    /\ \A n \in Range(names) : \E pos \in Declared(n) : Locates(n, pos) /\ Movable(pos, dest)
    /\ LET at == [i \in DOMAIN names |-> CHOOSE pos \in Declared(names[i]) : TRUE]
           from == FoldLeft(LAMBDA acc, pos : IF Contains(acc, pos[1]) THEN acc
                                              ELSE Append(acc, pos[1]), <<>>, at) IN
        Begins(t, Range(from) \cup {dest},
               [tool |-> "move", st |-> "hold", todo |-> Append(from, dest), at |-> at,
                from |-> from, dest |-> dest])

Cut(ls, ks) ==
    LET keep == SetToSortSeq(DOMAIN ls \ ks, <)
    IN  [i \in DOMAIN keep |-> ls[keep[i]]]
LinesAt(at, f) == {p[2] : p \in {q \in Range(at) : q[1] = f}}
InFile(at, f) == disk[f].is /\ \A k \in LinesAt(at, f) : k <= Len(disk[f].ls)

\* Move.apply stops at the first file that no longer has the lines, or at a
\* destination nothing gives a package, and what was cut by then is gone.
MoveApplies(t) ==
    /\ Ready(t, "move")
    /\ LET c == call[t]
           firstBad == SelectInSeq(c.from, LAMBDA f : ~InFile(c.at, f))
           cut == IF firstBad = 0 THEN Range(c.from) ELSE Range(SubSeq(c.from, 1, firstBad - 1))
           lands == firstBad = 0 /\ Appendable(c.dest)
           moved == FlattenSeq([i \in DOMAIN c.from |->
                      LET here == SelectSeq(c.at, LAMBDA p : p[1] = c.from[i])
                      IN  [j \in DOMAIN here |-> disk[here[j][1]].ls[here[j][2]]]]) IN
        /\ disk' = [f \in Files |->
                      IF f \in cut THEN File(Cut(disk[f].ls, LinesAt(c.at, f)))
                      ELSE IF f = c.dest /\ lands THEN File(disk[f].ls \o moved)
                      ELSE disk[f]]
        /\ unreported' = IF lands THEN unreported ELSE unreported \cup cut
    /\ Ends(t)
    /\ UNCHANGED <<scope, origin, refused, calls>>

---------------------------------------------------------------------------
(* rename: the language server's positions, then file by file.             *)

\* Every position that carries the name, as <<file, line, field>>.
Occurrences(name) ==
    {<<p[1], p[2], "n">> : p \in Declared(name)} \cup {<<p[1], p[2], "u">> : p \in Uses(name)}
Order(at) == SetToSortSeq({p[1] : p \in at}, <)

Renaming(name, to, back) ==
    [tool |-> "rename", st |-> "hold", todo |-> <<Head(Order(Occurrences(name)))>>,
     at |-> Occurrences(name), files |-> Order(Occurrences(name)), name |-> name, to |-> to,
     back |-> back, done |-> {}]

\* locateOrPutBack: where only the new name is declared it is first renamed
\* back, and the call goes on from there.
Rename(t, name, to) ==
    /\ "rename" \in tools /\ name # to
    /\ \/ /\ Cardinality(Declared(name)) = 1
          /\ LET c == Renaming(name, to, FALSE) IN Begins(t, {c.files[1]}, c)
       \/ /\ Declared(name) = {} /\ Cardinality(Declared(to)) = 1
          /\ LET c == Renaming(to, name, TRUE) IN Begins(t, {c.files[1]}, c)

\* ApplySpans puts the new name at each position, whatever stands there.
Respelled(f, at, to) ==
    [k \in DOMAIN disk[f].ls |->
        [disk[f].ls[k] EXCEPT !.n = IF <<f, k, "n">> \in at THEN to ELSE @,
                              !.u = IF <<f, k, "u">> \in at THEN to ELSE @]]

RenameApplies(t) ==
    /\ Ready(t, "rename")
    /\ LET c == call[t]
           f == Head(c.files)
           rest == Tail(c.files)
           ok == disk[f].is /\ \A p \in c.at : p[1] = f => p[2] <= Len(disk[f].ls) IN
        /\ disk' = IF ok THEN [disk EXCEPT ![f].ls = Respelled(f, c.at, c.to)] ELSE disk
        /\ lease' = Released(t)
        /\ unreported' = IF ok THEN unreported ELSE unreported \cup c.done
        /\ IF ok /\ rest # <<>>
           THEN /\ call' = [call EXCEPT ![t] = [c EXCEPT !.st = "hold", !.todo = <<Head(rest)>>,
                                                  !.files = rest, !.done = @ \cup {f}]]
                /\ origin' = snapshotOnce({Head(rest)})
           ELSE /\ call' = [call EXCEPT ![t] = IF ok /\ c.back THEN [c EXCEPT !.st = "again"] ELSE Idle]
                /\ origin' = origin
    /\ UNCHANGED <<scope, refused, calls>>

\* The name is back and the rename that was asked for begins.
RenameAgain(t) ==
    /\ call[t].tool = "rename" /\ call[t].st = "again"
    /\ LET c == call[t] IN
        IF Cardinality(Declared(c.to)) = 1
        THEN LET next == Renaming(c.to, c.name, FALSE) IN
             /\ call' = [call EXCEPT ![t] = next]
             /\ origin' = snapshotOnce({next.files[1]})
        ELSE call' = [call EXCEPT ![t] = Idle] /\ origin' = origin
    /\ UNCHANGED <<disk, scope, refused, lease, calls, unreported>>

---------------------------------------------------------------------------
(* undo: the file as the scope first found it.                             *)

UndoFile(t, f) ==
    /\ "undo" \in tools
    /\ origin[f].got
    /\ Begins(t, {}, [tool |-> "undo", st |-> "hold", todo |-> <<f>>, f |-> f])

UndoApplies(t) ==
    /\ Ready(t, "undo")
    /\ LET f == call[t].f IN
        /\ disk' = [disk EXCEPT ![f] = [is |-> origin[f].is, ls |-> origin[f].ls]]
        /\ Wrote({f})
    /\ Ends(t)
    /\ UNCHANGED <<tools, read, origin, shown, refused, calls, unreported>>

---------------------------------------------------------------------------
Starts(t) ==
    \/ \E f \in Files :
        \/ Read(t, f)
        \/ WriteFile(t, f)
        \/ UndoFile(t, f)
        \/ \E k \in 1..2 : ReplaceLines(t, f, k)
        \/ \E name \in Names : Declare(t, name, f)
    \/ \E ps \in Batches(t) : StrReplace(t, ps)
    \/ \E a, b \in Names :
        \/ Delete(t, IF a = b THEN <<a>> ELSE <<a, b>>)
        \/ Rename(t, a, b)
        \/ \E f \in Files : Move(t, IF a = b THEN <<a>> ELSE <<a, b>>, f)

Next ==
    \E t \in Threads :
        \/ Starts(t)
        \/ Take(t)
        \/ ReplaceApplies(t)
        \/ ReplaceRefused(t)
        \/ \E j \in 0..1 : ReplaceWriteFails(t, j)
        \/ CheckLines(t)
        \/ SpliceLines(t)
        \/ WriteApplies(t)
        \/ DeclareApplies(t)
        \/ DeleteLocates(t)
        \/ DeleteCuts(t)
        \/ MoveApplies(t)
        \/ RenameApplies(t)
        \/ RenameAgain(t)
        \/ UndoApplies(t)

Spec == Init /\ [][Next]_vars

---------------------------------------------------------------------------
(* Properties *)

TypeOK ==
    /\ \A f \in Files : disk[f].is \in BOOLEAN /\ disk[f].ls \in Seq(Line)
    /\ read \subseteq Files /\ stale \subseteq read
    /\ lease \in [Dirs -> Threads \cup {None}]
    /\ calls \in 0..MaxCalls

\* A line range is only spliced into the very bytes its thread was last
\* shown, whatever other threads wrote while the call waited for its lease:
\* between the check and the splice nobody else gets at the file
\* (ReplaceLines.Run).
LinesAsShown ==
    \A t \in Threads :
        call[t].tool = "replace_lines" /\ call[t].st = "splice" =>
            disk[call[t].f].ls = shown[t][call[t].f].ls

\* What an undo puts back carries no edit of any tool: the snapshot of a
\* file predates every edit of it (Scope.snapshot: "keeps the first state
\* seen"), unless the file was created by write, which takes none.
OriginUntouched ==
    \A f \in Files :
        origin[f].got /\ origin[f].is =>
            \/ InitialDisk[f].is /\ origin[f].ls = InitialDisk[f].ls
            \/ ~InitialDisk[f].is /\ \E t \in Threads : origin[f].ls = Fresh(t)

---------------------------------------------------------------------------
(* Stated by the code's comments, and false. *)

\* delete and declare act on the lines of the declaration they were given.
CutsOwn ==
    \A t \in Threads :
        Ready(t, "delete") /\ disk[call[t].f].is /\ call[t].k <= Len(disk[call[t].f].ls) =>
            disk[call[t].f].ls[call[t].k].n = Head(call[t].names)

\* "the worst it can discard is work the same run made"
UndoOwnWork ==
    [][\A t \in Threads : UndoApplies(t) =>
          \A l \in Range(disk[call[t].f].ls) :
              l \notin Range(disk'[call[t].f].ls) => l.w \subseteq {t}]_vars

\* Every edit of an accepted batch is in its file once the call is over.
EveryEditLands ==
    [][\A t \in Threads : ReplaceApplies(t) =>
          \A q \in Range(call[t].ps) : q.new \in Range(disk'[q.p[1]].ls)]_vars

\* A move loses no line.
MoveKeeps ==
    [][\A t \in Threads : MoveApplies(t) =>
          \A l \in UNION {Range(disk[f].ls) : f \in Files} :
              l \in UNION {Range(disk'[f].ls) : f \in Files}]_vars

\* "refuses a deletion the rest of the tree depends on"
DeletesUnused ==
    [][\A t \in Threads : DeleteCuts(t) /\ Cardinality({s \in Threads : call[s] # Idle}) = 1 =>
          LET left == UNION {Range(disk'[f].ls) : f \in Files} IN
          \A l \in left : l.u = Head(call[t].names) => l.n \in Range(call[t].names)]_vars

\* What a call wrote, it reports.
ChangesReported == unreported = {}
=============================================================================

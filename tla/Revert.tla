------------------------------- MODULE Revert -------------------------------
(***************************************************************************)
(* Undoing a run's own hunks in a throwaway workspace, so that its tests   *)
(* can be run without its change: the second half of gate/failtopass.go.   *)
(*                                                                         *)
(* A diff of one file is its sequence of line operations.  Lines outside   *)
(* every hunk are "gap", the others are in the hunk they are next to; jj   *)
(* shows Context unchanged lines around a change.                          *)
(***************************************************************************)
EXTENDS Integers, Sequences, FiniteSets, FiniteSetsExt, SequencesExt

CONSTANTS Lines, MaxOps, Context

Ops == [kind : {"keep", "add", "del"}, line : Lines]

VARIABLES
    diff,     \* the operations, from the start of the file to its end
    patch,    \* what parseGitDiff made of it
    next,     \* the hunk revertLines is at
    content   \* the lines of the file in the workspace

vars == <<diff, patch, next, content>>

Side(ops, drop) == [i \in DOMAIN SelectSeq(ops, LAMBDA o : o.kind # drop) |->
                        SelectSeq(ops, LAMBDA o : o.kind # drop)[i].line]
Old(ops) == Side(ops, "add")
New(ops) == Side(ops, "del")

\* The operations a hunk shows, and the hunks: maximal runs of them.
Changed(i) == diff[i].kind # "keep"
Shown == {i \in DOMAIN diff : \E j \in DOMAIN diff : Changed(j) /\ j - i \in -Context..Context}
Starts == {i \in Shown : i - 1 \notin Shown}
HunkAt(i) ==
    LET last == Max({j \in Shown : j >= i /\ i..j \subseteq Shown})
        before == Len(New(SubSeq(diff, 1, i - 1)))
        body == SubSeq(diff, i, last)
    IN [lines |-> body,
        newStart |-> IF New(body) = <<>> THEN before ELSE before + 1]   \* git's header

Init ==
    /\ diff \in UNION {[1..n -> Ops] : n \in 1..MaxOps}
    /\ \E i \in DOMAIN diff : Changed(i)
    /\ patch = <<>> /\ next = -1 /\ content = New(diff)

\* parseGitDiff and hunkSides: what the file must hold, and what replaces it.
ParseGitDiff ==
    /\ next = -1
    /\ patch' = [k \in 1..Cardinality(Starts) |->
                    HunkAt(CHOOSE i \in Starts : Cardinality({j \in Starts : j <= i}) = k)]
    /\ next' = Cardinality(Starts)
    /\ UNCHANGED <<diff, content>>

Want(h) == New(h.lines)
Replacement(h) == Old(h.lines)
At(h) == Max({h.newStart - 1, 0})

\* revertLines, one hunk of its loop; <<0>> is errRevertMismatch.
UndoHunkOf(h) ==
    IF At(h) + Len(Want(h)) > Len(content)
         \/ SubSeq(content, At(h) + 1, At(h) + Len(Want(h))) # Want(h)
    THEN <<0>>
    ELSE SubSeq(content, 1, At(h)) \o Replacement(h)
            \o SubSeq(content, At(h) + Len(Want(h)) + 1, Len(content))
NthHunkFirst(k) == patch[Len(patch) + 1 - k]
NthHunk(k) == patch[k]
UndoHunk ==
    /\ next > 0 /\ next' = next - 1
    /\ content' = UndoHunkOf(NthHunk(next))
    /\ UNCHANGED <<diff, patch>>

Next == ParseGitDiff \/ UndoHunk

-----------------------------------------------------------------------------
\* With every hunk undone the file is what it was before the run, line for line, and no hunk
\* fails to match: the later hunks are undone first, so the numbers of the earlier ones hold.
RevertExact == next = 0 => content = Old(diff)
=============================================================================

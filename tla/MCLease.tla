------------------------------ MODULE MCLease ------------------------------
(***************************************************************************)
(* Instances of Lease: the claims that the write tools of internal/tools   *)
(* make of one call's targets, over a small tree.  A write target is the   *)
(* sequence of its path components, as in Lease; components are numbers so *)
(* that paths have the order sort.Strings gives them (for names without    *)
(* characters that sort before '/').                                       *)
(***************************************************************************)
EXTENDS Lease, TLC

Seqs == INSTANCE SequencesExt

\* Subtree: the lease key of a write target is the directory holding it.
Subtree(target) == Seqs!Front(target)

PathLess(a, b) ==
    \/ Len(a) < Len(b) /\ Seqs!IsPrefix(a, b)
    \/ \E i \in 1..Len(a) :
        /\ i <= Len(b)
        /\ a[i] < b[i]
        /\ \A j \in 1..(i - 1) : a[j] = b[j]

Keyed(targets) == [i \in 1..Len(targets) |-> Subtree(targets[i])]

\* The single-file tools: write, replace_lines, declare, delete, undo, and
\* each file of a rename in turn.
Hold(target) == Keyed(<<target>>)

\* The shell tool takes every write target of its command, targets sorted.
HoldAll(targets) == Keyed(Seqs!SetToSortSeq(targets, PathLess))

\* str_replace takes the files of a batch in the order the call names them;
\* move takes the source files and then the destination.
Prepare(targets) == Keyed(targets)

-----------------------------------------------------------------------------
\* The tree: directories a, a/m, a/n (1, 1/1, 1/2) and files in them.
DirA == <<1>>
DirAM == <<1, 1>>
DirAN == <<1, 2>>

TreeKeys == {DirA, DirAM, DirAN}

\* A move inside one package takes its directory's lease twice.
MoveInA == Prepare(<<Append(DirA, 8), Append(DirA, 9)>>)

\* Writes of one file, and a shell command whose targets lie in directories
\* neither of which is inside the other.
SingleWrites == {Hold(Append(d, 9)) : d \in {DirAM, DirAN}}
FlatShell == HoldAll({Append(DirAM, 9), Append(DirAN, 9)})

\* The claims of the passing run: overlapping, re-entrant and multiple.
MixedClaims == SingleWrites \cup {FlatShell, MoveInA}

Symmetry == Permutations(Threads)
=============================================================================

------------------------------- MODULE Fanout -------------------------------
(***************************************************************************)
(* Fan-out: a check's findings become tasks, the tasks are split into      *)
(* lanes that share no path (internal/fanout), the split is verified and   *)
(* every lane is run at once against one project (cmd/wavez/fanout.go,     *)
(* fanoutrun.go).  A path is the sequence of its components.               *)
(***************************************************************************)
EXTENDS Naturals, Sequences, FiniteSets, SequencesExt, FiniteSetsExt

CONSTANTS
    TaskPaths,   \* path sets a task may name
    Weights,     \* findings a task may carry
    MaxTasks,    \* bound: tasks of a job
    MaxLanes     \* bound: lanes asked for

VARIABLES
    tasks, n,    \* the job and the number of lanes asked for
    lanes,       \* the split, each lane a record of task numbers, paths and weight
    step,        \* "plan", "running", "refused", "reported"
    ended,       \* how each lane that ended did
    wrote        \* the paths each lane has written

vars == <<tasks, n, lanes, step, ended, wrote>>

-----------------------------------------------------------------------------
(* The split *)

\* a path overlaps itself and everything beneath it
overlapsEqual(a, b) == a = b
overlaps(a, b) == IsPrefix(a, b) \/ IsPrefix(b, a)

sharePath(s, t) == \E p \in s.paths, q \in t.paths : overlaps(p, q)

\* normalize: a task that names no path refuses the split, a weight below 1 counts as 1
Scoped(ts) == \A i \in DOMAIN ts : ts[i].paths # {}
normalize(ts) == [i \in DOMAIN ts |-> [ts[i] EXCEPT !.weight = IF @ < 1 THEN 1 ELSE @]]

\* group: the tasks joined to i by a chain of shared paths (a union-find in the code)
Joined(ts, i) ==
    LET step1(S) == S \cup {j \in DOMAIN ts : \E k \in S : sharePath(ts[j], ts[k])}
        grow[k \in 0..Len(ts)] == IF k = 0 THEN {i} ELSE step1(grow[k - 1])
    IN  grow[Len(ts)]

\* unionPaths: a path an ancestor covers is dropped
unionPaths(ts, S) ==
    LET all == UNION {ts[i].paths : i \in S}
    IN  {p \in all : ~\E q \in all : q # p /\ IsPrefix(q, p)}

Unit(ts, S) == [tasks |-> S, paths |-> unionPaths(ts, S),
                weight |-> FoldSet(LAMBDA i, w : w + ts[i].weight, 0, S)]

group(ts) ==
    LET first == SetToSortSeq({i \in DOMAIN ts : i = Min(Joined(ts, i))}, <)
    IN  [u \in 1..Len(first) |-> Unit(ts, Joined(ts, first[u]))]

\* pack: heaviest first into the lightest lane
Heaviest(units) ==
    SortSeq([u \in DOMAIN units |-> [unit |-> units[u], at |-> u]],
            LAMBDA a, b : a.unit.weight > b.unit.weight \/ (a.unit.weight = b.unit.weight /\ a.at < b.at))
Empty == [tasks |-> {}, paths |-> {}, weight |-> 0]
Lightest(ls) == CHOOSE i \in DOMAIN ls : \A j \in DOMAIN ls : ls[i].weight < ls[j].weight
                                            \/ (ls[i].weight = ls[j].weight /\ i <= j)
Put(ls, u) ==
    LET i == Lightest(ls)
    IN  [ls EXCEPT ![i] = [tasks |-> @.tasks \cup u.tasks, paths |-> @.paths \cup u.paths,
                           weight |-> @.weight + u.weight]]
pack(units, k) ==
    LET sorted == Heaviest(units)
        filled[i \in 0..Len(sorted)] ==
            IF i = 0 THEN [l \in 1..k |-> Empty] ELSE Put(filled[i - 1], sorted[i].unit)
    IN  IF Len(units) <= k THEN [u \in DOMAIN sorted |-> sorted[u].unit] ELSE filled[Len(sorted)]

Split(ts, k) == pack(group(normalize(ts)), k)

\* Check: the first pair of lanes that share a path refuses the split
Check(ls) ==
    \A i, j \in DOMAIN ls : i < j => ~\E p \in ls[i].paths, q \in ls[j].paths : overlaps(p, q)

-----------------------------------------------------------------------------
(* The run *)

TaskSet == [paths : TaskPaths, weight : Weights]

Init ==
    /\ \E k \in 1..MaxTasks : tasks \in [1..k -> TaskSet]
    /\ n \in 0..MaxLanes
    /\ lanes = <<>> /\ step = "plan" /\ ended = <<>> /\ wrote = <<>>

\* planLanes: split and verify, or refuse
Plan ==
    /\ step = "plan"
    /\ IF n >= 1 /\ Scoped(tasks) /\ Check(Split(tasks, n))
       THEN /\ lanes' = Split(tasks, n)
            /\ step' = "running"
            /\ ended' = [l \in DOMAIN lanes' |-> "running"]
            /\ wrote' = [l \in DOMAIN lanes' |-> {}]
       ELSE step' = "refused" /\ UNCHANGED <<lanes, ended, wrote>>
    /\ UNCHANGED <<tasks, n>>

\* a lane's loop writes: its prompt names its paths, its thread is open on the whole project
LaneWrites(l) ==
    /\ step = "running" /\ ended[l] = "running" /\ Cardinality(wrote[l]) < 1
    /\ \E p \in UNION {lanes[m].paths : m \in DOMAIN lanes} : wrote' = [wrote EXCEPT ![l] = @ \cup {p}]
    /\ UNCHANGED <<tasks, n, lanes, step, ended>>

\* laneStatus: an error, no turns, a stop short of completion, findings, or done
LaneEnds(l) ==
    /\ step = "running" /\ ended[l] = "running"
    /\ \E how \in {"failed", "stopped", "done"} : ended' = [ended EXCEPT ![l] = how]
    /\ UNCHANGED <<tasks, n, lanes, step, wrote>>

\* reportLanes, once every lane has ended
Report ==
    /\ step = "running" /\ \A l \in DOMAIN lanes : ended[l] # "running"
    /\ step' = "reported"
    /\ UNCHANGED <<tasks, n, lanes, ended, wrote>>

Next == Plan \/ Report \/ \E l \in DOMAIN lanes : LaneWrites(l) \/ LaneEnds(l)

Spec == Init /\ [][Next]_vars

-----------------------------------------------------------------------------
(***************************************************************************)
(* The lanes run side by side share no path and no directory above one,    *)
(* together they hold every task once and every path some task names, and  *)
(* no more lanes run than were asked for (Split, Check).                   *)
(***************************************************************************)
SplitSound ==
    step \in {"running", "reported"} =>
        /\ \A i, j \in DOMAIN lanes : i < j =>
              ~\E p \in lanes[i].paths, q \in lanes[j].paths : IsPrefix(p, q) \/ IsPrefix(q, p)
        /\ \A i \in DOMAIN tasks : \E l \in DOMAIN lanes :
              /\ i \in lanes[l].tasks /\ \A m \in DOMAIN lanes : i \in lanes[m].tasks => m = l
              /\ \A p \in tasks[i].paths : \E q \in lanes[l].paths : IsPrefix(q, p)
        /\ Len(lanes) <= n

\* Lane: "Paths is the union its scope is fenced to"
LaneFenced ==
    \A l \in DOMAIN lanes : \A p \in wrote[l] : \E q \in lanes[l].paths : IsPrefix(q, p)
=============================================================================

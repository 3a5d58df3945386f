SPECIFICATION FairSpec
CONSTANTS
    Writers = {w1, w2}
    w1 = w1
    w2 = w2
    LocalWriters = {w1}
    Paths = {p1}
    p1 = p1
    \* A pass whose fixer rewrote a file, a failure that names no file of the run.
    Outcomes = {"fixed", "alien"}
    InboxCap = 2
    StuckAfter = 3
    MaxRuns = 1
    MaxEdits = 2
    None = None
INVARIANT StatusSound
INVARIANT NoChangeLost
PROPERTY EveryChangeGated
\* With every edit gated and every run over nothing is left to do.
CHECK_DEADLOCK FALSE

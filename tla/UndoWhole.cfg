SPECIFICATION Spec
CONSTANTS
    Threads = {"t1"}
    Repos = {1}
    Files = {"f1"}
    Stray = FALSE
    MaxRuns = 1
    MaxWrites = 2
INVARIANT WholeUndo
\* With every run over and every undo answered nothing is left to do.
CHECK_DEADLOCK FALSE

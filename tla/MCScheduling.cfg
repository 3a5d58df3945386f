SPECIFICATION AllSpec
\* GateSched: three batches, so that the second narrowed one has to sweep.
CONSTANTS
    Batch = {"fmt", "lint", "chk"}
    Rounds = {"r1"}
    Steps <- GateSteps
    Workers = {"w1"}
    Resources <- GateResources
    Worktree = 1
    GoTest = 2
    MaxPasses = 1
    MaxBatches = 3
    MaxRounds = 1
    MaxTests = 2
INVARIANT GatesApart
 
\* Both may run out of work.
CHECK_DEADLOCK FALSE

SPECIFICATION AgentSpec
\* AgentLoop: a run of four turns, three calls in a response.
CONSTANTS
    Pins = {"fast", "balanced", "deep"}
    EditTasks = {TRUE, FALSE}
    Verifier = TRUE
    Reviewer = TRUE
    Compacting = FALSE
    MaxCalls = 3
    MaxRuns = 1
    MaxTurns = 4
    MaxToolCallsPerTurn = 2
    MaxStagnantErrors = 2
    MaxVerifyRounds = 2
    MaxReviewRounds = 2
    TurnsBeforeNudge = 2
    MaxNudges = 1
INVARIANT LoopSound
PROPERTY RunEnds
 
\* Every component may run out of work.
CHECK_DEADLOCK FALSE

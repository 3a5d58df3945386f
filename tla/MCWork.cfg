SPECIFICATION WorkSpec
\* Turns: one thread with four prompts, interrupted and retiered.
CONSTANTS
    Threads = {"t1"}
    Nobody = "nobody"
    CycleThreads = {}
    Tiers = {"local", "hosted"}
    Gated = FALSE
    MaxPrompts = 4
    MaxAsks = 0
    \* Cycles: two attempts a phase.
    CycleTests = {"t1", "t2"}
    CycleFileOf <- OneFile
    CycleSites = {"s1"}
    CycleAttempts = 2
    CycleRuns = 1
    CycleRows = 1
    \* Finish: two calls over three files.
    RunFiles = {"a", "b", "x"}
    RunStart <- Start
    RunTexts = {"code", "note", "star"}
    RunNames <- Names
    RunDiff <- Diff
    RunTasks <- Tasks
    RunGoal <- Goal
    RunFixtures = {"b"}
    RunUntested = {"b"}
    RunTested = {"a"}
    RunHooks = {"pre", "post"}
    RunCalls = 2
    \* Home: one of two threads is of the launch root.
    HomeThreads = {"t1", "t2"}
    HomeLocal = {"t1"}
    HomePrompts <- TwoPrompts
    \* Confirm: two edit points, two commands under way.
    DialogThreads = {"t1", "t2"}
    DialogEdits = 2
    DialogFlight = 2
    ActionModels = {"m1", "m2"}
    SettingsModels = {"m1"}
INVARIANT PromptsInTurn
PROPERTY HistorySound
INVARIANT EditsExact
 
INVARIANT LanesApart
INVARIANT NavigationSound
 
\* Every component may run out of work.
CHECK_DEADLOCK FALSE

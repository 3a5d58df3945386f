SPECIFICATION ServicesSpec
CONSTANTS
    \* Undo: two threads over a project and its sibling repository.
    Threads = {"t1", "t2"}
    Repos = {1, 2}
    Files = {"f1", "f2"}
    Stray = TRUE
    MaxRuns = 2
    MaxWrites = 2
    MaxChanges = 2
    MaxFaults = 1
    MaxCalls = 2
    PerFile = 1
    MaxLints = 4
    Sources = {"a", "at", "b", "bt", "n"}
    Packages = {"p", "q"}
    Tests = {"T1", "T2"}
    Kind <- KindOf
    Pkg <- PkgOf
    Base <- BaseOf
    Imports <- ImportsOf
    TestPkg <- TestPkgOf
    Covers <- CoversOf
    Changesets = {{"a"}, {"b"}, {"a", "at"}, {"a", "b"}, {"a", "n"}, {"n"}}
    MaxBuilds = 2
    Texts = {"b", "big"}
    Size <- SizeOf
    MaxFileBytes = 4
    MaxIndexBytesPerPass = 1
    MaxContentIndexBytes = 3
    QueryFiles = {1, 2}
    QueryTree <- TwoFiles
    MaxEdited = 1
    Starters = {"t1"}
    StartFiles = {1, 2, 3}
    StartTree <- ThreeFiles
    Daemons = {"d1", "d2"}
    Pids = {1, 2}
    MaxSockets = 3
    MaxBorn = 2
    MaxCrashes = 1
    Requests = {"q1", "q2", "q3"}
    RootOf <- RootsOf
    Roots = {"a", "b"}
    States = {"needs_input"}
    MaxUser = 1
    MaxTurns = 1
    Documents = {"f1"}
    MaxClients = 2
PROPERTY ScopedSpares
INVARIANT RestoreSound
 
INVARIANT IndexCurrent
INVARIANT ServersSound
INVARIANT DiagnosticsCurrent
\* Every component may run out of work.
CHECK_DEADLOCK FALSE

------------------------------- MODULE MCAgent ------------------------------
(***************************************************************************)
(* A run of the agent loop, and the commands its tools hand to the shell.  *)
(* They share no state: a behaviour is of one of them and `part' says      *)
(* which.  The loop has variables of its own, which stand still in the     *)
(* other parts; x1, x2, ... are those of the shell.                        *)
(***************************************************************************)
EXTENDS AgentLoop

VARIABLES part, x1, x2, x3, x4, x5, x6, x7, x8, x9, x10, x11, x12

others == <<x1, x2, x3, x4, x5, x6, x7, x8, x9, x10, x11, x12>>
agentVars == <<part, vars, others>>

\* Shell: the tokens of a command, and commands the guard judges each its own way.
Word(b) == [base |-> b, kind |-> "word", file |-> ""]
Flag(b) == [base |-> b, kind |-> "flag", file |-> ""]
Path(f) == [base |-> f, kind |-> "inside", file |-> f]
Token(b, k) == [base |-> b, kind |-> k, file |-> ""]
Into == Token(">", "redir")
One(ws) == <<[op |-> "|", words |-> ws]>>
Cmd(top) == [parses |-> TRUE, bomb |-> FALSE, top |-> top, subs |-> {}]
Sub(at, ws) == [at |-> at, top |-> <<One(ws)>>]
Line ==
    [echo   |-> Cmd(<<One(<<Word("echo"), Into, Path("f")>>)>>),
     script |-> Cmd(<<One(<<Path("s")>>)>>),
     sh     |-> Cmd(<<One(<<Word("sh"), Flag("-x"), Path("s")>>),
                      One(<<Token("A=1", "assign"), Word("cp"), Path("f"), Path("s")>>)>>),
     make   |-> Cmd(<<One(<<Word("make"), Word("all")>>)>>),
     makef  |-> Cmd(<<One(<<Word("make"), Path("f")>>)>>),
     quoted |-> [Cmd(<<One(<<Word("echo"), Token("$(make)", "vague")>>)>>) EXCEPT
                   !.parses = FALSE, !.subs = {Sub("quoted", <<Word("make")>>), Sub("plain", <<Word("ls")>>)}],
     insub  |-> [Cmd(<<One(<<Word("echo")>>)>>) EXCEPT !.subs = {Sub("quoted", <<Word("sudo"), Word("ls")>>)}],
     clean  |-> Cmd(<<One(<<Word("rm"), Flag("-rf"), Path("f")>>)
                      \o <<[op |-> "&&", words |-> <<Word("rm"), Flag("-r"), Flag("-f"), Token("/x", "outside")>>]>> >>),
     sweep  |-> Cmd(<<One(<<Word("go"), Word("test"), Path("f")>>)>>),
     ruff   |-> Cmd(<<One(<<Word("ruff"), Word("format"), Path("f")>>)>>)]
Body ==
    [plain |-> [form |-> "shell", cmd |-> Cmd(<<One(<<Word("touch"), Path("f")>>), One(<<Word("echo"), Into, Path("f")>>)>>)],
     bad   |-> [form |-> "shell", cmd |-> Cmd(<<One(<<Word("xargs"), Flag("-n"), Word("git"), Word("stash"), Word("drop")>>)>>)],
     py    |-> [form |-> "other", cmd |-> Cmd(<<One(<<Word("print")>>)>>)]]
Trees == {[f |-> "plain", s |-> "plain"], [f |-> "absent", s |-> "py"]}

\* One call of each command, the tree changing under it.
J == INSTANCE Shell WITH
    Threads <- {"t1"}, Files <- {"f", "s"}, Trees <- Trees, Texts <- {"plain", "bad"},
    Line <- Line, LongKeys <- {"makef"}, Body <- Body, MaxCalls <- 1, MaxEdits <- 1,
    MaxCrashes <- 0, ShellAllow <- {"f"}, EcosystemNames <- {"go"}, ColocatedJJ <- FALSE,
    Declared <- {<<"ruff", "format">>}, tree <- x1, base <- x2, pc <- x3, call <- x4, held <- x5,
    granted <- x6, file <- x7, open <- x8, yes <- x9, calls <- x10, edits <- x11, crashes <- x12

\* Two threads that run commands while the tree changes and the daemon restarts.
S == INSTANCE Shell WITH
    Threads <- {"t1", "t2"}, Files <- {"f", "s"}, Trees <- Trees, Texts <- {"bad"},
    Line <- [c \in {"sh", "script", "make", "makef", "echo"} |-> Line[c]], LongKeys <- {"makef"},
    Body <- Body, MaxCalls <- 2, MaxEdits <- 1, MaxCrashes <- 1, ShellAllow <- {"f"},
    EcosystemNames <- {"go"}, ColocatedJJ <- FALSE, Declared <- {<<"ruff", "format">>},
    tree <- x1, base <- x2, pc <- x3, call <- x4, held <- x5, granted <- x6, file <- x7,
    open <- x8, yes <- x9, calls <- x10, edits <- x11, crashes <- x12

OtherInit ==
    \/ part = "loop"
       /\ x1 = 0 /\ x2 = 0 /\ x3 = 0 /\ x4 = 0 /\ x5 = 0 /\ x6 = 0 /\ x7 = 0 /\ x8 = 0
       /\ x9 = 0 /\ x10 = 0 /\ x11 = 0 /\ x12 = 0
    \/ part = "guard" /\ J!Init
    \/ part = "shell" /\ S!Init

OtherNext ==
    \/ part = "guard" /\ J!Next /\ UNCHANGED part
    \/ part = "shell" /\ S!Next /\ UNCHANGED part

\* The tier a thread is pinned to and its prompt matter to the loop only.
AgentInit == Init /\ OtherInit /\ (part # "loop" => pin = "fast" /\ editTask = FALSE)
AgentNext ==
    \/ part = "loop" /\ Next /\ UNCHANGED <<part, others>>
    \/ OtherNext /\ UNCHANGED vars

\* The fairness of the loop (FairSpec).
AgentSpec ==
    AgentInit /\ [][AgentNext]_agentVars
        /\ WF_agentVars(part = "loop" /\ Step /\ UNCHANGED <<part, others>>)

-----------------------------------------------------------------------------
(* Of the loop: AgentLoop's LoopSound and RunEnds. *)

\* No command runs that the guard refuses, and none it asks about without an answer for that
\* very line (Shell!RunsCleared), and a command's result names every file it changed
\* (Shell!ShellReports).
ShellSound ==
    /\ [](part = "guard" => J!RunsCleared)
    /\ [](part = "shell" => S!RunsCleared)
    /\ [][(part = "guard" => J!ReportsOwnWork) /\ (part = "shell" => S!ReportsOwnWork)]_agentVars
=============================================================================

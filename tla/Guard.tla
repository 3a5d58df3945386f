------------------------------- MODULE Guard -------------------------------
(***************************************************************************)
(* The shell guard (internal/guard): how a command line is judged before   *)
(* it runs, which project scripts it would run, which files it would       *)
(* write, and which of its questions the harness can answer itself.        *)
(*                                                                         *)
(* A command line is given as the tree its text spells: statements of      *)
(* stages joined by "|" or "&&" (which stands for || too), and the         *)
(* substitutions in it, each with where it stands.  A word carries its     *)
(* base name and what the path rules tell apart:                           *)
(*   "word"    a plain word or program name    "flag"    -x, --x           *)
(*   "inside"  a path below the project root   "outside" at or beyond it   *)
(*   "protected"  a path below it that governs later commands              *)
(*   "vague"   a path holding $, a glob or a substitution                  *)
(*   "redir"   a writing redirect operator     "fd"      its descriptor    *)
(*   "assign"  NAME=value                      "bar"     | as a token      *)
(* Reasons and fragments are left out, and so are compound commands.       *)
(***************************************************************************)
EXTENDS Naturals, Sequences, SequencesExt, FiniteSets

CONSTANTS
    ShellAllow,     \* the project's own allowed commands
    EcosystemNames, \* the ecosystems it declares
    ColocatedJJ,    \* jj owns the working copy
    Declared        \* the leading words of the checks it declares

---------------------------------------------------------------------------
(* Verdicts *)

Rank == [allow |-> 0, ask |-> 1, refuse |-> 2]
Worse(v, w) == Rank[v] > Rank[w]
worst(found) == CHOOSE v \in found \cup {"allow"} : \A w \in found : ~Worse(w, v)

---------------------------------------------------------------------------
(* Names *)

defaultAllowed ==
    {"cat", "cd", "chmod", "chown", "cp", "echo", "go", "gofmt", "golangci-lint", "grep", "ls", "mise",
     "mv", "rm", "sed", "tee", "touch", "xargs"}
shellInterpreters == {"sh", "bash", "zsh", "dash", "ksh", "fish"}
interpreters == (shellInterpreters \ {"fish"}) \cup {"ash", "node", "perl", "python", "python3", "ruby"}
fetchCommands == {"curl", "wget"}
supersededTools == {"find", "truncate", "git", "jj"}
fetchesDependencies ==
    [cargo |-> {"add", "fetch", "install", "update"}, go |-> {"get"},
     npm |-> {"ci", "i", "install", "update"}, pip |-> {"download", "install", "uninstall"},
     uv |-> {"add", "lock", "pip", "remove", "sync", "tool"}]
ecosystems ==
    [go |-> {"gopls", "gotestsum", "staticcheck"}, rust |-> {"cargo", "clippy-driver", "rustc", "rustfmt"},
     python |-> {"mypy", "pip", "pytest", "python", "python3", "ruff", "uv"}, zig |-> {"zig"}]

\* EcosystemCommands, and what a project's configuration adds them to
EcosystemCommands(names) == UNION {ecosystems[n] : n \in names \cap DOMAIN ecosystems}
AllowedCommands == ShellAllow \cup EcosystemCommands(EcosystemNames)
VouchedFor(name) == name \in AllowedCommands
Path(w) == w.kind \in {"inside", "outside", "protected", "vague"}
allowed(w) == w.kind \in {"inside", "protected"} \/ w.base \in defaultAllowed \/ VouchedFor(w.base)

---------------------------------------------------------------------------
(* The rules over one command's words *)

Flag(w) == w.kind = "flag"
Bases(words) == {words[i].base : i \in DOMAIN words}
Rest(words, n) == SubSeq(words, n, Len(words))
Drop(words, Skip(_)) ==
    Rest(words, IF \A i \in DOMAIN words : Skip(words[i]) THEN Len(words) + 1
                ELSE SelectInSeq(words, LAMBDA w : ~Skip(w)))
withoutAssignments(words) == Drop(words, LAMBDA w : w.kind = "assign")

\* argsOnly: what the program is given, the redirects and their targets dropped
argsOnly(words) ==
    LET Redirected(i) == words[i].kind = "redir" \/ (i > 1 /\ words[i - 1].kind = "redir")
        RECURSIVE Keep(_)
        Keep(i) == IF i > Len(words) THEN <<>>
                   ELSE IF Redirected(i) THEN Keep(i + 1) ELSE <<words[i]>> \o Keep(i + 1)
    IN  Keep(1)

Targets(words) == SelectSeq(Tail(argsOnly(words)), LAMBDA w : ~Flag(w))

hasRecursiveForce(words) ==
    LET flags == {w.base : w \in {words[i] : i \in {j \in 2..Len(words) : Flag(words[j])}}}
    IN  /\ flags \cap {"-r", "-R", "-rf", "--recursive"} # {}
        /\ flags \cap {"-f", "-rf", "--force"} # {}

\* The verdict on the first path that decides: unresolved asks, outside refuses.
ByPlace(paths) ==
    LET At(i) == paths[i].kind \in {"vague", "outside"}
        hits == {i \in DOMAIN paths : At(i)}
    IN  IF hits = {} THEN "allow"
        ELSE IF paths[CHOOSE i \in hits : \A j \in hits : i <= j].kind = "vague" THEN "ask" ELSE "refuse"

classifyRM(words) ==
    IF ~hasRecursiveForce(words) THEN "allow"
    ELSE IF Targets(words) = <<>> THEN "ask" ELSE ByPlace(Targets(words))

classifyChmodChown(words) ==
    IF Targets(words) = <<>> THEN "ask" ELSE ByPlace(<<Last(Targets(words))>>)

forcedPush(words) == Bases(words) \cap {"--force", "-f", "--force-with-lease"} # {}
gitReadOnly ==
    {"blame", "cat-file", "config", "describe", "diff", "grep", "log", "ls-files", "ls-remote", "rev-parse",
     "shortlog", "show", "status"}

\* classifyGit, with classifyGitStash
classifyGit(words) ==
    LET sub == words[2].base
        arg == IF Len(words) > 2 THEN words[3].base ELSE ""
    IN  CASE Len(words) < 2                                 -> "allow"
          [] ColocatedJJ /\ sub \notin gitReadOnly           -> "refuse"
          [] sub = "push" /\ forcedPush(Rest(words, 3))      -> "refuse"
          [] sub = "reset" /\ "--hard" \in Bases(Rest(words, 3)) -> "ask"
          [] sub = "stash" /\ arg \in {"drop", "clear"}      -> "refuse"
          [] sub = "stash" /\ arg \notin {"list", "show", "drop", "clear"} -> "ask"
          [] sub \in {"rebase", "filter-branch", "filter-repo", "checkout", "switch", "restore", "clean",
                      "worktree"}                            -> "ask"
          [] OTHER                                           -> "allow"

\* classifyJJ, with jjDiscards
classifyJJ(words) ==
    LET name == words[2].base
        sub == IF Len(words) > 2 THEN words[3].base ELSE ""
    IN  CASE Len(words) < 2                                          -> "allow"
          [] name \in {"abandon", "restore", "undo"}                 -> "ask"
          [] name = "op" /\ sub \in {"restore", "undo"}              -> "ask"
          [] name = "workspace" /\ sub = "forget"                    -> "ask"
          [] name = "git" /\ sub = "push" /\ forcedPush(Rest(words, 4)) -> "refuse"
          [] OTHER                                                   -> "allow"

\* classifyDD, classifyDiskutil and classifyKill; "of=" names a device there
classifyDisk(words) ==
    CASE words[1].base = "dd"       -> IF "of=/dev" \in Bases(words) THEN "refuse" ELSE "ask"
      [] words[1].base = "diskutil" -> IF Len(words) > 1 /\ words[2].base = "eraseDisk" THEN "refuse" ELSE "ask"
      [] OTHER                      -> IF {"-9", "-1"} \subseteq Bases(Tail(words)) THEN "refuse" ELSE "allow"

fetchesDependency(name, args) ==
    LET plain == Drop(args, Flag)
    IN  /\ name \in DOMAIN fetchesDependencies
        /\ \/ plain # <<>> /\ Head(plain).base \in fetchesDependencies[name]
           \/ name = "uv" /\ "--with" \in Bases(args)

\* byName: unlisted asks; superseded, fetching and formatting refuse.
byName(words) ==
    LET name == words[1].base
    IN  (IF allowed(words[1]) THEN {} ELSE {"ask"})
        \cup (IF name \in supersededTools \/ name = "mkfs" \/ fetchesDependency(name, Tail(words))
              THEN {"refuse"} ELSE {})

\* ProtectedWrite: the paths that govern what a later command may run
Protected(w) == w.kind = "protected"

\* writesProtected: a writing program's argument, or a redirect's target. Only
\* the bare operators make a writer of a command that is not one.
writesProtected(words) ==
    \E i \in 2..Len(words) :
        /\ Protected(words[i])
        /\ \/ words[1].base \in {"rm", "mv", "cp", "tee", "truncate"}
           \/ \E j \in 1..(i - 1) : words[j].kind = "redir" /\ words[j].base \in {">", ">>"}

RECURSIVE classifyTokens(_)
classifyTokens(raw) ==
    LET words == withoutAssignments(raw)
        name == words[1].base
        inner == Drop(Tail(words), Flag)
    IN  IF raw = <<>> THEN "ask"
        ELSE IF words = <<>> THEN "allow"
        ELSE worst(
            (IF "sudo" \in Bases(words) THEN {"refuse"} ELSE {})
            \cup {CASE name = "rm"                         -> classifyRM(words)
                    [] name = "git"                        -> classifyGit(words)
                    [] name = "jj"                         -> classifyJJ(words)
                    [] name \in {"chmod", "chown"}         -> classifyChmodChown(words)
                    [] name \in {"dd", "diskutil", "kill"} -> classifyDisk(words)
                    [] name = "xargs" /\ inner # <<>>      -> classifyTokens(inner)
                    [] OTHER                               -> "allow"}
            \cup byName(words)
            \cup (IF name \in {"killall", "pkill"} /\ "-9" \in Bases(Tail(words)) THEN {"ask"} ELSE {})
            \cup (IF writesProtected(words) THEN {"refuse"} ELSE {}))

---------------------------------------------------------------------------
(* The reading of a whole line *)

\* pipeToShellStages and pipeToShellReason: a fetch with a shell after it, in
\* the same statement for the parser, in the same pipeline for the splitters.
PipesToShell(stmt, parsed) ==
    \E i, j \in DOMAIN stmt :
        /\ i < j
        /\ parsed \/ \A k \in (i + 1)..j : stmt[k].op = "|"
        /\ stmt[i].words # <<>> /\ stmt[j].words # <<>>
        /\ stmt[i].words[1].base \in fetchCommands /\ ~Path(stmt[i].words[1])
        /\ stmt[j].words[1].base \in shellInterpreters

\* classifyStages and classifyPipeline
classifyStmt(stmt, parsed) ==
    IF PipesToShell(stmt, parsed) THEN "refuse"
    ELSE worst({classifyTokens(stmt[i].words) : i \in DOMAIN stmt})

classifyTop(top, parsed) == worst({classifyStmt(top[i], parsed) : i \in DOMAIN top})

\* The substitutions a reading reaches: the parser every one of them, the
\* splitters neither the ones in double quotes nor those of a heredoc body.
Subs(cmd) == {s \in cmd.subs : cmd.parses \/ s.at = "plain"}

Classify(cmd) ==
    IF cmd.bomb THEN "refuse"
    ELSE worst({classifyTop(cmd.top, cmd.parses)} \cup {classifyTop(s.top, TRUE) : s \in Subs(cmd)})

---------------------------------------------------------------------------
(* What a line runs, writes and asks *)

Stages(top) == UNION {{top[i][j].words : j \in DOMAIN top[i]} : i \in DOMAIN top}

\* scriptsIn: the first path inside the project that the words run as a script
runsInlineCode(args) ==
    \E i \in DOMAIN args : args[i].base \in {"-c", "-e"} /\ \A j \in 1..i : Flag(args[j])
projectPaths(args) ==
    LET plain == Drop(args, Flag)
    IN  IF plain # <<>> /\ Head(plain).kind \in {"word", "inside", "protected"} THEN {Head(plain).file} ELSE {}
scriptsIn(words) ==
    IF words = <<>> THEN {}
    ELSE IF words[1].base = "source" THEN projectPaths(Tail(words))
    ELSE IF words[1].base \in interpreters
         THEN IF runsInlineCode(Tail(words)) THEN {} ELSE projectPaths(Tail(words))
    ELSE IF Path(words[1]) THEN projectPaths(<<words[1]>>)
    ELSE {}

\* ExecutedScripts reads no substitution.
ExecutedScripts(cmd) == UNION {scriptsIn(w) : w \in Stages(cmd.top)} \ {""}

formatters == [gofmt |-> {"-w"}, go |-> {"fmt", "generate"}, ruff |-> {"format", "--fix"}, black |-> {}]
stageFormats(words) ==
    \E w \in Bases(words) \cap DOMAIN formatters :
        formatters[w] = {} \/ formatters[w] \cap Bases(words) # {}
hasInPlaceFlag(words) == Bases(words) \cap {"sed", "perl", "ruby"} # {} /\ "-i" \in Bases(words)

\* wordsAfter: the arguments after a program that writes them, up to a redirect
wordsAfter(words, names) ==
    {words[i] : i \in {k \in DOMAIN words :
        /\ words[k].base \notin names /\ ~Flag(words[k]) /\ words[k].kind # "redir"
        /\ \E j \in 1..(k - 1) :
               /\ words[j].base \in names
               /\ \A m \in j..k : words[m].kind # "redir"}}
redirectTargets(words) ==
    {words[i + 1] : i \in {k \in 1..(Len(words) - 1) :
        words[k].kind = "redir" /\ words[k + 1].kind # "fd"}}

stageTargets(words) ==
    redirectTargets(words)
    \cup (IF hasInPlaceFlag(words) THEN wordsAfter(words, {"sed", "perl", "ruby"}) ELSE {})
    \cup (IF stageFormats(words) THEN wordsAfter(words, DOMAIN formatters) ELSE {})
    \cup wordsAfter(words, {"cp", "install", "mv", "rsync"})
    \cup wordsAfter(words, {"rm", "rmdir", "shred", "unlink"})
    \cup wordsAfter(words, {"tee"})

\* WriteTargets; the text rules of a line the parser rejects read the same
\* targets of the top line (they never look into a substitution on its own).
WriteTargets(cmd) ==
    LET read == Stages(cmd.top) \cup (IF cmd.parses THEN UNION {Stages(s.top) : s \in cmd.subs} ELSE {})
    IN  {w.file : w \in {v \in UNION {stageTargets(s) : s \in read} : v.kind \in {"inside", "protected"}}}

\* splitSequence and tokenize, as the questions below use them: the words of
\* every run of stages that no && divides.
Groups(cmd) ==
    LET Starts(stmt) == {i \in DOMAIN stmt : i = 1 \/ stmt[i].op = "&&"}
        Upto(stmt, i) == CHOOSE j \in i..Len(stmt) :
            /\ \A k \in (i + 1)..j : stmt[k].op = "|"
            /\ j = Len(stmt) \/ stmt[j + 1].op = "&&"
        Bar == [base |-> "|", kind |-> "bar", file |-> ""]
        Words(stmt, i) == FoldLeft(LAMBDA acc, k : acc \o <<Bar>> \o stmt[k].words, stmt[i].words,
                                   [n \in 1..(Upto(stmt, i) - i) |-> i + n])
    IN  UNION {{Words(cmd.top[s], i) : i \in Starts(cmd.top[s])} : s \in DOMAIN cmd.top}

\* checkOf, past "mise exec --"
afterExec(words) ==
    IF Len(words) > 1 /\ words[1].base = "mise" /\ words[2].base = "exec"
    THEN LET d == SelectInSeq(words, LAMBDA w : w.base = "--") IN IF d = 0 THEN <<>> ELSE Rest(words, d + 1)
    ELSE words

goSweeps == {"build", "test", "vet"}
ProjectCheck(cmd) ==
    \E g \in Groups(cmd) :
        LET w == afterExec(g)
        IN  /\ w # <<>>
            /\ \/ w[1].base \in {"golangci-lint", "gofmt", "goimports", "hk"}
               \/ w[1].base = "mise" /\ Len(w) > 1 /\ w[2].base = "run"
               \/ /\ w[1].base = "go" /\ Len(w) > 2 /\ w[2].base \in goSweeps
                  /\ "./..." \in Bases(Rest(w, 3))

\* GoPackageSweep: a sweep of named packages, every test of them
GoPackageSweep(cmd) ==
    \E g \in Groups(cmd) :
        LET w == afterExec(g)
        IN  /\ Len(w) > 2 /\ w[1].base = "go" /\ w[2].base \in goSweeps
            /\ "-run" \notin Bases(w)
            /\ \E i \in 3..Len(w) : w[i].kind = "inside"

\* DeclaredCheck: the command begins with a declared check's leading words.
DeclaredCheck(cmd) == \E g \in Groups(cmd), d \in Declared : Len(g) >= Len(d) /\ \A i \in DOMAIN d : g[i].base = d[i]
DeclaredPaths(cmd) == \E g \in Groups(cmd) : \E i \in DOMAIN g : g[i].kind = "inside"

VCSInspect(cmd) ==
    LET w == cmd.top[1][1].words
    IN  /\ cmd.top # <<>> /\ Len(w) > 1
        /\ w[1].base \in {"git", "jj"} /\ w[2].base \in {"diff", "log", "show", "st", "status"}

InPlaceEdit(cmd) ==
    \E g \in Groups(cmd) :
        g # <<>> /\ g[1].base \in {"sed", "perl", "ruby"} /\ Bases(Tail(g)) \cap {"-i", "--in-place"} # {}
=============================================================================

------------------------------ MODULE Projects ------------------------------
(***************************************************************************)
(* Loading projects into a daemon and closing them: resolveProject and     *)
(* cacheProject (daemon/project.go), the loader of cmd/wavezd, app.New and *)
(* App.Close, the threads reopened from their logs (daemon/reopen.go), and *)
(* the local model server a project starts or finds (runtime: Supervisor,  *)
(* Manager, Server).  Requests that name the same root load it at the same *)
(* time; every load has a supervisor of its own, and all share one port.   *)
(***************************************************************************)
EXTENDS Naturals, FiniteSets

CONSTANTS
    Requests,   \* client commands that name a root; each loads at most once
    RootOf,     \* the root each names, after canonicalRoot
    Roots,
    States,     \* what the last state event of a thread log can say
    MaxUser,    \* bound: times a server that is not this daemon's comes and goes
    MaxTurns    \* bound: turns started

VARIABLES
    pc,        \* each request: where it is in resolveProject and the loader
    got,       \* each request: the load whose Project it was answered with
    cache,     \* s.projects: the load cached under each root
    index,     \* s.threadIndex: the load a root's thread is registered under
    sup,       \* each load: "none", or the supervisor App keeps to stop its server
    app,       \* each load: "none", "open" or "closed"
    proc,      \* each load's llama-server: "none", "running" or "dead"
    port,      \* who holds the port: a load, "user" or "free"
    ready,     \* the holder of the port answers its health check
    log,       \* the state the log of each root's thread folds to
    turn,      \* the load that runs a turn on each root's thread, or "none"
    down,      \* Shutdown: "serving", "closing" (snapshot taken), "exited"
    closing,   \* the loads closeProjects took
    users, turns,
    lost       \* ghost: loads nobody will close: built and dropped, or failed late

vars == <<pc, got, cache, index, sup, app, proc, port, ready, log, turn, down, closing,
          users, turns, lost>>
server == <<proc, port, ready, users>>
threads == <<log, turn, turns>>
end == <<down, closing>>

None == "none"

Init ==
    /\ pc = [r \in Requests |-> "new"] /\ got = [r \in Requests |-> None]
    /\ cache = [k \in Roots |-> None] /\ index = [k \in Roots |-> None]
    /\ sup = [r \in Requests |-> None] /\ app = [r \in Requests |-> None]
    /\ proc = [r \in Requests |-> None]
    /\ \E left \in {"free", "user"} : port = left /\ ready = (left = "user")
    \* what the process before this one left in the logs
    /\ log \in [Roots -> States] /\ turn = [k \in Roots |-> None]
    /\ down = "serving" /\ closing = {}
    /\ users = 0 /\ turns = 0 /\ lost = {}

-----------------------------------------------------------------------------
(* Resolving a root *)

Answer(r, load) ==
    /\ got' = [got EXCEPT ![r] = load]
    /\ pc' = [pc EXCEPT ![r] = "done"]

Resolve(r) ==
    /\ pc[r] = "new" /\ down = "serving"
    /\ IF cache[RootOf[r]] # None
       THEN Answer(r, cache[RootOf[r]])
       ELSE pc' = [pc EXCEPT ![r] = "open"] /\ UNCHANGED got
    /\ UNCHANGED <<cache, index, sup, app, lost, server, threads, end>>

Fail(r) == pc' = [pc EXCEPT ![r] = "failed"]

\* loadConfig, openState and the approval store: nothing is running yet
Open(r) ==
    /\ pc[r] = "open"
    /\ Fail(r) \/ pc' = [pc EXCEPT ![r] = "ensure"]
    /\ UNCHANGED <<got, cache, index, sup, app, lost, server, threads, end>>

-----------------------------------------------------------------------------
(* Supervisor.Ensure *)

\* a server answers on the port, or the model's file is not found: nothing is started
Reuse(r) ==
    /\ pc[r] = "ensure"
    /\ pc' = [pc EXCEPT ![r] = "build"]
    /\ UNCHANGED <<got, cache, index, sup, app, lost, server, threads, end>>

\* the probe failed: Manager.Start starts the process, which may fail at once
StartServer(r) ==
    /\ pc[r] = "ensure" /\ ~ready
    /\ proc' = [proc EXCEPT ![r] = "running"]
    /\ pc' = [pc EXCEPT ![r] = "waiting"]
    /\ UNCHANGED <<got, cache, index, sup, app, lost, port, ready, users, threads, end>>

\* llama-server takes the port, answers once the model is loaded, or exits: the port was taken
ServerBinds(r) ==
    /\ proc[r] = "running" /\ port = "free"
    /\ port' = r /\ ready' = FALSE
    /\ UNCHANGED <<pc, got, cache, index, sup, app, lost, proc, users, threads, end>>

ServerReady(r) ==
    /\ port = r /\ ~ready /\ ready' = TRUE
    /\ UNCHANGED <<pc, got, cache, index, sup, app, lost, proc, port, users, threads, end>>

Dead(loads) ==
    /\ proc' = [q \in Requests |-> IF q \in loads /\ proc[q] = "running" THEN "dead" ELSE proc[q]]
    /\ port' = IF port \in loads THEN "free" ELSE port
    /\ ready' = (ready /\ port \notin loads)

ServerExits(r) ==
    /\ proc[r] = "running" /\ port # r /\ port # "free"
    /\ Dead({r})
    /\ UNCHANGED <<pc, got, cache, index, sup, app, lost, users, threads, end>>

\* waitReady: whoever answers on the port makes the server ready; the supervisor is kept
WaitReady(r) ==
    /\ pc[r] = "waiting" /\ ready
    /\ sup' = [sup EXCEPT ![r] = r]
    /\ pc' = [pc EXCEPT ![r] = "build"]
    /\ UNCHANGED <<got, cache, index, app, lost, server, threads, end>>

\* the start timeout: the process is killed, and the load goes on without a server
AbandonRunning(r) == UNCHANGED <<proc, port, ready>>
Abandon(r) == Dead({r})

StartTimeout(r) ==
    /\ pc[r] = "waiting" /\ ~ready
    /\ Abandon(r)
    /\ pc' = [pc EXCEPT ![r] = "build"]
    /\ UNCHANGED <<got, cache, index, sup, app, lost, users, threads, end>>

UserServer ==
    /\ users < MaxUser /\ users' = users + 1
    /\ \/ port = "free" /\ port' = "user" /\ ready' = TRUE
       \/ port = "user" /\ port' = "free" /\ ready' = FALSE
    /\ UNCHANGED <<pc, got, cache, index, sup, app, lost, proc, threads, end>>

-----------------------------------------------------------------------------
(* The rest of the load *)

\* app.New: gates or cycles do not build, and the supervisor is forgotten
BuildFails(r) ==
    /\ pc[r] = "build"
    /\ Fail(r)
    /\ lost' = lost \cup {r}
    /\ UNCHANGED <<got, cache, index, sup, app, server, threads, end>>

Build(r) ==
    /\ pc[r] = "build"
    /\ app' = [app EXCEPT ![r] = "open"]
    /\ pc' = [pc EXCEPT ![r] = "reopen"]
    /\ UNCHANGED <<got, cache, index, sup, lost, server, threads, end>>

\* App.Close: background work ends and the server its supervisor started is stopped
Closed(loads) ==
    /\ app' = [q \in Requests |-> IF q \in loads THEN "closed" ELSE app[q]]
    /\ Dead({q \in loads : sup[q] # None})

\* NewProject cannot read the log directory: the loader closes what it built
ReopenFails(r) ==
    /\ pc[r] = "reopen"
    /\ Closed({r})
    /\ Fail(r)
    /\ UNCHANGED <<got, cache, index, sup, lost, users, threads, end>>

interruptedState(s) == s \in {"working", "gating", "needs_input", "blocked"}

\* reopenThread: a turn the log shows in flight is taken to have died with its process
Reopen(r) ==
    /\ pc[r] = "reopen"
    /\ log' = [log EXCEPT ![RootOf[r]] = IF interruptedState(@) THEN "idle" ELSE @]
    /\ pc' = [pc EXCEPT ![r] = "cache"]
    /\ UNCHANGED <<got, cache, index, sup, app, lost, turn, turns, server, end>>

\* cacheProject: the first load to come wins, and every caller is answered with it
CachedLast(r) == r
Cached(r) == IF cache[RootOf[r]] = None THEN r ELSE cache[RootOf[r]]

CacheProject(r) ==
    /\ pc[r] = "cache"
    /\ cache' = [cache EXCEPT ![RootOf[r]] = Cached(r)]
    /\ got' = [got EXCEPT ![r] = Cached(r)]
    /\ IF Cached(r) = r
       THEN pc' = [pc EXCEPT ![r] = "register"] /\ UNCHANGED lost
       ELSE pc' = [pc EXCEPT ![r] = "done"] /\ lost' = lost \cup {r}
    /\ UNCHANGED <<index, sup, app, server, threads, end>>

\* registerThread, after the lock was let go
Register(r) ==
    /\ pc[r] = "register"
    /\ index' = [index EXCEPT ![RootOf[r]] = r]
    /\ pc' = [pc EXCEPT ![r] = "done"]
    /\ UNCHANGED <<got, cache, sup, app, lost, server, threads, end>>

-----------------------------------------------------------------------------
(* Turns on the root's thread, found through the index *)

BeginTurn(k) ==
    /\ down = "serving" /\ index[k] # None /\ turn[k] = None /\ turns < MaxTurns
    /\ turn' = [turn EXCEPT ![k] = index[k]]
    /\ log' = [log EXCEPT ![k] = "working"]
    /\ turns' = turns + 1
    /\ UNCHANGED <<pc, got, cache, index, sup, app, lost, server, end>>

EndTurn(k) ==
    /\ turn[k] # None
    /\ turn' = [turn EXCEPT ![k] = None]
    /\ log' = [log EXCEPT ![k] = "idle"]
    /\ UNCHANGED <<pc, got, cache, index, sup, app, lost, turns, server, end>>

-----------------------------------------------------------------------------
(* Shutdown: the handlers are waited for up to the grace period, then the loaded *)
(* projects are closed *)

projectsSnapshot == {cache[k] : k \in Roots} \ {None}

CloseBegins ==
    /\ down = "serving" /\ down' = "closing"
    /\ closing' = projectsSnapshot
    \* a load still under way outlived the grace period, and nobody will close it
    /\ lost' = lost \cup {r \in Requests : pc[r] \in {"open", "ensure", "waiting", "build", "reopen", "cache"}}
    /\ UNCHANGED <<pc, got, cache, index, sup, app, server, threads>>

closeProjects ==
    /\ down = "closing" /\ down' = "exited"
    /\ Closed(closing)
    /\ turn' = [k \in Roots |-> None]
    /\ UNCHANGED <<pc, got, cache, index, sup, lost, users, log, turns, closing>>

Next ==
    \/ \E r \in Requests :
        /\ down # "exited"
        /\ \/ Resolve(r) \/ Open(r) \/ Reuse(r) \/ StartServer(r) \/ WaitReady(r) \/ StartTimeout(r)
           \/ BuildFails(r) \/ Build(r) \/ ReopenFails(r) \/ Reopen(r) \/ CacheProject(r) \/ Register(r)
    \/ \E r \in Requests : ServerBinds(r) \/ ServerReady(r) \/ ServerExits(r)
    \/ \E k \in Roots : BeginTurn(k) \/ EndTurn(k)
    \/ UserServer \/ CloseBegins \/ closeProjects

Spec == Init /\ [][Next]_vars

-----------------------------------------------------------------------------
(***************************************************************************)
(* Callers that named one root were given one Project, and the root's      *)
(* thread is found in that one, however their loads were interleaved       *)
(* (cacheProject).                                                         *)
(***************************************************************************)
OneInstance ==
    \A r \in Requests :
        /\ got[r] # None => got[r] = cache[RootOf[r]]
        /\ index[RootOf[r]] # None => index[RootOf[r]] = cache[RootOf[r]]

(***************************************************************************)
(* When the daemon has exited, no llama-server it started is left running: *)
(* not one whose start timed out, not one of a load that failed to         *)
(* assemble, not one of a loaded project.  Excepted are the loads the code *)
(* drops: those that lost the race for the cache, failed after their       *)
(* providers were built, or outlived the grace period.                     *)
(***************************************************************************)
NoServerLeft ==
    down = "exited" => \A r \in Requests \ lost : proc[r] # "running"

\* app.Close: a leaked llama-server holds the model's 6 GB
NoServerLeftAtAll == down = "exited" => \A r \in Requests : proc[r] # "running"

\* Supervisor: it never starts a second server beside a live one
OneServer == Cardinality({r \in Requests : proc[r] = "running"}) <= 1

\* reopenThread: an interrupted state is of a turn that died with the previous process
RunningTurnReadsWorking == \A k \in Roots : turn[k] # None => log[k] = "working"

\* a load that fails takes down no server a loaded project was given
LoadStopsNobody ==
    [][(\E r \in Requests : pc[r] = "reopen" /\ pc'[r] = "failed" /\ \E q \in Requests : got[q] = q)
       => ready' = ready]_vars
=============================================================================

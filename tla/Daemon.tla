------------------------------- MODULE Daemon -------------------------------
(***************************************************************************)
(* The daemon's process: how it takes its socket (daemon.go listen, Bind), *)
(* sweeps what an earlier daemon left running (cmd/wavezd, proc), runs     *)
(* programs on a terminal (tools/pty.go drive, sandbox.Command), drains    *)
(* and removes its socket (Shutdown, removeOwnSocket).  Several daemons    *)
(* are started on one socket path: a replacement starts while the old one  *)
(* drains, and one that crashed leaves its socket file and its programs.   *)
(***************************************************************************)
EXTENDS Integers, FiniteSets

CONSTANTS
    Daemons,     \* processes started on the socket, each at most once
    Pids,        \* process ids
    MaxFiles,    \* bound: socket files ever created
    MaxBorn,     \* bound: programs ever started, strangers included
    MaxCrashes   \* bound: daemons that are killed

VARIABLES
    pc,        \* each daemon: where it is in serve and Shutdown
    file,      \* the identity of the socket file at the path, 0 when there is none
    files,     \* socket files created so far; an identity is not used again
    listens,   \* each daemon: the identity its listener is open on, 0 when closed
    sockID,    \* each daemon: the identity Bind read, 0 before
    looked,    \* each daemon: the identity removeOwnSocket read
    proc,      \* the process table: who runs each pid, since when, 0 when nobody
    born,      \* start times given out so far
    record,    \* spawned.json: the recorded (pid, start) pairs
    call,      \* each daemon's pty call: where it is, its pid, what it read of the record
    sweep,     \* each daemon's sweep: the pids it decided to kill
    crashes,
    displaced, \* ghost: daemons whose socket was taken in a window the code leaves
    missed,    \* ghost: what a finished sweep left running of a daemon that was gone
    excused,   \* ghost: programs whose entry was not yet written when their daemon went,
               \* or was overwritten by another daemon's write
    struck     \* ghost: strangers a sweep decided to kill

vars == <<pc, file, files, listens, sockID, looked, proc, born, record, call, sweep,
          crashes, displaced, missed, excused, struck>>
socket == <<file, files, listens, sockID, looked, displaced>>
spawn == <<proc, born, record, call, excused>>
swept == <<sweep, missed, struck>>

None == "none"
NoCall == [at |-> "idle", pid |-> 0, read |-> {}]
Alive == {"bound", "sweeping", "serving", "draining", "checked"}
Gone(d) == pc[d] \in {"exited", "crashed"}

Init ==
    /\ pc = [d \in Daemons |-> "new"]
    /\ file = 0 /\ files = 0
    /\ listens = [d \in Daemons |-> 0] /\ sockID = [d \in Daemons |-> 0]
    /\ looked = [d \in Daemons |-> 0]
    /\ proc = [p \in Pids |-> [by |-> None, since |-> 0]] /\ born = 0
    /\ record = {}
    /\ call = [d \in Daemons |-> NoCall]
    /\ sweep = [d \in Daemons |-> {}]
    /\ crashes = 0
    /\ displaced = {} /\ missed = {} /\ excused = {} /\ struck = {}

-----------------------------------------------------------------------------
(* Taking the socket *)

Bound(d) ==
    /\ files < MaxFiles /\ file = 0
    /\ file' = files + 1 /\ files' = files + 1
    /\ listens' = [listens EXCEPT ![d] = files + 1]
    /\ pc' = [pc EXCEPT ![d] = "identify"]

\* listen: the path is free, or it is in use and has to be probed
Listen(d) ==
    /\ pc[d] = "new"
    /\ \/ Bound(d)
       \/ file # 0 /\ pc' = [pc EXCEPT ![d] = "probe"] /\ UNCHANGED <<file, files, listens>>
    /\ UNCHANGED <<sockID, looked, displaced, spawn, swept, crashes>>

\* the probe: a listener that answers refuses this daemon, a file nobody answers is stale
Probe(d) ==
    /\ pc[d] = "probe"
    /\ pc' = [pc EXCEPT ![d] = IF file # 0 /\ \E e \in Daemons : listens[e] = file
                               THEN "refused" ELSE "stale"]
    /\ UNCHANGED <<socket, spawn, swept, crashes>>

\* os.Remove of the stale file: whatever is at the path by now goes
RemoveStale(d) ==
    /\ pc[d] = "stale"
    /\ displaced' = displaced \cup {e \in Daemons : file # 0 /\ listens[e] = file}
    /\ file' = 0
    /\ pc' = [pc EXCEPT ![d] = "again"]
    /\ UNCHANGED <<files, listens, sockID, looked, spawn, swept, crashes>>

ListenAgain(d) ==
    /\ pc[d] = "again"
    /\ \/ Bound(d)
       \/ file # 0 /\ pc' = [pc EXCEPT ![d] = "refused"] /\ UNCHANGED <<file, files, listens>>
    /\ UNCHANGED <<sockID, looked, displaced, spawn, swept, crashes>>

\* Bind, the end of it: what is at the path now is noted as this daemon's own
Identify(d) ==
    /\ pc[d] = "identify"
    /\ sockID' = [sockID EXCEPT ![d] = file]
    /\ pc' = [pc EXCEPT ![d] = "bound"]
    /\ UNCHANGED <<file, files, listens, looked, displaced, spawn, swept, crashes>>

-----------------------------------------------------------------------------
(* The sweep at startup *)

Entry(p) == [pid |-> p, since |-> proc[p].since]
Recorded == {p \in Pids : proc[p].by \in Daemons /\ Entry(p) \in record}

\* the entries whose pid is live with the start time on record
LiveEntriesByPid == {p \in Pids : \E e \in record : e.pid = p /\ proc[p].by # None}
LiveEntries == {p \in Pids : \E e \in record : e.pid = p /\ proc[p].since = e.since
                                               /\ proc[p].by # None}

Sweep(d) ==
    /\ pc[d] = "bound"
    /\ sweep' = [sweep EXCEPT ![d] = LiveEntries]
    /\ missed' = {p \in Pids \ (LiveEntries \cup excused) : proc[p].by \in Daemons /\ Gone(proc[p].by)}
    /\ struck' = {p \in LiveEntries : proc[p].by = "stranger"}
    /\ pc' = [pc EXCEPT ![d] = "sweeping"]
    /\ UNCHANGED <<socket, spawn, crashes>>

\* each is killed with its group and the record is emptied
SweepEnds(d) ==
    /\ pc[d] = "sweeping"
    /\ proc' = [p \in Pids |-> IF p \in sweep[d] THEN [by |-> None, since |-> 0] ELSE proc[p]]
    /\ record' = {}
    /\ excused' = (excused \cup Recorded) \ sweep[d]
    /\ pc' = [pc EXCEPT ![d] = "serving"]
    /\ UNCHANGED <<socket, born, call, swept, crashes>>

-----------------------------------------------------------------------------
(* Programs on a terminal *)

FreePid(p) == proc[p].by = None
Starts(p, who) ==
    /\ FreePid(p) /\ born < MaxBorn /\ born' = born + 1
    /\ proc' = [proc EXCEPT ![p] = [by |-> who, since |-> born + 1]]

\* drive: the program starts before anything is written down
StartProgram(d) ==
    /\ pc[d] = "serving" /\ call[d].at = "idle"
    /\ \E p \in Pids :
        /\ Starts(p, d)
        /\ call' = [call EXCEPT ![d] = [at |-> "started", pid |-> p, read |-> {}]]
        /\ excused' = excused \ {p}
    /\ UNCHANGED <<pc, socket, record, swept, crashes>>

Working(d) == pc[d] \in {"serving", "draining"}

\* Registry.Add and Remove read the record, and write it back with an entry more or less
ReadRecord(d) ==
    /\ Working(d) /\ call[d].at \in {"started", "killed"}
    /\ call' = [call EXCEPT ![d].read = record,
                            ![d].at = IF @ = "started" THEN "adding" ELSE "removing"]
    /\ UNCHANGED <<pc, socket, proc, born, record, excused, swept, crashes>>

WriteRecord(d) ==
    /\ Working(d) /\ call[d].at \in {"adding", "removing"}
    /\ LET p == call[d].pid
           kept == {e \in call[d].read : e.pid # p}
           new == IF call[d].at = "adding" /\ proc[p].by = d THEN kept \cup {Entry(p)} ELSE kept
       IN  /\ record' = new
           /\ excused' = excused \cup {q \in Recorded : (q # p \/ proc[p].by # d) /\ Entry(q) \notin new}
    /\ call' = [call EXCEPT ![d] = IF @.at = "adding" THEN [@ EXCEPT !.at = "running"] ELSE NoCall]
    /\ UNCHANGED <<pc, socket, proc, born, swept, crashes>>

\* the call ends: the group is killed, whether or not the program had exited
KillProgram(d) ==
    /\ Working(d) /\ call[d].at = "running"
    /\ proc' = [proc EXCEPT ![call[d].pid] = IF @.by = d THEN [by |-> None, since |-> 0] ELSE @]
    /\ call' = [call EXCEPT ![d].at = "killed"]
    /\ UNCHANGED <<pc, socket, born, record, excused, swept, crashes>>

\* an orphan exits on its own, and its pid may come back as somebody else's
ProgramExits ==
    /\ \E p \in Pids :
        /\ proc[p].by = "stranger" \/ (proc[p].by \in Daemons /\ Gone(proc[p].by))
        /\ proc' = [proc EXCEPT ![p] = [by |-> None, since |-> 0]]
    /\ UNCHANGED <<pc, socket, born, record, call, excused, swept, crashes>>

StrangerStarts ==
    /\ \E p \in Pids : Starts(p, "stranger")
    /\ UNCHANGED <<pc, socket, record, call, excused, swept, crashes>>

-----------------------------------------------------------------------------
(* Going away *)

\* Shutdown closes the listener first; the socket file stays
Drain(d) ==
    /\ pc[d] = "serving"
    /\ listens' = [listens EXCEPT ![d] = 0]
    /\ pc' = [pc EXCEPT ![d] = "draining"]
    /\ UNCHANGED <<file, files, sockID, looked, displaced, spawn, swept, crashes>>

\* removeOwnSocket: is the file at the path still the one bound here
OwnSocketUnchecked(d) == file # 0
OwnSocket(d) == file # 0 /\ (sockID[d] = 0 \/ file = sockID[d])

Unwritten(d) == IF call[d].at \in {"started", "adding"} THEN {call[d].pid} ELSE {}

\* the wait for the calls ends with them, or with the grace period
CheckSocket(d) ==
    /\ pc[d] = "draining"
    /\ pc' = [pc EXCEPT ![d] = IF OwnSocket(d) THEN "checked" ELSE "exited"]
    /\ looked' = [looked EXCEPT ![d] = file]
    /\ excused' = excused \cup Unwritten(d)
    /\ UNCHANGED <<file, files, listens, sockID, displaced, proc, born, record, call, swept, crashes>>

\* os.Remove, some time after the look
RemoveSocket(d) ==
    /\ pc[d] = "checked"
    /\ displaced' = displaced \cup {e \in Daemons : (file # looked[d] \/ d \in displaced) /\ listens[e] = file}
    /\ file' = 0
    /\ pc' = [pc EXCEPT ![d] = "exited"]
    /\ UNCHANGED <<files, listens, sockID, looked, spawn, swept, crashes>>

Crash(d) ==
    /\ pc[d] \in Alive \cup {"identify"} /\ crashes < MaxCrashes
    /\ crashes' = crashes + 1
    /\ pc' = [pc EXCEPT ![d] = "crashed"]
    /\ listens' = [listens EXCEPT ![d] = 0]
    /\ excused' = excused \cup Unwritten(d)
    /\ UNCHANGED <<file, files, sockID, looked, displaced, proc, born, record, call, swept>>

Next ==
    \/ \E d \in Daemons :
        \/ Listen(d) \/ Probe(d) \/ RemoveStale(d) \/ ListenAgain(d) \/ Identify(d)
        \/ Sweep(d) \/ SweepEnds(d)
        \/ StartProgram(d) \/ ReadRecord(d) \/ WriteRecord(d) \/ KillProgram(d)
        \/ Drain(d) \/ CheckSocket(d) \/ RemoveSocket(d) \/ Crash(d)
    \/ ProgramExits \/ StrangerStarts

Spec == Init /\ [][Next]_vars

-----------------------------------------------------------------------------
(***************************************************************************)
(* A daemon that serves is the one a client reaches: the file at the path  *)
(* is the socket it listens on, however the daemon before it drained or    *)
(* crashed.  The two windows the code leaves are excepted: two daemons     *)
(* that find the same stale file (listen), and a file replaced between     *)
(* removeOwnSocket's look and its unlink.                                  *)
(***************************************************************************)
SocketKept ==
    \A d \in Daemons \ displaced : pc[d] = "serving" => file = listens[d] /\ file # 0

(***************************************************************************)
(* A sweep kills every program a daemon that is gone left running, and     *)
(* nobody else's: not a process that came by a recorded pid later          *)
(* (proc.Registry.Sweep).  Excepted are programs whose entry was not yet   *)
(* written, or was overwritten by another daemon's write; the moment       *)
(* between the look at the process table and the kill is not covered.      *)
(***************************************************************************)
SweepSound == missed = {} /\ struck = {}

\* removeOwnSocket's comment: a replacement that reported itself listening can be reached
AlwaysReachable == \A d \in Daemons : pc[d] = "serving" => file = listens[d]

\* cmd/wavezd: everything still recorded belongs to a daemon that is gone
SweepsOnlyTheGone ==
    \A d \in Daemons : pc[d] = "sweeping" =>
        \A p \in sweep[d] : proc[p].by \in Daemons => Gone(proc[p].by)
=============================================================================

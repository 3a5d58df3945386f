-------------------------------- MODULE Lsp --------------------------------
(***************************************************************************)
(* The language server pool of a project (internal/lsp), for one language: *)
(* callers share one server process, started on the first request and      *)
(* restarted when a dependency manifest changes; each sends a file's text, *)
(* waits for the diagnostics of that version, and asks for renames and     *)
(* references.  A text is the number of the write that made it, so a       *)
(* larger one is newer.                                                    *)
(***************************************************************************)
EXTENDS Naturals, Sequences

CONSTANTS
    Users,        \* the gates and tools of the threads
    Files,
    MaxClients,   \* processes ever started
    MaxWrites,    \* writes to a file
    MaxCalls,     \* requests in all
    Versioned     \* the server puts versions on what it publishes

VARIABLES
    disk,         \* [Files -> Nat]: each file's text
    manifest,     \* Nat: the manifests' stamp
    current,      \* the pool's entry: 1, and 2 after a Close emptied the pool
    entry,        \* [1..2 -> [client, stamp, lock]]
    client,       \* [1..MaxClients -> process and its client's records]
    started,      \* how many were
    pc, job,      \* each caller's step and what it holds
    calls, closed,
    overlap       \* ghost: files two callers were syncing at once
vars == <<disk, manifest, current, entry, client, started, pc, job, calls, closed, overlap>>

NoJob == [e |-> 0, c |-> 0, f |-> 0, text |-> 0, ver |-> 0, got |-> 0]
NoPub == [ver |-> 0, text |-> 0]
Fresh == [up |-> TRUE, shut |-> FALSE, versions |-> [f \in Files |-> 0], sent |-> <<>>,
          docs |-> [f \in Files |-> NoPub], published |-> [f \in Files |-> NoPub]]
NotStarted == [Fresh EXCEPT !.up = FALSE]

Init ==
    /\ disk = [f \in Files |-> 1] /\ manifest = 0
    /\ current = 1 /\ entry = [e \in 1..2 |-> [client |-> 0, stamp |-> 0, lock |-> "nobody"]]
    /\ client = [c \in 1..MaxClients |-> NotStarted] /\ started = 0
    /\ pc = [u \in Users |-> "idle"] /\ job = [u \in Users |-> NoJob]
    /\ calls = 0 /\ closed = FALSE /\ overlap = {}

To(u, p) == pc' = [pc EXCEPT ![u] = p]

\* conn.kill: the connection and the process go, and later calls are refused.
Killed(c) == [client[c] EXCEPT !.up = FALSE, !.shut = TRUE]

---------------------------------------------------------------------------
(* Pool.Client *)

\* The entry is found or made under the pool's lock,
Find(u, f) ==
    /\ pc[u] = "idle" /\ calls < MaxCalls
    /\ calls' = calls + 1
    /\ job' = [job EXCEPT ![u] = [NoJob EXCEPT !.e = current, !.f = f]]
    /\ To(u, "entry")
    /\ UNCHANGED <<disk, manifest, current, entry, client, started, closed, overlap>>

\* manifestStamp
Stale(e) == entry[e].client # 0 /\ entry[e].stamp # manifest

\* A plausible slip: the server of an old stamp is left running.
CloseOldNot(e) == client

\* Client.Close of the server being replaced
CloseOld(e) == IF Stale(e) THEN [client EXCEPT ![entry[e].client] = Killed(entry[e].client)] ELSE client

\* and its server under the entry's own: the running one, or a new one in its
\* place once the old is closed. The lock is held until the handshake ends.
Enter(u) ==
    LET e == job[u].e
    IN  /\ pc[u] = "entry" /\ entry[e].lock = "nobody"
        /\ IF entry[e].client # 0 /\ ~Stale(e)
           THEN /\ job' = [job EXCEPT ![u].c = entry[e].client]
                /\ To(u, "have") /\ UNCHANGED <<entry, client, started>>
           ELSE /\ started < MaxClients /\ started' = started + 1
                /\ client' = [CloseOld(e) EXCEPT ![started + 1] = Fresh]
                /\ entry' = [entry EXCEPT ![e] = [client |-> 0, stamp |-> manifest, lock |-> u]]
                /\ job' = [job EXCEPT ![u].c = started + 1]
                /\ To(u, "dial")
        /\ UNCHANGED <<disk, manifest, current, calls, closed, overlap>>

\* dial: a failed handshake kills the process; the stamp is the one read
\* before it.
Dialed(u, ok) ==
    LET e == job[u].e
    IN  /\ pc[u] = "dial"
        /\ entry' = [entry EXCEPT ![e].lock = "nobody", ![e].client = IF ok THEN job[u].c ELSE 0]
        /\ client' = IF ok THEN client ELSE [client EXCEPT ![job[u].c] = Killed(job[u].c)]
        /\ To(u, IF ok THEN "have" ELSE "idle")
        /\ UNCHANGED <<disk, manifest, current, started, job, calls, closed, overlap>>

---------------------------------------------------------------------------
(* Client.Sync *)

Read(u) ==
    /\ pc[u] = "have"
    /\ job' = [job EXCEPT ![u].text = disk[job[u].f]]
    /\ overlap' = IF \E v \in Users \ {u} : pc[v] \in {"read", "numbered"} /\ job[v].f = job[u].f
                  THEN overlap \cup {job[u].f} ELSE overlap
    /\ To(u, "read")
    /\ UNCHANGED <<disk, manifest, current, entry, client, started, calls, closed>>

Number(u) ==
    LET c == job[u].c  n == client[c].versions[job[u].f] + 1
    IN  /\ pc[u] = "read"
        /\ client' = [client EXCEPT ![c].versions[job[u].f] = n]
        /\ job' = [job EXCEPT ![u].ver = n]
        /\ To(u, "numbered")
        /\ UNCHANGED <<disk, manifest, current, entry, started, calls, closed, overlap>>

\* conn.send: didOpen or didChange, refused once the connection is closed
Send(u) ==
    LET c == job[u].c
    IN  /\ pc[u] = "numbered"
        /\ IF client[c].up
           THEN /\ client' = [client EXCEPT ![c].sent =
                       Append(@, [f |-> job[u].f, ver |-> job[u].ver, text |-> job[u].text])]
                /\ To(u, "wait")
           ELSE To(u, "idle") /\ UNCHANGED client
        /\ UNCHANGED <<disk, manifest, current, entry, started, job, calls, closed, overlap>>

---------------------------------------------------------------------------
(* Client.Diagnostics *)

\* A plausible slip: any publication for the file answers.
atLeastAny(pub, want) == pub # NoPub

atLeast(pub, want) == pub # NoPub /\ (~Versioned \/ pub.ver >= want)

Diagnosed(u) ==
    LET pub == client[job[u].c].published[job[u].f]
    IN  /\ pc[u] = "wait" /\ atLeast(pub, job[u].ver)
        /\ job' = [job EXCEPT ![u].got = pub.text]
        /\ To(u, "told")
        /\ UNCHANGED <<disk, manifest, current, entry, client, started, calls, closed, overlap>>

\* The caller's deadline: a dead server is told from a slow one.
Expire(u) ==
    /\ pc[u] = "wait"
    /\ To(u, IF client[job[u].c].up THEN "slow" ELSE "exited")
    /\ UNCHANGED <<disk, manifest, current, entry, client, started, job, calls, closed, overlap>>

Return(u) ==
    /\ pc[u] \in {"told", "slow", "exited"}
    /\ To(u, "idle") /\ job' = [job EXCEPT ![u] = NoJob]
    /\ UNCHANGED <<disk, manifest, current, entry, client, started, calls, closed, overlap>>

\* Rename and References: answered by the server, or an error once the
\* connection is closed; either way no state of the pool changes.
Ask(u) ==
    /\ pc[u] = "have"
    /\ To(u, "idle") /\ job' = [job EXCEPT ![u] = NoJob]
    /\ UNCHANGED <<disk, manifest, current, entry, client, started, calls, closed, overlap>>

---------------------------------------------------------------------------
(* The server, external, and the tree *)

Receive(c) ==
    LET d == Head(client[c].sent)
    IN  /\ client[c].up /\ client[c].sent # <<>>
        /\ client' = [client EXCEPT ![c].sent = Tail(@), ![c].docs[d.f] = [ver |-> d.ver, text |-> d.text]]
        /\ UNCHANGED <<disk, manifest, current, entry, started, pc, job, calls, closed, overlap>>

\* onNotify records what the server published last for a file.
Publish(c, f) ==
    /\ client[c].up /\ client[c].docs[f] # NoPub
    /\ client' = [client EXCEPT ![c].published[f] = client[c].docs[f]]
    /\ UNCHANGED <<disk, manifest, current, entry, started, pc, job, calls, closed, overlap>>

Crash(c) ==
    /\ client[c].up
    /\ client' = [client EXCEPT ![c].up = FALSE]
    /\ UNCHANGED <<disk, manifest, current, entry, started, pc, job, calls, closed, overlap>>

Write(f) ==
    /\ disk[f] < MaxWrites
    /\ disk' = [disk EXCEPT ![f] = @ + 1]
    /\ UNCHANGED <<manifest, current, entry, client, started, pc, job, calls, closed, overlap>>

ManifestChanged ==
    /\ manifest = 0 /\ manifest' = 1
    /\ UNCHANGED <<disk, current, entry, client, started, pc, job, calls, closed, overlap>>

\* Pool.Close empties the pool under its lock and closes what the entries
\* hold, without taking an entry's own lock.
Close ==
    LET c == entry[current].client
    IN  /\ ~closed /\ closed' = TRUE
        /\ current' = 2
        /\ client' = IF c # 0 THEN [client EXCEPT ![c] = Killed(c)] ELSE client
        /\ UNCHANGED <<disk, manifest, entry, started, pc, job, calls, overlap>>

Next ==
    \/ \E u \in Users, f \in Files : Find(u, f)
    \/ \E u \in Users : \/ Enter(u) \/ Read(u) \/ Number(u) \/ Send(u) \/ Diagnosed(u) \/ Expire(u)
                        \/ Return(u) \/ Ask(u)
    \/ \E u \in Users, ok \in BOOLEAN : Dialed(u, ok)
    \/ \E c \in 1..MaxClients : Receive(c) \/ Crash(c)
    \/ \E c \in 1..MaxClients, f \in Files : Publish(c, f)
    \/ \E f \in Files : Write(f)
    \/ ManifestChanged
    \/ Close

Spec == Init /\ [][Next]_vars

---------------------------------------------------------------------------
(* Properties *)

\* The diagnostics a caller is handed are about the text it sent or a later
\* one, across other callers' versions of the file and a restarted server, as
\* long as no two callers sync that file at once and the server says which
\* version it speaks of.
DiagnosticsCurrent ==
    Versioned => \A u \in Users : pc[u] = "told" /\ job[u].f \notin overlap => job[u].got >= job[u].text

\* Until the pool is closed one process serves the language: a replaced one is
\* down before its successor starts, and a failed handshake leaves none.
OneServer == ~closed => \A c, d \in 1..MaxClients : client[c].up /\ client[d].up => c = d

---------------------------------------------------------------------------
(* Stated by the code's comments, and false. *)

\* "Every method is safe for concurrent use": two syncs of one file number and
\* send their texts in either order, and the larger version may be the older text.
DiagnosticsCurrentAlways ==
    Versioned => \A u \in Users : pc[u] = "told" => job[u].got >= job[u].text

\* "Close shuts every running server down": not one whose handshake is under way.
NoneAfterClose == closed /\ (\A u \in Users : pc[u] \in {"idle", "told"}) => \A c \in 1..MaxClients : ~client[c].up

\* "Started the first time ... is requested": a server that crashed is handed
\* out again, for the life of the pool or until a manifest changes.
CrashedReplaced ==
    \A u \in Users : pc[u] = "have" => client[job[u].c].up \/ client[job[u].c].shut
=============================================================================

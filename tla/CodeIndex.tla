----------------------------- MODULE CodeIndex -----------------------------
(***************************************************************************)
(* The code index (internal/codeintel: indexer.go, index.go, edges.go):    *)
(* rows for the files of a tree that is edited by anyone, brought in step  *)
(* by every query, and a copy of codegraph's edges that is taken again     *)
(* when a pass wrote something.                                            *)
(*                                                                         *)
(* A file is its text; its symbols and its hash are the text.  A pass      *)
(* lists the tree, then reads file after file in one transaction, and the  *)
(* tree may change between any two of these steps.  Every file has one     *)
(* edge, known by its text, so the graph is the texts it was built from.   *)
(***************************************************************************)
EXTENDS Integers, Functions

CONSTANTS Clients,       \* threads whose tools query the index
          Files,         \* 1..n, in the order of the walk
          Texts, Size,   \* what a file may hold, and its bytes
          InitialTree,   \* [Files -> Texts \cup {Absent}]
          MaxFileBytes, MaxIndexBytesPerPass, MaxContentIndexBytes,
          Coarse,        \* two writes may leave one modification time
          MaxCalls, MaxEdits, MaxFaults

Bg == "start"            \* the goroutine of Start
Nobody == "nobody"
Absent == "absent"
NoGraph == <<>>
Actors == Clients \cup {Bg}

VARIABLES tree,          \* [Files -> [text, mtime]]
          rows,          \* [Files -> row]: what the store has committed
          graph,         \* the texts codegraph's own index was built from, or NoGraph
          edges,         \* the edges table
          copied, building, initializing,
          mu, edgesMu,   \* who holds each lock
          pass,          \* the pass under way, of mu's holder
          pc, call, calls, edits, faults

vars == <<tree, rows, graph, edges, copied, building, initializing, mu, edgesMu, pass, pc, call,
          calls, edits, faults>>

NoRow == [text |-> Absent, mtime |-> 0, size |-> 0, body |-> FALSE]
\* todo: the files a pass has still to read, each with the time and size it was listed with.
NoPass == [todo |-> <<>>, seen |-> {}, rows |-> <<>>, used |-> 0, content |-> TRUE,
           indexed |-> FALSE, deferred |-> FALSE]

\* mode is the query's; next what follows the walk; changed, indexed,
\* deferred and content what the last walk reported; note says the answer
\* came while the first pass ran; unavailable, why there are no edges; quiet
\* is a ghost: no edit since the call began.
NoCall == [mode |-> "none", next |-> "none", changed |-> FALSE, deferred |-> FALSE, content |-> FALSE,
           note |-> FALSE, unavailable |-> FALSE, quiet |-> FALSE, keys |-> {}]

\* Start runs at once, over a store that is empty.
Init ==
    /\ tree = [f \in Files |-> [text |-> InitialTree[f], mtime |-> 0]]
    /\ rows = [f \in Files |-> NoRow] /\ graph = NoGraph /\ edges = {}
    /\ copied = FALSE /\ building = TRUE /\ initializing = FALSE
    /\ mu = Nobody /\ edgesMu = Nobody /\ pass = NoPass
    /\ pc = [a \in Actors |-> IF a = Bg THEN "walk" ELSE "idle"]
    /\ call = [a \in Actors |-> IF a = Bg THEN [NoCall EXCEPT !.next = "drain"] ELSE NoCall]
    /\ calls = 0 /\ edits = 0 /\ faults = 0

index == <<rows, edges, graph>>
flags == <<copied, building, initializing>>
locks == <<mu, edgesMu, pass>>
counters == <<calls, edits, faults>>

---------------------------------------------------------------------------
(* One pass: Store.Index under mu *)

Bytes(f) == IF tree[f].text = Absent THEN 0 ELSE Size[tree[f].text]

\* scanFiles: the files of a size the index reads, with their times.
scanFiles == {f \in Files : tree[f].text # Absent /\ Bytes(f) <= MaxFileBytes}
Claimed == FoldFunctionOnSet(+, 0, [f \in Files |-> Bytes(f)], scanFiles)

\* The pass begins: the listing, and dropContentRows.
Walk(a) ==
    LET content == Claimed <= MaxContentIndexBytes
    IN  /\ pc[a] = "walk" /\ mu = Nobody
        /\ mu' = a
        /\ pass' = [NoPass EXCEPT
             !.todo = [f \in scanFiles |-> [mtime |-> tree[f].mtime, size |-> Bytes(f)]],
             !.seen = scanFiles, !.content = content,
             !.rows = [f \in Files |-> [rows[f] EXCEPT !.body = @ /\ content]]]
        /\ pc' = [pc EXCEPT ![a] = "index"]
        /\ UNCHANGED <<tree, index, flags, edgesMu, call, counters>>

\* A plausible slip: the size alone tells a file is unchanged.
sameStatBySize(row, sf) == row.text # Absent /\ row.size = sf.size
\* A row whose time and size are the listed ones is taken for current.
sameStat(row, sf) == row.text # Absent /\ row.mtime = sf.mtime /\ row.size = sf.size

\* The walk's order: f is the file the pass reads next.
Due(f) == f \in DOMAIN pass.todo /\ \A g \in DOMAIN pass.todo : f <= g

\* indexOneFile, from a file as it is when it is read.
indexOneFile(p, f, text) ==
    LET sf == p.todo[f]
        row == p.rows[f]
        rest == [p EXCEPT !.todo = [g \in DOMAIN p.todo \ {f} |-> p.todo[g]]]
    IN  IF sameStat(row, sf) \/ row.text = text THEN rest
        ELSE IF p.used >= MaxIndexBytesPerPass THEN [rest EXCEPT !.deferred = TRUE]
        ELSE [rest EXCEPT !.used = @ + Size[text], !.indexed = TRUE,
                !.rows[f] = [text |-> text, mtime |-> sf.mtime, size |-> sf.size, body |-> p.content]]

IndexOne(a, f) ==
    /\ pc[a] = "index" /\ Due(f)
    /\ sameStat(pass.rows[f], pass.todo[f]) \/ tree[f].text # Absent
    /\ pass' = indexOneFile(pass, f, tree[f].text)
    /\ UNCHANGED <<tree, index, flags, mu, edgesMu, pc, call, counters>>

\* A plausible slip: Start stops after one pass.
drainOnce(indexed, deferred) == "gate"
\* drainPasses: another pass while one left something and wrote something.
drainPasses(indexed, deferred) == IF deferred /\ indexed THEN "drain" ELSE "gate"

\* What follows the walk: for Start the next pass, or the walk of InitEdges.
AfterWalk(a, indexed, deferred) ==
    IF call[a].next = "drain"
    THEN /\ pc' = [pc EXCEPT ![a] = "walk"]
         /\ call' = [call EXCEPT ![a].next = drainPasses(indexed, deferred)]
    ELSE /\ pc' = [pc EXCEPT ![a] = call[a].next]
         /\ call' = [call EXCEPT ![a].changed = indexed \/ \E f \in Files \ pass.seen : rows[f].text # Absent,
                                 ![a].deferred = deferred, ![a].content = pass.content]

\* removeStaleFiles and the commit.
Commit(a) ==
    /\ pc[a] = "index" /\ DOMAIN pass.todo = {}
    /\ rows' = [f \in Files |-> IF f \in pass.seen THEN pass.rows[f] ELSE NoRow]
    /\ AfterWalk(a, pass.indexed, pass.deferred)
    /\ mu' = Nobody /\ pass' = NoPass
    /\ UNCHANGED <<tree, graph, edges, flags, edgesMu, counters>>

---------------------------------------------------------------------------
(* The end of a call *)

\* A plausible slip: Start says it is done before it builds the graph.
stillBuildingEarly(a, at) == building /\ ~(a = Bg /\ at \in {"gate", "init", "end"})
\* Start's deferred building.Store(false), at its very end.
stillBuilding(a, at) == building /\ ~(a = Bg /\ at = "end")

\* a goes on at `at'; what ends Start ends its building.
GoesTo(a, at) ==
    /\ pc' = [pc EXCEPT ![a] = IF at = "end" /\ a # Bg THEN "idle" ELSE at]
    /\ building' = stillBuilding(a, at)

\* A pass that fails is rolled back: a file is gone that was listed, or the
\* context is done.  Start goes on to InitEdges and drops the error; a query
\* returns it.
PassFails(a) ==
    LET gone == \E f \in Files : /\ Due(f) /\ tree[f].text = Absent
                                  /\ ~sameStat(pass.rows[f], pass.todo[f])
    IN  /\ pc[a] = "index"
        /\ \/ gone /\ UNCHANGED faults
           \/ faults < MaxFaults /\ faults' = faults + 1
        /\ mu' = Nobody /\ pass' = NoPass
        /\ GoesTo(a, IF call[a].next = "drain" THEN "walk" ELSE "end")
        /\ call' = [call EXCEPT ![a].next = "gate"]
        /\ UNCHANGED <<tree, index, copied, initializing, edgesMu, calls, edits>>

---------------------------------------------------------------------------
(* Edges *)

\* refreshAndCopy, with edgesMu: the copy is kept when the walk wrote nothing.
Gate(a) ==
    LET reuse == copied /\ ~call[a].changed
    IN  /\ pc[a] = "gate" /\ edgesMu = Nobody
        /\ edgesMu' = IF reuse THEN Nobody ELSE a
        /\ GoesTo(a, IF reuse THEN (IF a = Bg THEN "end" ELSE "refresh")
                     ELSE IF a = Bg THEN "init" ELSE "sync")
        /\ UNCHANGED <<tree, index, copied, initializing, mu, pass, call, counters>>

\* The copy ended: with edges, or with the reason there are none.
Copied(a, ok) ==
    /\ copied' = ok /\ edgesMu' = Nobody
    /\ call' = [call EXCEPT ![a].unavailable = ~ok, ![a].keys = {}]
    /\ GoesTo(a, IF a = Bg THEN "end" ELSE "refresh")
    /\ UNCHANGED <<tree, rows, mu, pass, calls, edits>>

\* EdgeAdapter.init: a graph that is there is kept; the build is another
\* process and takes its time.
InitBegins ==
    /\ pc[Bg] = "init"
    /\ initializing' = (graph = NoGraph)
    /\ pc' = [pc EXCEPT ![Bg] = IF graph = NoGraph THEN "building" ELSE "sync"]
    /\ UNCHANGED <<tree, index, copied, building, locks, call, counters>>
InitEnds ==
    /\ pc[Bg] = "building" /\ initializing' = FALSE
    /\ \/ /\ graph' = [f \in Files |-> tree[f].text]
          /\ pc' = [pc EXCEPT ![Bg] = "sync"]
          /\ UNCHANGED <<tree, rows, edges, copied, building, locks, call, counters>>
       \/ faults < MaxFaults /\ faults' = faults + 1 /\ Copied(Bg, FALSE) /\ UNCHANGED <<graph, edges>>

\* sync: codegraph reads the tree; without a graph, or a codegraph, there is
\* nothing to copy and that is no error.
Sync(a) ==
    /\ pc[a] = "sync" /\ UNCHANGED initializing
    /\ \/ /\ graph # NoGraph /\ graph' = [f \in Files |-> tree[f].text]
          /\ pc' = [pc EXCEPT ![a] = "keys"]
          /\ UNCHANGED <<tree, rows, edges, copied, building, locks, call, counters>>
       \/ graph = NoGraph /\ Copied(a, FALSE) /\ UNCHANGED <<graph, edges, faults>>
       \/ /\ graph # NoGraph /\ faults < MaxFaults /\ faults' = faults + 1
          /\ Copied(a, FALSE) /\ UNCHANGED <<graph, edges>>

\* readCodegraphEdges, symbolKeys and resolveEdges: an edge whose symbol has
\* no row is left out.
Resolve(a) ==
    /\ pc[a] = "keys"
    /\ call' = [call EXCEPT ![a].keys = {f \in Files : graph[f] # Absent /\ rows[f].text = graph[f]}]
    /\ pc' = [pc EXCEPT ![a] = "put"]
    /\ UNCHANGED <<tree, index, flags, locks, counters>>

\* replaceEdges, which waits for the pass that writes.
Replace(a) ==
    /\ pc[a] = "put" /\ mu = Nobody
    /\ edges' = {<<f, graph[f]>> : f \in call[a].keys}
    /\ Copied(a, TRUE) /\ UNCHANGED <<graph, initializing, faults>>
ReplaceFails(a) ==
    /\ pc[a] = "put" /\ faults < MaxFaults /\ faults' = faults + 1
    /\ edgesMu' = Nobody /\ GoesTo(a, "end")
    /\ UNCHANGED <<tree, index, copied, initializing, mu, pass, call, calls, edits>>

---------------------------------------------------------------------------
(* Queries *)

Search(c, mode) ==
    /\ pc[c] = "idle" /\ calls < MaxCalls /\ calls' = calls + 1
    /\ call' = [call EXCEPT ![c] = [NoCall EXCEPT !.mode = mode, !.quiet = TRUE]]
    /\ pc' = [pc EXCEPT ![c] = IF mode = "graph" THEN "edges" ELSE "refresh"]
    /\ UNCHANGED <<tree, index, flags, locks, edits, faults>>

RefreshEdges(c) ==
    LET wait == building \/ initializing
    IN  /\ pc[c] = "edges"
        /\ call' = [call EXCEPT ![c].unavailable = wait, ![c].next = "gate"]
        /\ pc' = [pc EXCEPT ![c] = IF wait THEN "refresh" ELSE "walk"]
        /\ UNCHANGED <<tree, index, flags, locks, counters>>

Refresh(c) ==
    /\ pc[c] = "refresh"
    /\ call' = [call EXCEPT ![c].note = building, ![c].next = "read"]
    /\ pc' = [pc EXCEPT ![c] = IF building THEN "read" ELSE "walk"]
    /\ UNCHANGED <<tree, index, flags, locks, counters>>

\* Store.Search and CountMatches, over what is committed.
Read(c) ==
    /\ pc[c] \in {"read", "count"}
    /\ pc' = [pc EXCEPT ![c] = IF pc[c] = "read" THEN "count" ELSE "idle"]
    /\ UNCHANGED <<tree, index, flags, locks, call, counters>>

\* Anyone changes a file.
Edit(f, text) ==
    /\ text # tree[f].text /\ edits < MaxEdits /\ edits' = edits + 1
    /\ \E t \in {edits + 1} \cup (IF Coarse THEN {tree[f].mtime} ELSE {}) :
         tree' = [tree EXCEPT ![f] = [text |-> text, mtime |-> t]]
    /\ call' = [a \in Actors |-> [call[a] EXCEPT !.quiet = FALSE]]
    /\ UNCHANGED <<index, flags, locks, pc, calls, faults>>

Next ==
    \/ \E a \in Actors : Walk(a) \/ (\E f \in Files : IndexOne(a, f)) \/ Commit(a) \/ PassFails(a)
    \/ \E a \in Actors : Gate(a) \/ Sync(a) \/ Resolve(a) \/ Replace(a) \/ ReplaceFails(a)
    \/ InitBegins \/ InitEnds
    \/ \E c \in Clients, mode \in {"text", "graph"} : Search(c, mode)
    \/ \E c \in Clients : RefreshEdges(c) \/ Refresh(c) \/ Read(c)
    \/ \E f \in Files, text \in Texts \cup {Absent} : Edit(f, text)

Spec == Init /\ [][Next]_vars

---------------------------------------------------------------------------
(* Properties *)

Shown(f) == IF f \in scanFiles THEN tree[f].text ELSE Absent

\* A query that says neither that the index is being built nor that files
\* were left for a later pass, and during which nothing was edited, answers
\* from the tree as it is: whatever passes ran, failed or were cut short
\* before it, and whatever was edited between their listing and their reading.
SearchCurrent ==
    \A c \in Clients :
        pc[c] = "read" /\ call[c].quiet /\ ~call[c].note /\ ~call[c].deferred
          => \A f \in Files : rows[f].text = Shown(f)

\* When Start is done, over a tree nobody edited and with nothing failed,
\* every file has its rows, however many passes that took.
StartCovers == pc[Bg] = "end" /\ edits = 0 /\ faults = 0 => \A f \in Files : rows[f].text = Shown(f)

\* No query waits for edgesMu while the graph is built for the first time.
NoQueryBehindInit == initializing => \A c \in Clients : pc[c] # "gate"

IndexSound == SearchCurrent /\ StartCovers /\ NoQueryBehindInit

---------------------------------------------------------------------------
(* Stated by the code's comments, and false. *)

\* indexer.go: "a Refresh that wrote no file and removed none cannot have
\* changed the graph".  A text query's refresh takes the change, and the next
\* graph query reuses the edges of before it.
EdgesCurrent ==
    \A c \in Clients :
        pc[c] = "read" /\ call[c].mode = "graph" /\ call[c].quiet /\ ~call[c].note
          /\ ~call[c].deferred /\ ~call[c].unavailable
          => edges = {<<f, Shown(f)>> : f \in scanFiles}

\* index.go: ContentIndexed is "whether whole file text is in the trigram
\* table".  Text left out while the tree is past the bound does not come in
\* when it shrinks.
ContentComplete ==
    \A c \in Clients :
        pc[c] = "read" /\ call[c].quiet /\ ~call[c].note /\ ~call[c].deferred /\ call[c].content
          => \A f \in scanFiles : rows[f].body
=============================================================================

--------------------------- MODULE ServicesProofs ---------------------------
(***************************************************************************)
(* Proofs about the services of a run, for all values of the constants:    *)
(* its undo, the gates' judgement, daemons and projects, and a language    *)
(* server.  Each part has a section with its inductive invariant; the      *)
(* theorems about all of them are at the end.                              *)
(***************************************************************************)
EXTENDS MCServices, FiniteSetTheorems, SequenceTheorems, WellFoundedInduction, TLAPS

-----------------------------------------------------------------------------
(* The inductive invariant *)

Contents == [Files -> 0..MaxWrites]
Op == [repo : Repos, tree : Contents]
Point == [repo : Repos, op : Nat, file : Files]

Stages == {"none", "survey", "nothing", "preview", "perform", "verify", "restored", "failed"}
Undos == [at : Stages, thread : Threads \cup {NoUndo.thread}, want : Nat, edits : Seq(Point),
          targets : UNION {[R -> Nat] : R \in SUBSET Repos}, dirty : BOOLEAN,
          scoped : BOOLEAN, left : SUBSET Repos, since : Nat]

Types ==
    /\ tree \in [Repos -> Contents]
    /\ ops \in Seq(Op)
    /\ writes \in 0..MaxWrites
    /\ first \in [Threads -> Nat] /\ baseline \in [Threads -> Nat]
    /\ log \in [Threads -> Seq(Point)] /\ edits \in [Threads -> Seq(Point)]
    /\ call \in [Threads -> [at : {"none", "claimed", "written", "freed"}, repo : Repos,
                             file : Files \cup {NoCall.file}]]
    /\ \A t \in Threads : call[t].at # "none" => call[t].file \in Files
    /\ undo \in Undos

\* op is an operation of repository r in the operation log os.
Of(os, op, r) == op \in 1..Len(os) /\ os[op].repo = r

\* The edit points es are of operations, in os, of the repositories they name.
Points(os, es) == \A i \in DOMAIN es : Of(os, es[i].op, es[i].repo)

\* What is remembered of a run is about the repositories it says it is about.
Recorded ==
    \A t \in Threads : /\ Points(ops, log[t]) /\ Points(ops, edits[t])
                       /\ first[t] # NoOp => Of(ops, first[t], Home)
                       /\ baseline[t] # NoOp => Of(ops, baseline[t], Home)

\* A restore under way has targets of its thread's own, fixed as it was asked
\* for, in the repositories they belong to.
Aimed ==
    IF undo.at = "none"
    THEN DOMAIN undo.targets = {} /\ undo.left = {}
    ELSE /\ undo.thread \in Threads /\ baseline[undo.thread] # NoOp
         /\ undo.left \subseteq DOMAIN undo.targets
         /\ \A r \in DOMAIN undo.targets :
              /\ Of(ops, undo.targets[r], r)
              /\ \/ undo.targets[r] = baseline[undo.thread]
                 \/ \E i \in DOMAIN undo.edits : undo.edits[i].op = undo.targets[r]

Checked(r) == IF undo.scoped THEN EditedFiles(undo.edits, r) ELSE Files

\* Repository r is as its target has it, but for writes since the confirmation.
Reverted(r) ==
    \A f \in Checked(r) : tree[r][f] = ops[undo.targets[r]].tree[f] \/ tree[r][f] > undo.since

\* What a restore has gone through stays reverted while it goes through the rest.
Progressed ==
    /\ undo.at \in {"perform", "verify"} =>
          undo.since <= writes /\ \A r \in DOMAIN undo.targets \ undo.left : Reverted(r)
    /\ undo.at = "restored" =>
          undo.since <= writes /\ \A r \in DOMAIN undo.targets : Reverted(r)

UndoInv == Types /\ Recorded /\ Aimed /\ Progressed

-----------------------------------------------------------------------------
(* Lemmas *)

\* Every nonempty set of numbers has a least one.
LEMMA LeastNumber ==
    ASSUME NEW T \in SUBSET Nat, T # {}
    PROVE  \E x \in T : \A y \in T : x <= y
<1> DEFINE Below == OpToRel(<, Nat)
<1>1. IsWellFoundedOn(Below, Nat)
  BY NatLessThanWellFounded DEF Below
<1> HIDE DEF Below
<1>2. \E x \in T : \A y \in T : ~(<<y, x>> \in Below)
  BY <1>1, WFMin
<1>3. PICK x \in T : \A y \in T : ~(<<y, x>> \in Below)
  BY <1>2
<1>4. \A y \in T : <<y, x>> \in Below <=> y < x
  BY Zenon DEF Below, OpToRel
<1>5. \A y \in T : ~(y < x)
  BY <1>3, <1>4, Zenon
<1>6. \A y \in T : y \in Nat /\ x \in Nat
  OBVIOUS
<1> QED
  BY <1>5, <1>6

\* The project's own repository is one of the repositories.
LEMMA HomeRepo == Home \in Repos /\ Home \in Nat /\ Repos \subseteq Nat
<1> DEFINE n == Cardinality(Repos)
<1>1. Repos # {} /\ Repos = 1..n /\ n \in Nat
  BY UndoAssumption, FS_CardinalityType
<1> HIDE DEF n
<1>2. 1 \in 1..n
  BY <1>1
<1> QED
  BY <1>1, <1>2 DEF Home

\* A thread with an edit point in a repository has a last one there.
LEMMA LastIndex ==
    ASSUME NEW es \in Seq(Point), NEW r, \E i \in DOMAIN es : es[i].repo = r
    PROVE  \E i \in DOMAIN es : es[i].repo = r /\ \A j \in DOMAIN es : es[j].repo = r => j <= i
<1> DEFINE n == Len(es)
           T == {d \in Nat : d < n /\ es[n - d].repo = r}
<1>1. n \in Nat /\ DOMAIN es = 1..n
  OBVIOUS
<1> HIDE DEF n
<1>2. T \in SUBSET Nat /\ T # {}
  <2>1. PICK i \in 1..n : es[i].repo = r
    BY <1>1
  <2>2. n - i \in Nat /\ n - i < n /\ n - (n - i) = i
    BY <1>1
  <2>3. n - i \in T
    BY <2>1, <2>2
  <2> QED
    BY <2>3
<1>3. PICK d \in T : \A e \in T : d <= e
  <2> HIDE DEF T
  <2> QED
    BY <1>2, LeastNumber
<1>4. d \in Nat /\ d < n /\ es[n - d].repo = r /\ n - d \in 1..n
  BY <1>1, <1>3
<1>5. ASSUME NEW j \in 1..n, es[j].repo = r
      PROVE  j <= n - d
  <2>1. n - j \in Nat /\ n - j < n /\ n - (n - j) = j
    BY <1>1
  <2>2. n - j \in T
    BY <1>5, <2>1
  <2>3. d <= n - j
    BY <1>3, <2>2
  <2> QED
    BY <1>1, <1>4, <2>3
<1> QED
  BY <1>1, <1>4, <1>5

\* restoreTargets aims at the thread's own operations, each in its repository.
LEMMA WholeTargetsAim ==
    ASSUME Types, Recorded, NEW t \in Threads, baseline[t] # NoOp,
           NEW es \in Seq(Point), Points(ops, es)
    PROVE  /\ \E R \in SUBSET Repos : WholeTargets(t, es) \in [R -> Nat]
           /\ \A r \in DOMAIN WholeTargets(t, es) :
                /\ Of(ops, WholeTargets(t, es)[r], r)
                /\ \/ WholeTargets(t, es)[r] = baseline[t]
                   \/ \E i \in DOMAIN es : es[i].op = WholeTargets(t, es)[r]
<1> DEFINE edited == {es[i].repo : i \in DOMAIN es}
           LastOf(r) == CHOOSE i \in DOMAIN es :
                          es[i].repo = r /\ \A j \in DOMAIN es : es[j].repo = r => j <= i
<1>1. WholeTargets(t, es) =
        [r \in edited \cup {Home} |-> IF r \in edited THEN es[LastOf(r)].op ELSE baseline[t]]
  BY Zenon DEF WholeTargets
<1>2. \A i \in DOMAIN es : es[i] \in Point
  OBVIOUS
<1>3. edited \cup {Home} \in SUBSET Repos
  BY <1>2, HomeRepo DEF Point
<1>4. ASSUME NEW r \in edited
      PROVE  LastOf(r) \in DOMAIN es /\ es[LastOf(r)].repo = r
  <2>1. \E i \in DOMAIN es : es[i].repo = r
    OBVIOUS
  <2>2. \E i \in DOMAIN es : es[i].repo = r /\ \A j \in DOMAIN es : es[j].repo = r => j <= i
    BY <2>1, LastIndex
  <2> QED
    BY <2>2
<1> HIDE DEF LastOf
<1>5. \A r \in edited : /\ Of(ops, es[LastOf(r)].op, r) /\ es[LastOf(r)].op \in Nat
                        /\ \E i \in DOMAIN es : es[i].op = es[LastOf(r)].op
  BY <1>2, <1>4 DEF Points, Point
<1>6. Of(ops, baseline[t], Home) /\ baseline[t] \in Nat
  BY DEF Recorded, Types
<1> HIDE DEF edited
<1>7. WholeTargets(t, es) \in [edited \cup {Home} -> Nat]
  BY <1>1, <1>5, <1>6
<1>8. \A r \in edited \cup {Home} :
        /\ Of(ops, WholeTargets(t, es)[r], r)
        /\ \/ WholeTargets(t, es)[r] = baseline[t]
           \/ \E i \in DOMAIN es : es[i].op = WholeTargets(t, es)[r]
  BY <1>1, <1>5, <1>6
<1> QED
  BY <1>3, <1>7, <1>8

\* The files a restore looks at are files.
LEMMA CheckedFiles ==
    ASSUME Types, NEW r
    PROVE  Checked(r) \subseteq Files
<1>1. undo.edits \in Seq(Point)
  BY DEF Types, Undos
<1> DEFINE es == undo.edits
<1>2. es \in Seq(Point)
  BY <1>1
<1> HIDE DEF es
<1>3. \A i \in DOMAIN es : es[i] \in Point
  BY <1>2
<1>4. \A i \in DOMAIN es : es[i].file \in Files
  BY <1>3 DEF Point
<1> QED
  BY <1>4 DEF Checked, EditedFiles, es

\* A snapshot is added to the operations and takes none away.
LEMMA CaptureGrows ==
    ASSUME Types, NEW r \in Repos, Capture(r)
    PROVE  /\ ops' \in Seq(Op) /\ Len(ops') = Len(ops) + 1
           /\ \A op \in 1..Len(ops) : ops'[op] = ops[op]
           /\ ops'[Len(ops) + 1].repo = r
<1>1. ops \in Seq(Op) /\ tree[r] \in Contents /\ ops' = Append(ops, [repo |-> r, tree |-> tree[r]])
  BY DEF Types, Capture
<1>2. [repo |-> r, tree |-> tree[r]] \in Op
  BY <1>1 DEF Op
<1> QED
  BY <1>1, <1>2

\* Of a restore that a step leaves alone everything said of it stays true: its
\* targets stand, and a file that changed was written since.
LEMMA UndoStands ==
    ASSUME UndoInv, undo' = undo,
           \A op, r : Of(ops, op, r) => Of(ops', op, r) /\ ops'[op] = ops[op],
           writes' \in Nat, writes <= writes',
           \A r \in Repos, f \in Files : tree'[r][f] = tree[r][f] \/ tree'[r][f] > writes,
           tree' \in [Repos -> Contents],
           \A t \in Threads : baseline[t] # NoOp => baseline'[t] = baseline[t]
    PROVE  Aimed' /\ Progressed'
<1>1. Types /\ Aimed /\ Progressed
  BY DEF UndoInv
<1>2. Aimed'
  BY <1>1 DEF Aimed
<1>3. undo.since \in Nat /\ writes \in Nat
  BY <1>1 DEF Types, Undos
<1>4. DOMAIN undo.targets \subseteq Repos
  BY <1>1 DEF Types, Undos
<1>5. ASSUME NEW r \in DOMAIN undo.targets, undo.since <= writes, Reverted(r), undo.at # "none"
      PROVE  Reverted(r)'
  <2>1. Of(ops, undo.targets[r], r)
    BY <1>1, <1>5 DEF Aimed
  <2>2. ops'[undo.targets[r]] = ops[undo.targets[r]]
    BY <2>1
  <2>3. Checked(r) \subseteq Files /\ Checked(r)' = Checked(r)
    BY <1>1, CheckedFiles DEF Checked
  <2>4. SUFFICES ASSUME NEW f \in Checked(r)
                 PROVE  tree'[r][f] = ops'[undo.targets[r]].tree[f] \/ tree'[r][f] > undo.since
    BY <2>3 DEF Reverted
  <2>5. r \in Repos /\ f \in Files
    BY <1>4, <2>3
  <2>6. tree'[r][f] \in Nat
    BY <2>5 DEF Contents
  <2>7. CASE tree'[r][f] = tree[r][f]
    BY <1>5, <2>2, <2>7 DEF Reverted
  <2>8. CASE tree'[r][f] > writes
    BY <1>3, <1>5, <2>6, <2>8
  <2> QED
    BY <2>5, <2>7, <2>8
<1>6. undo.since <= writes => undo.since <= writes'
  BY <1>3
<1>7. Progressed'
  BY <1>1, <1>5, <1>6 DEF Progressed
<1> QED
  BY <1>2, <1>7

-----------------------------------------------------------------------------
(* Steps of the runs *)

LEMMA CaptureKeeps ==
    ASSUME Types, NEW r \in Repos, Capture(r)
    PROVE  /\ \A op, q : Of(ops, op, q) => Of(ops', op, q) /\ ops'[op] = ops[op]
           /\ \A op, q : op = Len(ops) + 1 /\ q = r => Of(ops', op, q)
           /\ ops' \in Seq(Op)
<1> DEFINE n == Len(ops)
           m == Len(ops')
<1>1. n \in Nat /\ m = n + 1
  BY CaptureGrows DEF Types
<1>2. (\A op \in 1..n : ops'[op] = ops[op]) /\ ops'[n + 1].repo = r /\ ops' \in Seq(Op)
  BY CaptureGrows
<1>3. \A op, q : (Of(ops, op, q) <=> op \in 1..n /\ ops[op].repo = q)
               /\ (Of(ops', op, q) <=> op \in 1..m /\ ops'[op].repo = q)
  BY DEF Of
<1> HIDE DEF n, m
<1>4. 1..n \subseteq 1..m /\ n + 1 \in 1..m
  BY <1>1
<1>5. \A op, q : Of(ops, op, q) => Of(ops', op, q) /\ ops'[op] = ops[op]
  BY <1>2, <1>3, <1>4
<1>6. \A op, q : op = n + 1 /\ q = r => Of(ops', op, q)
  BY <1>2, <1>3, <1>4
<1> QED
  BY <1>2, <1>5, <1>6 DEF n

LEMMA StartRunInv ==
    ASSUME UndoInv, NEW t \in Threads, StartRun(t)
    PROVE  UndoInv'
<1> DEFINE op == Len(ops) + 1
<1>1. Types /\ Recorded /\ Home \in Repos /\ Capture(Home) /\ op \in Nat
  BY HomeRepo DEF UndoInv, StartRun, Types
<1>2. /\ \A o, q : Of(ops, o, q) => Of(ops', o, q) /\ ops'[o] = ops[o]
      /\ ops' \in Seq(Op)
  BY <1>1, CaptureKeeps
<1>3. \A o, q : o = op /\ q = Home => Of(ops', o, q)
  BY <1>1, CaptureKeeps
<1>4. /\ first' = [first EXCEPT ![t] = op] /\ log' = [log EXCEPT ![t] = <<>>]
      /\ UNCHANGED <<tree, writes, baseline, edits, call, undo>>
  BY DEF StartRun
<1> HIDE DEF op
<1>5. Types'
  <2>1. first' \in [Threads -> Nat]
    <3>1. first \in [Threads -> Nat]
      BY <1>1 DEF Types
    <3> QED
      BY <1>1, <1>4, <3>1
  <2>2. log' \in [Threads -> Seq(Point)]
    <3>1. log \in [Threads -> Seq(Point)] /\ <<>> \in Seq(Point)
      BY <1>1 DEF Types
    <3> QED
      BY <1>4, <3>1
  <2> QED
    BY <1>1, <1>2, <1>4, <2>1, <2>2 DEF Types
<1>6. Recorded'
  <2> SUFFICES ASSUME NEW u \in Threads
               PROVE  /\ Points(ops', log'[u]) /\ Points(ops', edits'[u])
                      /\ first'[u] # NoOp => Of(ops', first'[u], Home)
                      /\ baseline'[u] # NoOp => Of(ops', baseline'[u], Home)
    BY DEF Recorded
  <2>1. Points(ops', edits'[u]) /\ (baseline'[u] # NoOp => Of(ops', baseline'[u], Home))
    BY <1>1, <1>2, <1>4 DEF Recorded, Points
  <2>2. CASE u = t
    <3>1. log'[u] = <<>> /\ first'[u] = op
      BY <1>1, <1>4, <2>2 DEF Types
    <3>2. Of(ops', first'[u], Home)
      BY <1>3, <3>1, Zenon
    <3>3. Points(ops', log'[u])
      BY <3>1 DEF Points
    <3> QED
      BY <2>1, <3>2, <3>3
  <2>3. CASE u # t
    <3>1. log'[u] = log[u] /\ first'[u] = first[u]
      BY <1>1, <1>4, <2>3 DEF Types
    <3> QED
      BY <1>1, <1>2, <2>1, <3>1 DEF Recorded, Points
  <2> QED
    BY <2>2, <2>3
<1>7. Aimed' /\ Progressed'
  BY <1>1, <1>2, <1>4, UndoStands DEF Types
<1> QED
  BY <1>5, <1>6, <1>7 DEF UndoInv

LEMMA RecordInv ==
    ASSUME UndoInv, NEW t \in Threads, Record(t)
    PROVE  UndoInv'
<1> DEFINE op == Len(ops) + 1
           r == call[t].repo
           point == [repo |-> call[t].repo, op |-> Len(ops) + 1, file |-> call[t].file]
<1>1. Types /\ Recorded /\ r \in Repos /\ call[t].file \in Files /\ Capture(r) /\ op \in Nat
  BY DEF UndoInv, Record, Types
<1>2. /\ \A o, q : Of(ops, o, q) => Of(ops', o, q) /\ ops'[o] = ops[o]
      /\ ops' \in Seq(Op)
  BY <1>1, CaptureKeeps
<1>3. \A o, q : o = op /\ q = r => Of(ops', o, q)
  BY <1>1, CaptureKeeps
<1>4. /\ log' = [log EXCEPT ![t] = Append(@, point)] /\ call' = [call EXCEPT ![t] = NoCall]
      /\ UNCHANGED <<tree, writes, first, baseline, edits, undo>>
  BY DEF Record
<1>5. point \in Point /\ point.op = op /\ point.repo = r
  BY <1>1 DEF Point
<1>6. Home \in Repos
  BY HomeRepo
<1> HIDE DEF op, r, point
<1>7. Types'
  <2>1. log' \in [Threads -> Seq(Point)]
    BY <1>1, <1>4, <1>5 DEF Types
  <2>2. /\ call' \in [Threads -> [at : {"none", "claimed", "written", "freed"}, repo : Repos,
                                  file : Files \cup {NoCall.file}]]
        /\ \A u \in Threads : call'[u].at # "none" => call'[u].file \in Files
    BY <1>1, <1>4, <1>6 DEF Types, NoCall
  <2> QED
    BY <1>1, <1>2, <1>4, <2>1, <2>2 DEF Types
<1>8. Recorded'
  <2> SUFFICES ASSUME NEW u \in Threads
               PROVE  /\ Points(ops', log'[u]) /\ Points(ops', edits'[u])
                      /\ first'[u] # NoOp => Of(ops', first'[u], Home)
                      /\ baseline'[u] # NoOp => Of(ops', baseline'[u], Home)
    BY DEF Recorded
  <2>1. /\ Points(ops', edits'[u]) /\ (baseline'[u] # NoOp => Of(ops', baseline'[u], Home))
        /\ (first'[u] # NoOp => Of(ops', first'[u], Home))
    BY <1>1, <1>2, <1>4 DEF Recorded, Points
  <2>2. CASE u = t
    <3>1. log[t] \in Seq(Point) /\ log'[u] = Append(log[t], point)
      BY <1>1, <1>4, <2>2 DEF Types
    <3>2. /\ DOMAIN log'[u] = 1..(Len(log[t]) + 1) /\ DOMAIN log[t] = 1..Len(log[t])
          /\ \A i \in DOMAIN log[t] : log'[u][i] = log[t][i]
          /\ log'[u][Len(log[t]) + 1] = point /\ Len(log[t]) \in Nat
      BY <1>5, <3>1
    <3>3. \A i \in DOMAIN log'[u] : i \in DOMAIN log[t] \/ i = Len(log[t]) + 1
      BY <3>2
    <3>4. \A i \in DOMAIN log[t] : Of(ops, log[t][i].op, log[t][i].repo)
      BY <1>1 DEF Recorded, Points
    <3>5. \A i \in DOMAIN log'[u] : Of(ops', log'[u][i].op, log'[u][i].repo)
      <4> SUFFICES ASSUME NEW i \in DOMAIN log'[u] PROVE Of(ops', log'[u][i].op, log'[u][i].repo)
        OBVIOUS
      <4>1. CASE i \in DOMAIN log[t]
        BY <1>2, <3>2, <3>4, <4>1
      <4>2. CASE i = Len(log[t]) + 1
        <5>1. log'[u][i].op = op /\ log'[u][i].repo = r
          BY <1>5, <3>2, <4>2
        <5> QED
          BY <1>3, <5>1, Zenon
      <4> QED
        BY <3>3, <4>1, <4>2
    <3> QED
      BY <2>1, <3>5 DEF Points
  <2>3. CASE u # t
    <3>1. log'[u] = log[u]
      BY <1>1, <1>4, <2>3 DEF Types
    <3> QED
      BY <1>1, <1>2, <2>1, <3>1 DEF Recorded, Points
  <2> QED
    BY <2>2, <2>3
<1>9. Aimed' /\ Progressed'
  BY <1>1, <1>2, <1>4, UndoStands DEF Types
<1> QED
  BY <1>7, <1>8, <1>9 DEF UndoInv

\* A write, by a tool or by none, makes content nothing had before.
LEMMA WriteKeeps ==
    ASSUME UndoInv, NEW r \in Repos, NEW f \in Files, writes < MaxWrites,
           writes' = writes + 1, tree' = [tree EXCEPT ![r][f] = writes + 1],
           UNCHANGED <<ops, threadVars, edits, undo>>
    PROVE  /\ tree' \in [Repos -> Contents] /\ writes' \in 0..MaxWrites
           /\ Recorded' /\ Aimed' /\ Progressed'
<1>1. Types /\ Recorded /\ MaxWrites \in Nat /\ writes \in 0..MaxWrites /\ tree \in [Repos -> Contents]
  BY UndoAssumption DEF UndoInv, Types
<1>2. writes' \in 0..MaxWrites /\ writes' \in Nat /\ writes <= writes' /\ writes + 1 > writes
  BY <1>1
<1>3. tree' \in [Repos -> Contents]
  BY <1>1, <1>2 DEF Contents
<1>4. \A q \in Repos, g \in Files : tree'[q][g] = tree[q][g] \/ tree'[q][g] = writes + 1
  BY <1>1 DEF Contents
<1>5. \A q \in Repos, g \in Files : tree'[q][g] = tree[q][g] \/ tree'[q][g] > writes
  BY <1>2, <1>4
<1>6. \A op, q : Of(ops, op, q) => Of(ops', op, q) /\ ops'[op] = ops[op]
  BY DEF Of
<1>7. Recorded'
  BY <1>1, <1>6 DEF Recorded, Points, threadVars
<1>8. Aimed' /\ Progressed'
  BY <1>2, <1>3, <1>5, <1>6, UndoStands DEF threadVars
<1> QED
  BY <1>2, <1>3, <1>7, <1>8

LEMMA WriteInv ==
    ASSUME UndoInv, NEW t \in Threads, Write(t)
    PROVE  UndoInv'
<1>1. Types /\ call[t].repo \in Repos /\ call[t].file \in Files
  BY DEF UndoInv, Types, Write
<1>2. /\ tree' \in [Repos -> Contents] /\ writes' \in 0..MaxWrites
      /\ Recorded' /\ Aimed' /\ Progressed'
  BY <1>1, WriteKeeps DEF Write
<1>3. Types'
  BY <1>1, <1>2 DEF Types, Write, threadVars
<1> QED
  BY <1>2, <1>3 DEF UndoInv

LEMMA StrayWriteInv ==
    ASSUME UndoInv, NEW r \in Repos, NEW f \in Files, StrayWrite(r, f)
    PROVE  UndoInv'
<1>1. /\ tree' \in [Repos -> Contents] /\ writes' \in 0..MaxWrites
      /\ Recorded' /\ Aimed' /\ Progressed'
  BY WriteKeeps DEF StrayWrite
<1>2. Types'
  BY <1>1 DEF UndoInv, Types, StrayWrite, threadVars
<1> QED
  BY <1>1, <1>2 DEF UndoInv

\* A step that touches neither trees nor operations nor the restore.
LEMMA QuietKeeps ==
    ASSUME UndoInv, UNCHANGED <<tree, ops, writes, undo>>,
           \A t \in Threads : baseline[t] # NoOp => baseline'[t] = baseline[t]
    PROVE  /\ Aimed' /\ Progressed'
           /\ \A op, q : Of(ops, op, q) => Of(ops', op, q)
<1>1. \A op, q : Of(ops, op, q) => Of(ops', op, q) /\ ops'[op] = ops[op]
  BY DEF Of
<1>2. writes \in Nat /\ tree \in [Repos -> Contents]
  BY DEF UndoInv, Types
<1> QED
  BY <1>1, <1>2, UndoStands

LEMMA ClaimInv ==
    ASSUME UndoInv, NEW t \in Threads, NEW r \in Repos, NEW f \in Files, Claim(t, r, f)
    PROVE  UndoInv'
<1>1. Aimed' /\ Progressed' /\ \A op, q : Of(ops, op, q) => Of(ops', op, q)
  BY QuietKeeps DEF Claim, threadVars
<1>2. Types'
  BY DEF UndoInv, Types, Claim, threadVars
<1>3. Recorded'
  BY <1>1 DEF UndoInv, Recorded, Points, Claim, threadVars
<1> QED
  BY <1>1, <1>2, <1>3 DEF UndoInv

LEMMA FreeInv ==
    ASSUME UndoInv, NEW t \in Threads, Free(t)
    PROVE  UndoInv'
<1>1. Aimed' /\ Progressed' /\ \A op, q : Of(ops, op, q) => Of(ops', op, q)
  BY QuietKeeps DEF Free, threadVars
<1>2. Types'
  BY HomeRepo DEF UndoInv, Types, Free, threadVars, NoCall
<1>3. Recorded'
  BY <1>1 DEF UndoInv, Recorded, Points, Free, threadVars
<1> QED
  BY <1>1, <1>2, <1>3 DEF UndoInv

LEMMA EndRunInv ==
    ASSUME UndoInv, NEW t \in Threads, EndRun(t)
    PROVE  UndoInv'
<1>1. /\ baseline' = [baseline EXCEPT ![t] = IF @ = NoOp THEN first[t] ELSE @]
      /\ UNCHANGED <<tree, ops, writes, first, log, edits, call, undo>>
  BY DEF EndRun
<1>2. \A u \in Threads : baseline'[u] = IF u = t /\ baseline[u] = NoOp THEN first[u] ELSE baseline[u]
  BY <1>1 DEF UndoInv, Types
<1>3. Aimed' /\ Progressed' /\ \A op, q : Of(ops, op, q) => Of(ops', op, q)
  BY <1>1, <1>2, QuietKeeps
<1>4. Types'
  BY <1>1 DEF UndoInv, Types
<1>5. Recorded'
  BY <1>1, <1>2, <1>3 DEF UndoInv, Recorded, Points
<1> QED
  BY <1>3, <1>4, <1>5 DEF UndoInv

LEMMA SyncInv ==
    ASSUME UndoInv, NEW t \in Threads, Sync(t)
    PROVE  UndoInv'
<1>1. Aimed' /\ Progressed' /\ \A op, q : Of(ops, op, q) => Of(ops', op, q)
  BY QuietKeeps DEF Sync, threadVars
<1>2. Types'
  BY DEF UndoInv, Types, Sync, threadVars
<1>3. \A u \in Threads : edits'[u] = edits[u] \/ edits'[u] = log[u]
  BY DEF UndoInv, Types, Sync
<1>4. Recorded'
  BY <1>1, <1>3 DEF UndoInv, Recorded, Points, Sync, threadVars
<1> QED
  BY <1>1, <1>2, <1>4 DEF UndoInv

-----------------------------------------------------------------------------
(* Steps of a restore *)

\* A step that changes nothing but the restore under way.
LEMMA OnlyUndo ==
    ASSUME UndoInv, UNCHANGED <<tree, ops, writes, threadVars, edits, call>>, undo' \in Undos
    PROVE  Types' /\ Recorded'
<1>1. Types'
  BY DEF UndoInv, Types, threadVars
<1>2. Recorded'
  BY DEF UndoInv, Recorded, threadVars
<1> QED
  BY <1>1, <1>2

\* The targets of a restore under way that a step does not aim anew.
LEMMA StaysAimed ==
    ASSUME UndoInv, UNCHANGED <<ops, baseline>>, undo.at # "none", undo'.at # "none",
           undo'.thread = undo.thread, undo'.targets = undo.targets, undo'.edits = undo.edits,
           undo'.left \subseteq DOMAIN undo.targets
    PROVE  Aimed'
BY DEF UndoInv, Aimed

LEMMA RestoreInv ==
    ASSUME UndoInv, NEW t \in Threads, NEW want \in {NoOp} \cup DOMAIN ops,
           Restore(t, want)
    PROVE  UndoInv'
<1> DEFINE targets == IF want = NoOp THEN WholeTargets(t, edits[t])
                      ELSE [r \in {ops[want].repo} |-> want]
<1>1. /\ baseline[t] # NoOp
      /\ want # NoOp => \E i \in DOMAIN edits[t] : edits[t][i].op = want
      /\ undo' = [at |-> "survey", thread |-> t, want |-> want, edits |-> edits[t],
                  targets |-> targets, dirty |-> FALSE, scoped |-> FALSE,
                  left |-> DOMAIN targets, since |-> 0]
      /\ UNCHANGED <<tree, ops, writes, threadVars, edits, call>>
  BY Zenon DEF Restore
<1>2. Types /\ Recorded /\ edits[t] \in Seq(Point) /\ Points(ops, edits[t])
  BY DEF UndoInv, Types, Recorded
<1>3. want \in Nat /\ (want # NoOp => want \in 1..Len(ops) /\ ops[want] \in Op)
  BY <1>2 DEF NoOp, Types
<1>4. /\ \E R \in SUBSET Repos : targets \in [R -> Nat]
      /\ \A r \in DOMAIN targets :
           /\ Of(ops, targets[r], r)
           /\ \/ targets[r] = baseline[t]
              \/ \E i \in DOMAIN edits[t] : edits[t][i].op = targets[r]
  <2>1. CASE want = NoOp
    BY <1>1, <1>2, <2>1, WholeTargetsAim
  <2>2. CASE want # NoOp
    <3> DEFINE q == ops[want].repo
    <3>1. q \in Repos /\ Of(ops, want, q)
      BY <1>3, <2>2 DEF Op, Of
    <3>2. targets = [r \in {q} |-> want]
      BY <2>2
    <3> HIDE DEF q, targets
    <3>3. targets \in [{q} -> Nat] /\ {q} \in SUBSET Repos
      BY <1>3, <3>1, <3>2
    <3>4. \A r \in DOMAIN targets : r = q /\ targets[r] = want
      BY <3>2
    <3> QED
      BY <1>1, <2>2, <3>1, <3>3, <3>4
  <2> QED
    BY <2>1, <2>2
<1> HIDE DEF targets
<1>5. undo' \in Undos
  <2>1. PICK R \in SUBSET Repos : targets \in [R -> Nat]
    BY <1>4
  <2>2. DOMAIN targets \in SUBSET Repos /\ targets \in UNION {[S -> Nat] : S \in SUBSET Repos}
    BY <2>1
  <2> QED
    BY <1>1, <1>2, <1>3, <2>2 DEF Undos, Stages
<1>6. Types' /\ Recorded'
  BY <1>1, <1>5, OnlyUndo
<1>7. Aimed'
  BY <1>1, <1>4 DEF Aimed, threadVars
<1>8. Progressed'
  BY <1>1 DEF Progressed
<1> QED
  BY <1>6, <1>7, <1>8 DEF UndoInv

LEMMA SurveyInv ==
    ASSUME UndoInv, NEW r \in Repos, Survey(r)
    PROVE  UndoInv'
<1>1. /\ undo.at = "survey"
      /\ undo' = [undo EXCEPT !.dirty = @ \/ Differs(r, undo.targets[r]),
                              !.scoped = @ \/ OtherWriters(undo.thread, r),
                              !.left = @ \ {r}]
      /\ UNCHANGED <<tree, ops, writes, threadVars, edits, call>>
  BY DEF Survey
<1>2. undo \in Undos /\ undo.left \subseteq DOMAIN undo.targets
  BY <1>1 DEF UndoInv, Types, Aimed
<1>3. undo' \in Undos
  BY <1>1, <1>2 DEF Undos
<1>4. /\ undo'.at = "survey" /\ undo'.thread = undo.thread /\ undo'.targets = undo.targets
      /\ undo'.edits = undo.edits /\ undo'.left \subseteq DOMAIN undo.targets
  BY <1>1, <1>2 DEF Undos
<1>5. Types' /\ Recorded' /\ Aimed'
  BY <1>1, <1>3, <1>4, OnlyUndo, StaysAimed DEF threadVars
<1>6. Progressed'
  BY <1>4 DEF Progressed
<1> QED
  BY <1>5, <1>6 DEF UndoInv

LEMMA DecideInv ==
    ASSUME UndoInv, NEW confirm \in BOOLEAN, Decide(confirm)
    PROVE  UndoInv'
<1> DEFINE at == CASE ~undo.dirty -> "nothing" [] confirm -> "perform" [] OTHER -> "preview"
<1>1. /\ undo.at = "survey"
      /\ undo' = [undo EXCEPT !.at = at, !.left = DOMAIN undo.targets, !.since = writes]
      /\ UNCHANGED <<tree, ops, writes, threadVars, edits, call>>
  BY DEF Decide
<1>2. at \in {"nothing", "perform", "preview"}
  OBVIOUS
<1> HIDE DEF at
<1>3. undo \in Undos /\ writes \in Nat /\ DOMAIN undo.targets \subseteq Repos
  BY DEF UndoInv, Types, Undos
<1>4. undo' \in Undos
  BY <1>1, <1>2, <1>3 DEF Undos, Stages
<1>5. /\ undo'.at = at /\ undo'.thread = undo.thread /\ undo'.targets = undo.targets
      /\ undo'.edits = undo.edits /\ undo'.left = DOMAIN undo.targets /\ undo'.since = writes
  BY <1>1, <1>3 DEF Undos
<1>6. Types' /\ Recorded' /\ Aimed'
  BY <1>1, <1>2, <1>4, <1>5, OnlyUndo, StaysAimed DEF threadVars
<1>7. Progressed'
  BY <1>1, <1>2, <1>3, <1>5 DEF Progressed
<1> QED
  BY <1>6, <1>7 DEF UndoInv

LEMMA PerformInv ==
    ASSUME UndoInv, NEW r \in Repos, Perform(r)
    PROVE  UndoInv'
<1> DEFINE target == ops[undo.targets[r]].tree
           own == EditedFiles(undo.edits, r)
<1>1. /\ undo.at = "perform" /\ r \in undo.left
      /\ \/ tree' = [tree EXCEPT ![r] = target] /\ undo' = [undo EXCEPT !.at = "verify"]
         \/ tree' = tree /\ undo' = [undo EXCEPT !.at = "failed"]
         \/ /\ tree' = [tree EXCEPT ![r] = [f \in Files |-> IF f \in own THEN target[f] ELSE @[f]]]
            /\ undo' = [undo EXCEPT !.at = "verify"]
      /\ UNCHANGED <<ops, writes, threadVars, edits, call>>
  BY DEF Perform, InOrder
<1>2. /\ Types /\ Recorded /\ Aimed /\ Progressed /\ undo \in Undos
      /\ undo.left \subseteq DOMAIN undo.targets /\ DOMAIN undo.targets \subseteq Repos
  BY <1>1 DEF UndoInv, Types, Aimed, Undos
<1>3. target \in Contents
  <2>1. Of(ops, undo.targets[r], r)
    BY <1>1, <1>2 DEF Aimed
  <2>2. ops[undo.targets[r]] \in Op
    BY <1>2, <2>1 DEF Of, Types
  <2> QED
    BY <2>2 DEF Op
<1> HIDE DEF target, own
<1>4. tree' \in [Repos -> Contents] /\ \A q \in Repos \ {r} : tree'[q] = tree[q]
  <2>1. tree \in [Repos -> Contents]
    BY <1>2 DEF Types
  <2>2. [f \in Files |-> IF f \in own THEN target[f] ELSE tree[r][f]] \in Contents
    BY <1>3, <2>1 DEF Contents
  <2> QED
    BY <1>1, <1>3, <2>1, <2>2
<1>5. /\ undo' \in Undos /\ undo'.at \in {"verify", "failed"}
      /\ undo'.thread = undo.thread /\ undo'.targets = undo.targets /\ undo'.edits = undo.edits
      /\ undo'.left = undo.left /\ undo'.since = undo.since /\ undo'.scoped = undo.scoped
  BY <1>1, <1>2 DEF Undos, Stages
<1>6. Types'
  BY <1>1, <1>2, <1>4, <1>5 DEF Types, threadVars
<1>7. Recorded'
  BY <1>1, <1>2 DEF Recorded, threadVars
<1>8. Aimed'
  BY <1>1, <1>2, <1>5, StaysAimed DEF threadVars
<1>9. Progressed'
  <2>1. \A q \in DOMAIN undo.targets \ undo.left : Reverted(q)'
    <3> SUFFICES ASSUME NEW q \in DOMAIN undo.targets \ undo.left PROVE Reverted(q)'
      OBVIOUS
    <3>1. q \in Repos /\ tree'[q] = tree[q] /\ Checked(q)' = Checked(q)
      BY <1>1, <1>2, <1>4, <1>5 DEF Checked
    <3>2. Reverted(q)
      BY <1>1, <1>2 DEF Progressed
    <3> QED
      BY <1>1, <1>5, <3>1, <3>2 DEF Reverted
  <2>2. undo'.since <= writes'
    BY <1>1, <1>2, <1>5 DEF Progressed
  <2> QED
    BY <1>5, <2>1, <2>2 DEF Progressed
<1> QED
  BY <1>6, <1>7, <1>8, <1>9 DEF UndoInv

LEMMA PerformFailsInv ==
    ASSUME UndoInv, PerformFails
    PROVE  UndoInv'
<1>1. /\ undo.at # "none" /\ undo' = [undo EXCEPT !.at = "failed"]
      /\ UNCHANGED <<tree, ops, writes, threadVars, edits, call>>
  BY DEF PerformFails
<1>2. undo \in Undos /\ undo.left \subseteq DOMAIN undo.targets
  BY <1>1 DEF UndoInv, Types, Aimed
<1>3. undo' \in Undos /\ undo'.at = "failed" /\ undo'.thread = undo.thread
      /\ undo'.targets = undo.targets /\ undo'.edits = undo.edits /\ undo'.left = undo.left
  BY <1>1, <1>2 DEF Undos, Stages
<1>4. Types' /\ Recorded' /\ Aimed'
  BY <1>1, <1>2, <1>3, OnlyUndo, StaysAimed DEF threadVars
<1>5. Progressed'
  BY <1>3 DEF Progressed
<1> QED
  BY <1>4, <1>5 DEF UndoInv

LEMMA VerifyInv ==
    ASSUME UndoInv, NEW r \in Repos, Verify(r)
    PROVE  UndoInv'
<1> DEFINE target == ops[undo.targets[r]].tree
<1>1. /\ undo.at = "verify" /\ r \in undo.left
      /\ \/ undo' = [undo EXCEPT !.at = "failed"]
         \/ /\ \A f \in Checked(r) : tree[r][f] = target[f]
            /\ undo' = [undo EXCEPT !.at = IF undo.left = {r} THEN "restored" ELSE "perform",
                                    !.left = @ \ {r}]
      /\ UNCHANGED <<tree, ops, writes, threadVars, edits, call>>
  BY DEF Verify, InOrder, Checked
<1>2. undo \in Undos /\ undo.left \subseteq DOMAIN undo.targets /\ Progressed
  BY <1>1 DEF UndoInv, Types, Aimed
<1>3. CASE undo' = [undo EXCEPT !.at = "failed"]
  <2>1. undo' \in Undos /\ undo'.at = "failed" /\ undo'.thread = undo.thread
        /\ undo'.targets = undo.targets /\ undo'.edits = undo.edits /\ undo'.left = undo.left
    BY <1>2, <1>3 DEF Undos, Stages
  <2>2. Types' /\ Recorded' /\ Aimed'
    BY <1>1, <1>2, <2>1, OnlyUndo, StaysAimed DEF threadVars
  <2>3. Progressed'
    BY <2>1 DEF Progressed
  <2> QED
    BY <2>2, <2>3 DEF UndoInv
<1>4. CASE /\ \A f \in Checked(r) : tree[r][f] = target[f]
           /\ undo' = [undo EXCEPT !.at = IF undo.left = {r} THEN "restored" ELSE "perform",
                                   !.left = @ \ {r}]
  <2>1. /\ undo' \in Undos /\ undo'.at = (IF undo.left = {r} THEN "restored" ELSE "perform")
        /\ undo'.thread = undo.thread /\ undo'.targets = undo.targets /\ undo'.edits = undo.edits
        /\ undo'.left = undo.left \ {r} /\ undo'.since = undo.since /\ undo'.scoped = undo.scoped
    BY <1>2, <1>4 DEF Undos, Stages
  <2>2. Types' /\ Recorded' /\ Aimed'
    BY <1>1, <1>2, <2>1, OnlyUndo, StaysAimed DEF threadVars
  <2>3. Reverted(r)
    BY <1>4 DEF Reverted
  <2>4. ASSUME NEW q \in DOMAIN undo.targets, q \notin undo.left \/ q = r
        PROVE  Reverted(q)'
    <3>1. Reverted(q)
      BY <1>1, <1>2, <2>3, <2>4 DEF Progressed
    <3>2. Checked(q)' = Checked(q)
      BY <2>1 DEF Checked
    <3> QED
      BY <1>1, <2>1, <3>1, <3>2 DEF Reverted
  <2>5. undo'.since <= writes'
    BY <1>1, <1>2, <2>1 DEF Progressed
  <2>6. Progressed'
    BY <1>1, <2>1, <2>4, <2>5 DEF Progressed
  <2> QED
    BY <2>2, <2>6 DEF UndoInv
<1> QED
  BY <1>1, <1>3, <1>4

LEMMA NoUndoType ==
    NoUndo \in Undos /\ DOMAIN NoUndo.targets = {} /\ NoUndo.left = {} /\ NoUndo.at = "none"
<1>1. <<>> \in Seq(Point) /\ DOMAIN <<>> = {}
  OBVIOUS
<1>2. <<>> \in [{} -> Nat] /\ {} \in SUBSET Repos
  OBVIOUS
<1>3. <<>> \in UNION {[R -> Nat] : R \in SUBSET Repos}
  BY <1>2
<1>4. NoUndo.thread \in Threads \cup {NoUndo.thread}
  OBVIOUS
<1> QED
  BY <1>1, <1>3, <1>4 DEF NoUndo, Undos, Stages, NoOp

LEMMA ReplyInv ==
    ASSUME UndoInv, Reply
    PROVE  UndoInv'
<1>1. undo' = NoUndo /\ UNCHANGED <<tree, ops, writes, threadVars, edits, call>>
  BY DEF Reply
<1>2. undo' \in Undos /\ DOMAIN undo'.targets = {} /\ undo'.left = {} /\ undo'.at = "none"
  BY <1>1, NoUndoType
<1>3. Types' /\ Recorded'
  BY <1>1, <1>2, OnlyUndo
<1> QED
  BY <1>2, <1>3 DEF UndoInv, Aimed, Progressed

-----------------------------------------------------------------------------
(* Theorems *)

LEMMA InitInv == Init => UndoInv
<1> SUFFICES ASSUME Init PROVE UndoInv
  OBVIOUS
<1>1. MaxWrites \in Nat /\ Home \in Repos
  BY HomeRepo, UndoAssumption
<1>2. Types
  <2>1. undo \in Undos
    BY NoUndoType DEF Init
  <2>2. tree \in [Repos -> Contents]
    BY <1>1 DEF Init, Contents
  <2> QED
    BY <1>1, <2>1, <2>2 DEF Init, Types, NoOp, NoCall
<1>3. Recorded
  BY DEF Init, Recorded, Points
<1>4. Aimed /\ Progressed
  BY NoUndoType DEF Init, Aimed, Progressed
<1> QED
  BY <1>2, <1>3, <1>4 DEF UndoInv

LEMMA NextInv == UndoInv /\ [Next]_vars => UndoInv'
<1> SUFFICES ASSUME UndoInv, [Next]_vars PROVE UndoInv'
  OBVIOUS
<1>1. CASE UNCHANGED vars
  <2>1. Aimed' /\ Progressed' /\ \A op, q : Of(ops, op, q) => Of(ops', op, q)
    BY <1>1, QuietKeeps DEF vars
  <2>2. Types' /\ Recorded'
    BY <1>1 DEF vars, UndoInv, Types, Recorded
  <2> QED
    BY <2>1, <2>2 DEF UndoInv
<1>2. ASSUME NEW t \in Threads, Work(t) PROVE UndoInv'
  BY <1>2, StartRunInv, WriteInv, FreeInv, RecordInv, EndRunInv, SyncInv, ClaimInv DEF Work
<1>3. ASSUME NEW r \in Repos, NEW f \in Files, StrayWrite(r, f) PROVE UndoInv'
  BY <1>3, StrayWriteInv
<1>4. CASE Undoing
  BY <1>4, RestoreInv, SurveyInv, PerformInv, VerifyInv, DecideInv, PerformFailsInv, ReplyInv
     DEF Undoing
<1> QED
  BY <1>1, <1>2, <1>3, <1>4 DEF Next

\* A restore rewinds each repository to an operation of that repository that is
\* the thread's own, and one reported done left every file it was to revert as
\* the target has it, but for writes since the confirmation; whatever the other
\* threads write, and wherever a jj command fails.
THEOREM RestoresAreSound == Spec => []RestoreSound
<1>1. UndoInv => RestoreSound
  <2> SUFFICES ASSUME UndoInv PROVE TypeOK /\ OwnTargets /\ RestoredAll
    BY DEF RestoreSound
  <2>1. Types /\ Recorded /\ Aimed /\ Progressed
    BY DEF UndoInv
  <2>2. OwnTargets
    BY <2>1 DEF OwnTargets, Aimed, Of
  <2>3. RestoredAll
    BY <2>1 DEF RestoredAll, Progressed, Reverted, Checked
  <2>4. TypeOK
    <3>1. tree \in [Repos -> [Files -> 0..MaxWrites]]
      BY <2>1 DEF Types, Contents
    <3>2. \A i \in DOMAIN ops : ops[i] \in Op
      BY <2>1 DEF Types
    <3>3. \A t \in Threads : first[t] \in 0..Len(ops) /\ baseline[t] \in 0..Len(ops)
      BY <2>1 DEF Types, Recorded, Of, NoOp
    <3>4. DOMAIN undo.targets \subseteq Repos /\ undo.left \subseteq DOMAIN undo.targets
      BY <2>1 DEF Types, Undos, Aimed
    <3> QED
      BY <3>1, <3>2, <3>3, <3>4 DEF TypeOK, Op, Contents
  <2> QED
    BY <2>2, <2>3, <2>4
<1> QED
  BY <1>1, InitInv, NextInv, PTL DEF Spec

\* While another thread was seen writing, an undo changes only files the asking
\* thread recorded an edit to.
THEOREM ScopedUndoSpares == Spec => ScopedSpares
<1>1. UndoInv /\ [Next]_vars => SparesOthers
  <2> SUFFICES ASSUME UndoInv, [Next]_vars,
                      undo.at = "perform", undo.scoped, undo'.at = "verify",
                      NEW q \in Repos, NEW g \in Files, tree'[q][g] # tree[q][g]
               PROVE  g \in EditedFiles(undo.edits, q)
    BY DEF SparesOthers
  <2>1. undo' # undo
    OBVIOUS
  <2>2. PICK r \in Repos : Perform(r)
    <3>1. CASE UNCHANGED vars
      BY <2>1, <3>1 DEF vars
    <3>2. ASSUME NEW t \in Threads, Work(t) PROVE FALSE
      BY <2>1, <3>2 DEF Work, StartRun, Write, Free, Record, EndRun, Sync, Claim
    <3>3. ASSUME NEW r \in Repos, NEW f \in Files, StrayWrite(r, f) PROVE FALSE
      BY <2>1, <3>3 DEF StrayWrite
    <3>4. CASE Undoing
      BY <3>4 DEF Undoing, Restore, Survey, Decide, PerformFails, Verify, Reply
    <3> QED
      BY <3>1, <3>2, <3>3, <3>4 DEF Next
  <2> DEFINE target == ops[undo.targets[r]].tree
             own == EditedFiles(undo.edits, r)
  <2>3. undo \in Undos /\ tree \in [Repos -> Contents]
    BY DEF UndoInv, Types
  <2>4. undo' # [undo EXCEPT !.at = "failed"]
    BY <2>3 DEF Undos
  <2>5. tree' = [tree EXCEPT ![r] = [f \in Files |-> IF f \in own THEN target[f] ELSE @[f]]]
    BY <2>2, <2>4 DEF Perform
  <2> HIDE DEF target, own
  <2>6. q = r /\ g \in own
    BY <2>3, <2>5
  <2> QED
    BY <2>6 DEF own
<1> QED
  BY <1>1, InitInv, NextInv, PTL DEF Spec, ScopedSpares

-----------------------------------------------------------------------------
(* The linter's baseline *)

LintTypes ==
    /\ begun \in 0..MaxRuns /\ ids \in [Threads -> 0..MaxRuns]
    /\ batch \in [run : 0..MaxRuns, changed : SUBSET Files, open : BOOLEAN]
    /\ owner \in 0..MaxRuns /\ findings \subseteq Lint!Findings
    /\ since \in [1..MaxRuns -> SUBSET Lint!Findings]
    /\ failed \in [1..MaxRuns -> SUBSET Lint!Findings]
    /\ firstLint \in [1..MaxRuns -> [seen : BOOLEAN, found : SUBSET Lint!Findings]]

\* The run whose baseline is kept has been linted, and all it has inherited is in there.
BaselineHolds == owner # Lint!NoRun => firstLint[owner].seen /\ since[owner] \subseteq known

LintInv == LintTypes /\ BaselineHolds /\ Lint!InheritedSpared

LEMMA LintStarts == Lint!Init => LintInv
  BY UndoAssumption
  DEF Lint!Init, LintInv, LintTypes, BaselineHolds, Lint!InheritedSpared, Lint!NoRun, Lint!NoBatch,
      Lint!Unlinted

\* A lint of a run spares what the run has seen at every lint: with the baseline of another
\* run it spares all neighbors, with its own those that are in it.
LEMMA LintNext == ASSUME LintInv, Lint!Next PROVE LintInv'
<1>1. CASE \E w \in Threads : Lint!Begin(w)
  BY <1>1, UndoAssumption DEF Lint!Begin, LintInv, LintTypes, BaselineHolds, Lint!InheritedSpared
<1>2. CASE \E w \in Threads, changed \in (SUBSET Files) \ {{}} : Lint!OpenBatch(w, changed)
  BY <1>2 DEF Lint!OpenBatch, LintInv, LintTypes, BaselineHolds, Lint!InheritedSpared
<1>3. CASE Lint!Edit
  BY <1>3 DEF Lint!Edit, LintInv, LintTypes, BaselineHolds, Lint!InheritedSpared
<1>4. CASE Lint!Lint
  <2> DEFINE r == batch.run
             there == findings \ Lint!On(batch.changed)
  <2>1. CASE ~compiles \/ r = Lint!NoRun
    <3>1. /\ batch' = Lint!NoBatch
          /\ UNCHANGED <<ids, begun, findings, known, owner, since, firstLint, failed>>
      BY <1>4, <2>1 DEF Lint!Lint, Lint!RecordBaseline
    <3>2. Lint!NoBatch \in [run : 0..MaxRuns, changed : SUBSET Files, open : BOOLEAN]
      BY UndoAssumption DEF Lint!NoBatch, Lint!NoRun
    <3> QED
      BY <3>1, <3>2 DEF LintInv, LintTypes, BaselineHolds, Lint!InheritedSpared
  <2>2. CASE compiles /\ r # Lint!NoRun
    <3>1. /\ r \in 1..MaxRuns
          /\ batch' = Lint!NoBatch /\ UNCHANGED <<ids, begun, findings>>
          /\ owner' = r /\ known' = IF owner = r THEN known \cup findings ELSE findings
          /\ since' = [since EXCEPT ![r] = IF firstLint[r].seen THEN @ \cap there ELSE there]
          /\ firstLint' = [firstLint EXCEPT ![r] = IF @.seen THEN @ ELSE [seen |-> TRUE, found |-> findings]]
          /\ failed' = [failed EXCEPT ![r] = Lint!Failures(r, batch.changed)]
      BY <1>4, <2>2 DEF Lint!Lint, Lint!RecordBaseline, LintInv, LintTypes, Lint!NoRun
    <3>2. there \subseteq Lint!Findings /\ Lint!Failures(r, batch.changed) \subseteq Lint!Findings
      BY DEF LintInv, LintTypes, Lint!Failures
    <3>3. LintTypes'
      BY <3>1, <3>2, UndoAssumption DEF LintInv, LintTypes, Lint!NoBatch, Lint!NoRun
    <3>4. BaselineHolds'
      BY <3>1 DEF LintInv, LintTypes, BaselineHolds
    <3>5. since'[r] \cap failed'[r] = {}
      BY <3>1, <2>2 DEF LintInv, LintTypes, BaselineHolds, Lint!Failures, Lint!HasBaseline,
                        Lint!InBaseline, Lint!NoRun
    <3> QED
      BY <3>1, <3>3, <3>4, <3>5 DEF LintInv, LintTypes, Lint!InheritedSpared
  <2> QED
    BY <2>1, <2>2
<1> QED
  BY <1>1, <1>2, <1>3, <1>4 DEF Lint!Next

-----------------------------------------------------------------------------
(* The coverage map *)

CovFiles == UNION {Covers[t] : t \in Tests}
Rows == UNION {[S -> 1..2] : S \in SUBSET CovFiles}
Measured == UNION {[S -> Rows] : S \in SUBSET Tests}
Manifests == [tests : Measured, complete : BOOLEAN, of : SUBSET Tests]

CovTypes ==
    /\ content \in [CovFiles -> 1..2] /\ live \subseteq Tests /\ removed \subseteq Tests
    /\ store = [t \in Tests |-> store[t]] /\ disk \in Manifests
    /\ mem \in [loaded : BOOLEAN, complete : BOOLEAN, of : SUBSET Tests]
    /\ build \in [at : {"idle", "prune", "run", "record"}, man : Manifests, jobs : SUBSET Tests,
                  todo : SUBSET Tests, results : Measured, failed : BOOLEAN, wrote : BOOLEAN]

\* The listing that what is known is held against: a build's own while it runs.
Listed == IF build.at = "idle" THEN live ELSE build.jobs

\* Whoever is spoken of and not listed has been removed.
Accounted ==
    /\ build.jobs \subseteq live \cup removed
    /\ mem.of \cup disk.of \cup DOMAIN disk.tests \subseteq Listed \cup removed
    /\ DOMAIN build.man.tests \subseteq build.jobs \cup removed
    /\ build.todo \cup DOMAIN build.results \subseteq build.jobs

\* What is measured, or vouched for, has its rows, unless it was removed.
Backed(tests) == \A t \in tests \ removed : store[t] # Cov!None
RowsKept ==
    /\ Backed(DOMAIN disk.tests) /\ Backed(DOMAIN build.man.tests)
    /\ \A t \in DOMAIN build.results : build.results[t] # Cov!None
    /\ disk.complete => Backed(disk.of)
    /\ mem.loaded /\ mem.complete => Backed(mem.of)

CovInv == CovTypes /\ Accounted /\ RowsKept

LEMMA MeasuredIs == ASSUME NEW g PROVE g \in Measured <=> DOMAIN g \subseteq Tests /\ g \in [DOMAIN g -> Rows]
  BY DEF Measured

LEMMA NowRows == ASSUME CovTypes, NEW t \in Tests PROVE Cov!Now(t) \in Rows /\ Cov!Now(t) # Cov!None
<1>1. Cov!Now(t) \in [Covers[t] -> 1..2] /\ Covers[t] \subseteq CovFiles /\ Covers[t] # {}
  BY ModuleAssumption DEF Cov!Now, CovTypes, CovFiles
<1>2. DOMAIN <<>> = {}
  OBVIOUS
<1> QED
  BY <1>1, <1>2 DEF Rows, Cov!None

LEMMA NoManifestTyped == /\ Cov!NoManifest \in Manifests /\ <<>> \in Measured /\ DOMAIN <<>> = {}
                         /\ Cov!NoManifest.tests = <<>>
<1>1. DOMAIN <<>> = {} /\ <<>> \in [{} -> Rows]
  OBVIOUS
<1>2. <<>> \in Measured
  BY <1>1, MeasuredIs
<1> QED
  BY <1>1, <1>2 DEF Cov!NoManifest, Manifests

LEMMA CovStarts == Cov!Init => CovInv
<1> SUFFICES ASSUME Cov!Init PROVE CovInv
  OBVIOUS
<1>1. CovTypes
  BY NoManifestTyped DEF Cov!Init, CovTypes, CovFiles, Cov!Unloaded, Cov!Idle
<1>2. build.results = <<>> /\ build.man.tests = <<>> /\ disk.tests = <<>> /\ disk.of = {} /\ mem.of = {}
  BY NoManifestTyped DEF Cov!Init, Cov!Unloaded, Cov!Idle, Cov!NoManifest
<1> QED
  BY <1>1, <1>2, NoManifestTyped
  DEF Cov!Init, CovInv, Accounted, RowsKept, Backed, Listed, Cov!Unloaded, Cov!Idle, Cov!NoManifest

LEMMA WithTyped ==
  ASSUME NEW g \in Measured, NEW t \in Tests, NEW v \in Rows
  PROVE  /\ Cov!With(g, t, v) \in Measured /\ DOMAIN Cov!With(g, t, v) = DOMAIN g \cup {t}
         /\ Cov!With(g, t, v)[t] = v
         /\ \A u \in DOMAIN g : u # t => Cov!With(g, t, v)[u] = g[u]
<1>1. DOMAIN g \subseteq Tests /\ g \in [DOMAIN g -> Rows]
  BY MeasuredIs
<1>2. Cov!With(g, t, v) \in [DOMAIN g \cup {t} -> Rows] /\ DOMAIN g \cup {t} \subseteq Tests
  BY <1>1 DEF Cov!With
<1> QED
  BY <1>2, MeasuredIs DEF Cov!With

LEMMA RestrictTyped ==
  ASSUME NEW g \in Measured, NEW t
  PROVE  /\ Cov!Restrict(g, DOMAIN g \ {t}) \in Measured
         /\ DOMAIN Cov!Restrict(g, DOMAIN g \ {t}) = DOMAIN g \ {t}
         /\ \A u \in DOMAIN g \ {t} : Cov!Restrict(g, DOMAIN g \ {t})[u] = g[u]
<1>1. DOMAIN g \subseteq Tests /\ g \in [DOMAIN g -> Rows]
  BY MeasuredIs
<1>2. Cov!Restrict(g, DOMAIN g \ {t}) \in [DOMAIN g \ {t} -> Rows] /\ DOMAIN g \ {t} \subseteq Tests
  BY <1>1 DEF Cov!Restrict
<1> QED
  BY <1>2, MeasuredIs DEF Cov!Restrict

LEMMA CovEdits ==
  ASSUME CovInv, \/ \E f \in CovFiles : Cov!EditFile(f)
                 \/ \E t \in Tests : Cov!EditTests(t)
                 \/ Cov!CoverageReady
  PROVE  CovInv'
<1>1. ASSUME NEW f \in CovFiles, Cov!EditFile(f) PROVE CovInv'
  <2>1. content' \in [CovFiles -> 1..2]
    BY <1>1 DEF Cov!EditFile, CovInv, CovTypes
  <2> QED
    BY <1>1, <2>1 DEF Cov!EditFile, CovInv, CovTypes, Accounted, RowsKept, Backed, Listed
<1>2. ASSUME NEW t \in Tests, Cov!EditTests(t) PROVE CovInv'
  <2>1. /\ live' \subseteq Tests /\ removed' \subseteq Tests /\ removed \subseteq removed'
        /\ live \subseteq live' \cup removed'
        /\ UNCHANGED <<content, store, disk, mem, build>>
    BY <1>2 DEF Cov!EditTests, CovInv, CovTypes
  <2> QED
    BY <2>1 DEF CovInv, CovTypes, Accounted, RowsKept, Backed, Listed
<1>3. CASE Cov!CoverageReady
  BY <1>3 DEF Cov!CoverageReady, Cov!Loaded, CovInv, CovTypes, Manifests, Accounted, RowsKept, Backed,
              Listed
<1> QED
  BY <1>1, <1>2, <1>3

LEMMA CovBuild ==
  ASSUME CovInv, \/ Cov!BeginRefresh \/ Cov!Pruned \/ Cov!FeedingEnds \/ Cov!Finish
                 \/ Cov!RefreshFails \/ Cov!Restart
  PROVE  CovInv'
<1> USE NoManifestTyped DEF Manifests
<1> DEFINE BuildTyped(b) ==
             b \in [at : {"idle", "prune", "run", "record"}, man : Manifests, jobs : SUBSET Tests,
                    todo : SUBSET Tests, results : Measured, failed : BOOLEAN, wrote : BOOLEAN]
<1>1. CASE Cov!BeginRefresh
  <2>1. /\ build.at = "idle" /\ UNCHANGED <<content, live, removed, store, disk, mem>>
        /\ build'.at = "prune" /\ build'.man = disk /\ build'.jobs = live
        /\ build'.todo \subseteq live /\ build'.results = <<>> /\ BuildTyped(build')
    BY <1>1 DEF Cov!BeginRefresh, Cov!Idle, CovInv, CovTypes
  <2> QED
    BY <2>1 DEF CovInv, CovTypes, Accounted, RowsKept, Backed, Listed
<1>2. CASE Cov!Pruned \/ Cov!FeedingEnds
  <2>1. /\ build.at # "idle" /\ build'.at # "idle" /\ UNCHANGED <<content, live, removed, store, disk, mem>>
        /\ build'.man = build.man /\ build'.jobs = build.jobs /\ build'.results = build.results
        /\ build'.todo \subseteq build.todo /\ BuildTyped(build')
    BY <1>2 DEF Cov!Pruned, Cov!FeedingEnds, CovInv, CovTypes
  <2> QED
    BY <2>1 DEF CovInv, CovTypes, Accounted, RowsKept, Backed, Listed
<1>3. CASE Cov!Finish
  <2> DEFINE kept == [build.man EXCEPT !.complete = Cov!Complete(build), !.of = build.jobs]
  <2>1. /\ build.at # "idle" /\ build' = Cov!Idle /\ UNCHANGED <<content, live, removed, store>>
        /\ mem' = [loaded |-> TRUE, complete |-> Cov!Complete(build), of |-> build.jobs]
        /\ disk' = disk \/ disk' = kept
    BY <1>3 DEF Cov!Finish
  <2>2. /\ build'.at = "idle" /\ build'.jobs = {} /\ build'.todo = {} /\ build'.results = <<>>
        /\ build'.man = Cov!NoManifest /\ BuildTyped(build')
    BY <2>1 DEF Cov!Idle
  <2>3. /\ kept \in Manifests /\ kept.tests = build.man.tests /\ kept.of = build.jobs
        /\ kept.complete = Cov!Complete(build)
    BY DEF CovInv, CovTypes, Cov!Complete
  <2>4. CovTypes'
    BY <2>1, <2>2, <2>3 DEF CovInv, CovTypes, Cov!Complete
  <2>5. Accounted'
    <3>1. build.jobs \cup DOMAIN build.man.tests \subseteq live \cup removed
      BY DEF CovInv, Accounted
    <3>2. mem'.of \cup disk'.of \cup DOMAIN disk'.tests \subseteq live \cup removed
      BY <2>1, <2>3, <3>1 DEF CovInv, Accounted, Listed
    <3> QED
      BY <2>1, <2>2, <3>2 DEF CovInv, Accounted, Listed, Cov!NoManifest
  <2>6. RowsKept'
    <3>1. Cov!Complete(build) => Backed(build.jobs)
      BY DEF Cov!Complete, CovInv, RowsKept, Backed
    <3>2. Backed(DOMAIN disk'.tests) /\ (disk'.complete => Backed(disk'.of))
      BY <2>1, <2>3, <3>1 DEF CovInv, RowsKept
    <3> QED
      BY <2>1, <2>2, <3>1, <3>2 DEF CovInv, RowsKept, Backed
  <2> QED
    BY <2>4, <2>5, <2>6 DEF CovInv
<1>4. CASE Cov!RefreshFails \/ Cov!Restart
  <2>1. /\ build' = Cov!Idle /\ UNCHANGED <<content, live, removed, store, disk>>
        /\ mem' = mem \/ mem' = Cov!Unloaded
    BY <1>4 DEF Cov!RefreshFails, Cov!Restart
  <2>2. /\ build'.at = "idle" /\ build'.jobs = {} /\ build'.todo = {} /\ build'.results = <<>>
        /\ build'.man = Cov!NoManifest /\ BuildTyped(build')
    BY <2>1 DEF Cov!Idle
  <2>3. /\ mem' \in [loaded : BOOLEAN, complete : BOOLEAN, of : SUBSET Tests]
        /\ mem'.of \subseteq mem.of /\ (mem' = mem \/ ~mem'.complete)
    <3>1. mem \in [loaded : BOOLEAN, complete : BOOLEAN, of : SUBSET Tests]
      BY DEF CovInv, CovTypes
    <3>2. CASE mem' = mem
      BY <3>1, <3>2
    <3>3. CASE mem' = Cov!Unloaded
      BY <3>3 DEF Cov!Unloaded
    <3> QED
      BY <2>1, <3>2, <3>3
  <2>4. mem'.of \cup disk.of \cup DOMAIN disk.tests \subseteq live \cup removed
    BY <2>3 DEF CovInv, Accounted, Listed
  <2>5. CovTypes' /\ Accounted'
    BY <2>1, <2>2, <2>3, <2>4 DEF CovInv, CovTypes, Accounted, Listed
  <2>6. RowsKept'
    BY <2>1, <2>2, <2>3 DEF CovInv, RowsKept, Backed
  <2> QED
    BY <2>5, <2>6 DEF CovInv
<1> QED
  BY <1>1, <1>2, <1>3, <1>4

LEMMA CovTests ==
  ASSUME CovInv, NEW t \in Tests,
         Cov!Prune(t) \/ Cov!RecordResult(t) \/ \E ok \in BOOLEAN : Cov!RunCoverageJob(t, ok)
  PROVE  CovInv'
<1> USE DEF Manifests
<1>1. Cov!Now(t) \in Rows /\ Cov!Now(t) # Cov!None
  BY NowRows DEF CovInv
<1>2. build.man.tests \in Measured /\ build.results \in Measured
  BY DEF CovInv, CovTypes
<1>3. CASE Cov!Prune(t)
  <2> DEFINE left == Cov!Restrict(build.man.tests, DOMAIN build.man.tests \ {t})
  <2>1. /\ build.at = "prune" /\ t \in removed /\ UNCHANGED <<content, live, removed, disk, mem>>
        /\ store' = [store EXCEPT ![t] = Cov!None]
        /\ build' = [build EXCEPT !.man.tests = left, !.wrote = TRUE]
    BY <1>3 DEF Cov!Prune, CovInv, Accounted
  <2>2. left \in Measured /\ DOMAIN left = DOMAIN build.man.tests \ {t}
    BY <1>2, RestrictTyped
  <2> HIDE DEF left
  <2>3. /\ build'.at = build.at /\ build'.jobs = build.jobs /\ build'.todo = build.todo
        /\ build'.results = build.results /\ build'.man.tests = left
    BY <2>1 DEF CovInv, CovTypes
  <2>4. CovTypes'
    BY <2>1, <2>2 DEF CovInv, CovTypes
  <2>5. Accounted'
    BY <2>1, <2>2, <2>3 DEF CovInv, Accounted, Listed
  <2>6. \A u \in Tests \ removed : store'[u] = store[u]
    BY <2>1 DEF CovInv, CovTypes
  <2>7. RowsKept'
    <3>1. /\ DOMAIN disk.tests \subseteq Tests /\ DOMAIN build.man.tests \subseteq Tests
          /\ disk.of \subseteq Tests /\ mem.of \subseteq Tests
      BY MeasuredIs DEF CovInv, CovTypes
    <3> QED
      BY <2>1, <2>2, <2>3, <2>6, <3>1 DEF CovInv, RowsKept, Backed
  <2> QED
    BY <2>4, <2>5, <2>7 DEF CovInv
<1>4. CASE Cov!RecordResult(t)
  <2> DEFINE left == Cov!Restrict(build.results, DOMAIN build.results \ {t})
             tests == Cov!With(build.man.tests, t, Cov!Now(t))
  <2>1. /\ build.at = "record" /\ t \in DOMAIN build.results
        /\ UNCHANGED <<content, live, removed, disk, mem>>
        /\ store' = [store EXCEPT ![t] = build.results[t]]
        /\ build' = [build EXCEPT !.results = left, !.wrote = TRUE, !.man.tests = tests]
    BY <1>4 DEF Cov!RecordResult
  <2>2. /\ left \in Measured /\ DOMAIN left = DOMAIN build.results \ {t}
        /\ \A u \in DOMAIN left : left[u] = build.results[u]
    BY <1>2, RestrictTyped
  <2>3. tests \in Measured /\ DOMAIN tests = DOMAIN build.man.tests \cup {t}
    BY <1>1, <1>2, WithTyped
  <2> HIDE DEF left, tests
  <2>4. /\ build'.at = build.at /\ build'.jobs = build.jobs /\ build'.todo = build.todo
        /\ build'.results = left /\ build'.man.tests = tests
    BY <2>1 DEF CovInv, CovTypes
  <2>5. CovTypes'
    BY <2>1, <2>2, <2>3 DEF CovInv, CovTypes
  <2>6. Accounted'
    BY <2>1, <2>2, <2>3, <2>4 DEF CovInv, Accounted, Listed
  <2>7. store'[t] # Cov!None /\ \A u \in Tests \ {t} : store'[u] = store[u]
    BY <2>1 DEF CovInv, CovTypes, RowsKept
  <2>8. RowsKept'
    <3>1. /\ DOMAIN disk.tests \subseteq Tests /\ DOMAIN build.man.tests \subseteq Tests
          /\ disk.of \subseteq Tests /\ mem.of \subseteq Tests
      BY MeasuredIs DEF CovInv, CovTypes
    <3> QED
      BY <2>1, <2>2, <2>3, <2>4, <2>7, <3>1 DEF CovInv, RowsKept, Backed
  <2> QED
    BY <2>5, <2>6, <2>8 DEF CovInv
<1>5. ASSUME NEW ok \in BOOLEAN, Cov!RunCoverageJob(t, ok) PROVE CovInv'
  <2> DEFINE more == Cov!With(build.results, t, Cov!Now(t))
  <2>1. /\ build.at = "run" /\ t \in build.todo /\ UNCHANGED <<content, live, removed, store, disk, mem>>
        /\ build' = [build EXCEPT !.todo = @ \ {t}, !.results = IF ok THEN more ELSE @,
                                  !.failed = @ \/ ~ok]
    BY <1>5 DEF Cov!RunCoverageJob
  <2>2. /\ more \in Measured /\ DOMAIN more = DOMAIN build.results \cup {t}
        /\ more[t] = Cov!Now(t) /\ \A u \in DOMAIN build.results : u # t => more[u] = build.results[u]
    BY <1>1, <1>2, WithTyped
  <2> HIDE DEF more
  <2>3. /\ build'.at = build.at /\ build'.jobs = build.jobs /\ build'.todo = build.todo \ {t}
        /\ build'.results \in {more, build.results} /\ build'.man = build.man
        /\ build'.failed \in BOOLEAN
    BY <2>1 DEF CovInv, CovTypes
  <2>4. CovTypes'
    BY <2>1, <2>2, <2>3 DEF CovInv, CovTypes
  <2>5. Accounted'
    BY <2>1, <2>2, <2>3 DEF CovInv, Accounted, Listed
  <2>6. RowsKept'
    BY <1>1, <2>1, <2>2, <2>3 DEF CovInv, RowsKept, Backed
  <2> QED
    BY <2>4, <2>5, <2>6 DEF CovInv
<1> QED
  BY <1>3, <1>4, <1>5

LEMMA CovNext == ASSUME CovInv, Cov!Next PROVE CovInv'
  BY CovEdits, CovBuild, CovTests DEF Cov!Next, CovFiles

LEMMA CovReady == CovInv => Cov!ReadyBacked
  BY DEF CovInv, RowsKept, Backed, Cov!ReadyBacked, Cov!Ready, Cov!Loaded

-----------------------------------------------------------------------------
(* Verdicts *)

\* The packages that can see a file include those of the tests that execute it.  The import
\* graph has it from the imports of a package's own files (importgraph.go:62).
TestsSeen == \A t \in Tests : \A f \in Covers[t] : TestPkg[t] \in Gate!Reaches({Pkg[f]})

GateTypes ==
    /\ world \in Gate!Worlds /\ step \in 0..7
    /\ verdict \in {"none", "pass", "failed", "unattributed"}
    /\ verdict = "pass" => step = 7

\* What a tier says it has selected, it has.
SelectionHolds ==
    \A f \in world.changes :
        /\ selection.level = "line" => Gate!CoveringTests(f) \subseteq selection.tests
        /\ selection.level = "importer" => Gate!Reaches({Pkg[f]}) \subseteq selection.packages

\* What the gates before this one have seen.
GatesPassed ==
    world.module =>
        /\ step > 3 => world.builds
        /\ step > 5 /\ Gate!GoFiles(world.changes) # {} => Gate!Selected \cap world.broken = {}

GateInv == GateTypes /\ SelectionHolds /\ GatesPassed /\ Gate!BrokenIsOwned

LEMMA GateSteps ==
  /\ Len(Gate!Steps) = 7 /\ Gate!Steps[3] = "build" /\ Gate!Steps[5] = "go-test"
  /\ \A i \in 1..7 : i # 5 => Gate!Steps[i] # "go-test"
  BY DEF Gate!Steps

LEMMA ReachesMore == ASSUME NEW ps, NEW p \in ps PROVE Gate!Reaches({p}) \subseteq Gate!Reaches(ps)
  BY DEF Gate!Reaches

\* A test the change broke is in the selection of either tier.
LEMMA BrokenSelected ==
  ASSUME TestsSeen, GateInv, selection.level \in {"line", "importer"}
  PROVE  world.broken \subseteq Gate!Selected
<1> SUFFICES ASSUME NEW t \in world.broken PROVE t \in Gate!Selected
  OBVIOUS
<1>1. t \in Tests /\ Covers[t] \cap world.changes # {}
  BY DEF GateInv, GateTypes, Gate!Worlds
<1>2. PICK f \in Covers[t] : f \in world.changes
  BY <1>1
<1> QED
  BY <1>1, <1>2 DEF TestsSeen, GateInv, SelectionHolds, Gate!Selected, Gate!CoveringTests

LEMMA GateStarts == Gate!Init => GateInv
  BY DEF Gate!Init, Gate!None, GateInv, GateTypes, SelectionHolds, GatesPassed, Gate!BrokenIsOwned

LEMMA GateSelects == ASSUME GateInv, Gate!FirstStep PROVE GateInv'
<1>1. /\ step = 0 /\ step' = 1 /\ verdict = "none" /\ UNCHANGED <<world, verdict>>
      /\ \/ selection' = [level |-> "package", tests |-> {}, packages |-> {}]
         \/ selection' = Gate!Select
  BY DEF Gate!FirstStep, Gate!None
<1>2. SelectionHolds'
  <2>1. CASE selection' = [level |-> "package", tests |-> {}, packages |-> {}]
    BY <2>1 DEF SelectionHolds
  <2>2. CASE selection' = Gate!Select /\ Gate!SelectByLine.ok
    <3>1. selection'.level = "line" /\ selection'.tests = UNION {Gate!CoveringTests(f) : f \in world.changes}
      BY <2>2 DEF Gate!Select, Gate!SelectByLine
    <3> QED
      BY <1>1, <3>1 DEF SelectionHolds, Gate!CoveringTests
  <2>3. CASE selection' = Gate!Select /\ ~Gate!SelectByLine.ok /\ Gate!SelectByImporters.ok
    <3>1. selection'.level = "importer"
          /\ selection'.packages = Gate!Reaches({Pkg[f] : f \in world.changes})
      BY <2>3 DEF Gate!Select, Gate!SelectByImporters
    <3>2. \A f \in world.changes : Gate!Reaches({Pkg[f]}) \subseteq selection'.packages
      <4> TAKE f \in world.changes
      <4> DEFINE ps == {Pkg[g] : g \in world.changes}
      <4>1. Pkg[f] \in ps
        OBVIOUS
      <4> HIDE DEF ps
      <4>2. Gate!Reaches({Pkg[f]}) \subseteq Gate!Reaches(ps)
        BY <4>1, ReachesMore
      <4> QED
        BY <3>1, <4>2 DEF ps
    <3> QED
      BY <1>1, <3>1, <3>2 DEF SelectionHolds
  <2>4. CASE selection' = Gate!Select /\ ~Gate!SelectByLine.ok /\ ~Gate!SelectByImporters.ok
    BY <2>4 DEF Gate!Select, SelectionHolds
  <2> QED
    BY <1>1, <2>1, <2>2, <2>3, <2>4
<1> QED
  BY <1>1, <1>2 DEF GateInv, GateTypes, GatesPassed, Gate!BrokenIsOwned

\* What go test says when nothing it was asked to run is broken.
LEMMA GoTestPasses ==
  ASSUME NEW r, Gate!GoTestGate(r), r.pass, Gate!GoFiles(world.changes) # {}, world.module
  PROVE  Gate!Selected \cap world.broken = {}
  BY DEF Gate!GoTestGate, Gate!ExaminedNothing, Gate!Failed, Gate!TrimFailure

\* What go test says of a test the change broke names a file of the test's package, which
\* the change reaches.
LEMMA GoTestOwned ==
  ASSUME TestsSeen, GateInv, NEW r, Gate!GoTestGate(r), ~r.pass, world.builds,
         Gate!GoFiles(world.changes) \subseteq world.known
  PROVE  Gate!Attributable(r)
<1>1. CASE r = Gate!ExaminedNothing
  BY <1>1 DEF Gate!ExaminedNothing, Gate!Failed, Gate!Attributable
<1>2. CASE r # Gate!ExaminedNothing
  <2>1. world.module
    BY DEF GateInv, GateTypes, Gate!Worlds
  <2>2. /\ Gate!Selected \cap world.broken # {}
        /\ \E more : r = Gate!TrimFailure(more \cup UNION {Gate!Prints(t) : t \in Gate!Selected \cap world.broken})
    <3>1. r # Gate!Abstained /\ r # Gate!Passed
      BY DEF Gate!Abstained, Gate!Passed
    <3> QED
      BY <1>2, <2>1, <3>1 DEF Gate!GoTestGate
  <2> PICK more : r = Gate!TrimFailure(more \cup UNION {Gate!Prints(t) : t \in Gate!Selected \cap world.broken})
    BY <2>2
  <2>3. PICK t \in Gate!Selected \cap world.broken : TRUE
    BY <2>2
  <2>4. t \in Tests /\ Covers[t] \cap world.changes # {}
    BY <2>3 DEF GateInv, GateTypes, Gate!Worlds
  <2> PICK f \in Covers[t] : f \in world.changes
    BY <2>4
  <2>5. PICK g \in Sources : Kind[g] = "test" /\ Pkg[g] = TestPkg[t]
    BY <2>4, ModuleAssumption
  <2>6. f \in world.known /\ g \in world.known
    BY <2>4, <2>5, ModuleAssumption DEF GateInv, GateTypes, Gate!Worlds, Gate!GoFiles, Gate!IsGo
  <2>7. Base[g] \in UNION {Gate!Prints(u) : u \in Gate!Selected \cap world.broken}
    BY <2>3, <2>5 DEF Gate!Prints
  <2>8. r.frames # {} \/ Base[g] \in r.context
    BY <2>2, <2>7 DEF Gate!TrimFailure, Gate!Failed
  <2>9. Pkg[g] \in Gate!ReachablePackages
    <3>1. Pkg[f] \in {Pkg[h] : h \in world.changes \cap world.known}
      BY <2>4, <2>6
    <3>2. Pkg[g] \in Gate!Reaches({Pkg[f]})
      BY <2>4, <2>5 DEF TestsSeen
    <3> QED
      BY <3>1, <3>2, ReachesMore DEF Gate!ReachablePackages
  <2> QED
    BY <2>6, <2>8, <2>9 DEF Gate!Attributable, Gate!NamesReachableFile
<1> QED
  BY <1>1, <1>2

LEMMA GateRuns == ASSUME TestsSeen, GateInv, Gate!RunStep PROVE GateInv'
<1>1. /\ step \in 1..7 /\ verdict = "none" /\ UNCHANGED <<world, selection>>
      /\ \E r \in Gate!Results :
            /\ Gate!Reports(Gate!Steps[step], r)
            /\ \/ ~r.pass /\ step' = step
                  /\ verdict' = (IF Gate!Attributable(r) THEN "failed" ELSE "unattributed")
               \/ r.pass /\ step < 7 /\ step' = step + 1 /\ verdict' = "none"
               \/ r.pass /\ step = 7 /\ step' = step /\ verdict' = "pass"
  BY GateSteps DEF Gate!RunStep, Gate!None, GateInv, GateTypes
<1>2. PICK r \in Gate!Results :
            /\ Gate!Reports(Gate!Steps[step], r)
            /\ \/ ~r.pass /\ step' = step
                  /\ verdict' = (IF Gate!Attributable(r) THEN "failed" ELSE "unattributed")
               \/ r.pass /\ step < 7 /\ step' = step + 1 /\ verdict' = "none"
               \/ r.pass /\ step = 7 /\ step' = step /\ verdict' = "pass"
  BY <1>1
<1>3. GateTypes'
  BY <1>1, <1>2 DEF GateInv, GateTypes
<1>4. SelectionHolds'
  BY <1>1 DEF GateInv, SelectionHolds
<1>5. GatesPassed'
  <2>1. ASSUME step = 3, r.pass, world.module PROVE world.builds
    <3>1. Gate!BuildGate(r)
      BY <1>2, <2>1, GateSteps DEF Gate!Reports
    <3> QED
      BY <2>1, <3>1 DEF Gate!BuildGate, Gate!TrimFailure, Gate!Failed
  <2>2. ASSUME step = 5, r.pass, world.module, Gate!GoFiles(world.changes) # {}
        PROVE  Gate!Selected \cap world.broken = {}
    <3>1. Gate!GoTestGate(r)
      BY <1>2, <2>2, GateSteps DEF Gate!Reports
    <3> QED
      BY <2>2, <3>1, GoTestPasses
  <2>3. Gate!Selected' = Gate!Selected /\ Gate!GoFiles(world.changes)' = Gate!GoFiles(world.changes)
    BY <1>1 DEF Gate!Selected, Gate!GoFiles, Gate!IsGo
  <2> QED
    BY <1>1, <1>2, <2>1, <2>2, <2>3 DEF GateInv, GateTypes, GatesPassed
<1>6. Gate!BrokenIsOwned'
  <2> SUFFICES ASSUME verdict' = "unattributed", Gate!Steps[step'] = "go-test", world'.builds,
                      (Gate!GoFiles(world.changes) \subseteq world.known)'
               PROVE  FALSE
    BY DEF Gate!BrokenIsOwned, Gate!Steps
  <2>1. ~r.pass /\ ~Gate!Attributable(r) /\ step' = step
    BY <1>2
  <2>2. step = 5
    BY <1>1, <2>1, GateSteps
  <2>3. Gate!GoTestGate(r) /\ world.builds /\ Gate!GoFiles(world.changes) \subseteq world.known
    BY <1>1, <1>2, <2>2, GateSteps DEF Gate!Reports, Gate!GoFiles
  <2> QED
    BY <2>1, <2>3, GoTestOwned
<1> QED
  BY <1>3, <1>4, <1>5, <1>6 DEF GateInv

LEMMA GateNext == ASSUME TestsSeen, GateInv, Gate!Next PROVE GateInv'
  BY GateSelects, GateRuns DEF Gate!Next

LEMMA GatePasses == ASSUME TestsSeen, GateInv PROVE Gate!PassIsEarned
  BY BrokenSelected DEF GateInv, GateTypes, GatesPassed, Gate!PassIsEarned, Gate!Worlds

-----------------------------------------------------------------------------
(* Daemons *)

Listening == {"identify", "bound", "sweeping", "serving"}
Stops == {"new", "probe", "stale", "again", "refused", "exited", "crashed"}

SocketTypes ==
    /\ pc \in [Daemons -> Stops \cup Listening \cup Dmn!Alive]
    /\ file \in Nat /\ files \in Nat
    /\ listens \in [Daemons -> Nat] /\ sockID \in [Daemons -> Nat] /\ looked \in [Daemons -> Nat]

\* A daemon listens on a socket file of its own, from its bind until it drains.
OwnListener ==
    /\ file <= files
    /\ \A d \in Daemons : listens[d] <= files /\ sockID[d] <= files
    /\ \A d \in Daemons : listens[d] # 0 <=> pc[d] \in Listening
    /\ \A d, e \in Daemons : listens[d] # 0 /\ listens[d] = listens[e] => d = e

\* The socket of a daemon that was not displaced is at the path while it listens, and nobody
\* else listens on what it noted as its own and will look for when it removes it.
OwnSocketNoted ==
    \A d \in Daemons \ displaced :
        /\ listens[d] # 0 => file = listens[d]
        /\ pc[d] \in Dmn!Alive =>
              sockID[d] # 0 /\ \A e \in Daemons : e # d => listens[e] # sockID[d]
        /\ pc[d] = "checked" => looked[d] = sockID[d]

SocketInv == SocketTypes /\ OwnListener /\ OwnSocketNoted

LEMMA SocketStarts == Dmn!Init => SocketInv
  BY DEF Dmn!Init, SocketInv, SocketTypes, OwnListener, OwnSocketNoted, Stops, Listening, Dmn!Alive

LEMMA BoundKept ==
  ASSUME SocketInv, NEW d \in Daemons, pc[d] \in {"new", "again"}, Dmn!Bound(d),
         UNCHANGED <<sockID, looked, displaced>>
  PROVE  SocketInv'
<1>1. /\ file = 0 /\ file' = files + 1 /\ files' = files + 1
      /\ listens' = [listens EXCEPT ![d] = files + 1] /\ pc' = [pc EXCEPT ![d] = "identify"]
  BY DEF Dmn!Bound
<1>2. SocketTypes'
  BY <1>1 DEF SocketInv, SocketTypes, Listening
<1>3. OwnListener'
  BY <1>1 DEF SocketInv, SocketTypes, OwnListener, Listening
<1>4. OwnSocketNoted'
  BY <1>1 DEF SocketInv, SocketTypes, OwnListener, OwnSocketNoted, Listening, Dmn!Alive
<1> QED
  BY <1>2, <1>3, <1>4 DEF SocketInv

\* A daemon that only moves on, to a place where it listens if and only if it did.
LEMMA MovesOn ==
  ASSUME SocketInv, NEW d \in Daemons, NEW to \in Stops \cup Listening \cup Dmn!Alive,
         pc' = [pc EXCEPT ![d] = to], to \in Listening <=> pc[d] \in Listening,
         to \in Dmn!Alive => pc[d] \in Dmn!Alive, to # "checked",
         UNCHANGED <<file, files, listens, sockID, looked, displaced>>
  PROVE  SocketInv'
<1>1. SocketTypes'
  BY DEF SocketInv, SocketTypes
<1>2. OwnListener'
  BY DEF SocketInv, SocketTypes, OwnListener
<1>3. OwnSocketNoted'
  BY DEF SocketInv, SocketTypes, OwnSocketNoted
<1> QED
  BY <1>1, <1>2, <1>3 DEF SocketInv

LEMMA SocketNext == SocketInv /\ Dmn!Next => SocketInv'
<1> SUFFICES ASSUME SocketInv, Dmn!Next PROVE SocketInv'
  OBVIOUS
<1> USE DEF SocketInv
<1>1. ASSUME NEW d \in Daemons, Dmn!Listen(d) PROVE SocketInv'
  <2>1. CASE Dmn!Bound(d)
    BY <1>1, <2>1, BoundKept DEF Dmn!Listen
  <2>2. CASE pc' = [pc EXCEPT ![d] = "probe"] /\ UNCHANGED <<file, files, listens>>
    BY <1>1, <2>2, MovesOn DEF Dmn!Listen, Stops, Listening, Dmn!Alive
  <2> QED
    BY <1>1, <2>1, <2>2 DEF Dmn!Listen
<1>2. ASSUME NEW d \in Daemons, Dmn!Probe(d) PROVE SocketInv'
  <2>1. PICK to \in {"refused", "stale"} : pc' = [pc EXCEPT ![d] = to]
    BY <1>2 DEF Dmn!Probe
  <2> QED
    BY <1>2, <2>1, MovesOn DEF Dmn!Probe, Stops, Listening, Dmn!Alive, Dmn!socket
<1>3. ASSUME NEW d \in Daemons, Dmn!RemoveStale(d) PROVE SocketInv'
  <2>1. /\ pc[d] = "stale" /\ file' = 0 /\ pc' = [pc EXCEPT ![d] = "again"]
        /\ displaced' = displaced \cup {e \in Daemons : file # 0 /\ listens[e] = file}
        /\ UNCHANGED <<files, listens, sockID, looked>>
    BY <1>3 DEF Dmn!RemoveStale
  <2>2. SocketTypes'
    BY <2>1 DEF SocketTypes, Stops
  <2>3. OwnListener'
    BY <2>1 DEF SocketTypes, OwnListener, Listening
  <2>4. OwnSocketNoted'
    BY <2>1 DEF SocketTypes, OwnSocketNoted, Dmn!Alive
  <2> QED
    BY <2>2, <2>3, <2>4
<1>4. ASSUME NEW d \in Daemons, Dmn!ListenAgain(d) PROVE SocketInv'
  <2>1. CASE Dmn!Bound(d)
    BY <1>4, <2>1, BoundKept DEF Dmn!ListenAgain
  <2>2. CASE pc' = [pc EXCEPT ![d] = "refused"] /\ UNCHANGED <<file, files, listens>>
    BY <1>4, <2>2, MovesOn DEF Dmn!ListenAgain, Stops, Listening, Dmn!Alive
  <2> QED
    BY <1>4, <2>1, <2>2 DEF Dmn!ListenAgain
<1>5. ASSUME NEW d \in Daemons, Dmn!Identify(d) PROVE SocketInv'
  <2>1. /\ pc[d] = "identify" /\ sockID' = [sockID EXCEPT ![d] = file]
        /\ pc' = [pc EXCEPT ![d] = "bound"]
        /\ UNCHANGED <<file, files, listens, looked, displaced>>
    BY <1>5 DEF Dmn!Identify
  <2>2. SocketTypes'
    BY <2>1 DEF SocketTypes, Listening
  <2>3. OwnListener'
    BY <2>1 DEF SocketTypes, OwnListener, Listening
  <2>4. OwnSocketNoted'
    BY <2>1 DEF SocketTypes, OwnListener, OwnSocketNoted, Listening, Dmn!Alive
  <2> QED
    BY <2>2, <2>3, <2>4
<1>6. ASSUME NEW d \in Daemons, Dmn!Sweep(d) PROVE SocketInv'
  BY <1>6, MovesOn DEF Dmn!Sweep, Dmn!socket, Stops, Listening, Dmn!Alive
<1>7. ASSUME NEW d \in Daemons, Dmn!SweepEnds(d) PROVE SocketInv'
  BY <1>7, MovesOn DEF Dmn!SweepEnds, Dmn!socket, Stops, Listening, Dmn!Alive
<1>8. ASSUME UNCHANGED <<pc, file, files, listens, sockID, looked, displaced>> PROVE SocketInv'
  BY <1>8 DEF SocketTypes, OwnListener, OwnSocketNoted
<1>9. ASSUME NEW d \in Daemons, Dmn!Drain(d) PROVE SocketInv'
  <2>1. /\ pc[d] = "serving" /\ listens' = [listens EXCEPT ![d] = 0]
        /\ pc' = [pc EXCEPT ![d] = "draining"]
        /\ UNCHANGED <<file, files, sockID, looked, displaced>>
    BY <1>9 DEF Dmn!Drain
  <2>2. SocketTypes'
    BY <2>1 DEF SocketTypes, Dmn!Alive
  <2>3. OwnListener'
    BY <2>1 DEF SocketTypes, OwnListener, Listening
  <2>4. OwnSocketNoted'
    BY <2>1 DEF SocketTypes, OwnSocketNoted, Dmn!Alive
  <2> QED
    BY <2>2, <2>3, <2>4
<1>10. ASSUME NEW d \in Daemons, Dmn!CheckSocket(d) PROVE SocketInv'
  <2>1. /\ pc[d] = "draining" /\ looked' = [looked EXCEPT ![d] = file]
        /\ pc' = [pc EXCEPT ![d] = IF Dmn!OwnSocket(d) THEN "checked" ELSE "exited"]
        /\ UNCHANGED <<file, files, listens, sockID, displaced>>
    BY <1>10 DEF Dmn!CheckSocket
  <2>2. SocketTypes'
    BY <2>1 DEF SocketTypes, Dmn!Alive, Stops
  <2>3. OwnListener'
    BY <2>1 DEF SocketTypes, OwnListener, Listening
  <2>4. OwnSocketNoted'
    BY <2>1 DEF SocketTypes, OwnSocketNoted, Dmn!Alive, Dmn!OwnSocket
  <2> QED
    BY <2>2, <2>3, <2>4
<1>11. ASSUME NEW d \in Daemons, Dmn!RemoveSocket(d) PROVE SocketInv'
  <2>1. /\ pc[d] = "checked" /\ file' = 0 /\ pc' = [pc EXCEPT ![d] = "exited"]
        /\ displaced' = displaced \cup
              {e \in Daemons : (file # looked[d] \/ d \in displaced) /\ listens[e] = file}
        /\ UNCHANGED <<files, listens, sockID, looked>>
    BY <1>11 DEF Dmn!RemoveSocket
  <2>2. SocketTypes'
    BY <2>1 DEF SocketTypes, Stops
  <2>3. OwnListener'
    BY <2>1 DEF SocketTypes, OwnListener, Listening
  <2>4. ASSUME NEW e \in Daemons \ displaced' PROVE listens[e] = 0
    <3> SUFFICES ASSUME listens[e] # 0 PROVE FALSE
      OBVIOUS
    <3>1. e \notin displaced /\ file = listens[e]
      BY <2>1, <2>4 DEF OwnSocketNoted
    <3>2. file = looked[d] /\ d \notin displaced
      BY <2>1, <2>4, <3>1
    <3>3. listens[d] = 0
      BY <2>1 DEF SocketTypes, OwnListener, Listening
    <3> QED
      BY <2>1, <3>1, <3>2, <3>3 DEF OwnSocketNoted, Dmn!Alive
  <2>5. OwnSocketNoted'
    BY <2>1, <2>4 DEF SocketTypes, OwnSocketNoted, Dmn!Alive
  <2> QED
    BY <2>2, <2>3, <2>5
<1>12. ASSUME NEW d \in Daemons, Dmn!Crash(d) PROVE SocketInv'
  <2>1. /\ listens' = [listens EXCEPT ![d] = 0] /\ pc' = [pc EXCEPT ![d] = "crashed"]
        /\ UNCHANGED <<file, files, sockID, looked, displaced>>
    BY <1>12 DEF Dmn!Crash
  <2>2. SocketTypes'
    BY <2>1 DEF SocketTypes, Stops
  <2>3. OwnListener'
    BY <2>1 DEF SocketTypes, OwnListener, Listening
  <2>4. OwnSocketNoted'
    BY <2>1 DEF SocketTypes, OwnSocketNoted, Dmn!Alive
  <2> QED
    BY <2>2, <2>3, <2>4
<1> QED
  <2>1. ASSUME NEW d \in Daemons, Dmn!StartProgram(d) \/ Dmn!ReadRecord(d) \/ Dmn!WriteRecord(d)
                                 \/ Dmn!KillProgram(d)
        PROVE UNCHANGED <<pc, file, files, listens, sockID, looked, displaced>>
    BY <2>1 DEF Dmn!StartProgram, Dmn!ReadRecord, Dmn!WriteRecord, Dmn!KillProgram, Dmn!socket
  <2>2. ASSUME Dmn!ProgramExits \/ Dmn!StrangerStarts
        PROVE UNCHANGED <<pc, file, files, listens, sockID, looked, displaced>>
    BY <2>2 DEF Dmn!ProgramExits, Dmn!StrangerStarts, Dmn!socket
  <2> HIDE DEF SocketInv
  <2> QED
    BY <1>1, <1>2, <1>3, <1>4, <1>5, <1>6, <1>7, <1>8, <1>9, <1>10, <1>11, <1>12, <2>1, <2>2
    DEF Dmn!Next


Programs == [by : Daemons \cup {"none", "stranger"}, since : Nat]
RecordEntries == [pid : Pids, since : Nat]
PtyCalls == [at : {"idle", "started", "adding", "running", "killed", "removing"},
             pid : Pids \cup {0}, read : SUBSET RecordEntries]

ProgramTypes ==
    /\ pc \in [Daemons -> Stops \cup Listening \cup Dmn!Alive]
    /\ proc \in [Pids -> Programs] /\ born \in Nat
    /\ record \subseteq RecordEntries
    /\ ptyCall \in [Daemons -> PtyCalls]
    /\ \A d \in Daemons : ptyCall[d].at # "idle" => ptyCall[d].pid \in Pids

\* What is recorded, or was read of the record, was given out, and to a daemon's program.
OfDaemons(entries) ==
    \A x \in entries : /\ x.since <= born
                       /\ proc[x.pid].since = x.since => proc[x.pid].by # "stranger"

\* A program of a daemon is in the record, will be once its call has written it, or is one of
\* those excepted; the program a call has killed is not its any more.
Accountable ==
    /\ \A p \in Pids : proc[p].by \in Daemons =>
          \/ Dmn!Entry(p) \in record \/ p \in excused
          \/ Dmn!Working(proc[p].by) /\ p \in Dmn!Unwritten(proc[p].by)
    /\ \A d \in Daemons : ptyCall[d].at \in {"killed", "removing"} =>
          proc[ptyCall[d].pid].by # d
    /\ OfDaemons(record) /\ \A d \in Daemons : OfDaemons(ptyCall[d].read)
    /\ \A p \in Pids : proc[p].since <= born

ProgramInv == ProgramTypes /\ Accountable /\ Dmn!SweepSound

LEMMA ProgramStarts == Dmn!Init => ProgramInv
<1> SUFFICES ASSUME Dmn!Init PROVE ProgramInv
  OBVIOUS
<1>1. /\ pc = [d \in Daemons |-> "new"] /\ proc = [p \in Pids |-> [by |-> "none", since |-> 0]]
      /\ born = 0 /\ record = {} /\ missed = {} /\ struck = {} /\ excused = {}
      /\ ptyCall = [d \in Daemons |-> Dmn!NoCall]
  BY DEF Dmn!Init, Dmn!None
<1>2. Dmn!NoCall \in PtyCalls /\ Dmn!NoCall.at = "idle" /\ Dmn!NoCall.read = {}
  BY DEF Dmn!NoCall, PtyCalls
<1>3. ProgramTypes
  BY <1>1, <1>2 DEF ProgramTypes, Stops, Programs
<1>4. Accountable
  BY <1>1, <1>2, DaemonAssumption DEF Accountable, OfDaemons
<1> QED
  BY <1>1, <1>3, <1>4 DEF ProgramInv, Dmn!SweepSound


\* The places of the daemons change, and no program does; one that stops working leaves what it
\* had not written excepted.
LEMMA DaemonsMove ==
  ASSUME ProgramInv, ProgramTypes', UNCHANGED <<proc, born, record, ptyCall, missed, struck>>,
         excused \subseteq excused',
         \A d \in Daemons : Dmn!Working(d) /\ ~Dmn!Working(d)' => Dmn!Unwritten(d) \subseteq excused'
  PROVE  ProgramInv'
<1>1. \A p \in Pids : proc[p].by \in Daemons =>
          \/ Dmn!Entry(p) \in record \/ p \in excused'
          \/ Dmn!Working(proc[p].by)' /\ p \in Dmn!Unwritten(proc[p].by)
  BY DEF ProgramInv, Accountable
<1>2. \A d \in Daemons : Dmn!Unwritten(d)' = Dmn!Unwritten(d)
  BY DEF Dmn!Unwritten
<1>3. \A p \in Pids : Dmn!Entry(p)' = Dmn!Entry(p)
  BY DEF Dmn!Entry
<1>4. Accountable'
  BY <1>1, <1>2, <1>3 DEF ProgramInv, Accountable, OfDaemons
<1> QED
  BY <1>4 DEF ProgramInv, Dmn!SweepSound

\* What is written of the programs is kept when some of them end, or have been ended.
LEMMA ProgramsEnd ==
  ASSUME ProgramInv, NEW gone,
         proc' = [p \in Pids |-> IF p \in gone THEN [by |-> "none", since |-> 0] ELSE proc[p]],
         UNCHANGED <<born, missed, struck>>, ProgramTypes', record' \subseteq record,
         \A d \in Daemons : Dmn!Working(d) => Dmn!Working(d)',
         \A d \in Daemons : /\ ptyCall'[d].read = ptyCall[d].read
                            /\ ptyCall'[d].pid = ptyCall[d].pid
                            /\ \/ ptyCall'[d].at = ptyCall[d].at
                               \/ /\ ptyCall[d].at = "running" /\ ptyCall'[d].at = "killed"
                                  /\ proc'[ptyCall[d].pid].by # d,
         \A p \in Pids \ gone : proc[p].by \in Daemons =>
            /\ p \in excused => p \in excused'
            /\ Dmn!Entry(p) \in record => Dmn!Entry(p) \in record' \/ p \in excused'
  PROVE  ProgramInv'
<1>1. ProgramTypes /\ Accountable /\ Dmn!SweepSound
  BY DEF ProgramInv
<1>2. \A p \in Pids : /\ p \in gone => proc'[p].by = "none" /\ proc'[p].since = 0
                      /\ p \notin gone => proc'[p] = proc[p] /\ Dmn!Entry(p)' = Dmn!Entry(p)
  BY DEF Dmn!Entry
<1>3. \A d \in Daemons : Dmn!Unwritten(d)' = Dmn!Unwritten(d)
  BY DEF Dmn!Unwritten
<1>4. \A p \in Pids : proc'[p].by \in Daemons =>
          \/ Dmn!Entry(p)' \in record' \/ p \in excused'
          \/ (Dmn!Working(proc[p].by) /\ p \in Dmn!Unwritten(proc[p].by))'
  <2> SUFFICES ASSUME NEW p \in Pids, proc'[p].by \in Daemons
               PROVE  \/ Dmn!Entry(p)' \in record' \/ p \in excused'
                      \/ (Dmn!Working(proc[p].by) /\ p \in Dmn!Unwritten(proc[p].by))'
    OBVIOUS
  <2>1. p \notin gone /\ proc'[p] = proc[p] /\ Dmn!Entry(p)' = Dmn!Entry(p)
    BY <1>2, DaemonAssumption
  <2>2. \/ Dmn!Entry(p) \in record \/ p \in excused
        \/ Dmn!Working(proc[p].by) /\ p \in Dmn!Unwritten(proc[p].by)
    BY <1>1, <2>1 DEF Accountable
  <2> QED
    BY <1>3, <2>1, <2>2 DEF Dmn!Working
<1>5. \A d \in Daemons : ptyCall'[d].at \in {"killed", "removing"} =>
          proc'[ptyCall'[d].pid].by # d
  <2> SUFFICES ASSUME NEW d \in Daemons, ptyCall'[d].at \in {"killed", "removing"}
               PROVE  proc'[ptyCall'[d].pid].by # d
    OBVIOUS
  <2>1. CASE ptyCall'[d].at = ptyCall[d].at
    <3>1. ptyCall[d].pid \in Pids /\ proc[ptyCall[d].pid].by # d
      BY <1>1, <2>1 DEF Accountable, ProgramTypes
    <3> QED
      BY <1>2, <3>1, DaemonAssumption
  <2> QED
    BY <2>1
<1>6. \A entries \in SUBSET RecordEntries : OfDaemons(entries) => OfDaemons(entries)'
  BY <1>2 DEF OfDaemons, RecordEntries
<1>7. record \in SUBSET RecordEntries /\ record' \in SUBSET RecordEntries
      /\ \A d \in Daemons : ptyCall[d].read \in SUBSET RecordEntries
  BY <1>1 DEF ProgramTypes, PtyCalls
<1>8. OfDaemons(record)' /\ \A d \in Daemons : OfDaemons(ptyCall[d].read)'
  <2>1. OfDaemons(record)'
    BY <1>1, <1>6, <1>7 DEF Accountable, OfDaemons
  <2>2. ASSUME NEW d \in Daemons PROVE OfDaemons(ptyCall[d].read)'
    BY <1>1, <1>6, <1>7 DEF Accountable, OfDaemons
  <2> QED
    BY <2>1, <2>2
<1>9. \A p \in Pids : proc'[p].since <= born'
  <2>1. born \in Nat /\ \A p \in Pids : proc[p].since <= born
    BY <1>1 DEF Accountable, ProgramTypes
  <2> QED
    BY <1>2, <2>1
<1>10. Accountable'
  BY <1>4, <1>5, <1>8, <1>9 DEF Accountable
<1> QED
  BY <1>1, <1>10 DEF ProgramInv, Dmn!SweepSound

\* A program starts with a time nobody was given, and its call, if a daemon's, knows it.
LEMMA ProgramBegins ==
  ASSUME ProgramInv, NEW p \in Pids, NEW who \in Daemons \cup {"stranger"},
         proc[p].by = "none", born' = born + 1,
         proc' = [proc EXCEPT ![p] = [by |-> who, since |-> born + 1]],
         UNCHANGED <<pc, record, missed, struck>>,
         who = "stranger" => UNCHANGED <<ptyCall, excused>>,
         who # "stranger" =>
            /\ pc[who] = "serving" /\ ptyCall[who].at = "idle" /\ excused' = excused \ {p}
            /\ ptyCall' = [ptyCall EXCEPT ![who] = [at |-> "started", pid |-> p, read |-> {}]]
  PROVE  ProgramInv'
<1> DEFINE new == [by |-> who, since |-> born + 1]
           begun1 == [at |-> "started", pid |-> p, read |-> {}]
<1>1. ProgramTypes /\ Accountable /\ Dmn!SweepSound
  BY DEF ProgramInv
<1>2. new \in Programs /\ new.by = who /\ new.since = born + 1
  BY <1>1 DEF ProgramTypes, Programs
<1>3. begun1 \in PtyCalls /\ begun1.at = "started" /\ begun1.pid = p /\ begun1.read = {}
  BY DEF PtyCalls
<1>4. proc' = [proc EXCEPT ![p] = new]
      /\ (who # "stranger" => ptyCall' = [ptyCall EXCEPT ![who] = begun1])
  OBVIOUS
<1> HIDE DEF new, begun1
<1>5. proc' \in [Pids -> Programs] /\ proc'[p] = new
      /\ \A q \in Pids : q # p => proc'[q] = proc[q] /\ Dmn!Entry(q)' = Dmn!Entry(q)
  BY <1>1, <1>2, <1>4 DEF ProgramTypes, Dmn!Entry
<1>6. ptyCall' \in [Daemons -> PtyCalls]
      /\ \A d \in Daemons : d # who => ptyCall'[d] = ptyCall[d]
  BY <1>1, <1>3, <1>4, DaemonAssumption DEF ProgramTypes
<1>7. who # "stranger" => ptyCall'[who] = begun1
  BY <1>1, <1>4 DEF ProgramTypes
<1>8. \A d \in Daemons : ptyCall'[d].at # "idle" => ptyCall'[d].pid \in Pids
  BY <1>1, <1>3, <1>6, <1>7, DaemonAssumption DEF ProgramTypes
<1>9. ProgramTypes'
  BY <1>1, <1>5, <1>6, <1>8 DEF ProgramTypes
<1>10. \A q \in Pids : proc'[q].by \in Daemons =>
          \/ Dmn!Entry(q)' \in record' \/ q \in excused'
          \/ (Dmn!Working(proc[q].by) /\ q \in Dmn!Unwritten(proc[q].by))'
  <2> SUFFICES ASSUME NEW q \in Pids, proc'[q].by \in Daemons
               PROVE  \/ Dmn!Entry(q)' \in record' \/ q \in excused'
                      \/ (Dmn!Working(proc[q].by) /\ q \in Dmn!Unwritten(proc[q].by))'
    OBVIOUS
  <2>1. CASE q = p
    BY <1>2, <1>3, <1>5, <1>7, <2>1, DaemonAssumption DEF Dmn!Working, Dmn!Unwritten
  <2>2. CASE q # p
    <3>1. proc'[q] = proc[q] /\ Dmn!Entry(q)' = Dmn!Entry(q)
      BY <1>5, <2>2
    <3>2. \/ Dmn!Entry(q) \in record \/ q \in excused
          \/ Dmn!Working(proc[q].by) /\ q \in Dmn!Unwritten(proc[q].by)
      BY <1>1, <3>1 DEF Accountable
    <3>3. q \in excused => q \in excused'
      BY <2>2
    <3>4. ASSUME Dmn!Working(proc[q].by), q \in Dmn!Unwritten(proc[q].by)
          PROVE  (Dmn!Working(proc[q].by) /\ q \in Dmn!Unwritten(proc[q].by))'
      <4>1. proc[q].by # who
        BY <1>1, <3>1, <3>4, DaemonAssumption DEF Dmn!Unwritten
      <4>2. ptyCall'[proc[q].by] = ptyCall[proc[q].by]
        BY <1>6, <3>1, <4>1
      <4> QED
        BY <3>1, <3>4, <4>2 DEF Dmn!Working, Dmn!Unwritten
    <3> QED
      BY <3>1, <3>2, <3>3, <3>4 DEF Dmn!Working
  <2> QED
    BY <2>1, <2>2
<1>11. \A d \in Daemons : ptyCall'[d].at \in {"killed", "removing"} =>
          proc'[ptyCall'[d].pid].by # d
  <2> SUFFICES ASSUME NEW d \in Daemons, ptyCall'[d].at \in {"killed", "removing"}
               PROVE  proc'[ptyCall'[d].pid].by # d
    OBVIOUS
  <2>1. d # who /\ ptyCall'[d] = ptyCall[d]
    BY <1>3, <1>6, <1>7, DaemonAssumption
  <2>2. ptyCall[d].pid \in Pids /\ proc[ptyCall[d].pid].by # d
    BY <1>1, <2>1 DEF Accountable, ProgramTypes
  <2> QED
    BY <1>2, <1>5, <2>1, <2>2
<1>12. \A entries \in SUBSET RecordEntries : OfDaemons(entries) => OfDaemons(entries)'
  <2> SUFFICES ASSUME NEW entries \in SUBSET RecordEntries, OfDaemons(entries), NEW x \in entries
               PROVE  x.since <= born' /\ (proc'[x.pid].since = x.since => proc'[x.pid].by # "stranger")
    BY DEF OfDaemons
  <2>1. x.pid \in Pids /\ x.since \in Nat /\ x.since <= born
    BY DEF OfDaemons, RecordEntries
  <2>2. CASE x.pid = p
    BY <1>1, <1>2, <1>5, <2>1, <2>2 DEF ProgramTypes
  <2>3. CASE x.pid # p
    BY <1>1, <1>5, <2>1, <2>3 DEF ProgramTypes, OfDaemons
  <2> QED
    BY <2>2, <2>3
<1>13. record \in SUBSET RecordEntries /\ {} \in SUBSET RecordEntries
      /\ \A d \in Daemons : ptyCall'[d].read \in SUBSET RecordEntries
  BY <1>1, <1>6 DEF ProgramTypes, PtyCalls
<1>14. OfDaemons(record)'
  BY <1>1, <1>12, <1>13 DEF Accountable, OfDaemons
<1>15. ASSUME NEW d \in Daemons PROVE OfDaemons(ptyCall[d].read)'
  <2>1. OfDaemons(ptyCall[d].read) \/ ptyCall'[d].read = {}
    BY <1>1, <1>3, <1>6, <1>7, DaemonAssumption DEF Accountable
  <2>2. CASE ptyCall'[d].read = {}
    BY <2>2 DEF OfDaemons
  <2>3. CASE ptyCall'[d] = ptyCall[d]
    BY <1>1, <1>12, <1>13, <2>3 DEF Accountable, OfDaemons
  <2> QED
    BY <1>3, <1>6, <1>7, <2>2, <2>3, DaemonAssumption
<1>16. \A q \in Pids : proc'[q].since <= born'
  <2>1. born \in Nat /\ \A q \in Pids : proc[q].since \in Nat /\ proc[q].since <= born
    BY <1>1 DEF Accountable, ProgramTypes, Programs
  <2> SUFFICES ASSUME NEW q \in Pids PROVE proc'[q].since <= born'
    OBVIOUS
  <2> QED
    BY <1>2, <1>5, <2>1
<1>17. Accountable'
  BY <1>10, <1>11, <1>14, <1>15, <1>16 DEF Accountable
<1> QED
  BY <1>1, <1>9, <1>17 DEF ProgramInv, Dmn!SweepSound


\* A call writes the record back, with its program's entry more or less: what another daemon
\* wrote in between is lost, and excepted.
LEMMA RecordWritten ==
  ASSUME ProgramInv, NEW d \in Daemons, Dmn!WriteRecord(d) PROVE ProgramInv'
<1> DEFINE p == ptyCall[d].pid
           kept == {x \in ptyCall[d].read : x.pid # p}
           new == IF ptyCall[d].at = "adding" /\ proc[p].by = d
                  THEN kept \cup {Dmn!Entry(p)} ELSE kept
           next == IF ptyCall[d].at = "adding" THEN [ptyCall[d] EXCEPT !.at = "running"]
                   ELSE Dmn!NoCall
<1>1. ProgramTypes /\ Accountable /\ Dmn!SweepSound
  BY DEF ProgramInv
<1>2. /\ Dmn!Working(d) /\ ptyCall[d].at \in {"adding", "removing"}
      /\ record' = new /\ ptyCall' = [ptyCall EXCEPT ![d] = next]
      /\ excused' = excused \cup
            {q \in Dmn!Recorded : (q # p \/ proc[p].by # d) /\ Dmn!Entry(q) \notin new}
      /\ UNCHANGED <<pc, proc, born, missed, struck>>
  BY DEF Dmn!WriteRecord, Dmn!swept
<1>3. p \in Pids /\ ptyCall[d] \in PtyCalls
  BY <1>1, <1>2 DEF ProgramTypes
<1>4. Dmn!Entry(p) \in RecordEntries /\ Dmn!Entry(p).pid = p /\ Dmn!Entry(p).since = proc[p].since
  <2>1. proc[p] \in Programs
    BY <1>1, <1>3 DEF ProgramTypes
  <2> QED
    BY <1>3, <2>1 DEF Dmn!Entry, RecordEntries, Programs
<1>5. kept \in SUBSET RecordEntries /\ new \in SUBSET RecordEntries /\ kept \subseteq ptyCall[d].read
  BY <1>3, <1>4 DEF PtyCalls
<1>6. /\ next \in PtyCalls /\ next.at \in {"running", "idle"}
      /\ next.at # "idle" => next.pid = p
      /\ next.read \subseteq ptyCall[d].read
  <2>1. CASE ptyCall[d].at = "adding"
    BY <1>3, <2>1 DEF PtyCalls
  <2>2. CASE ptyCall[d].at # "adding"
    BY <2>2 DEF PtyCalls, Dmn!NoCall
  <2> QED
    BY <2>1, <2>2
<1>7. \A q \in Dmn!Recorded : (q # p \/ proc[p].by # d) => Dmn!Entry(q) \in new \/ q \in excused'
  BY <1>2
<1>8. ptyCall[d].at = "adding" /\ proc[p].by = d => Dmn!Entry(p) \in new
  OBVIOUS
<1>9. \A x \in new : x \in ptyCall[d].read \/ (x = Dmn!Entry(p) /\ proc[p].by = d)
  OBVIOUS
<1> HIDE DEF next, new, kept
<1>10. /\ ptyCall' \in [Daemons -> PtyCalls] /\ ptyCall'[d] = next
       /\ \A e \in Daemons : e # d => ptyCall'[e] = ptyCall[e]
  BY <1>1, <1>2, <1>6 DEF ProgramTypes
<1>11. ProgramTypes'
  <2>1. \A e \in Daemons : ptyCall'[e].at # "idle" => ptyCall'[e].pid \in Pids
    BY <1>1, <1>3, <1>6, <1>10 DEF ProgramTypes
  <2> QED
    BY <1>1, <1>2, <1>5, <1>10, <2>1 DEF ProgramTypes
<1>12. \A q \in Pids : proc[q].by \in Daemons =>
          \/ Dmn!Entry(q) \in record' \/ q \in excused'
          \/ (Dmn!Working(proc[q].by) /\ q \in Dmn!Unwritten(proc[q].by))'
  <2> SUFFICES ASSUME NEW q \in Pids, proc[q].by \in Daemons
               PROVE  \/ Dmn!Entry(q) \in record' \/ q \in excused'
                      \/ (Dmn!Working(proc[q].by) /\ q \in Dmn!Unwritten(proc[q].by))'
    OBVIOUS
  <2>1. CASE q # p \/ proc[p].by # d
    <3>1. \/ Dmn!Entry(q) \in record \/ q \in excused
          \/ Dmn!Working(proc[q].by) /\ q \in Dmn!Unwritten(proc[q].by)
      BY <1>1 DEF Accountable
    <3>2. ASSUME Dmn!Entry(q) \in record PROVE Dmn!Entry(q) \in record' \/ q \in excused'
      BY <1>2, <1>7, <2>1, <3>2 DEF Dmn!Recorded
    <3>3. ASSUME Dmn!Working(proc[q].by), q \in Dmn!Unwritten(proc[q].by)
          PROVE  (Dmn!Working(proc[q].by) /\ q \in Dmn!Unwritten(proc[q].by))'
      <4>1. proc[q].by # d
        BY <2>1, <3>3 DEF Dmn!Unwritten
      <4>2. ptyCall'[proc[q].by] = ptyCall[proc[q].by]
        BY <1>10, <4>1
      <4> QED
        BY <1>2, <3>3, <4>2 DEF Dmn!Working, Dmn!Unwritten
    <3> QED
      BY <1>2, <3>1, <3>2, <3>3
  <2>2. CASE q = p /\ proc[p].by = d
    <3>1. ptyCall[d].at = "adding"
      BY <1>1, <1>2, <2>2 DEF Accountable
    <3> QED
      BY <1>2, <1>8, <2>2, <3>1
  <2> QED
    BY <2>1, <2>2
<1>13. \A e \in Daemons : ptyCall'[e].at \in {"killed", "removing"} =>
          proc[ptyCall'[e].pid].by # e
  BY <1>1, <1>6, <1>10 DEF Accountable
<1>14. OfDaemons(new)
  <2>1. OfDaemons(ptyCall[d].read)
    BY <1>1 DEF Accountable
  <2>2. proc[p].since <= born
    BY <1>1, <1>3 DEF Accountable
  <2> QED
    BY <1>4, <1>9, <2>1, <2>2, DaemonAssumption DEF OfDaemons
<1>15. ASSUME NEW e \in Daemons PROVE OfDaemons(ptyCall'[e].read)
  BY <1>1, <1>6, <1>10 DEF Accountable, OfDaemons
<1>16. \A entries : OfDaemons(entries)' <=> OfDaemons(entries')
  BY <1>2 DEF OfDaemons
<1>17. Accountable'
  <2>1. OfDaemons(record)'
    BY <1>2, <1>14 DEF OfDaemons
  <2>2. \A e \in Daemons : OfDaemons(ptyCall[e].read)'
    BY <1>2, <1>15 DEF OfDaemons
  <2>3. \A q \in Pids : proc'[q].by \in Daemons =>
          \/ Dmn!Entry(q)' \in record' \/ q \in excused'
          \/ (Dmn!Working(proc[q].by) /\ q \in Dmn!Unwritten(proc[q].by))'
    BY <1>2, <1>12 DEF Dmn!Entry
  <2>4. \A q \in Pids : proc'[q].since <= born'
    BY <1>1, <1>2 DEF Accountable
  <2>5. \A e \in Daemons : ptyCall'[e].at \in {"killed", "removing"} =>
          proc'[ptyCall'[e].pid].by # e
    BY <1>2, <1>13
  <2> QED
    BY <2>1, <2>2, <2>3, <2>4, <2>5 DEF Accountable
<1> QED
  BY <1>1, <1>2, <1>11, <1>17 DEF ProgramInv, Dmn!SweepSound

LEMMA RecordRead ==
  ASSUME ProgramInv, NEW d \in Daemons, Dmn!ReadRecord(d) PROVE ProgramInv'
<1> DEFINE next == [ptyCall[d] EXCEPT !.read = record,
                                      !.at = IF @ = "started" THEN "adding" ELSE "removing"]
<1>1. ProgramTypes /\ Accountable /\ Dmn!SweepSound
  BY DEF ProgramInv
<1>2. /\ ptyCall[d].at \in {"started", "killed"}
      /\ UNCHANGED <<pc, proc, born, record, excused, missed, struck>>
  BY DEF Dmn!ReadRecord, Dmn!swept
<1>3. ptyCall' = [ptyCall EXCEPT ![d] = next]
  BY <1>1 DEF Dmn!ReadRecord, ProgramTypes, PtyCalls
<1>4. /\ next \in PtyCalls /\ next.pid = ptyCall[d].pid /\ next.read = record
      /\ next.at = IF ptyCall[d].at = "started" THEN "adding" ELSE "removing"
  BY <1>1 DEF ProgramTypes, PtyCalls
<1> HIDE DEF next
<1>5. /\ ptyCall' \in [Daemons -> PtyCalls] /\ ptyCall'[d] = next
      /\ \A e \in Daemons : e # d => ptyCall'[e] = ptyCall[e]
  BY <1>1, <1>3, <1>4 DEF ProgramTypes
<1>6. ProgramTypes'
  <2>1. \A e \in Daemons : ptyCall'[e].at # "idle" => ptyCall'[e].pid \in Pids
    BY <1>1, <1>2, <1>4, <1>5 DEF ProgramTypes
  <2> QED
    BY <1>1, <1>2, <1>5, <2>1 DEF ProgramTypes
<1>7. \A e \in Daemons : Dmn!Unwritten(e)' = Dmn!Unwritten(e)
  BY <1>2, <1>4, <1>5 DEF Dmn!Unwritten
<1>8. \A q \in Pids : proc'[q].by \in Daemons =>
          \/ Dmn!Entry(q)' \in record' \/ q \in excused'
          \/ (Dmn!Working(proc[q].by) /\ q \in Dmn!Unwritten(proc[q].by))'
  <2>1. \A q \in Pids : proc[q].by \in Daemons =>
          (Dmn!Working(proc[q].by) /\ q \in Dmn!Unwritten(proc[q].by) =>
              (Dmn!Working(proc[q].by) /\ q \in Dmn!Unwritten(proc[q].by))')
    <3> SUFFICES ASSUME NEW q \in Pids, proc[q].by \in Daemons,
                        Dmn!Working(proc[q].by), q \in Dmn!Unwritten(proc[q].by)
                 PROVE  (Dmn!Working(proc[q].by) /\ q \in Dmn!Unwritten(proc[q].by))'
      OBVIOUS
    <3>1. /\ ptyCall'[proc[q].by].pid = ptyCall[proc[q].by].pid
          /\ ptyCall[proc[q].by].at \in {"started", "adding"} =>
                ptyCall'[proc[q].by].at \in {"started", "adding"}
      BY <1>2, <1>4, <1>5
    <3> QED
      BY <1>2, <3>1 DEF Dmn!Working, Dmn!Unwritten
  <2> QED
    BY <1>1, <1>2, <2>1 DEF Accountable, Dmn!Entry
<1>9. \A e \in Daemons : ptyCall'[e].at \in {"killed", "removing"} =>
          proc'[ptyCall'[e].pid].by # e
  BY <1>1, <1>2, <1>4, <1>5 DEF Accountable
<1>10. ASSUME NEW e \in Daemons PROVE OfDaemons(ptyCall[e].read)'
  BY <1>1, <1>2, <1>4, <1>5 DEF Accountable, OfDaemons
<1>11. OfDaemons(record)' /\ \A q \in Pids : proc'[q].since <= born'
  BY <1>1, <1>2 DEF Accountable, OfDaemons
<1>12. Accountable'
  BY <1>8, <1>9, <1>10, <1>11 DEF Accountable
<1> QED
  BY <1>1, <1>2, <1>6, <1>12 DEF ProgramInv, Dmn!SweepSound

\* What a sweep decides to kill is what daemons that are gone left running, and all of it.
LEMMA SweepDecides ==
  ASSUME ProgramInv, NEW d \in Daemons, Dmn!Sweep(d) PROVE ProgramInv'
<1>1. ProgramTypes /\ Accountable
  BY DEF ProgramInv
<1>2. /\ pc' = [pc EXCEPT ![d] = "sweeping"] /\ pc[d] = "bound"
      /\ missed' = {p \in Pids \ (Dmn!LiveEntries \cup excused) :
                      proc[p].by \in Daemons /\ Dmn!Gone(proc[p].by)}
      /\ struck' = {p \in Dmn!LiveEntries : proc[p].by = "stranger"}
      /\ UNCHANGED <<proc, born, record, ptyCall, excused>>
  BY DEF Dmn!Sweep, Dmn!spawn
<1>3. missed' = {}
  <2> SUFFICES ASSUME NEW p \in missed' PROVE FALSE
    OBVIOUS
  <2>1. /\ p \in Pids /\ p \notin Dmn!LiveEntries /\ p \notin excused
        /\ proc[p].by \in Daemons /\ Dmn!Gone(proc[p].by)
    BY <1>2
  <2>2. ~Dmn!Working(proc[p].by)
    BY <2>1 DEF Dmn!Gone, Dmn!Working
  <2>3. Dmn!Entry(p) \in record
    BY <1>1, <2>1, <2>2 DEF Accountable
  <2>4. Dmn!Entry(p).pid = p /\ Dmn!Entry(p).since = proc[p].since /\ proc[p].by # "none"
    BY <2>1, DaemonAssumption DEF Dmn!Entry
  <2> QED
    BY <2>1, <2>3, <2>4 DEF Dmn!LiveEntries, Dmn!None
<1>4. struck' = {}
  <2> SUFFICES ASSUME NEW p \in struck' PROVE FALSE
    OBVIOUS
  <2>1. p \in Pids /\ p \in Dmn!LiveEntries /\ proc[p].by = "stranger"
    BY <1>2 DEF Dmn!LiveEntries
  <2>2. PICK x \in record : x.pid = p /\ proc[p].since = x.since
    BY <2>1 DEF Dmn!LiveEntries
  <2> QED
    BY <1>1, <2>1, <2>2 DEF Accountable, OfDaemons
<1>5. ProgramTypes'
  BY <1>1, <1>2 DEF ProgramTypes, Listening
<1>6. \A e : Dmn!Working(e) => pc'[e] = pc[e]
  BY <1>1, <1>2 DEF Dmn!Working, ProgramTypes
<1>7. \A p \in Pids : proc'[p].by \in Daemons =>
          \/ Dmn!Entry(p)' \in record' \/ p \in excused'
          \/ (Dmn!Working(proc[p].by) /\ p \in Dmn!Unwritten(proc[p].by))'
  BY <1>1, <1>2, <1>6 DEF Accountable, Dmn!Entry, Dmn!Working, Dmn!Unwritten
<1>8. Accountable'
  BY <1>1, <1>2, <1>7 DEF Accountable, OfDaemons
<1> QED
  BY <1>3, <1>4, <1>5, <1>8 DEF ProgramInv, Dmn!SweepSound


LEMMA ProgramNext == ProgramInv /\ Dmn!Next => ProgramInv'
<1> SUFFICES ASSUME ProgramInv, Dmn!Next PROVE ProgramInv'
  OBVIOUS
<1>1. ProgramTypes /\ Accountable
  BY DEF ProgramInv
<1> DEFINE Places == Stops \cup Listening \cup Dmn!Alive
\* Only the place of d changes, and it is no place to work from.
<1>2. ASSUME NEW d \in Daemons, NEW to \in Places, pc' = [pc EXCEPT ![d] = to],
             Dmn!Working(d) => to \in {"serving", "draining"},
             UNCHANGED <<proc, born, record, ptyCall, excused, missed, struck>>
      PROVE  ProgramInv'
  <2>1. ProgramTypes'
    BY <1>1, <1>2 DEF ProgramTypes
  <2>2. \A e \in Daemons : Dmn!Working(e) => Dmn!Working(e)'
    BY <1>1, <1>2 DEF ProgramTypes, Dmn!Working
  <2> QED
    BY <1>2, <2>1, <2>2, DaemonsMove
\* Daemon d stops, with what its call had not written.
<1>3. ASSUME NEW d \in Daemons, NEW to \in Places, pc' = [pc EXCEPT ![d] = to],
             excused' = excused \cup Dmn!Unwritten(d),
             UNCHANGED <<proc, born, record, ptyCall, missed, struck>>
      PROVE  ProgramInv'
  <2>1. ProgramTypes'
    BY <1>1, <1>3 DEF ProgramTypes
  <2>2. \A e \in Daemons : e # d => pc'[e] = pc[e]
    BY <1>1, <1>3 DEF ProgramTypes
  <2>3. ASSUME NEW e \in Daemons, Dmn!Working(e), ~Dmn!Working(e)'
        PROVE  Dmn!Unwritten(e) \subseteq excused'
    <3>1. e = d
      BY <2>2, <2>3 DEF Dmn!Working
    <3> QED
      BY <1>3, <3>1
  <2> QED
    BY <1>3, <2>1, <2>3, DaemonsMove
<1>4. ASSUME NEW d \in Daemons, Dmn!Listen(d) \/ Dmn!ListenAgain(d) \/ Dmn!Probe(d)
                               \/ Dmn!RemoveStale(d) \/ Dmn!Identify(d)
      PROVE  ProgramInv'
  <2>1. PICK to \in {"identify", "probe", "refused", "stale", "again", "bound"} :
            pc' = [pc EXCEPT ![d] = to]
    BY <1>4 DEF Dmn!Listen, Dmn!ListenAgain, Dmn!Probe, Dmn!RemoveStale, Dmn!Identify, Dmn!Bound
  <2>2. UNCHANGED <<proc, born, record, ptyCall, excused, missed, struck>>
    BY <1>4 DEF Dmn!Listen, Dmn!ListenAgain, Dmn!Probe, Dmn!RemoveStale, Dmn!Identify,
                Dmn!spawn, Dmn!swept
  <2>3. ~Dmn!Working(d)
    BY <1>4 DEF Dmn!Listen, Dmn!ListenAgain, Dmn!Probe, Dmn!RemoveStale, Dmn!Identify, Dmn!Working
  <2> QED
    BY <1>2, <2>1, <2>2, <2>3 DEF Stops, Listening, Dmn!Alive
<1>5. ASSUME NEW d \in Daemons, Dmn!SweepEnds(d) PROVE ProgramInv'
  <2>1. /\ proc' = [p \in Pids |-> IF p \in sweep[d] THEN [by |-> "none", since |-> 0] ELSE proc[p]]
        /\ record' = {} /\ excused' = (excused \cup Dmn!Recorded) \ sweep[d]
        /\ pc[d] = "sweeping" /\ pc' = [pc EXCEPT ![d] = "serving"]
        /\ UNCHANGED <<born, ptyCall, missed, struck>>
    BY <1>5 DEF Dmn!SweepEnds, Dmn!None, Dmn!swept
  \* the kill, and then the daemon moves on
  <2>2. [by |-> "none", since |-> 0] \in Programs
    BY DEF Programs
  <2>3. proc' \in [Pids -> Programs]
    BY <1>1, <2>1, <2>2 DEF ProgramTypes
  <2>4. ProgramTypes'
    BY <1>1, <2>1, <2>3 DEF ProgramTypes, Listening
  <2>5. \A p \in Pids \ sweep[d] : proc[p].by \in Daemons =>
            /\ p \in excused => p \in excused'
            /\ Dmn!Entry(p) \in record => p \in excused'
    BY <2>1 DEF Dmn!Recorded
  <2>6. \A e \in Daemons : Dmn!Working(e) => Dmn!Working(e)'
    BY <1>1, <2>1 DEF ProgramTypes, Dmn!Working
  <2> DEFINE gone == sweep[d]
  <2> HIDE DEF gone
  <2> QED
    BY <2>1, <2>4, <2>5, <2>6, ProgramsEnd DEF gone
<1>6. ASSUME NEW d \in Daemons, Dmn!KillProgram(d) PROVE ProgramInv'
  <2> DEFINE p == ptyCall[d].pid
             gone == IF proc[p].by = d THEN {p} ELSE {}
             next == [ptyCall[d] EXCEPT !.at = "killed"]
  <2>1. /\ ptyCall[d].at = "running" /\ UNCHANGED <<pc, born, record, excused, missed, struck>>
        /\ ptyCall' = [ptyCall EXCEPT ![d] = next]
        /\ proc' = [proc EXCEPT ![p] = IF @.by = d THEN [by |-> "none", since |-> 0] ELSE @]
    BY <1>6 DEF Dmn!KillProgram, Dmn!None, Dmn!swept
  <2>2. p \in Pids /\ [by |-> "none", since |-> 0] \in Programs
    BY <1>1, <2>1 DEF ProgramTypes, Programs
  <2>3. proc' = [q \in Pids |-> IF q \in gone THEN [by |-> "none", since |-> 0] ELSE proc[q]]
    BY <1>1, <2>1, <2>2 DEF ProgramTypes
  <2>4. /\ next \in PtyCalls /\ next.pid = p /\ next.read = ptyCall[d].read /\ next.at = "killed"
    BY <1>1 DEF ProgramTypes, PtyCalls
  <2> HIDE DEF next
  <2>5. /\ ptyCall' \in [Daemons -> PtyCalls] /\ ptyCall'[d] = next
        /\ \A e \in Daemons : e # d => ptyCall'[e] = ptyCall[e]
    BY <1>1, <2>1, <2>4 DEF ProgramTypes
  <2>6. proc' \in [Pids -> Programs]
    BY <1>1, <2>2, <2>3 DEF ProgramTypes
  <2>7. \A e \in Daemons : ptyCall'[e].at # "idle" => ptyCall'[e].pid \in Pids
    BY <1>1, <2>2, <2>4, <2>5 DEF ProgramTypes
  <2>8. ProgramTypes'
    BY <1>1, <2>1, <2>5, <2>6, <2>7 DEF ProgramTypes
  <2>9. proc'[p].by # d
    BY <2>2, <2>3, DaemonAssumption
  <2>10. \A e \in Daemons : /\ ptyCall'[e].read = ptyCall[e].read
                            /\ ptyCall'[e].pid = ptyCall[e].pid
                            /\ \/ ptyCall'[e].at = ptyCall[e].at
                               \/ /\ ptyCall[e].at = "running" /\ ptyCall'[e].at = "killed"
                                  /\ proc'[ptyCall[e].pid].by # e
    BY <2>1, <2>4, <2>5, <2>9
  <2>11. \A e \in Daemons : Dmn!Working(e) => Dmn!Working(e)'
    BY <2>1 DEF Dmn!Working
  <2> HIDE DEF gone, p
  <2> QED
    BY <2>1, <2>11, <2>3, <2>8, <2>10, ProgramsEnd
<1>7. ASSUME Dmn!ProgramExits PROVE ProgramInv'
  <2>1. PICK p \in Pids : proc' = [proc EXCEPT ![p] = [by |-> "none", since |-> 0]]
    BY <1>7 DEF Dmn!ProgramExits, Dmn!None
  <2>2. UNCHANGED <<pc, born, record, ptyCall, excused, missed, struck>>
    BY <1>7 DEF Dmn!ProgramExits, Dmn!swept
  <2>3. proc' = [q \in Pids |-> IF q \in {p} THEN [by |-> "none", since |-> 0] ELSE proc[q]]
    BY <1>1, <2>1 DEF ProgramTypes
  <2>4. [by |-> "none", since |-> 0] \in Programs
    BY DEF Programs
  <2>5. proc' \in [Pids -> Programs]
    BY <1>1, <2>1, <2>4 DEF ProgramTypes
  <2>6. ProgramTypes'
    BY <1>1, <2>2, <2>5 DEF ProgramTypes
  <2>7. \A e \in Daemons : Dmn!Working(e) => Dmn!Working(e)'
    BY <2>2 DEF Dmn!Working
  <2> QED
    BY <2>2, <2>3, <2>6, <2>7, ProgramsEnd
<1>8. ASSUME Dmn!StrangerStarts PROVE ProgramInv'
  <2>1. PICK p \in Pids : Dmn!Starts(p, "stranger")
    BY <1>8 DEF Dmn!StrangerStarts
  <2> QED
    BY <1>8, <2>1, ProgramBegins DEF Dmn!StrangerStarts, Dmn!Starts, Dmn!FreePid, Dmn!None, Dmn!swept
<1>9. ASSUME NEW d \in Daemons, Dmn!StartProgram(d) PROVE ProgramInv'
  <2>1. PICK p \in Pids :
            /\ Dmn!Starts(p, d)
            /\ ptyCall' = [ptyCall EXCEPT ![d] = [at |-> "started", pid |-> p, read |-> {}]]
            /\ excused' = excused \ {p}
    BY <1>9 DEF Dmn!StartProgram
  <2>2. /\ pc[d] = "serving" /\ ptyCall[d].at = "idle"
        /\ UNCHANGED <<pc, record, missed, struck>>
    BY <1>9 DEF Dmn!StartProgram, Dmn!swept
  <2>3. d # "stranger"
    BY DaemonAssumption
  <2> QED
    BY <2>1, <2>2, <2>3, ProgramBegins DEF Dmn!Starts, Dmn!FreePid, Dmn!None
<1>10. ASSUME NEW d \in Daemons, Dmn!Drain(d) PROVE ProgramInv'
  BY <1>2, <1>10 DEF Dmn!Drain, Dmn!spawn, Dmn!swept, Dmn!Alive
<1>11. ASSUME NEW d \in Daemons, Dmn!RemoveSocket(d) PROVE ProgramInv'
  BY <1>2, <1>11 DEF Dmn!RemoveSocket, Dmn!spawn, Dmn!swept, Stops, Dmn!Working
<1>12. ASSUME NEW d \in Daemons, Dmn!CheckSocket(d) \/ Dmn!Crash(d) PROVE ProgramInv'
  <2>1. PICK to \in {"checked", "exited", "crashed"} : pc' = [pc EXCEPT ![d] = to]
    BY <1>12 DEF Dmn!CheckSocket, Dmn!Crash
  <2>2. /\ excused' = excused \cup Dmn!Unwritten(d)
        /\ UNCHANGED <<proc, born, record, ptyCall, missed, struck>>
    BY <1>12 DEF Dmn!CheckSocket, Dmn!Crash, Dmn!swept
  <2> QED
    BY <1>3, <2>1, <2>2 DEF Stops, Dmn!Alive
<1> QED
  BY <1>4, <1>5, <1>6, <1>7, <1>8, <1>9, <1>10, <1>11, <1>12, RecordWritten, RecordRead, SweepDecides
  DEF Dmn!Next

LEMMA DaemonSafe == SocketInv /\ ProgramInv => Dmn!SocketKept /\ Dmn!SweepSound
  BY DEF SocketInv, OwnListener, OwnSocketNoted, ProgramInv, Dmn!SocketKept, Listening

-----------------------------------------------------------------------------
(* Projects *)

UnderWay == {"open", "ensure", "waiting", "build", "reopen", "cache"}
Loads == Requests \cup {"none"}

ProjectTypes ==
    /\ pc \in [Requests -> {"new", "failed", "register", "done"} \cup UnderWay]
    /\ got \in [Requests -> Loads] /\ cache \in [Roots -> Loads] /\ index \in [Roots -> Loads]
    /\ sup \in [Requests -> Loads] /\ proc \in [Requests -> {"none", "running", "dead"}]
    /\ down \in {"serving", "closing", "exited"}

\* What was cached first is what everybody is answered with and what is registered.
OneLoad ==
    /\ \A r \in Requests : got[r] # "none" => got[r] = cache[RootOf[r]]
    /\ \A k \in Roots : index[k] # "none" => index[k] = cache[k]
    /\ \A r \in Requests : pc[r] = "register" => cache[RootOf[r]] = r

\* A server that runs is waited for, or is kept by the supervisor of a load that somebody will
\* close: the loader while the load is under way, and then the cache.
ServerKept ==
    \A r \in Requests \ lost : proc[r] = "running" =>
        \/ pc[r] = "waiting"
        \/ sup[r] # "none" /\ pc[r] \in {"build", "reopen", "cache"}
        \/ sup[r] # "none" /\ pc[r] \in {"register", "done"} /\ cache[RootOf[r]] = r

\* Once the daemon closes, no load is under way but the lost, and what runs will be closed.
ServerClosed ==
    down # "serving" =>
        \A r \in Requests \ lost : /\ pc[r] \notin UnderWay
                                   /\ proc[r] = "running" => r \in closing /\ down = "closing"

ProjectInv == ProjectTypes /\ OneLoad /\ ServerKept /\ ServerClosed

LEMMA ProjectStarts == Prj!Init => ProjectInv
  BY ProjectsAssumption
  DEF Prj!Init, Prj!None, ProjectInv, ProjectTypes, Loads, OneLoad, ServerKept, ServerClosed

\* Servers die, and only servers that are told to.
LEMMA ServersDie ==
  ASSUME ProjectTypes, NEW loads, Prj!Dead(loads)
  PROVE  /\ proc' \in [Requests -> {"none", "running", "dead"}]
         /\ \A r \in Requests : proc'[r] = "running" => proc[r] = "running" /\ r \notin loads
  BY DEF ProjectTypes, Prj!Dead

\* Nothing of the loads changes, and servers may only die.
LEMMA ServersOnlyDie ==
  ASSUME ProjectInv, proc' \in [Requests -> {"none", "running", "dead"}],
         \A r \in Requests : proc'[r] = "running" => proc[r] = "running",
         UNCHANGED <<pc, got, cache, index, sup, down, closing, lost>>
  PROVE  ProjectInv'
<1>1. ProjectTypes'
  BY DEF ProjectInv, ProjectTypes
<1>2. OneLoad'
  BY DEF ProjectInv, OneLoad
<1>3. ServerKept'
  BY DEF ProjectInv, ServerKept
<1>4. ServerClosed'
  BY DEF ProjectInv, ServerClosed
<1> QED
  BY <1>1, <1>2, <1>3, <1>4 DEF ProjectInv

\* A load goes on, and one that is closed has no server or is closed by the loader.
LEMMA LoadGoesOn ==
  ASSUME ProjectInv, NEW r \in Requests, NEW to \in UnderWay \cup {"failed"},
         pc[r] \in UnderWay, pc' = [pc EXCEPT ![r] = to],
         proc' \in [Requests -> {"none", "running", "dead"}],
         \A q \in Requests : proc'[q] = "running" =>
             proc[q] = "running" \/ (q = r /\ to = "waiting"),
         sup' \in [Requests -> Loads], \A q \in Requests \ {r} : sup'[q] = sup[q],
         proc'[r] = "running" => \/ to = "waiting" \/ r \in lost'
                                 \/ to \in {"build", "reopen", "cache"} /\ sup'[r] # "none",
         lost \subseteq lost',
         UNCHANGED <<got, cache, index, down, closing>>
  PROVE  ProjectInv'
<1>1. /\ pc' \in [Requests -> {"new", "failed", "register", "done"} \cup UnderWay]
      /\ pc'[r] = to /\ \A q \in Requests \ {r} : pc'[q] = pc[q]
  BY DEF ProjectInv, ProjectTypes
<1>2. ProjectTypes'
  BY <1>1 DEF ProjectInv, ProjectTypes
<1>3. OneLoad'
  BY <1>1 DEF ProjectInv, OneLoad, UnderWay
<1>4. ServerKept'
  BY <1>1 DEF ProjectInv, ServerKept
<1>5. ServerClosed'
  BY <1>1 DEF ProjectInv, ServerClosed
<1> QED
  BY <1>2, <1>3, <1>4, <1>5 DEF ProjectInv

LEMMA ProjectNext == ProjectInv /\ Prj!Next => ProjectInv'
<1> SUFFICES ASSUME ProjectInv, Prj!Next PROVE ProjectInv'
  OBVIOUS
<1>1. ProjectTypes /\ OneLoad /\ ServerKept /\ ServerClosed
  BY DEF ProjectInv
<1>2. ASSUME NEW r \in Requests, Prj!Resolve(r) PROVE ProjectInv'
  <2>1. /\ pc[r] = "new" /\ down = "serving"
        /\ UNCHANGED <<cache, index, sup, lost, proc, down, closing>>
    BY <1>2 DEF Prj!Resolve, Prj!server, Prj!end
  <2>2. \/ /\ cache[RootOf[r]] # "none" /\ got' = [got EXCEPT ![r] = cache[RootOf[r]]]
           /\ pc' = [pc EXCEPT ![r] = "done"]
        \/ got' = got /\ pc' = [pc EXCEPT ![r] = "open"]
    BY <1>2 DEF Prj!Resolve, Prj!Answer, Prj!None
  <2>3. RootOf[r] \in Roots
    BY ProjectsAssumption
  <2>4. ProjectTypes'
    BY <1>1, <2>1, <2>2, <2>3 DEF ProjectTypes, UnderWay
  <2>5. OneLoad'
    BY <1>1, <2>1, <2>2 DEF ProjectTypes, OneLoad
  <2>6. ServerKept'
    BY <1>1, <2>1, <2>2 DEF ProjectTypes, ServerKept
  <2>7. ServerClosed'
    BY <2>1 DEF ServerClosed
  <2> QED
    BY <2>4, <2>5, <2>6, <2>7 DEF ProjectInv
<1>3. ASSUME NEW r \in Requests, Prj!Open(r) \/ Prj!Reuse(r) \/ Prj!Build(r) \/ Prj!Reopen(r)
      PROVE  ProjectInv'
  <2>1. PICK to \in {"failed", "ensure", "build", "reopen", "cache"} :
            /\ pc' = [pc EXCEPT ![r] = to]
            /\ \/ pc[r] \in {"open", "ensure"}
               \/ to \in {"reopen", "cache"} /\ pc[r] \in {"build", "reopen"}
    BY <1>3 DEF Prj!Open, Prj!Reuse, Prj!Build, Prj!Reopen, Prj!Fail
  <2>2. UNCHANGED <<got, cache, index, sup, proc, lost, down, closing>>
    BY <1>3 DEF Prj!Open, Prj!Reuse, Prj!Build, Prj!Reopen, Prj!server, Prj!end
  <2>3. ASSUME proc'[r] = "running" PROVE r \in lost' \/ (to \in {"build", "reopen", "cache"} /\ sup'[r] # "none")
    BY <1>1, <2>1, <2>2, <2>3 DEF ServerKept
  <2> QED
    BY <1>1, <2>1, <2>2, <2>3, LoadGoesOn DEF UnderWay, ProjectTypes
<1>4. ASSUME NEW r \in Requests, Prj!StartServer(r) PROVE ProjectInv'
  BY <1>1, <1>4, LoadGoesOn DEF Prj!StartServer, Prj!end, UnderWay, ProjectTypes
<1>5. ASSUME NEW r \in Requests, Prj!WaitReady(r) PROVE ProjectInv'
  <2>1. /\ pc[r] = "waiting" /\ sup' = [sup EXCEPT ![r] = r] /\ pc' = [pc EXCEPT ![r] = "build"]
        /\ UNCHANGED <<got, cache, index, lost, proc, down, closing>>
    BY <1>5 DEF Prj!WaitReady, Prj!server, Prj!end
  <2>2. /\ sup' \in [Requests -> Loads] /\ sup'[r] # "none"
        /\ \A q \in Requests \ {r} : sup'[q] = sup[q]
    BY <1>1, <2>1, ProjectsAssumption DEF ProjectTypes, Loads
  <2> QED
    BY <1>1, <2>1, <2>2, LoadGoesOn DEF UnderWay, ProjectTypes
<1>6. ASSUME NEW r \in Requests, Prj!StartTimeout(r) PROVE ProjectInv'
  <2>1. /\ pc[r] = "waiting" /\ Prj!Dead({r}) /\ pc' = [pc EXCEPT ![r] = "build"]
        /\ UNCHANGED <<got, cache, index, sup, lost, down, closing>>
    BY <1>6 DEF Prj!StartTimeout, Prj!Abandon, Prj!end
  <2>2. /\ proc' \in [Requests -> {"none", "running", "dead"}] /\ proc'[r] # "running"
        /\ \A q \in Requests : proc'[q] = "running" => proc[q] = "running"
    BY <1>1, <2>1, ServersDie
  <2> QED
    BY <1>1, <2>1, <2>2, LoadGoesOn DEF UnderWay, ProjectTypes
<1>7. ASSUME NEW r \in Requests, Prj!BuildFails(r) PROVE ProjectInv'
  BY <1>1, <1>7, LoadGoesOn DEF Prj!BuildFails, Prj!Fail, Prj!server, Prj!end, UnderWay, ProjectTypes
<1>8. ASSUME NEW r \in Requests, Prj!ReopenFails(r) PROVE ProjectInv'
  <2>1. /\ pc[r] = "reopen" /\ Prj!Dead({q \in {r} : sup[q] # "none"})
        /\ pc' = [pc EXCEPT ![r] = "failed"]
        /\ UNCHANGED <<got, cache, index, sup, lost, down, closing>>
    BY <1>8 DEF Prj!ReopenFails, Prj!Closed, Prj!Fail, Prj!None, Prj!end
  <2> DEFINE taken == {q \in {r} : sup[q] # "none"}
  <2> HIDE DEF taken
  <2>2. /\ proc' \in [Requests -> {"none", "running", "dead"}]
        /\ \A q \in Requests : proc'[q] = "running" => proc[q] = "running" /\ q \notin taken
    BY <1>1, <2>1, ServersDie DEF taken
  <2>3. ASSUME proc'[r] = "running" PROVE r \in lost'
    <3>1. proc[r] = "running" /\ sup[r] = "none"
      BY <2>2, <2>3 DEF taken
    <3> QED
      BY <1>1, <2>1, <3>1 DEF ServerKept
  <2> QED
    BY <1>1, <2>1, <2>2, <2>3, LoadGoesOn DEF UnderWay, ProjectTypes
<1>9. ASSUME NEW r \in Requests, Prj!CacheProject(r) PROVE ProjectInv'
  <2> DEFINE k == RootOf[r]
             load == Prj!Cached(r)
  <2>1. /\ pc[r] = "cache" /\ cache' = [cache EXCEPT ![k] = load]
        /\ got' = [got EXCEPT ![r] = load]
        /\ UNCHANGED <<index, sup, proc, down, closing>>
        /\ \/ load = r /\ pc' = [pc EXCEPT ![r] = "register"] /\ lost' = lost
           \/ load # r /\ pc' = [pc EXCEPT ![r] = "done"] /\ lost' = lost \cup {r}
    BY <1>9 DEF Prj!CacheProject, Prj!server, Prj!end
  <2>2. /\ k \in Roots /\ load \in Requests /\ cache[k] \in {"none", load}
        /\ \A q \in Requests : RootOf[q] \in Roots
    BY <1>1, ProjectsAssumption DEF ProjectTypes, Loads, Prj!Cached, Prj!None
  <2> HIDE DEF k, load
  <2>3. \A j \in Roots : cache[j] # "none" => cache'[j] = cache[j]
    BY <1>1, <2>1, <2>2 DEF ProjectTypes
  <2>4. cache' \in [Roots -> Loads] /\ cache'[k] = load /\ got' \in [Requests -> Loads]
        /\ got'[r] = load /\ \A q \in Requests \ {r} : got'[q] = got[q] /\ pc'[q] = pc[q]
    BY <1>1, <2>1, <2>2 DEF ProjectTypes, Loads
  <2>5. /\ pc' \in [Requests -> {"new", "failed", "register", "done"} \cup UnderWay]
        /\ \/ pc'[r] = "register" /\ load = r
           \/ pc'[r] = "done" /\ r \in lost'
    <3>1. pc \in [Requests -> {"new", "failed", "register", "done"} \cup UnderWay]
      BY <1>1 DEF ProjectTypes
    <3>2. CASE load = r /\ pc' = [pc EXCEPT ![r] = "register"] /\ lost' = lost
      BY <3>1, <3>2
    <3>3. CASE load # r /\ pc' = [pc EXCEPT ![r] = "done"] /\ lost' = lost \cup {r}
      <4>1. r \in lost'
        BY <3>3
      <4> QED
        BY <3>1, <3>3, <4>1
    <3> QED
      BY <2>1, <3>2, <3>3
  <2>6. ProjectTypes'
    BY <1>1, <2>1, <2>4, <2>5 DEF ProjectTypes
  <2>7. OneLoad'
    <3>1. \A q \in Requests : got'[q] # "none" => got'[q] = cache'[RootOf[q]]
      BY <1>1, <2>2, <2>3, <2>4 DEF OneLoad, k
    <3>2. \A j \in Roots : index'[j] # "none" => index'[j] = cache'[j]
      BY <1>1, <2>1, <2>3 DEF OneLoad
    <3>3. \A q \in Requests : pc'[q] = "register" => cache'[RootOf[q]] = q
      <4> SUFFICES ASSUME NEW q \in Requests, pc'[q] = "register"
                   PROVE  cache'[RootOf[q]] = q
        OBVIOUS
      <4>1. CASE q = r
        BY <2>4, <2>5, <4>1 DEF k
      <4>2. CASE q # r
        BY <1>1, <2>2, <2>3, <2>4, <4>2, ProjectsAssumption DEF OneLoad
      <4> QED
        BY <4>1, <4>2
    <3> QED
      BY <3>1, <3>2, <3>3 DEF OneLoad
  <2>8. ServerKept'
    <3> SUFFICES ASSUME NEW q \in Requests \ lost', proc'[q] = "running"
                 PROVE  \/ pc'[q] = "waiting"
                        \/ sup'[q] # "none" /\ pc'[q] \in {"build", "reopen", "cache"}
                        \/ /\ sup'[q] # "none" /\ pc'[q] \in {"register", "done"}
                           /\ cache'[RootOf[q]] = q
      BY DEF ServerKept
    <3>1. q \notin lost /\ proc[q] = "running" /\ sup' = sup
      BY <2>1
    <3>2. CASE q = r
      BY <1>1, <2>1, <2>4, <2>5, <3>1, <3>2 DEF ServerKept, k
    <3>3. CASE q # r
      BY <1>1, <2>2, <2>3, <2>4, <3>1, <3>3, ProjectsAssumption DEF ServerKept
    <3> QED
      BY <3>2, <3>3
  <2>9. ServerClosed'
    BY <1>1, <2>1, <2>4 DEF ServerClosed, UnderWay
  <2> QED
    BY <2>6, <2>7, <2>8, <2>9 DEF ProjectInv
<1>10. ASSUME NEW r \in Requests, Prj!Register(r) PROVE ProjectInv'
  <2>1. /\ pc[r] = "register" /\ index' = [index EXCEPT ![RootOf[r]] = r]
        /\ pc' = [pc EXCEPT ![r] = "done"]
        /\ UNCHANGED <<got, cache, sup, lost, proc, down, closing>>
    BY <1>10 DEF Prj!Register, Prj!server, Prj!end
  <2>2. RootOf[r] \in Roots
    BY ProjectsAssumption
  <2>3. ProjectTypes'
    BY <1>1, <2>1, <2>2 DEF ProjectTypes, Loads
  <2>4. OneLoad'
    BY <1>1, <2>1, <2>2 DEF ProjectTypes, OneLoad
  <2>5. ServerKept'
    BY <1>1, <2>1 DEF ProjectTypes, ServerKept
  <2>6. ServerClosed'
    BY <1>1, <2>1 DEF ProjectTypes, ServerClosed, UnderWay
  <2> QED
    BY <2>3, <2>4, <2>5, <2>6 DEF ProjectInv
<1>11. ASSUME NEW r \in Requests, Prj!ServerBinds(r) \/ Prj!ServerReady(r) \/ Prj!ServerExits(r)
       PROVE  ProjectInv'
  <2>1. UNCHANGED <<pc, got, cache, index, sup, down, closing, lost>>
    BY <1>11 DEF Prj!ServerBinds, Prj!ServerReady, Prj!ServerExits, Prj!end
  <2>2. UNCHANGED proc \/ Prj!Dead({r})
    BY <1>11 DEF Prj!ServerBinds, Prj!ServerReady, Prj!ServerExits
  <2>3. /\ proc' \in [Requests -> {"none", "running", "dead"}]
        /\ \A q \in Requests : proc'[q] = "running" => proc[q] = "running"
    BY <1>1, <2>2, ServersDie DEF ProjectTypes
  <2> QED
    BY <2>1, <2>3, ServersOnlyDie
<1>12. ASSUME UNCHANGED <<pc, got, cache, index, sup, down, closing, lost, proc>> PROVE ProjectInv'
  BY <1>1, <1>12, ServersOnlyDie DEF ProjectTypes
<1>13. ASSUME Prj!CloseBegins PROVE ProjectInv'
  <2>1. /\ down = "serving" /\ down' = "closing" /\ closing' = Prj!projectsSnapshot
        /\ lost' = lost \cup {r \in Requests : pc[r] \in UnderWay}
        /\ UNCHANGED <<pc, got, cache, index, sup, proc>>
    BY <1>13 DEF Prj!CloseBegins, Prj!server, UnderWay
  <2>2. ProjectTypes' /\ OneLoad'
    BY <1>1, <2>1 DEF ProjectTypes, OneLoad
  <2>3. ServerKept'
    BY <1>1, <2>1 DEF ServerKept
  <2>4. ServerClosed'
    <3> SUFFICES ASSUME NEW r \in Requests \ lost'
                 PROVE  pc[r] \notin UnderWay /\ (proc[r] = "running" => r \in closing')
      BY <2>1 DEF ServerClosed
    <3>1. pc[r] \notin UnderWay /\ r \notin lost
      BY <2>1
    <3>2. ASSUME proc[r] = "running" PROVE r \in closing'
      <4>1. cache[RootOf[r]] = r
        BY <1>1, <3>1, <3>2 DEF ServerKept, UnderWay
      <4> QED
        BY <2>1, <4>1, ProjectsAssumption DEF Prj!projectsSnapshot, Prj!None
    <3> QED
      BY <3>1, <3>2
  <2> QED
    BY <2>2, <2>3, <2>4 DEF ProjectInv
<1>14. ASSUME Prj!closeProjects PROVE ProjectInv'
  <2>1. /\ down = "closing" /\ down' = "exited" /\ Prj!Dead({q \in closing : sup[q] # "none"})
        /\ UNCHANGED <<pc, got, cache, index, sup, lost, closing>>
    BY <1>14 DEF Prj!closeProjects, Prj!Closed, Prj!None
  <2> DEFINE taken == {q \in closing : sup[q] # "none"}
  <2> HIDE DEF taken
  <2>2. /\ proc' \in [Requests -> {"none", "running", "dead"}]
        /\ \A q \in Requests : proc'[q] = "running" => proc[q] = "running" /\ q \notin taken
    BY <1>1, <2>1, ServersDie DEF taken
  <2>3. ProjectTypes' /\ OneLoad'
    BY <1>1, <2>1, <2>2 DEF ProjectTypes, OneLoad
  <2>4. ServerKept'
    BY <1>1, <2>1, <2>2 DEF ServerKept
  <2>5. ServerClosed'
    BY <1>1, <2>1, <2>2 DEF ServerClosed, ServerKept, UnderWay, taken
  <2> QED
    BY <2>3, <2>4, <2>5 DEF ProjectInv
<1> QED
  <2>1. ASSUME (\E k \in Roots : Prj!BeginTurn(k) \/ Prj!EndTurn(k)) \/ Prj!UserServer
        PROVE UNCHANGED <<pc, got, cache, index, sup, down, closing, lost, proc>>
    BY <2>1 DEF Prj!BeginTurn, Prj!EndTurn, Prj!UserServer, Prj!server, Prj!end
  <2> QED
    BY <1>2, <1>3, <1>4, <1>5, <1>6, <1>7, <1>8, <1>9, <1>10, <1>11, <1>12, <1>13, <1>14, <2>1
    DEF Prj!Next

LEMMA ProjectsSafe == ProjectInv => Prj!OneInstance /\ Prj!NoServerLeft
  BY ProjectsAssumption
  DEF ProjectInv, OneLoad, ServerClosed, Prj!OneInstance, Prj!NoServerLeft, Prj!None

-----------------------------------------------------------------------------
(* The code index, for clients c and files fs, from any tree t0 *)

Doers(c) == c \cup {"start"}
IndexPlaces == {"walk", "index", "gate", "init", "building", "sync", "keys", "put", "end", "idle",
                "edges", "refresh", "read", "count"}
Queries(fs) ==
    [mode : {"none", "text", "graph"}, next : {"none", "drain", "gate", "read"}, changed : BOOLEAN,
     deferred : BOOLEAN, content : BOOLEAN, note : BOOLEAN, unavailable : BOOLEAN, quiet : BOOLEAN,
     keys : SUBSET fs]
IsRow(r) ==
    r = [text |-> r.text, mtime |-> r.mtime, size |-> r.size, body |-> r.body] /\ r.mtime \in Nat

IndexTypes(c, fs) ==
    /\ texts = [f \in fs |-> texts[f]] /\ rows = [f \in fs |-> rows[f]]
    /\ \A f \in fs : texts[f].mtime \in Nat /\ texts[f].mtime <= changes /\ IsRow(rows[f])
    /\ changes \in Nat /\ faults \in Nat /\ building \in BOOLEAN /\ initializing \in BOOLEAN
    /\ pc \in [Doers(c) -> IndexPlaces] /\ query \in [Doers(c) -> Queries(fs)]
    /\ mu \in Doers(c) \cup {"nobody"}
    /\ \A a \in Doers(c) : pc[a] = "index" <=> mu = a

\* A pass under way reads what it listed; what it leaves for another, it leaves having written.
PassTypes(fs) ==
    mu # "nobody" =>
        /\ pass = [todo |-> pass.todo, seen |-> pass.seen, rows |-> pass.rows, used |-> pass.used,
                   content |-> pass.content, indexed |-> pass.indexed, deferred |-> pass.deferred]
        /\ pass.rows = [f \in fs |-> pass.rows[f]] /\ \A f \in fs : IsRow(pass.rows[f])
        /\ DOMAIN pass.todo \subseteq pass.seen /\ pass.seen \subseteq fs
        /\ \A f \in DOMAIN pass.todo :
              pass.todo[f].mtime \in Nat /\ pass.todo[f].mtime <= texts[f].mtime
        /\ pass.indexed \in BOOLEAN /\ pass.deferred \in BOOLEAN /\ pass.content \in BOOLEAN
        /\ pass.deferred \/ pass.used # 0 => pass.indexed

\* A row is no younger than its file, and if it is as old it has its text.
Timed(r, f) ==
    /\ r.mtime <= texts[f].mtime
    /\ r.text # "absent" /\ r.mtime = texts[f].mtime => r.text = texts[f].text
RowsTimed(fs) == \A f \in fs : Timed(rows[f], f) /\ (mu # "nobody" => Timed(pass.rows[f], f))

\* The first build, and the queries that may wait for the graph: none before it is over.
Phases(c) ==
    /\ building <=> pc["start"] # "end"
    /\ initializing => pc["start"] = "building"
    /\ query["start"].next \in {"drain", "gate"}
    /\ query["start"].next = "drain" => pc["start"] \in {"walk", "index"}
    /\ \A a \in c : pc[a] \in {"walk", "index"} => query[a].next \in {"gate", "read"}
    /\ \A a \in c : pc[a] = "gate" \/ (pc[a] \in {"walk", "index"} /\ query[a].next = "gate")
                      => ~building

\* A pass since whose listing nothing was edited has read what it is done with, unless it left
\* something for a later one.
PassFresh(c, fs, t0) ==
    \A a \in Doers(c) : mu = a /\ (changes = 0 \/ query[a].quiet) =>
        /\ pass.seen = Index(c, fs, t0)!scanFiles
        /\ \A f \in DOMAIN pass.todo : pass.todo[f].mtime = texts[f].mtime
        /\ ~pass.deferred => \A f \in pass.seen \ DOMAIN pass.todo : pass.rows[f].text = texts[f].text

\* Somebody was told that the rows are those of the tree.
Vouched(c) ==
    \/ \E a \in c : pc[a] = "read" /\ query[a].quiet /\ ~query[a].note /\ ~query[a].deferred
    \/ changes = 0 /\ faults = 0 /\ query["start"].next = "gate"
RowsCurrent(c, fs, t0) == \A f \in fs : rows[f].text = Index(c, fs, t0)!Shown(f)
PassCurrent(c, fs, t0) ==
    /\ pass.seen = Index(c, fs, t0)!scanFiles
    /\ \A f \in pass.seen : pass.rows[f].text = texts[f].text
Answers(c, fs, t0) ==
    Vouched(c) => RowsCurrent(c, fs, t0) /\ (mu # "nobody" => PassCurrent(c, fs, t0))

IndexInv(c, fs, t0) ==
    /\ IndexTypes(c, fs) /\ PassTypes(fs) /\ RowsTimed(fs) /\ Phases(c)
    /\ PassFresh(c, fs, t0) /\ Answers(c, fs, t0)

NoStart(c) == c \cap {"start", "nobody"} = {}

LEMMA NoQueryTyped ==
  ASSUME NEW c, NEW fs, NEW t0
  PROVE  /\ Index(c, fs, t0)!NoCall \in Queries(fs) /\ Index(c, fs, t0)!NoCall.next = "none"
         /\ ~Index(c, fs, t0)!NoCall.quiet
         /\ [Index(c, fs, t0)!NoCall EXCEPT !.next = "drain"] \in Queries(fs)
         /\ [Index(c, fs, t0)!NoCall EXCEPT !.next = "drain"].next = "drain"
  BY DEF Index!NoCall, Queries

LEMMA NoRowIs ==
  ASSUME NEW c, NEW fs, NEW t0
  PROVE  /\ IsRow(Index(c, fs, t0)!NoRow) /\ Index(c, fs, t0)!NoRow.text = "absent"
         /\ Index(c, fs, t0)!NoRow.mtime = 0
  BY DEF Index!NoRow, Index!Absent, IsRow

LEMMA IndexStarts ==
  ASSUME NEW c, NEW fs, NEW t0, NoStart(c), Index(c, fs, t0)!Init PROVE IndexInv(c, fs, t0)
<1>1. /\ texts = [f \in fs |-> [text |-> t0[f], mtime |-> 0]]
      /\ rows = [f \in fs |-> Index(c, fs, t0)!NoRow]
      /\ building = TRUE /\ initializing = FALSE /\ mu = "nobody"
      /\ pc = [a \in Doers(c) |-> IF a = "start" THEN "walk" ELSE "idle"]
      /\ query = [a \in Doers(c) |-> IF a = "start" THEN [Index(c, fs, t0)!NoCall EXCEPT !.next = "drain"]
                                     ELSE Index(c, fs, t0)!NoCall]
      /\ changes = 0 /\ faults = 0
  BY DEF Index!Init, Index!Actors, Index!Bg, Index!Nobody, Doers
<1>2. query \in [Doers(c) -> Queries(fs)] /\ query["start"].next = "drain"
  BY <1>1, NoQueryTyped DEF Doers
<1>3. pc \in [Doers(c) -> IndexPlaces] /\ pc["start"] = "walk" /\ \A a \in c : pc[a] = "idle"
  BY <1>1 DEF Doers, IndexPlaces, NoStart
<1>4. IndexTypes(c, fs)
  <2>1. \A a \in Doers(c) : pc[a] = "index" <=> mu = a
    BY <1>1, <1>3 DEF NoStart, Doers
  <2>2. \A f \in fs : texts[f].mtime = 0 /\ IsRow(rows[f])
    BY <1>1, NoRowIs
  <2>3. texts = [f \in fs |-> texts[f]] /\ rows = [f \in fs |-> rows[f]]
    BY <1>1
  <2>4. building \in BOOLEAN /\ initializing \in BOOLEAN
    BY <1>1
  <2>5. changes = 0 /\ faults = 0 /\ mu \in {"nobody"}
    BY <1>1
  <2> QED
    BY <1>2, <1>3, <2>1, <2>2, <2>3, <2>4, <2>5 DEF IndexTypes
<1>5. RowsTimed(fs)
  BY <1>1, NoRowIs DEF RowsTimed, Timed
<1>6. Phases(c)
  BY <1>1, <1>2, <1>3 DEF Phases
<1>7. PassTypes(fs) /\ PassFresh(c, fs, t0)
  BY <1>1 DEF PassTypes, PassFresh, NoStart, Doers
<1>8. Answers(c, fs, t0)
  BY <1>1, <1>2, <1>3 DEF Answers, Vouched
<1> QED
  BY <1>4, <1>5, <1>6, <1>7, <1>8 DEF IndexInv

LEMMA IndexInvSound ==
  ASSUME NEW c, NEW fs, NEW t0, NoStart(c), IndexInv(c, fs, t0) PROVE Index(c, fs, t0)!IndexSound
<1>1. Index(c, fs, t0)!SearchCurrent
  BY DEF IndexInv, Answers, Vouched, RowsCurrent, Index!SearchCurrent
<1>2. Index(c, fs, t0)!StartCovers
  BY DEF IndexInv, Phases, Answers, Vouched, RowsCurrent, Index!StartCovers, Index!Bg
<1>3. Index(c, fs, t0)!NoQueryBehindInit
  BY DEF IndexInv, Phases, Index!NoQueryBehindInit
<1> QED
  BY <1>1, <1>2, <1>3 DEF Index!IndexSound


\* A step beside the passes: an actor that is not in one goes on, and nobody is told that the
\* rows are current.
LEMMA IndexMoves ==
  ASSUME NEW c, NEW fs, NEW t0, NoStart(c), IndexInv(c, fs, t0),
         NEW a \in Doers(c), NEW to \in IndexPlaces \ {"index", "gate"}, NEW k \in Queries(fs),
         pc[a] # "index", pc' = [pc EXCEPT ![a] = to], query' = [query EXCEPT ![a] = k],
         UNCHANGED <<texts, rows, mu, pass, changes>>, faults' \in Nat, faults <= faults',
         to = "read" => k.note,
         a = "start" => k.next = query[a].next /\ to # "walk",
         a # "start" /\ to = "walk" => k.next \in {"gate", "read"} /\ (k.next = "gate" => ~building),
         building' = (building /\ ~(a = "start" /\ to = "end")), initializing' \in BOOLEAN,
         initializing' => pc'["start"] = "building",
         a = "start" => pc[a] \notin {"walk", "end"}
  PROVE  IndexInv(c, fs, t0)'
<1>1. /\ IndexTypes(c, fs) /\ PassTypes(fs) /\ RowsTimed(fs) /\ Phases(c)
      /\ PassFresh(c, fs, t0) /\ Answers(c, fs, t0)
  BY DEF IndexInv
<1>2. /\ pc' \in [Doers(c) -> IndexPlaces] /\ query' \in [Doers(c) -> Queries(fs)]
      /\ pc'[a] = to /\ query'[a] = k
      /\ \A b \in Doers(c) : b # a => pc'[b] = pc[b] /\ query'[b] = query[b]
  BY <1>1 DEF IndexTypes
<1>3. a # "start" => a \in c
  BY DEF Doers
<1>4. IndexTypes(c, fs)'
  <2>1. \A b \in Doers(c) : pc'[b] = "index" <=> mu' = b
    BY <1>1, <1>2 DEF IndexTypes
  <2>2. building' \in BOOLEAN
    BY <1>1 DEF IndexTypes
  <2> QED
    BY <1>1, <1>2, <2>1, <2>2 DEF IndexTypes
<1>5. PassTypes(fs)' /\ RowsTimed(fs)'
  BY <1>1 DEF PassTypes, RowsTimed, Timed
<1>6. Phases(c)'
  <2>1. /\ building' <=> pc'["start"] # "end"
        /\ query'["start"].next \in {"drain", "gate"}
        /\ query'["start"].next = "drain" => pc'["start"] \in {"walk", "index"}
    BY <1>1, <1>2 DEF Phases, Doers
  <2>2. ASSUME NEW b \in c
        PROVE  /\ pc'[b] \in {"walk", "index"} => query'[b].next \in {"gate", "read"}
               /\ pc'[b] = "gate" \/ (pc'[b] \in {"walk", "index"} /\ query'[b].next = "gate")
                     => ~building'
    BY <1>1, <1>2 DEF Phases, Doers, NoStart
  <2> QED
    BY <2>1, <2>2 DEF Phases
<1>7. PassFresh(c, fs, t0)'
  <2>1. \A b \in Doers(c) : mu = b => query'[b] = query[b]
    BY <1>1, <1>2 DEF IndexTypes
  <2>2. Index(c, fs, t0)!scanFiles' = Index(c, fs, t0)!scanFiles
    BY DEF Index!scanFiles, Index!Bytes
  <2> QED
    BY <1>1, <2>1, <2>2 DEF PassFresh
<1>8. Answers(c, fs, t0)'
  <2>1. Vouched(c)' => Vouched(c)
    BY <1>1, <1>2 DEF Vouched, IndexTypes, Doers
  <2>2. RowsCurrent(c, fs, t0)' = RowsCurrent(c, fs, t0)
    BY DEF RowsCurrent, Index!Shown, Index!scanFiles, Index!Bytes
  <2>3. PassCurrent(c, fs, t0)' = PassCurrent(c, fs, t0)
    BY DEF PassCurrent, Index!scanFiles, Index!Bytes
  <2> QED
    BY <1>1, <2>1, <2>2, <2>3 DEF Answers
<1> QED
  BY <1>4, <1>5, <1>6, <1>7, <1>8 DEF IndexInv

LEMMA IndexEdited ==
  ASSUME NEW c, NEW fs, NEW t0, NoStart(c), IndexInv(c, fs, t0), NEW f \in fs, NEW text,
         Index(c, fs, t0)!Edit(f, text)
  PROVE  IndexInv(c, fs, t0)'
<1>1. /\ IndexTypes(c, fs) /\ PassTypes(fs) /\ RowsTimed(fs) /\ Phases(c)
  BY DEF IndexInv
<1>2. /\ changes' = changes + 1 /\ texts' = [texts EXCEPT ![f] = [text |-> text, mtime |-> changes + 1]]
      /\ query' = [a \in Doers(c) |-> [query[a] EXCEPT !.quiet = FALSE]]
      /\ UNCHANGED <<rows, building, initializing, mu, pass, pc, faults>>
  BY DEF Index!Edit, Index!Actors, Index!Bg, Doers, Index!index, Index!flags, Index!locks
<1>3. /\ \A a \in Doers(c) : query'[a] \in Queries(fs) /\ ~query'[a].quiet
                             /\ query'[a].next = query[a].next
      /\ query' \in [Doers(c) -> Queries(fs)]
  <2>1. ASSUME NEW k \in Queries(fs)
        PROVE  /\ [k EXCEPT !.quiet = FALSE] \in Queries(fs) /\ ~[k EXCEPT !.quiet = FALSE].quiet
               /\ [k EXCEPT !.quiet = FALSE].next = k.next
    BY DEF Queries
  <2> QED
    BY <1>1, <1>2, <2>1 DEF IndexTypes
<1>4. /\ texts' = [g \in fs |-> texts'[g]] /\ changes \in Nat
      /\ texts'[f] = [text |-> text, mtime |-> changes + 1]
      /\ \A g \in fs : g # f => texts'[g] = texts[g]
  BY <1>1, <1>2 DEF IndexTypes
<1>5. IndexTypes(c, fs)'
  <2>1. \A g \in fs : texts'[g].mtime \in Nat /\ texts'[g].mtime <= changes'
    BY <1>1, <1>2, <1>4 DEF IndexTypes
  <2> QED
    BY <1>1, <1>2, <1>3, <1>4, <2>1 DEF IndexTypes
<1>6. PassTypes(fs)'
  <2>1. ASSUME mu # "nobody", NEW g \in DOMAIN pass.todo
        PROVE  pass.todo[g].mtime \in Nat /\ pass.todo[g].mtime <= texts'[g].mtime
    <3>1. /\ g \in fs /\ pass.todo[g].mtime \in Nat /\ pass.todo[g].mtime <= texts[g].mtime
          /\ texts[g].mtime \in Nat /\ texts[g].mtime <= changes
      BY <1>1, <2>1 DEF PassTypes, IndexTypes
    <3> QED
      BY <1>4, <3>1
  <2> QED
    BY <1>1, <1>2, <2>1 DEF PassTypes
<1>7. RowsTimed(fs)'
  <2>1. ASSUME NEW g \in fs, NEW r, IsRow(r), Timed(r, g)
        PROVE  /\ r.mtime <= texts'[g].mtime
               /\ r.text # "absent" /\ r.mtime = texts'[g].mtime => r.text = texts'[g].text
    BY <1>1, <1>4, <2>1 DEF Timed, IsRow, IndexTypes
  <2> QED
    BY <1>1, <1>2, <2>1 DEF RowsTimed, Timed, IndexTypes, PassTypes
<1>8. Phases(c)'
  BY <1>1, <1>2, <1>3 DEF Phases, Doers
<1>9. PassFresh(c, fs, t0)'
  BY <1>2, <1>3, <1>4 DEF PassFresh
<1>10. Answers(c, fs, t0)'
  <2>1. changes' # 0
    BY <1>2, <1>4
  <2>2. \A a \in c : ~query'[a].quiet
    BY <1>3 DEF Doers
  <2>3. ~Vouched(c)'
    BY <2>1, <2>2 DEF Vouched
  <2> QED
    BY <2>3 DEF Answers
<1> QED
  BY <1>5, <1>6, <1>7, <1>8, <1>9, <1>10 DEF IndexInv


\* The places of a pass: its actor holds the lock and is in it, nobody else is.
LEMMA InPass ==
  ASSUME NEW c, NEW fs, NoStart(c), IndexTypes(c, fs), NEW a \in Doers(c), pc[a] = "index"
  PROVE  mu = a /\ a # "nobody" /\ mu # "nobody"
  BY DEF IndexTypes, NoStart, Doers

LEMMA PassBegins ==
  ASSUME NEW c, NEW fs, NEW t0, NoStart(c), IndexInv(c, fs, t0), NEW a \in Doers(c),
         Index(c, fs, t0)!Walk(a)
  PROVE  IndexInv(c, fs, t0)'
<1> DEFINE content1 == Index(c, fs, t0)!Claimed <= MaxContentIndexBytes
           listed == [f \in Index(c, fs, t0)!scanFiles |->
                        [mtime |-> texts[f].mtime, size |-> Index(c, fs, t0)!Bytes(f)]]
           copies == [f \in fs |-> [rows[f] EXCEPT !.body = @ /\ content1]]
           scan == Index(c, fs, t0)!scanFiles
<1>1. /\ IndexTypes(c, fs) /\ PassTypes(fs) /\ RowsTimed(fs) /\ Phases(c)
      /\ PassFresh(c, fs, t0) /\ Answers(c, fs, t0)
  BY DEF IndexInv
<1>2. /\ pc[a] = "walk" /\ mu = "nobody" /\ mu' = a /\ pc' = [pc EXCEPT ![a] = "index"]
      /\ pass' = [todo |-> listed, seen |-> scan, rows |-> copies, used |-> 0,
                  content |-> content1, indexed |-> FALSE, deferred |-> FALSE]
      /\ UNCHANGED <<texts, rows, building, initializing, query, changes, faults>>
  BY DEF Index!Walk, Index!Nobody, Index!NoPass, Index!index, Index!flags, Index!counters
<1>3. scan \subseteq fs /\ DOMAIN listed = scan /\ \A f \in scan : listed[f].mtime = texts[f].mtime
  BY DEF Index!scanFiles
<1>4. content1 \in BOOLEAN
  OBVIOUS
<1>5. /\ copies = [f \in fs |-> copies[f]]
      /\ \A f \in fs : IsRow(copies[f]) /\ copies[f].text = rows[f].text
                       /\ copies[f].mtime = rows[f].mtime
  <2>1. ASSUME NEW f \in fs
        PROVE  IsRow(copies[f]) /\ copies[f].text = rows[f].text /\ copies[f].mtime = rows[f].mtime
    <3>1. IsRow(rows[f])
      BY <1>1 DEF IndexTypes
    <3>2. rows[f] = [text |-> rows[f].text, mtime |-> rows[f].mtime, size |-> rows[f].size,
                     body |-> rows[f].body] /\ rows[f].mtime \in Nat
      BY <3>1 DEF IsRow
    <3>3. copies[f] = [text |-> rows[f].text, mtime |-> rows[f].mtime, size |-> rows[f].size,
                       body |-> rows[f].body /\ content1]
      BY <3>2
    <3> QED
      BY <3>2, <3>3 DEF IsRow
  <2> QED
    BY <2>1
<1>6. \A f \in scan : texts[f].text = Index(c, fs, t0)!Shown(f)
  BY DEF Index!Shown
<1>7. Index(c, fs, t0)!scanFiles' = scan
  BY <1>2 DEF Index!scanFiles, Index!Bytes
<1> HIDE DEF content1, listed, copies, scan
<1>8. a # "nobody" /\ \A b \in Doers(c) : pc[b] # "index"
  BY <1>1, <1>2 DEF IndexTypes, NoStart, Doers
<1>9. IndexTypes(c, fs)'
  <2>1. /\ pc' \in [Doers(c) -> IndexPlaces] /\ pc'[a] = "index"
        /\ \A b \in Doers(c) : b # a => pc'[b] = pc[b]
    BY <1>1, <1>2 DEF IndexTypes, IndexPlaces
  <2>2. \A b \in Doers(c) : pc'[b] = "index" <=> mu' = b
    BY <1>2, <1>8, <2>1
  <2> QED
    BY <1>1, <1>2, <2>1, <2>2 DEF IndexTypes
<1>10. PassTypes(fs)'
  <2>1. \A f \in scan : texts[f].mtime \in Nat
    BY <1>1, <1>3 DEF IndexTypes
  <2> QED
    BY <1>2, <1>3, <1>4, <1>5, <2>1 DEF PassTypes
<1>11. RowsTimed(fs)'
  BY <1>1, <1>2, <1>5 DEF RowsTimed, Timed
<1>12. \A b \in Doers(c) : b # a => pc'[b] = pc[b]
  BY <1>1, <1>2 DEF IndexTypes
<1>13. Phases(c)'
  <2>1. pc'["start"] = "end" <=> pc["start"] = "end"
    BY <1>1, <1>2 DEF IndexTypes, Doers
  <2>2. pc["start"] = "building" => pc'["start"] = "building"
    BY <1>1, <1>2 DEF IndexTypes, Doers
  <2>3. pc["start"] \in {"walk", "index"} => pc'["start"] \in {"walk", "index"}
    BY <1>1, <1>2 DEF IndexTypes, Doers
  <2>4. \A b \in c : /\ pc'[b] \in {"walk", "index"} => pc[b] \in {"walk", "index"}
                     /\ pc'[b] = "gate" => pc[b] = "gate"
    BY <1>1, <1>2 DEF IndexTypes, Doers
  <2> QED
    BY <1>1, <1>2, <2>1, <2>2, <2>3, <2>4 DEF Phases
<1>14. PassFresh(c, fs, t0)'
  BY <1>2, <1>3, <1>7 DEF PassFresh
<1>15. Answers(c, fs, t0)'
  <2> SUFFICES ASSUME Vouched(c)' PROVE RowsCurrent(c, fs, t0)' /\ PassCurrent(c, fs, t0)'
    BY DEF Answers
  <2>1. Vouched(c)
    <3>1. \A b \in c : pc'[b] = "read" => pc[b] = "read"
      BY <1>1, <1>2 DEF IndexTypes, Doers
    <3> QED
      BY <1>2, <3>1 DEF Vouched
  <2>2. \A f \in fs : rows[f].text = Index(c, fs, t0)!Shown(f)
    BY <1>1, <2>1 DEF Answers, RowsCurrent
  <2>3. \A f \in fs : Index(c, fs, t0)!Shown(f)' = Index(c, fs, t0)!Shown(f)
    BY <1>2, <1>7 DEF Index!Shown, scan
  <2>4. RowsCurrent(c, fs, t0)'
    BY <1>2, <2>2, <2>3 DEF RowsCurrent
  <2>5. PassCurrent(c, fs, t0)'
    BY <1>2, <1>3, <1>5, <1>6, <1>7, <2>2 DEF PassCurrent
  <2> QED
    BY <2>4, <2>5
<1> QED
  BY <1>9, <1>10, <1>11, <1>13, <1>14, <1>15 DEF IndexInv

\* A pass has read a file, or has taken its row for current, or leaves it for another.


\* What becomes of a file that a pass comes to: its row is taken for current, it is left for
\* another pass, or it is read.
RowKept(f) ==
    /\ pass'.rows = pass.rows /\ pass'.deferred = pass.deferred
    /\ \/ pass.rows[f].text = texts[f].text
       \/ pass.rows[f].text # "absent" /\ pass.rows[f].mtime = pass.todo[f].mtime
LeftOver == pass'.rows = pass.rows /\ pass'.deferred = TRUE
ReadAnew(f) ==
    /\ pass'.deferred = pass.deferred /\ pass.rows[f].text # texts[f].text
    /\ \E r : /\ IsRow(r) /\ r.text = texts[f].text /\ r.mtime = pass.todo[f].mtime
              /\ pass'.rows = [pass.rows EXCEPT ![f] = r]

\* A pass takes a file's row for current, or leaves the file for another pass, or reads it.
LEMMA PassReads ==
  ASSUME NEW c, NEW fs, NEW t0, NoStart(c), IndexInv(c, fs, t0), NEW a \in Doers(c), NEW f \in fs,
         Index(c, fs, t0)!IndexOne(a, f)
  PROVE  /\ f \in DOMAIN pass.todo /\ pc[a] = "index" /\ mu = a /\ mu # "nobody"
         /\ UNCHANGED <<texts, rows, building, initializing, query, changes, faults, pc, mu>>
         /\ pass'.todo = [g \in DOMAIN pass.todo \ {f} |-> pass.todo[g]]
         /\ pass'.seen = pass.seen /\ PassTypes(fs)'
         /\ RowKept(f) \/ LeftOver \/ ReadAnew(f)
<1> DEFINE text == texts[f].text
           sf == pass.todo[f]
           left == [g \in DOMAIN pass.todo \ {f} |-> pass.todo[g]]
           row == pass.rows[f]
           read == [text |-> text, mtime |-> sf.mtime, size |-> sf.size, body |-> pass.content]
<1>1. IndexTypes(c, fs) /\ PassTypes(fs)
  BY DEF IndexInv
<1>2. /\ pc[a] = "index" /\ f \in DOMAIN pass.todo
      /\ pass' = Index(c, fs, t0)!indexOneFile(pass, f, text)
      /\ UNCHANGED <<texts, rows, building, initializing, query, changes, faults, pc, mu>>
  BY DEF Index!IndexOne, Index!Due, Index!index, Index!flags, Index!counters
<1>3. mu = a /\ mu # "nobody"
  BY <1>1, <1>2, InPass
<1>4. /\ pass = [todo |-> pass.todo, seen |-> pass.seen, rows |-> pass.rows, used |-> pass.used,
                 content |-> pass.content, indexed |-> pass.indexed, deferred |-> pass.deferred]
      /\ pass.rows = [g \in fs |-> pass.rows[g]] /\ \A g \in fs : IsRow(pass.rows[g])
      /\ DOMAIN pass.todo \subseteq pass.seen /\ pass.seen \subseteq fs
      /\ \A g \in DOMAIN pass.todo :
            pass.todo[g].mtime \in Nat /\ pass.todo[g].mtime <= texts[g].mtime
      /\ pass.indexed \in BOOLEAN /\ pass.deferred \in BOOLEAN /\ pass.content \in BOOLEAN
      /\ pass.deferred \/ pass.used # 0 => pass.indexed
  BY <1>1, <1>3 DEF PassTypes
<1> DEFINE rest == [todo |-> left, seen |-> pass.seen, rows |-> pass.rows, used |-> pass.used,
                    content |-> pass.content, indexed |-> pass.indexed, deferred |-> pass.deferred]
<1>5. [pass EXCEPT !.todo = left] = rest
  BY <1>4
<1>6. \/ pass' = rest /\ (Index(c, fs, t0)!sameStat(row, sf) \/ row.text = text)
      \/ /\ row.text # text /\ pass.used >= MaxIndexBytesPerPass
         /\ pass' = [rest EXCEPT !.deferred = TRUE]
      \/ /\ row.text # text
         /\ pass' = [rest EXCEPT !.used = @ + Size[text], !.indexed = TRUE, !.rows[f] = read]
  BY <1>2, <1>5 DEF Index!indexOneFile
<1>7. /\ DOMAIN left = DOMAIN pass.todo \ {f}
      /\ \A g \in DOMAIN left : left[g].mtime \in Nat /\ left[g].mtime <= texts[g].mtime
  BY <1>4
<1>8. IsRow(read) /\ read.text = text /\ read.mtime = sf.mtime
  BY <1>2, <1>4 DEF IsRow
<1> HIDE DEF left, read
<1>9. CASE pass' = rest /\ (Index(c, fs, t0)!sameStat(row, sf) \/ row.text = text)
  <2>1. PassTypes(fs)'
    BY <1>2, <1>4, <1>7, <1>9 DEF PassTypes
  <2>2. pass'.todo = left /\ pass'.seen = pass.seen /\ pass'.rows = pass.rows
        /\ pass'.deferred = pass.deferred
    BY <1>9
  <2>3. row.text = text \/ (row.text # "absent" /\ row.mtime = sf.mtime)
    BY <1>9 DEF Index!sameStat, Index!Absent
  <2> QED
    BY <1>2, <1>3, <2>1, <2>2, <2>3 DEF left, RowKept
<1>10. CASE /\ row.text # text /\ pass.used >= MaxIndexBytesPerPass
            /\ pass' = [rest EXCEPT !.deferred = TRUE]
  <2>1. pass' = [todo |-> left, seen |-> pass.seen, rows |-> pass.rows, used |-> pass.used,
                 content |-> pass.content, indexed |-> pass.indexed, deferred |-> TRUE]
    BY <1>10
  <2>2. pass.used # 0
    BY <1>10, IndexAssumption
  <2>3. PassTypes(fs)'
    BY <1>2, <1>4, <1>7, <2>1, <2>2 DEF PassTypes
  <2> QED
    BY <1>2, <1>3, <2>1, <2>3 DEF left, LeftOver
<1>11. CASE /\ row.text # text
            /\ pass' = [rest EXCEPT !.used = @ + Size[text], !.indexed = TRUE, !.rows[f] = read]
  <2> DEFINE more == [pass.rows EXCEPT ![f] = read]
             spent == pass.used + Size[text]
  <2>1. pass' = [todo |-> left, seen |-> pass.seen, rows |-> more, used |-> spent,
                 content |-> pass.content, indexed |-> TRUE, deferred |-> pass.deferred]
    BY <1>11
  <2>2. more = [g \in fs |-> more[g]] /\ \A g \in fs : IsRow(more[g])
    BY <1>4, <1>8
  <2> HIDE DEF more, spent
  <2>3. PassTypes(fs)'
    BY <1>2, <1>4, <1>7, <2>1, <2>2 DEF PassTypes
  <2>4. pass'.todo = left /\ pass'.seen = pass.seen /\ pass'.rows = more
        /\ pass'.deferred = pass.deferred
    BY <2>1
  <2> QED
    BY <1>2, <1>3, <1>8, <1>11, <2>3, <2>4 DEF left, more, ReadAnew
<1> QED
  BY <1>6, <1>9, <1>10, <1>11

LEMMA PassGoesOn ==
  ASSUME NEW c, NEW fs, NEW t0, NoStart(c), IndexInv(c, fs, t0), NEW a \in Doers(c), NEW f \in fs,
         Index(c, fs, t0)!IndexOne(a, f)
  PROVE  IndexInv(c, fs, t0)'
<1>1. /\ IndexTypes(c, fs) /\ PassTypes(fs) /\ RowsTimed(fs) /\ Phases(c)
      /\ PassFresh(c, fs, t0) /\ Answers(c, fs, t0)
  BY DEF IndexInv
<1>2. /\ f \in DOMAIN pass.todo /\ pc[a] = "index" /\ mu = a /\ mu # "nobody"
      /\ UNCHANGED <<texts, rows, building, initializing, query, changes, faults, pc, mu>>
      /\ pass'.todo = [g \in DOMAIN pass.todo \ {f} |-> pass.todo[g]]
      /\ pass'.seen = pass.seen /\ PassTypes(fs)'
  BY PassReads
<1>3. RowKept(f) \/ LeftOver \/ ReadAnew(f)
  BY PassReads
<1>4. /\ pass.rows = [g \in fs |-> pass.rows[g]]
      /\ DOMAIN pass.todo \subseteq pass.seen /\ pass.seen \subseteq fs
      /\ pass.todo[f].mtime \in Nat /\ pass.todo[f].mtime <= texts[f].mtime
  BY <1>1, <1>2 DEF PassTypes
<1>5. IndexTypes(c, fs)' /\ Phases(c)'
  BY <1>1, <1>2 DEF IndexTypes, Phases
<1>6. /\ Index(c, fs, t0)!scanFiles' = Index(c, fs, t0)!scanFiles
      /\ RowsCurrent(c, fs, t0)' = RowsCurrent(c, fs, t0)
      /\ Vouched(c)' = Vouched(c)
  BY <1>2 DEF Index!scanFiles, Index!Bytes, Index!Shown, RowsCurrent, Vouched
<1>7. RowsTimed(fs)'
  <2>1. CASE pass'.rows = pass.rows
    BY <1>1, <1>2, <2>1 DEF RowsTimed, Timed
  <2>2. CASE ReadAnew(f)
    <3>1. PICK r : /\ IsRow(r) /\ r.text = texts[f].text /\ r.mtime = pass.todo[f].mtime
                   /\ pass'.rows = [pass.rows EXCEPT ![f] = r]
      BY <2>2 DEF ReadAnew
    <3>2. pass'.rows[f] = r /\ \A g \in fs : g # f => pass'.rows[g] = pass.rows[g]
      BY <1>4, <3>1
    <3>3. Timed(r, f)
      BY <1>4, <3>1 DEF Timed
    <3> QED
      BY <1>1, <1>2, <3>2, <3>3 DEF RowsTimed, Timed
  <2> QED
    BY <1>3, <2>1, <2>2 DEF RowKept, LeftOver
<1>8. PassFresh(c, fs, t0)'
  <2> SUFFICES ASSUME changes = 0 \/ query[a].quiet
               PROVE  /\ pass.seen = Index(c, fs, t0)!scanFiles
                      /\ \A g \in DOMAIN pass'.todo : pass'.todo[g].mtime = texts[g].mtime
                      /\ ~pass'.deferred => \A g \in pass.seen \ DOMAIN pass'.todo :
                            pass'.rows[g].text = texts[g].text
    BY <1>2, <1>6 DEF PassFresh
  <2>1. /\ pass.seen = Index(c, fs, t0)!scanFiles
        /\ \A g \in DOMAIN pass.todo : pass.todo[g].mtime = texts[g].mtime
        /\ ~pass.deferred => \A g \in pass.seen \ DOMAIN pass.todo :
              pass.rows[g].text = texts[g].text
    BY <1>1, <1>2 DEF PassFresh
  <2>2. DOMAIN pass'.todo = DOMAIN pass.todo \ {f}
        /\ \A g \in DOMAIN pass'.todo : pass'.todo[g] = pass.todo[g]
    BY <1>2
  <2>3. ASSUME ~pass'.deferred, NEW g \in pass.seen \ DOMAIN pass'.todo
        PROVE  pass'.rows[g].text = texts[g].text
    <3>1. CASE ReadAnew(f)
      BY <1>4, <2>1, <2>2, <2>3, <3>1 DEF ReadAnew
    <3>2. CASE RowKept(f)
      <4>1. pass.rows[f].text = texts[f].text
        BY <1>1, <1>2, <1>4, <2>1, <3>2 DEF RowsTimed, Timed, RowKept
      <4> QED
        BY <2>1, <2>2, <2>3, <3>2, <4>1 DEF RowKept
    <3> QED
      BY <1>3, <2>3, <3>1, <3>2 DEF LeftOver
  <2> QED
    BY <2>1, <2>2, <2>3
<1>9. Answers(c, fs, t0)'
  <2> SUFFICES ASSUME Vouched(c) PROVE RowsCurrent(c, fs, t0) /\ PassCurrent(c, fs, t0)'
    BY <1>6 DEF Answers
  <2>1. RowsCurrent(c, fs, t0) /\ PassCurrent(c, fs, t0)
    BY <1>1, <1>2 DEF Answers
  <2>2. pass.rows[f].text = texts[f].text
    BY <1>2, <1>4, <2>1 DEF PassCurrent
  <2>3. pass'.rows = pass.rows
    BY <1>3, <2>2 DEF RowKept, LeftOver, ReadAnew
  <2> QED
    BY <1>2, <1>6, <2>1, <2>3 DEF PassCurrent
<1> QED
  BY <1>2, <1>5, <1>7, <1>8, <1>9 DEF IndexInv


\* A pass ends, with its rows or without, and its actor goes on.
PassIsOver(c, fs, a, to, k) ==
    /\ pc[a] = "index" /\ pc' = [pc EXCEPT ![a] = to] /\ query' = [query EXCEPT ![a] = k]
    /\ mu' = "nobody" /\ UNCHANGED <<texts, changes, initializing>>
    /\ building' = (building /\ ~(a = "start" /\ to = "end"))
    /\ to \in {"walk", "end", "idle", "gate", "read"} /\ k \in Queries(fs)
    /\ a = "start" => /\ to \in {"walk", "end", "gate"}
                      /\ k.next \in {"drain", "gate"} /\ (k.next = "drain" => to = "walk")
    /\ a # "start" => to \in {"idle", "gate", "read"} /\ (to = "gate" => ~building)

LEMMA PassLeaves ==
  ASSUME NEW c, NEW fs, NEW t0, NoStart(c), IndexInv(c, fs, t0), NEW a \in Doers(c), NEW to, NEW k,
         PassIsOver(c, fs, a, to, k), faults' \in Nat,
         rows' = [f \in fs |-> rows'[f]],
         \A f \in fs : rows'[f] = rows[f] \/ rows'[f] = pass.rows[f]
                       \/ rows'[f] = Index(c, fs, t0)!NoRow
  PROVE  /\ IndexTypes(c, fs)' /\ PassTypes(fs)' /\ RowsTimed(fs)' /\ Phases(c)'
         /\ PassFresh(c, fs, t0)'
<1>1. IndexTypes(c, fs) /\ PassTypes(fs) /\ RowsTimed(fs) /\ Phases(c)
  BY DEF IndexInv
<1>2. mu = a /\ mu # "nobody"
  BY <1>1, InPass DEF PassIsOver
<1>3. /\ pc' \in [Doers(c) -> IndexPlaces] /\ query' \in [Doers(c) -> Queries(fs)]
      /\ pc'[a] = to /\ query'[a] = k
      /\ \A b \in Doers(c) : b # a => pc'[b] = pc[b] /\ query'[b] = query[b]
  BY <1>1 DEF PassIsOver, IndexTypes, IndexPlaces
<1>4. \A f \in fs : IsRow(rows'[f])
  BY <1>1, <1>2, NoRowIs DEF IndexTypes, PassTypes
<1>5. IndexTypes(c, fs)'
  <2>1. \A b \in Doers(c) : ~(pc'[b] = "index") /\ mu' # b
    BY <1>1, <1>2, <1>3 DEF PassIsOver, IndexTypes, NoStart, Doers
  <2>2. building' \in BOOLEAN
    BY DEF PassIsOver
  <2> QED
    BY <1>1, <1>3, <1>4, <2>1, <2>2 DEF PassIsOver, IndexTypes
<1>6. PassTypes(fs)' /\ PassFresh(c, fs, t0)'
  BY <1>5 DEF PassIsOver, PassTypes, PassFresh, NoStart, Doers
<1>7. RowsTimed(fs)'
  <2>1. \A f \in fs : Timed(rows[f], f) /\ Timed(pass.rows[f], f)
    BY <1>1, <1>2 DEF RowsTimed
  <2>2. \A f \in fs : Timed(Index(c, fs, t0)!NoRow, f)
    BY <1>1, NoRowIs DEF Timed, IndexTypes
  <2> QED
    BY <2>1, <2>2 DEF RowsTimed, Timed, PassIsOver
<1>8. Phases(c)'
  <2>1. /\ building' <=> pc'["start"] # "end"
        /\ query'["start"].next \in {"drain", "gate"}
        /\ query'["start"].next = "drain" => pc'["start"] \in {"walk", "index"}
        /\ initializing' => pc'["start"] = "building"
    BY <1>1, <1>3 DEF Phases, Doers, PassIsOver
  <2>2. ASSUME NEW b \in c
        PROVE  /\ pc'[b] \in {"walk", "index"} => query'[b].next \in {"gate", "read"}
               /\ pc'[b] = "gate" \/ (pc'[b] \in {"walk", "index"} /\ query'[b].next = "gate")
                     => ~building'
    BY <1>1, <1>3 DEF Phases, Doers, NoStart, PassIsOver
  <2> QED
    BY <2>1, <2>2 DEF Phases
<1> QED
  BY <1>5, <1>6, <1>7, <1>8

\* What holds where a pass is over that left nothing of a tree nobody edited meanwhile.
LEMMA PassDone ==
  ASSUME NEW c, NEW fs, NEW t0, IndexInv(c, fs, t0), NEW a \in Doers(c), mu = a,
         changes = 0 \/ query[a].quiet, ~pass.deferred, DOMAIN pass.todo = {}
  PROVE  PassCurrent(c, fs, t0)
  BY DEF IndexInv, PassFresh, PassCurrent

LEMMA PassCommits ==
  ASSUME NEW c, NEW fs, NEW t0, NoStart(c), IndexInv(c, fs, t0), NEW a \in Doers(c),
         Index(c, fs, t0)!Commit(a)
  PROVE  IndexInv(c, fs, t0)'
<1> DEFINE wrote == pass.indexed \/ \E f \in fs \ pass.seen : rows[f].text # Index(c, fs, t0)!Absent
           next == IF pass.deferred /\ pass.indexed THEN "drain" ELSE "gate"
           drained == [query[a] EXCEPT !.next = next]
           walked == [query[a] EXCEPT !.changed = wrote, !.deferred = pass.deferred,
                                      !.content = pass.content]
<1>1. /\ IndexTypes(c, fs) /\ PassTypes(fs) /\ RowsTimed(fs) /\ Phases(c)
      /\ PassFresh(c, fs, t0) /\ Answers(c, fs, t0)
  BY DEF IndexInv
<1>2. /\ pc[a] = "index" /\ DOMAIN pass.todo = {} /\ mu' = "nobody"
      /\ rows' = [f \in fs |-> IF f \in pass.seen THEN pass.rows[f] ELSE Index(c, fs, t0)!NoRow]
      /\ UNCHANGED <<texts, building, initializing, changes, faults>>
  BY DEF Index!Commit, Index!Nobody, Index!flags, Index!counters
<1>3. mu = a /\ mu # "nobody"
  BY <1>1, <1>2, InPass
<1>4. /\ pass.indexed \in BOOLEAN /\ pass.deferred \in BOOLEAN /\ pass.content \in BOOLEAN
      /\ pass.deferred => pass.indexed
  BY <1>1, <1>3 DEF PassTypes
<1>5. query[a] \in Queries(fs) /\ query = [b \in Doers(c) |-> query[b]]
  BY <1>1 DEF IndexTypes
<1>6. wrote \in BOOLEAN
  BY <1>4
<1> HIDE DEF wrote
<1>7. /\ drained \in Queries(fs) /\ drained.next = next /\ next \in {"drain", "gate"}
      /\ drained.quiet = query[a].quiet
      /\ next = "gate" => ~pass.deferred
  BY <1>4, <1>5 DEF Queries
<1>8. /\ walked \in Queries(fs) /\ walked.next = query[a].next /\ walked.quiet = query[a].quiet
      /\ walked.note = query[a].note /\ walked.deferred = pass.deferred
  BY <1>4, <1>5, <1>6 DEF Queries
<1>9. \/ /\ query[a].next = "drain"
         /\ pc' = [pc EXCEPT ![a] = "walk"] /\ query' = [query EXCEPT ![a] = drained]
      \/ /\ query[a].next # "drain"
         /\ pc' = [pc EXCEPT ![a] = query[a].next] /\ query' = [query EXCEPT ![a] = walked]
  BY <1>5 DEF Index!Commit, Index!AfterWalk, Index!drainPasses, wrote, Queries
<1> HIDE DEF next, drained, walked
<1>10. rows' = [f \in fs |-> rows'[f]] /\ faults' \in Nat
       /\ \A f \in fs : rows'[f] = pass.rows[f] \/ rows'[f] = Index(c, fs, t0)!NoRow
  BY <1>1, <1>2 DEF IndexTypes
<1>11. PassCurrent(c, fs, t0) => RowsCurrent(c, fs, t0)'
  <2> SUFFICES ASSUME PassCurrent(c, fs, t0), NEW f \in fs
               PROVE  rows'[f].text = Index(c, fs, t0)!Shown(f)'
    BY DEF RowsCurrent
  <2>1. Index(c, fs, t0)!Shown(f)' = Index(c, fs, t0)!Shown(f)
    BY <1>2 DEF Index!Shown, Index!scanFiles, Index!Bytes
  <2>2. CASE f \in pass.seen
    BY <1>2, <2>1, <2>2 DEF PassCurrent, Index!Shown
  <2>3. CASE f \notin pass.seen
    BY <1>2, <2>1, <2>3, NoRowIs DEF PassCurrent, Index!Shown, Index!Absent
  <2> QED
    BY <2>2, <2>3
<1>12. Vouched(c) => PassCurrent(c, fs, t0)
  BY <1>1, <1>3 DEF Answers
<1>13. a # "start" => a \in c
  BY DEF Doers
<1>14. CASE /\ query[a].next = "drain"
            /\ pc' = [pc EXCEPT ![a] = "walk"] /\ query' = [query EXCEPT ![a] = drained]
  <2>1. a = "start"
    <3>1. \A b \in c : pc[b] \in {"walk", "index"} => query[b].next \in {"gate", "read"}
      BY <1>1 DEF Phases
    <3> QED
      BY <1>2, <1>13, <1>14, <3>1
  <2>2. PassIsOver(c, fs, a, "walk", drained)
    <3>1. building \in BOOLEAN
      BY <1>1 DEF IndexTypes
    <3>2. building' = (building /\ ~(a = "start" /\ "walk" = "end"))
      BY <1>2, <3>1
    <3> QED
      BY <1>2, <1>7, <1>14, <2>1, <3>2 DEF PassIsOver
  <2>3. query'["start"] = drained /\ pc'["start"] = "walk"
        /\ \A b \in c : pc'[b] = pc[b] /\ query'[b] = query[b]
    BY <1>1, <1>14, <2>1 DEF IndexTypes, NoStart, Doers
  <2>4. Vouched(c)' => PassCurrent(c, fs, t0)
    <3>1. CASE changes = 0 /\ faults = 0 /\ drained.next = "gate"
      BY <1>2, <1>3, <1>7, <3>1, PassDone
    <3> QED
      BY <1>2, <1>12, <2>3, <3>1 DEF Vouched
  <2> QED
    BY <1>2, <1>10, <1>11, <2>2, <2>4, PassLeaves DEF IndexInv, Answers
<1>15. CASE /\ query[a].next # "drain"
            /\ pc' = [pc EXCEPT ![a] = query[a].next] /\ query' = [query EXCEPT ![a] = walked]
  <2>1. /\ query[a].next \in {"gate", "read"} /\ (a = "start" => query[a].next = "gate")
        /\ a # "start" /\ query[a].next = "gate" => ~building
    BY <1>1, <1>2, <1>13, <1>15 DEF Phases
  <2>2. PassIsOver(c, fs, a, query[a].next, walked)
    BY <1>1, <1>2, <1>8, <1>15, <2>1 DEF PassIsOver, IndexTypes
  <2>3. /\ query'[a] = walked /\ pc'[a] = query[a].next
        /\ \A b \in Doers(c) : b # a => pc'[b] = pc[b] /\ query'[b] = query[b]
    BY <1>1, <1>15 DEF IndexTypes
  <2>4. Vouched(c)' => PassCurrent(c, fs, t0)
    <3>1. CASE \E b \in c : b # a /\ pc'[b] = "read" /\ query'[b].quiet /\ ~query'[b].note
                            /\ ~query'[b].deferred
      BY <1>12, <2>3, <3>1 DEF Vouched, Doers
    <3>2. CASE walked.quiet /\ ~walked.deferred
      BY <1>2, <1>3, <1>8, <3>2, PassDone
    <3>3. CASE changes = 0 /\ faults = 0 /\ query'["start"].next = "gate"
      BY <1>8, <1>12, <2>3, <3>3 DEF Vouched, Doers
    <3> QED
      BY <1>2, <2>3, <3>1, <3>2, <3>3 DEF Vouched
  <2> QED
    BY <1>2, <1>10, <1>11, <2>2, <2>4, PassLeaves DEF IndexInv, Answers
<1> QED
  BY <1>9, <1>14, <1>15

LEMMA PassBreaks ==
  ASSUME NEW c, NEW fs, NEW t0, NoStart(c), IndexInv(c, fs, t0), NEW a \in Doers(c),
         Index(c, fs, t0)!PassFails(a)
  PROVE  IndexInv(c, fs, t0)'
<1> DEFINE to == IF query[a].next = "drain" THEN "walk" ELSE IF a # "start" THEN "idle" ELSE "end"
           k == [query[a] EXCEPT !.next = "gate"]
<1>1. /\ IndexTypes(c, fs) /\ PassTypes(fs) /\ RowsTimed(fs) /\ Phases(c)
      /\ PassFresh(c, fs, t0) /\ Answers(c, fs, t0)
  BY DEF IndexInv
<1>2. /\ pc[a] = "index" /\ mu' = "nobody" /\ query' = [query EXCEPT ![a] = k]
      /\ UNCHANGED <<texts, rows, initializing, changes>>
      /\ \/ faults' = faults + 1
         \/ /\ faults' = faults
            /\ \E f \in fs : f \in DOMAIN pass.todo /\ texts[f].text = "absent"
  BY DEF Index!PassFails, Index!Nobody, Index!index, Index!Due, Index!Absent
<1>3. /\ pc' = [pc EXCEPT ![a] = to]
      /\ building' = (building /\ ~(a = "start" /\ to = "end"))
  BY DEF Index!PassFails, Index!GoesTo, Index!stillBuilding, Index!Bg
<1>4. mu = a /\ mu # "nobody"
  BY <1>1, <1>2, InPass
<1>5. query[a] \in Queries(fs)
  BY <1>1 DEF IndexTypes
<1>6. k \in Queries(fs) /\ k.next = "gate" /\ k.quiet = query[a].quiet
  BY <1>5 DEF Queries
<1>7. a # "start" => to = "idle"
  <2>1. a # "start" => a \in c
    BY DEF Doers
  <2> QED
    BY <1>1, <1>2, <2>1 DEF Phases
<1>8. a = "start" => to \in {"walk", "end"}
  OBVIOUS
<1> HIDE DEF to, k
<1>9. PassIsOver(c, fs, a, to, k)
  BY <1>2, <1>3, <1>6, <1>7, <1>8 DEF PassIsOver
<1>10. rows' = [f \in fs |-> rows'[f]] /\ faults' \in Nat /\ faults <= faults'
  BY <1>1, <1>2 DEF IndexTypes
<1>11. /\ query'[a] = k /\ pc'[a] = to
       /\ \A b \in Doers(c) : b # a => pc'[b] = pc[b] /\ query'[b] = query[b]
  BY <1>1, <1>2, <1>3 DEF IndexTypes
<1>12. Vouched(c)' => Vouched(c)
  <2>1. CASE \E b \in c : pc'[b] = "read" /\ query'[b].quiet /\ ~query'[b].note
                          /\ ~query'[b].deferred
    <3>1. a # "start" => pc'[a] # "read"
      BY <1>7, <1>11
    <3> QED
      BY <1>7, <1>8, <1>11, <2>1, <3>1 DEF Vouched, Doers, NoStart
  <2>2. CASE changes' = 0 /\ faults' = 0 /\ query'["start"].next = "gate"
    <3>1. changes = 0 /\ faults = 0 /\ faults' = faults
      BY <1>1, <1>2, <1>10, <2>2 DEF IndexTypes
    <3>2. pass.seen = Index(c, fs, t0)!scanFiles /\ DOMAIN pass.todo \subseteq pass.seen
      BY <1>1, <1>4, <3>1 DEF PassFresh, PassTypes
    <3>3. \A f \in pass.seen : texts[f].text # "absent"
      BY <3>2 DEF Index!scanFiles, Index!Absent
    <3>4. faults' = faults + 1
      BY <1>2, <3>2, <3>3
    <3>5. faults \in Nat
      BY <1>1 DEF IndexTypes
    <3> QED
      BY <3>1, <3>4, <3>5
  <2> QED
    BY <2>1, <2>2 DEF Vouched
<1>13. RowsCurrent(c, fs, t0)' = RowsCurrent(c, fs, t0)
  BY <1>2 DEF RowsCurrent, Index!Shown, Index!scanFiles, Index!Bytes
<1>14. Answers(c, fs, t0)'
  BY <1>1, <1>2, <1>12, <1>13 DEF Answers
<1> QED
  BY <1>2, <1>9, <1>10, <1>14, PassLeaves DEF IndexInv


\* A step beside the passes, of an actor that is not in one; k is what its call becomes.
Beside(c, fs, a, to, k) ==
    /\ a \in Doers(c) /\ to \in IndexPlaces \ {"index", "gate"} /\ k \in Queries(fs)
    /\ pc[a] # "index" /\ pc' = [pc EXCEPT ![a] = to] /\ query' = [query EXCEPT ![a] = k]
    /\ UNCHANGED <<texts, rows, mu, pass, changes>> /\ faults' \in Nat /\ faults <= faults'
    /\ to = "read" => k.note
    /\ a = "start" => k.next = query[a].next /\ to # "walk" /\ pc[a] \notin {"walk", "end"}
    /\ a # "start" /\ to = "walk" =>
          k.next \in {"gate", "read"} /\ (k.next = "gate" => ~building)
    /\ building' = (building /\ ~(a = "start" /\ to = "end")) /\ initializing' \in BOOLEAN
    /\ initializing' => pc'["start"] = "building"

LEMMA IndexBeside ==
  ASSUME NEW c, NEW fs, NEW t0, NoStart(c), IndexInv(c, fs, t0), NEW a, NEW to, NEW k,
         Beside(c, fs, a, to, k)
  PROVE  IndexInv(c, fs, t0)'
  BY IndexMoves DEF Beside

\* What every step finds: the actors' places and calls are of their types.
LEMMA IndexSteps ==
  ASSUME NEW c, NEW fs, NEW t0, IndexInv(c, fs, t0)
  PROVE  /\ faults \in Nat /\ building \in BOOLEAN /\ initializing \in BOOLEAN
         /\ initializing => pc["start"] = "building"
         /\ \A a \in Doers(c) : query[a] \in Queries(fs) /\ pc[a] \in IndexPlaces
         /\ query = [a \in Doers(c) |-> query[a]] /\ pc = [a \in Doers(c) |-> pc[a]]
         /\ \A a \in Doers(c) : query = [query EXCEPT ![a] = query[a]]
         /\ "start" \in Doers(c) /\ c \subseteq Doers(c)
         /\ \A a \in c : pc[a] = "gate" => ~building
<1>1. IndexTypes(c, fs) /\ Phases(c)
  BY DEF IndexInv
<1>2. query = [a \in Doers(c) |-> query[a]] /\ pc = [a \in Doers(c) |-> pc[a]]
  BY <1>1 DEF IndexTypes
<1>3. \A a \in Doers(c) : query = [query EXCEPT ![a] = query[a]]
  BY <1>2
<1> QED
  BY <1>1, <1>2, <1>3 DEF IndexTypes, Phases, Doers

\* The end of the copy: its caller goes on, Start ends.
LEMMA CopyEnds ==
  ASSUME NEW c, NEW fs, NEW t0, NoStart(c), IndexInv(c, fs, t0), NEW a \in Doers(c),
         NEW ok \in BOOLEAN, Index(c, fs, t0)!Copied(a, ok),
         pc[a] \in {"building", "sync", "put"}, faults' \in Nat, faults <= faults',
         initializing' \in BOOLEAN, initializing' => pc'["start"] = "building"
  PROVE  IndexInv(c, fs, t0)'
<1> DEFINE to == IF a = "start" THEN "end" ELSE "refresh"
           why == ~ok
           none == {}
           q == query[a]
           k == [q EXCEPT !.unavailable = why, !.keys = none]
<1>1. query[a] \in Queries(fs) /\ building \in BOOLEAN
  BY IndexSteps
<1>2. k \in Queries(fs) /\ k.next = query[a].next
  <2>1. why \in BOOLEAN /\ none \in SUBSET fs
    OBVIOUS
  <2>2. q \in Queries(fs)
    BY <1>1
  <2> HIDE DEF why, none, q
  <2>3. k \in Queries(fs) /\ k.next = q.next
    BY <2>1, <2>2 DEF Queries
  <2> QED
    BY <2>3 DEF q
<1>3. /\ pc' = [pc EXCEPT ![a] = to] /\ query' = [query EXCEPT ![a] = k]
      /\ building' = (building /\ ~(a = "start" /\ to = "end"))
      /\ UNCHANGED <<texts, rows, mu, pass, changes>>
  BY DEF Index!Copied, Index!GoesTo, Index!stillBuilding, Index!Bg
<1> HIDE DEF k
<1>4. Beside(c, fs, a, to, k)
  BY <1>2, <1>3 DEF Beside, IndexPlaces
<1> QED
  BY <1>4, IndexBeside

\* An actor goes on and its call is as it was.
LEMMA IndexGoesTo ==
  ASSUME NEW c, NEW fs, NEW t0, NoStart(c), IndexInv(c, fs, t0), NEW a \in Doers(c), NEW to,
         to \in IndexPlaces \ {"index", "gate", "walk", "read"}, pc[a] # "index",
         pc' = [pc EXCEPT ![a] = to], a = "start" => pc[a] \notin {"walk", "end"},
         UNCHANGED <<texts, rows, mu, pass, changes, query>>, faults' \in Nat, faults <= faults',
         building' = (building /\ ~(a = "start" /\ to = "end")), initializing' \in BOOLEAN,
         initializing' => pc'["start"] = "building"
  PROVE  IndexInv(c, fs, t0)'
<1>1. query[a] \in Queries(fs) /\ query' = [query EXCEPT ![a] = query[a]]
  BY IndexSteps
<1>2. Beside(c, fs, a, to, query[a])
  BY <1>1 DEF Beside
<1> QED
  BY <1>2, IndexBeside

LEMMA IndexGates ==
  ASSUME NEW c, NEW fs, NEW t0, NoStart(c), IndexInv(c, fs, t0), NEW a \in Doers(c),
         Index(c, fs, t0)!Gate(a)
  PROVE  IndexInv(c, fs, t0)'
<1>1. /\ faults \in Nat /\ building \in BOOLEAN /\ initializing \in BOOLEAN
      /\ initializing => pc["start"] = "building"
      /\ pc = [b \in Doers(c) |-> pc[b]] /\ "start" \in Doers(c)
  BY IndexSteps
<1>2. /\ pc[a] = "gate" /\ UNCHANGED <<texts, rows, mu, pass, changes, query, faults, initializing>>
      /\ \E to \in {"end", "refresh", "init", "sync"} :
            /\ pc' = [pc EXCEPT ![a] = to] /\ building' = (building /\ ~(a = "start" /\ to = "end"))
  <2>1. \E to \in {"end", "refresh", "init", "sync"} :
            Index(c, fs, t0)!GoesTo(a, to) /\ (a # "start" => to # "end")
    BY DEF Index!Gate, Index!Bg
  <2> QED
    BY <2>1 DEF Index!Gate, Index!GoesTo, Index!stillBuilding, Index!Bg, Index!index, Index!counters
<1>3. PICK to \in {"end", "refresh", "init", "sync"} :
            /\ pc' = [pc EXCEPT ![a] = to] /\ building' = (building /\ ~(a = "start" /\ to = "end"))
  BY <1>2
<1>4. initializing' => pc'["start"] = "building"
  BY <1>1, <1>2, <1>3
<1>5. initializing' \in BOOLEAN
  BY <1>1, <1>2
<1> QED
  BY <1>1, <1>2, <1>3, <1>4, <1>5, IndexGoesTo DEF IndexPlaces

LEMMA IndexSyncs ==
  ASSUME NEW c, NEW fs, NEW t0, NoStart(c), IndexInv(c, fs, t0), NEW a \in Doers(c),
         Index(c, fs, t0)!Sync(a)
  PROVE  IndexInv(c, fs, t0)'
<1>1. /\ faults \in Nat /\ building \in BOOLEAN /\ initializing \in BOOLEAN
      /\ initializing => pc["start"] = "building"
      /\ pc = [b \in Doers(c) |-> pc[b]] /\ "start" \in Doers(c)
  BY IndexSteps
<1>2. pc[a] = "sync" /\ UNCHANGED initializing
  BY DEF Index!Sync
<1>3. initializing' \in BOOLEAN
  BY <1>1, <1>2
<1>4. CASE pc' = [pc EXCEPT ![a] = "keys"]
           /\ UNCHANGED <<texts, rows, building, mu, pass, query, changes, faults>>
  <2>1. initializing' => pc'["start"] = "building"
    BY <1>1, <1>2, <1>4
  <2>2. building' = (building /\ ~(a = "start" /\ "keys" = "end"))
    BY <1>1, <1>4
  <2>3. "keys" \in IndexPlaces \ {"index", "gate", "walk", "read"}
    BY DEF IndexPlaces
  <2>4. faults' \in Nat /\ faults <= faults'
    BY <1>1, <1>4
  <2> DEFINE to == "keys"
  <2>5. pc' = [pc EXCEPT ![a] = to]
    BY <1>4
  <2> HIDE DEF to
  <2> QED
    BY <1>2, <1>3, <1>4, <2>1, <2>2, <2>3, <2>4, <2>5, IndexGoesTo DEF to
<1>5. CASE Index(c, fs, t0)!Copied(a, FALSE) /\ faults' \in {faults, faults + 1}
  <2>1. faults' \in Nat /\ faults <= faults'
    BY <1>1, <1>5
  <2>2. pc' = [pc EXCEPT ![a] = IF a = "start" THEN "end" ELSE "refresh"]
    BY <1>5 DEF Index!Copied, Index!GoesTo, Index!Bg
  <2>3. initializing' => pc'["start"] = "building"
    BY <1>1, <1>2, <2>2
  <2> QED
    BY <1>2, <1>3, <1>5, <2>1, <2>3, CopyEnds
<1> QED
  BY <1>4, <1>5 DEF Index!Sync, Index!locks, Index!counters

LEMMA IndexReplaces ==
  ASSUME NEW c, NEW fs, NEW t0, NoStart(c), IndexInv(c, fs, t0), NEW a \in Doers(c),
         Index(c, fs, t0)!Replace(a) \/ Index(c, fs, t0)!ReplaceFails(a)
  PROVE  IndexInv(c, fs, t0)'
<1>1. /\ faults \in Nat /\ building \in BOOLEAN /\ initializing \in BOOLEAN
      /\ initializing => pc["start"] = "building"
      /\ pc = [b \in Doers(c) |-> pc[b]] /\ "start" \in Doers(c)
  BY IndexSteps
<1>2. pc[a] = "put" /\ UNCHANGED initializing
  BY DEF Index!Replace, Index!ReplaceFails
<1>3. initializing' \in BOOLEAN
  BY <1>1, <1>2
<1>4. ASSUME NEW to, to # "building", pc' = [pc EXCEPT ![a] = to]
      PROVE  initializing' => pc'["start"] = "building"
  BY <1>1, <1>2, <1>4
<1>5. CASE Index(c, fs, t0)!Replace(a)
  <2>1. faults' \in Nat /\ faults <= faults' /\ Index(c, fs, t0)!Copied(a, TRUE)
    <3>1. UNCHANGED faults /\ Index(c, fs, t0)!Copied(a, TRUE)
      BY <1>5 DEF Index!Replace
    <3>2. faults' = faults
      BY <3>1
    <3>3. faults' \in Nat /\ faults <= faults'
      BY <1>1, <3>2
    <3> QED
      BY <3>1, <3>3
  <2>2. pc' = [pc EXCEPT ![a] = IF a = "start" THEN "end" ELSE "refresh"]
    BY <2>1 DEF Index!Copied, Index!GoesTo, Index!Bg
  <2>3. initializing' => pc'["start"] = "building"
    BY <1>4, <2>2
  <2> QED
    BY <1>2, <1>3, <2>1, <2>3, CopyEnds
<1>6. CASE Index(c, fs, t0)!ReplaceFails(a)
  <2> DEFINE to == IF a = "start" THEN "end" ELSE "idle"
  <2>1. /\ pc' = [pc EXCEPT ![a] = to] /\ building' = (building /\ ~(a = "start" /\ to = "end"))
        /\ UNCHANGED <<texts, rows, mu, pass, changes, query>> /\ faults' = faults + 1
    BY <1>1, <1>6 DEF Index!ReplaceFails, Index!GoesTo, Index!stillBuilding, Index!Bg, Index!index
  <2>2. initializing' => pc'["start"] = "building"
    BY <1>4, <2>1
  <2>3. to \in IndexPlaces \ {"index", "gate", "walk", "read"}
    BY DEF IndexPlaces
  <2>4. faults' \in Nat /\ faults <= faults'
    BY <1>1, <2>1
  <2> HIDE DEF to
  <2> QED
    BY <1>2, <1>3, <2>1, <2>2, <2>3, <2>4, IndexGoesTo
<1> QED
  BY <1>5, <1>6

LEMMA IndexResolves ==
  ASSUME NEW c, NEW fs, NEW t0, NoStart(c), IndexInv(c, fs, t0), NEW a \in Doers(c),
         Index(c, fs, t0)!Resolve(a)
  PROVE  IndexInv(c, fs, t0)'
<1> DEFINE keys1 == {f \in fs : graph[f] # "absent" /\ rows[f].text = graph[f]}
           q == query[a]
           k == [q EXCEPT !.keys = keys1]
<1>1. /\ faults \in Nat /\ building \in BOOLEAN /\ initializing \in BOOLEAN
      /\ query[a] \in Queries(fs) /\ (initializing => pc["start"] = "building")
      /\ pc = [b \in Doers(c) |-> pc[b]] /\ "start" \in Doers(c)
  BY IndexSteps
<1>2. /\ pc[a] = "keys" /\ query' = [query EXCEPT ![a] = k] /\ pc' = [pc EXCEPT ![a] = "put"]
      /\ UNCHANGED <<texts, rows, mu, pass, changes, faults, building, initializing>>
  BY DEF Index!Resolve, Index!Absent, Index!index, Index!flags, Index!locks, Index!counters
<1>3. keys1 \in SUBSET fs
  OBVIOUS
<1> HIDE DEF keys1
<1>4. k \in Queries(fs) /\ k.next = query[a].next
  <2>1. q \in Queries(fs)
    BY <1>1
  <2> HIDE DEF q
  <2>2. k \in Queries(fs) /\ k.next = q.next
    BY <1>3, <2>1 DEF Queries
  <2> QED
    BY <2>2 DEF q
<1> HIDE DEF k
<1>5. initializing' => pc'["start"] = "building"
  BY <1>1, <1>2
<1>6. building' = (building /\ ~(a = "start" /\ "put" = "end"))
  BY <1>1, <1>2
<1>7. initializing' \in BOOLEAN
  BY <1>1, <1>2
<1>8. "put" \in IndexPlaces \ {"index", "gate"} /\ faults' \in Nat /\ faults <= faults'
  BY <1>1, <1>2 DEF IndexPlaces
<1>9. Beside(c, fs, a, "put", k)
  BY <1>2, <1>4, <1>5, <1>6, <1>7, <1>8 DEF Beside
<1> QED
  BY <1>9, IndexBeside

LEMMA IndexInits ==
  ASSUME NEW c, NEW fs, NEW t0, NoStart(c), IndexInv(c, fs, t0),
         Index(c, fs, t0)!InitBegins \/ Index(c, fs, t0)!InitEnds
  PROVE  IndexInv(c, fs, t0)'
<1>1. /\ faults \in Nat /\ building \in BOOLEAN /\ initializing \in BOOLEAN
      /\ pc = [b \in Doers(c) |-> pc[b]] /\ "start" \in Doers(c)
  BY IndexSteps
<1>2. pc["start"] \in {"init", "building"} /\ initializing' \in BOOLEAN
  BY DEF Index!InitBegins, Index!InitEnds, Index!Bg
<1>3. CASE \E to \in {"building", "sync"} :
              /\ pc' = [pc EXCEPT !["start"] = to] /\ (initializing' => to = "building")
              /\ UNCHANGED <<texts, rows, building, mu, pass, query, changes, faults>>
  <2>1. PICK to \in {"building", "sync"} :
              pc' = [pc EXCEPT !["start"] = to] /\ (initializing' => to = "building")
    BY <1>3
  <2>2. pc'["start"] = to /\ UNCHANGED <<texts, rows, building, mu, pass, query, changes, faults>>
    BY <1>1, <1>3, <2>1
  <2>3. building' = (building /\ ~("start" = "start" /\ to = "end"))
    BY <1>1, <2>1, <2>2
  <2> QED
    BY <1>1, <1>2, <2>1, <2>2, <2>3, IndexGoesTo DEF IndexPlaces
<1>4. CASE ~initializing' /\ faults' = faults + 1 /\ Index(c, fs, t0)!Copied("start", FALSE)
           /\ pc["start"] = "building"
  <2>1. faults' \in Nat /\ faults <= faults'
    BY <1>1, <1>4
  <2>2. ~initializing'
    BY <1>4
  <2> QED
    BY <1>1, <1>2, <1>4, <2>1, <2>2, CopyEnds
<1>5. Index(c, fs, t0)!InitBegins =>
          \E to \in {"building", "sync"} :
              /\ pc' = [pc EXCEPT !["start"] = to] /\ (initializing' => to = "building")
              /\ UNCHANGED <<texts, rows, building, mu, pass, query, changes, faults>>
  BY DEF Index!InitBegins, Index!Bg, Index!index, Index!locks, Index!counters
<1> QED
  BY <1>3, <1>4, <1>5 DEF Index!InitEnds, Index!Bg, Index!locks, Index!counters

LEMMA IndexAsked ==
  ASSUME NEW c, NEW fs, NEW t0, NoStart(c), IndexInv(c, fs, t0), NEW a \in c,
         NEW mode \in {"text", "graph"}, Index(c, fs, t0)!Search(a, mode)
  PROVE  IndexInv(c, fs, t0)'
<1> DEFINE k == [Index(c, fs, t0)!NoCall EXCEPT !.mode = mode, !.quiet = TRUE]
           to == IF mode = "graph" THEN "edges" ELSE "refresh"
<1>1. /\ faults \in Nat /\ building \in BOOLEAN /\ initializing \in BOOLEAN
      /\ initializing => pc["start"] = "building"
      /\ pc = [b \in Doers(c) |-> pc[b]] /\ "start" \in Doers(c) /\ a \in Doers(c)
  BY IndexSteps
<1>2. /\ pc[a] = "idle" /\ query' = [query EXCEPT ![a] = k] /\ pc' = [pc EXCEPT ![a] = to]
      /\ UNCHANGED <<texts, rows, mu, pass, changes, faults, building, initializing>>
  BY DEF Index!Search, Index!index, Index!flags, Index!locks
<1>3. k \in Queries(fs)
  BY DEF Index!NoCall, Queries
<1>4. to \in {"edges", "refresh"}
  OBVIOUS
<1> HIDE DEF k, to
<1>5. a # "start"
  BY DEF NoStart
<1>6. initializing' => pc'["start"] = "building"
  BY <1>1, <1>2, <1>5
<1>7. building' = (building /\ ~(a = "start" /\ to = "end"))
  BY <1>1, <1>2, <1>5
<1>8. initializing' \in BOOLEAN
  BY <1>1, <1>2
<1>9. Beside(c, fs, a, to, k)
  BY <1>1, <1>2, <1>3, <1>4, <1>5, <1>6, <1>7, <1>8 DEF Beside, IndexPlaces
<1> QED
  BY <1>9, IndexBeside

LEMMA IndexQueried ==
  ASSUME NEW c, NEW fs, NEW t0, NoStart(c), IndexInv(c, fs, t0), NEW a \in c,
         \/ Index(c, fs, t0)!RefreshEdges(a) \/ Index(c, fs, t0)!Refresh(a)
         \/ Index(c, fs, t0)!Read(a)
  PROVE  IndexInv(c, fs, t0)'
<1>1. /\ faults \in Nat /\ building \in BOOLEAN /\ initializing \in BOOLEAN
      /\ query[a] \in Queries(fs) /\ (initializing => pc["start"] = "building")
      /\ pc = [b \in Doers(c) |-> pc[b]] /\ "start" \in Doers(c) /\ a \in Doers(c)
  BY IndexSteps
<1>2. a # "start"
  BY DEF NoStart
<1>3. /\ pc[a] # "index"
      /\ UNCHANGED <<texts, rows, mu, pass, changes, faults, building, initializing>>
  BY DEF Index!RefreshEdges, Index!Refresh, Index!Read, Index!index, Index!flags, Index!locks,
         Index!counters
<1>4. initializing' \in BOOLEAN
  BY <1>1, <1>3
<1>5. ASSUME NEW to, pc' = [pc EXCEPT ![a] = to]
      PROVE  /\ initializing' => pc'["start"] = "building"
             /\ building' = (building /\ ~(a = "start" /\ to = "end"))
  BY <1>1, <1>2, <1>3, <1>5
<1>6. CASE Index(c, fs, t0)!RefreshEdges(a)
  <2> DEFINE wait == building \/ initializing
             to == IF wait THEN "refresh" ELSE "walk"
             q == query[a]
             k == [q EXCEPT !.unavailable = wait, !.next = "gate"]
  <2>1. query' = [query EXCEPT ![a] = k] /\ pc' = [pc EXCEPT ![a] = to]
    BY <1>6 DEF Index!RefreshEdges
  <2>2. wait \in BOOLEAN
    OBVIOUS
  <2>3. to \in {"refresh", "walk"} /\ (to = "walk" => ~building)
    OBVIOUS
  <2>4. q \in Queries(fs)
    BY <1>1
  <2> HIDE DEF wait, q
  <2>5. k \in Queries(fs) /\ k.next = "gate"
    BY <2>2, <2>4 DEF Queries
  <2> HIDE DEF k, to
  <2>6. Beside(c, fs, a, to, k)
    BY <1>1, <1>2, <1>3, <1>4, <1>5, <2>1, <2>3, <2>5 DEF Beside, IndexPlaces
  <2> QED
    BY <2>6, IndexBeside
<1>7. CASE Index(c, fs, t0)!Refresh(a)
  <2> DEFINE to == IF building THEN "read" ELSE "walk"
             q == query[a]
             k == [q EXCEPT !.note = building, !.next = "read"]
  <2>1. query' = [query EXCEPT ![a] = k] /\ pc' = [pc EXCEPT ![a] = to]
    BY <1>7 DEF Index!Refresh
  <2>2. k \in Queries(fs) /\ k.next = "read" /\ k.note = building
    <3>1. q \in Queries(fs)
      BY <1>1
    <3> HIDE DEF q
    <3> QED
      BY <1>1, <3>1 DEF Queries
  <2>3. to \in {"read", "walk"} /\ (to = "read" => building)
    OBVIOUS
  <2> HIDE DEF k, to
  <2>4. to = "read" => k.note
    BY <2>2, <2>3
  <2>5. Beside(c, fs, a, to, k)
    BY <1>1, <1>2, <1>3, <1>4, <1>5, <2>1, <2>2, <2>3, <2>4 DEF Beside, IndexPlaces
  <2> QED
    BY <2>5, IndexBeside
<1>8. CASE Index(c, fs, t0)!Read(a)
  <2>1. PICK to \in {"count", "idle"} : pc' = [pc EXCEPT ![a] = to] /\ UNCHANGED query
    BY <1>8 DEF Index!Read
  <2>2. /\ initializing' => pc'["start"] = "building"
        /\ building' = (building /\ ~(a = "start" /\ to = "end"))
    BY <1>5, <2>1
  <2> QED
    BY <1>1, <1>2, <1>3, <1>4, <2>1, <2>2, IndexGoesTo DEF IndexPlaces
<1> QED
  BY <1>6, <1>7, <1>8

LEMMA IndexNext ==
  ASSUME NEW c, NEW fs, NEW t0, NoStart(c), IndexInv(c, fs, t0), Index(c, fs, t0)!Next
  PROVE  IndexInv(c, fs, t0)'
<1>1. CASE \E a \in Doers(c) : \/ Index(c, fs, t0)!Walk(a)
                               \/ \E f \in fs : Index(c, fs, t0)!IndexOne(a, f)
                               \/ Index(c, fs, t0)!Commit(a) \/ Index(c, fs, t0)!PassFails(a)
  BY <1>1, PassBegins, PassGoesOn, PassCommits, PassBreaks
<1>2. CASE \E a \in Doers(c) :
              \/ Index(c, fs, t0)!Gate(a) \/ Index(c, fs, t0)!Sync(a) \/ Index(c, fs, t0)!Resolve(a)
              \/ Index(c, fs, t0)!Replace(a) \/ Index(c, fs, t0)!ReplaceFails(a)
  BY <1>2, IndexGates, IndexSyncs, IndexResolves, IndexReplaces
<1>3. CASE Index(c, fs, t0)!InitBegins \/ Index(c, fs, t0)!InitEnds
  BY <1>3, IndexInits
<1>4. CASE \E a \in c, mode \in {"text", "graph"} : Index(c, fs, t0)!Search(a, mode)
  BY <1>4, IndexAsked
<1>5. CASE \E a \in c : \/ Index(c, fs, t0)!RefreshEdges(a) \/ Index(c, fs, t0)!Refresh(a)
                        \/ Index(c, fs, t0)!Read(a)
  BY <1>5, IndexQueried
<1>6. CASE \E f \in fs, text \in Texts \cup {"absent"} : Index(c, fs, t0)!Edit(f, text)
  BY <1>6, IndexEdited
<1> QED
  BY <1>1, <1>2, <1>3, <1>4, <1>5, <1>6 DEF Index!Next, Index!Actors, Index!Bg, Index!Absent, Doers

LEMMA IndexStutters ==
  ASSUME NEW c, NEW fs, NEW t0, IndexInv(c, fs, t0), UNCHANGED <<indexVars, pc, changes, faults>>
  PROVE  IndexInv(c, fs, t0)'
  BY DEF indexVars, IndexInv, IndexTypes, PassTypes, RowsTimed, Timed, Phases, PassFresh, Vouched,
         RowsCurrent, PassCurrent, Answers, Index!Shown, Index!scanFiles, Index!Bytes

-----------------------------------------------------------------------------
(* Language servers *)

USE LspAssumption

Clients == 1..MaxClients
Versions == [ver : Nat, text : Nat]
Messages == [f : Documents, ver : Nat, text : Nat]
ClientRecords == [up : BOOLEAN, shut : BOOLEAN, versions : [Documents -> Nat], sent : Seq(Messages),
                  docs : [Documents -> Versions], published : [Documents -> Versions]]
Entries == [client : 0..MaxClients, stamp : Nat, lock : Threads \cup {"nobody"}]
Jobs == [e : 0..2, c : 0..MaxClients, f : Documents \cup {0}, text : Nat, ver : Nat, got : Nat]
Served == {"dial", "have", "read", "numbered", "wait", "told", "slow", "exited"}

SrvTypes ==
    /\ disk \in [Documents -> Nat] /\ manifest \in Nat /\ current \in 1..2 /\ closed \in BOOLEAN
    /\ entry \in [1..2 -> Entries] /\ client \in [Clients -> ClientRecords]
    /\ started \in 0..MaxClients
    /\ pc \in [Threads -> {"idle", "entry"} \cup Served] /\ job \in [Threads -> Jobs]

\* What a thread and an entry speak of is there, and no server is before it was started.
SrvHeld ==
    /\ \A u \in Threads : pc[u] # "idle" => job[u].e \in 1..2 /\ job[u].f \in Documents
    /\ \A u \in Threads : pc[u] \in Served => job[u].c \in 1..started
    /\ \A e \in 1..2 : entry[e].client \in 0..started
    /\ \A c \in Clients : c > started => client[c] = Srv!NotStarted

\* Until the pool is closed there is one entry; whoever starts its server holds it, and no
\* process is up but the entry's, or the one that is started.
OnePool ==
    ~closed =>
        /\ current = 1
        /\ \A u \in Threads : pc[u] # "idle" => job[u].e = 1
        /\ \A u \in Threads : entry[1].lock = u <=> pc[u] = "dial"
        /\ entry[1].lock # "nobody" => entry[1].client = 0
        /\ \A c \in Clients : client[c].up =>
              \/ c = entry[1].client
              \/ \E u \in Threads : entry[1].lock = u /\ c = job[u].c

PoolInv == SrvTypes /\ SrvHeld /\ OnePool

LEMMA SrvFresh ==
  /\ Srv!Fresh \in ClientRecords /\ Srv!Fresh.up
  /\ Srv!NotStarted \in ClientRecords /\ ~Srv!NotStarted.up
  /\ Srv!NotStarted = [Srv!Fresh EXCEPT !.up = FALSE]
<1>1. Srv!NoPub \in Versions /\ <<>> \in Seq(Messages)
  BY DEF Srv!NoPub, Versions
<1>2. [g \in Documents |-> 0] \in [Documents -> Nat]
  OBVIOUS
<1>3. [g \in Documents |-> Srv!NoPub] \in [Documents -> Versions]
  BY <1>1
<1>4. Srv!Fresh \in ClientRecords /\ Srv!Fresh.up
  BY <1>1, <1>2, <1>3 DEF Srv!Fresh, ClientRecords
<1>5. Srv!NotStarted \in ClientRecords /\ ~Srv!NotStarted.up
  BY <1>4 DEF Srv!NotStarted, ClientRecords
<1> QED
  BY <1>4, <1>5 DEF Srv!NotStarted

LEMMA PoolStarts == Srv!Init => PoolInv
<1> SUFFICES ASSUME Srv!Init PROVE PoolInv
  OBVIOUS
<1>1. Srv!NoJob \in Jobs /\ [client |-> 0, stamp |-> 0, lock |-> "nobody"] \in Entries
  BY DEF Srv!NoJob, Jobs, Entries
<1>2. /\ disk = [f \in Documents |-> 1] /\ manifest = 0 /\ current = 1 /\ closed = FALSE
      /\ entry = [e \in 1..2 |-> [client |-> 0, stamp |-> 0, lock |-> "nobody"]]
      /\ client = [c \in Clients |-> Srv!NotStarted] /\ started = 0
      /\ pc = [u \in Threads |-> "idle"] /\ job = [u \in Threads |-> Srv!NoJob]
  BY DEF Srv!Init, Clients
<1>3. SrvTypes
  <2>1. disk \in [Documents -> Nat] /\ manifest \in Nat /\ current \in 1..2
    BY <1>2
  <2>5. closed \in BOOLEAN
    BY <1>2
  <2>2. client \in [Clients -> ClientRecords] /\ entry \in [1..2 -> Entries]
    BY <1>1, <1>2, SrvFresh
  <2>3. started \in 0..MaxClients /\ job \in [Threads -> Jobs]
    BY <1>1, <1>2
  <2>4. pc \in [Threads -> {"idle", "entry"} \cup Served]
    BY <1>2
  <2> QED
    BY <2>1, <2>2, <2>3, <2>4, <2>5 DEF SrvTypes
<1>4. SrvHeld
  BY <1>2 DEF SrvHeld, Clients, Served
<1>5. OnePool
  <2>1. \A c \in Clients : ~client[c].up
    BY <1>2, SrvFresh
  <2>2. \A u \in Threads : pc[u] = "idle" /\ u # "nobody"
    BY <1>2
  <2> QED
    BY <1>2, <2>1, <2>2 DEF OnePool
<1> QED
  BY <1>3, <1>4, <1>5 DEF PoolInv

LEMMA KilledTyped ==
  ASSUME client \in [Clients -> ClientRecords], NEW c \in Clients
  PROVE  /\ Srv!Killed(c) \in ClientRecords /\ ~Srv!Killed(c).up
         /\ Srv!Killed(c).versions = client[c].versions /\ Srv!Killed(c).sent = client[c].sent
         /\ Srv!Killed(c).docs = client[c].docs /\ Srv!Killed(c).published = client[c].published
  BY DEF Srv!Killed, ClientRecords

\* What a thread holds while it asks.
LEMMA Holds ==
  ASSUME PoolInv, NEW u \in Threads
  PROVE  /\ pc[u] \in {"idle", "entry"} \cup Served /\ job[u] \in Jobs
         /\ pc[u] # "idle" => /\ job[u].e \in 1..2 /\ job[u].f \in Documents
                              /\ entry[job[u].e] \in Entries /\ entry[job[u].e].client \in 0..started
         /\ pc[u] \in Served => job[u].c \in Clients /\ job[u].c \in 1..started
  BY DEF PoolInv, SrvTypes, SrvHeld, Clients

LEMMA PoolFind == ASSUME PoolInv, NEW u \in Threads, NEW f \in Documents, Srv!Find(u, f) PROVE PoolInv'
<1> DEFINE j == [Srv!NoJob EXCEPT !.e = current, !.f = f]
<1>1. /\ pc[u] = "idle" /\ job' = [job EXCEPT ![u] = j] /\ pc' = [pc EXCEPT ![u] = "entry"]
      /\ UNCHANGED <<disk, manifest, current, closed, entry, client, started>>
  BY DEF Srv!Find, Srv!To
<1>2. current \in 1..2
  BY DEF PoolInv, SrvTypes
<1>6. Srv!NoJob \in Jobs
  BY DEF Srv!NoJob, Jobs
<1>7. j \in Jobs /\ j.e = current /\ j.f = f
  <2>1. current \in 0..2 /\ f \in Documents \cup {0}
    BY <1>2
  <2>2. [Srv!NoJob EXCEPT !.e = current] \in Jobs
    BY <1>6, <2>1 DEF Jobs
  <2>3. j.e = current /\ j.f = f
    BY <1>6 DEF Jobs
  <2> QED
    BY <1>6, <2>1, <2>2, <2>3 DEF Jobs
<1> HIDE DEF j
<1>3. SrvTypes'
  BY <1>1, <1>7 DEF PoolInv, SrvTypes
<1>4. SrvHeld'
  BY <1>1, <1>2, <1>7 DEF PoolInv, SrvTypes, SrvHeld, Served
<1>5. OnePool'
  BY <1>1, <1>2, <1>7 DEF PoolInv, SrvTypes, OnePool
<1> QED
  BY <1>3, <1>4, <1>5 DEF PoolInv

LEMMA PoolEnters ==
  ASSUME PoolInv, NEW u \in Threads, Srv!Enter(u), entry[job[u].e].client # 0, ~Srv!Stale(job[u].e)
  PROVE  PoolInv'
<1> DEFINE k == entry[job[u].e].client
<1>1. /\ pc[u] = "entry" /\ job' = [job EXCEPT ![u].c = k] /\ pc' = [pc EXCEPT ![u] = "have"]
      /\ UNCHANGED <<disk, manifest, current, closed, entry, client, started>>
  BY DEF Srv!Enter, Srv!To
<1>2. k \in 1..started /\ k \in 0..MaxClients
  BY <1>1, Holds DEF Entries
<1> HIDE DEF k
<1>3. SrvTypes'
  BY <1>1, <1>2 DEF PoolInv, SrvTypes, Served, Jobs
<1>4. SrvHeld'
  BY <1>1, <1>2 DEF PoolInv, SrvTypes, SrvHeld, Served, Jobs
<1>5. OnePool'
  BY <1>1 DEF PoolInv, SrvTypes, OnePool, Jobs
<1> QED
  BY <1>3, <1>4, <1>5 DEF PoolInv

LEMMA PoolRestarts ==
  ASSUME PoolInv, NEW u \in Threads, Srv!Enter(u),
         ~(entry[job[u].e].client # 0 /\ ~Srv!Stale(job[u].e))
  PROVE  PoolInv'
<1> DEFINE e == job[u].e
           k == entry[e].client
           n == started + 1
           left == Srv!CloseOld(e)
<1>1. /\ pc[u] = "entry" /\ entry[e].lock = "nobody" /\ started < MaxClients /\ started' = n
      /\ client' = [left EXCEPT ![n] = Srv!Fresh]
      /\ entry' = [entry EXCEPT ![e] = [client |-> 0, stamp |-> manifest, lock |-> u]]
      /\ job' = [job EXCEPT ![u].c = n] /\ pc' = [pc EXCEPT ![u] = "dial"]
      /\ UNCHANGED <<disk, manifest, current, closed>>
  BY DEF Srv!Enter, Srv!To
<1>2. e \in 1..2 /\ k \in 0..started /\ started \in Nat /\ manifest \in Nat
  BY <1>1, Holds DEF PoolInv, SrvTypes
<1>3. n \in Clients /\ n > started /\ \A c \in Clients : c > n => c > started
  BY <1>1, <1>2 DEF Clients
<1>4. /\ left \in [Clients -> ClientRecords]
      /\ k # 0 => ~left[k].up
      /\ \A c \in Clients : c # k => left[c] = client[c]
  <2>1. CASE Srv!Stale(e)
    <3>1. k \in Clients
      BY <1>2, <2>1 DEF Srv!Stale, PoolInv, SrvTypes, Clients
    <3>2. left = [client EXCEPT ![k] = Srv!Killed(k)]
      BY <2>1 DEF Srv!CloseOld
    <3> QED
      BY <3>1, <3>2, KilledTyped DEF PoolInv, SrvTypes
  <2>2. CASE ~Srv!Stale(e)
    <3>1. k = 0 /\ left = client
      BY <2>2 DEF Srv!CloseOld
    <3> QED
      BY <3>1 DEF PoolInv, SrvTypes
  <2> QED
    BY <2>1, <2>2
<1> HIDE DEF e, n, left, k
<1>5. /\ client' \in [Clients -> ClientRecords] /\ client'[n] = Srv!Fresh
      /\ \A c \in Clients : c # n => client'[c] = left[c]
  BY <1>1, <1>3, <1>4, SrvFresh
<1>6. job \in [Threads -> Jobs] /\ pc \in [Threads -> {"idle", "entry"} \cup Served]
      /\ entry \in [1..2 -> Entries]
  BY DEF PoolInv, SrvTypes
<1>7. /\ entry' \in [1..2 -> Entries] /\ entry'[e] = [client |-> 0, stamp |-> manifest, lock |-> u]
      /\ \A d \in 1..2 : d # e => entry'[d] = entry[d]
  BY <1>1, <1>2, <1>6 DEF Entries
<1>8. job' \in [Threads -> Jobs]
  BY <1>1, <1>3, <1>6 DEF Jobs, Clients
<1>9. /\ job'[u].c = n /\ job'[u].e = e /\ job'[u].f = job[u].f
      /\ \A v \in Threads : v # u => job'[v] = job[v]
  BY <1>1, <1>6, <1>8 DEF Jobs, e
<1>10. /\ pc' \in [Threads -> {"idle", "entry"} \cup Served] /\ pc'[u] = "dial"
       /\ \A v \in Threads : v # u => pc'[v] = pc[v]
  BY <1>1, <1>6 DEF Served
<1>11. SrvTypes'
  BY <1>1, <1>3, <1>5, <1>7, <1>8, <1>10 DEF PoolInv, SrvTypes, Clients
<1>12. SrvHeld'
  <2>1. \A v \in Threads : pc'[v] # "idle" => job'[v].e \in 1..2 /\ job'[v].f \in Documents
    BY <1>1, <1>2, <1>9, <1>10 DEF PoolInv, SrvHeld
  <2>2. \A v \in Threads : pc'[v] \in Served => job'[v].c \in 1..n
    BY <1>2, <1>3, <1>9, <1>10 DEF PoolInv, SrvHeld, Clients, n
  <2>3. \A d \in 1..2 : entry'[d].client \in 0..n
    BY <1>2, <1>3, <1>7 DEF PoolInv, SrvHeld, Clients, n
  <2>4. \A c \in Clients : c > n => client'[c] = Srv!NotStarted
    BY <1>2, <1>3, <1>4, <1>5 DEF PoolInv, SrvHeld, Clients, n
  <2> QED
    BY <1>1, <2>1, <2>2, <2>3, <2>4 DEF SrvHeld
<1>13. OnePool'
  <2> SUFFICES ASSUME ~closed PROVE OnePool'
    BY <1>1 DEF OnePool
  <2>1. e = 1 /\ current = 1
    BY <1>1 DEF PoolInv, OnePool, e
  <2>2. \A c \in Clients : c # n => ~client'[c].up
    <3> SUFFICES ASSUME NEW c \in Clients, c # n, client'[c].up PROVE FALSE
      OBVIOUS
    <3>1. c # k
      BY <1>4, <1>5 DEF Clients
    <3>2. client[c].up /\ c # entry[1].client
      BY <1>4, <1>5, <2>1, <3>1 DEF k
    <3> QED
      BY <1>1, <2>1, <3>2 DEF PoolInv, OnePool
  <2>3. \A v \in Threads : v # u => pc[v] # "dial"
    BY <1>1, <2>1 DEF PoolInv, OnePool
  <2>4. entry'[1].lock = u /\ entry'[1].client = 0
    BY <1>7, <2>1
  <2>5. \A v \in Threads : pc'[v] # "idle" => job'[v].e = 1
    BY <1>1, <1>9, <1>10, <2>1 DEF PoolInv, OnePool
  <2>6. \A v \in Threads : entry'[1].lock = v <=> pc'[v] = "dial"
    BY <1>10, <2>3, <2>4
  <2> QED
    BY <1>1, <1>9, <2>1, <2>2, <2>4, <2>5, <2>6 DEF OnePool
<1> QED
  BY <1>11, <1>12, <1>13 DEF PoolInv

LEMMA PoolDialed == ASSUME PoolInv, NEW u \in Threads, NEW ok \in BOOLEAN, Srv!Dialed(u, ok) PROVE PoolInv'
<1> DEFINE e == job[u].e
           c == job[u].c
           p == IF ok THEN "have" ELSE "idle"
           k == IF ok THEN c ELSE 0
<1>1. /\ pc[u] = "dial" /\ UNCHANGED <<disk, manifest, current, started, job, closed>>
      /\ pc' = [pc EXCEPT ![u] = p]
      /\ entry' = [entry EXCEPT ![e].lock = "nobody", ![e].client = k]
      /\ client' = IF ok THEN client ELSE [client EXCEPT ![c] = Srv!Killed(c)]
  BY DEF Srv!Dialed, Srv!To
<1>2. e \in 1..2 /\ c \in 1..started /\ c \in Clients
  BY <1>1, Holds DEF Served
<1>3. /\ p \in {"have", "idle"} /\ k \in 0..MaxClients /\ k \in 0..started /\ (k # 0 => ok /\ k = c)
      /\ started \in Nat
  BY <1>2 DEF Clients, PoolInv, SrvTypes
<1>4. ok => k = c
  OBVIOUS
<1> HIDE DEF e, p, k
<1>5. /\ entry' \in [1..2 -> Entries] /\ entry'[e].lock = "nobody" /\ entry'[e].client = k
      /\ \A d \in 1..2 : d # e => entry'[d] = entry[d]
  BY <1>1, <1>2, <1>3 DEF PoolInv, SrvTypes, Entries
<1>6. /\ client' \in [Clients -> ClientRecords] /\ (~ok => ~client'[c].up)
      /\ \A d \in Clients : d # c => client'[d] = client[d]
  BY <1>1, <1>2, KilledTyped DEF PoolInv, SrvTypes
<1> HIDE DEF c
<1>7. /\ pc' \in [Threads -> {"idle", "entry"} \cup Served] /\ pc'[u] = p
      /\ \A v \in Threads : v # u => pc'[v] = pc[v]
  BY <1>1, <1>3 DEF PoolInv, SrvTypes, Served
<1>8. SrvTypes'
  BY <1>1, <1>5, <1>6, <1>7 DEF PoolInv, SrvTypes
<1>9. SrvHeld'
  <2>1. \A v \in Threads : pc'[v] # "idle" => pc[v] # "idle"
    BY <1>1, <1>7
  <2>2. \A v \in Threads : pc'[v] \in Served => pc[v] \in Served
    BY <1>1, <1>7 DEF Served
  <2>3. \A d \in 1..2 : entry'[d].client \in 0..started
    BY <1>3, <1>5 DEF PoolInv, SrvHeld
  <2>4. \A d \in Clients : d > started => client'[d] = Srv!NotStarted
    BY <1>2, <1>3, <1>6 DEF PoolInv, SrvHeld, Clients
  <2> QED
    BY <1>1, <2>1, <2>2, <2>3, <2>4 DEF PoolInv, SrvHeld
<1>10. OnePool'
  <2> SUFFICES ASSUME ~closed PROVE OnePool'
    BY <1>1 DEF OnePool
  <2>1. e = 1 /\ entry[1].lock = u /\ entry[1].client = 0
    BY <1>1 DEF PoolInv, OnePool, e
  <2>2. \A v \in Threads : pc'[v] # "dial"
    BY <1>3, <1>7, <2>1 DEF PoolInv, OnePool
  <2>3. \A d \in Clients : client'[d].up => d = k
    <3> SUFFICES ASSUME NEW d \in Clients, client'[d].up PROVE d = k
      OBVIOUS
    <3>1. d = c
      BY <1>6, <2>1 DEF PoolInv, OnePool, Clients, c
    <3> QED
      BY <1>4, <1>6, <3>1
  <2>4. \A v \in Threads : pc'[v] # "idle" => pc[v] # "idle"
    BY <1>1, <1>7
  <2>5. entry'[1].lock = "nobody" /\ entry'[1].client = k
    BY <1>5, <2>1
  <2> QED
    BY <1>1, <2>2, <2>3, <2>4, <2>5 DEF PoolInv, OnePool
<1> QED
  BY <1>8, <1>9, <1>10 DEF PoolInv

\* A thread that goes on after it has its client.
Uses(u) == \/ Srv!Read(u) \/ Srv!Number(u) \/ Srv!Send(u) \/ Srv!Diagnosed(u) \/ Srv!Expire(u)
           \/ Srv!Return(u) \/ Srv!Ask(u)

LEMMA UsesJob ==
  ASSUME PoolInv, NEW u \in Threads, Uses(u)
  PROVE  /\ pc[u] \in Served \ {"dial"} /\ UNCHANGED <<disk, manifest, current, entry, started, closed>>
         /\ \E p \in {"idle"} \cup (Served \ {"dial"}) : pc' = [pc EXCEPT ![u] = p]
         /\ job' \in [Threads -> Jobs] /\ \A v \in Threads : v # u => job'[v] = job[v]
         /\ pc'[u] # "idle" =>
               job'[u].e = job[u].e /\ job'[u].f = job[u].f /\ job'[u].c = job[u].c
<1>1. pc[u] \in Served \ {"dial"} /\ UNCHANGED <<disk, manifest, current, entry, started, closed>>
  BY DEF Uses, Srv!Read, Srv!Number, Srv!Send, Srv!Diagnosed, Srv!Expire, Srv!Return, Srv!Ask, Served
<1>2. \E p \in {"idle"} \cup (Served \ {"dial"}) : pc' = [pc EXCEPT ![u] = p]
  BY DEF Uses, Srv!Read, Srv!Number, Srv!Send, Srv!Diagnosed, Srv!Expire, Srv!Return, Srv!Ask, Srv!To,
         Served
<1> DEFINE Kept == /\ job' \in [Threads -> Jobs] /\ \A v \in Threads : v # u => job'[v] = job[v]
                   /\ pc'[u] # "idle" =>
                         job'[u].e = job[u].e /\ job'[u].f = job[u].f /\ job'[u].c = job[u].c
<1>3. job \in [Threads -> Jobs] /\ job[u].c \in Clients /\ job[u].f \in Documents /\ u \in DOMAIN pc
  BY <1>1, Holds DEF PoolInv, SrvTypes, Served
<1>4. disk[job[u].f] \in Nat /\ client[job[u].c] \in ClientRecords
  BY <1>3 DEF PoolInv, SrvTypes
<1>5. ASSUME NEW j \in Jobs, job' = [job EXCEPT ![u] = j], j.e = job[u].e, j.f = job[u].f, j.c = job[u].c
      PROVE  Kept
  BY <1>3, <1>5
<1>6. ASSUME Srv!Read(u) PROVE Kept
  <2> DEFINE j == [job[u] EXCEPT !.text = disk[job[u].f]]
  <2>1. job' = [job EXCEPT ![u] = j]
    BY <1>6 DEF Srv!Read
  <2>2. j \in Jobs /\ j.e = job[u].e /\ j.f = job[u].f /\ j.c = job[u].c
    BY <1>3, <1>4 DEF Jobs
  <2> QED
    BY <1>5, <2>1, <2>2
<1>7. ASSUME Srv!Number(u) PROVE Kept
  <2> DEFINE n == client[job[u].c].versions[job[u].f] + 1
             j == [job[u] EXCEPT !.ver = n]
  <2>1. n \in Nat
    BY <1>3, <1>4 DEF ClientRecords
  <2>2. job' = [job EXCEPT ![u] = j]
    BY <1>7 DEF Srv!Number
  <2> HIDE DEF n
  <2>3. j \in Jobs /\ j.e = job[u].e /\ j.f = job[u].f /\ j.c = job[u].c
    BY <1>3, <2>1 DEF Jobs
  <2> QED
    BY <1>5, <2>2, <2>3
<1>8. ASSUME Srv!Diagnosed(u) PROVE Kept
  <2> DEFINE t == client[job[u].c].published[job[u].f].text
             j == [job[u] EXCEPT !.got = t]
  <2>1. t \in Nat
    BY <1>3, <1>4 DEF ClientRecords, Versions
  <2>2. job' = [job EXCEPT ![u] = j]
    BY <1>8 DEF Srv!Diagnosed
  <2> HIDE DEF t
  <2>3. j \in Jobs /\ j.e = job[u].e /\ j.f = job[u].f /\ j.c = job[u].c
    BY <1>3, <2>1 DEF Jobs
  <2> QED
    BY <1>5, <2>2, <2>3
<1>9. ASSUME Srv!Send(u) \/ Srv!Expire(u) \/ Srv!Return(u) \/ Srv!Ask(u) PROVE Kept
  <2>1. CASE Srv!Send(u) \/ Srv!Expire(u)
    <3>1. job' = [job EXCEPT ![u] = job[u]] /\ job[u] \in Jobs
      BY <1>3, <2>1 DEF Srv!Send, Srv!Expire
    <3> QED
      BY <1>5, <3>1
  <2>2. CASE Srv!Return(u) \/ Srv!Ask(u)
    <3>1. job' = [job EXCEPT ![u] = Srv!NoJob] /\ pc'[u] = "idle"
      BY <1>3, <2>2 DEF Srv!Return, Srv!Ask, Srv!To
    <3>2. Srv!NoJob \in Jobs
      BY DEF Srv!NoJob, Jobs
    <3>3. job' \in [Threads -> Jobs]
      BY <1>3, <3>1, <3>2
    <3>4. \A v \in Threads : v # u => job'[v] = job[v]
      BY <1>3, <3>1
    <3> QED
      BY <3>1, <3>3, <3>4
  <2> QED
    BY <1>9, <2>1, <2>2
<1>10. Kept
  BY <1>6, <1>7, <1>8, <1>9 DEF Uses
<1> QED
  BY <1>1, <1>2, <1>10

LEMMA UsesClient ==
  ASSUME PoolInv, NEW u \in Threads, Uses(u)
  PROVE  /\ client' \in [Clients -> ClientRecords] /\ client'[job[u].c].up = client[job[u].c].up
         /\ \A d \in Clients : d # job[u].c => client'[d] = client[d]
<1> DEFINE c == job[u].c
           f == job[u].f
<1>1. /\ c \in Clients /\ f \in Documents /\ client \in [Clients -> ClientRecords] /\ job[u] \in Jobs
  BY UsesJob, Holds DEF PoolInv, SrvTypes, Served
<1>2. CASE Srv!Number(u)
  <2> DEFINE n == [client[c].versions EXCEPT ![f] = client[c].versions[f] + 1]
             k == [client[c] EXCEPT !.versions = n]
  <2>1. client' = [client EXCEPT ![c] = k]
    BY <1>2 DEF Srv!Number
  <2>2. client[c] \in ClientRecords /\ n \in [Documents -> Nat]
    BY <1>1 DEF ClientRecords
  <2> HIDE DEF c, f, n
  <2>3. k \in ClientRecords /\ k.up = client[c].up
    BY <2>2 DEF ClientRecords
  <2> HIDE DEF k
  <2> QED
    BY <1>1, <2>1, <2>3 DEF c
<1>3. CASE Srv!Send(u)
  <2> DEFINE m == [f |-> f, ver |-> job[u].ver, text |-> job[u].text]
             s == Append(client[c].sent, m)
             k == [client[c] EXCEPT !.sent = s]
  <2>1. client' = client \/ client' = [client EXCEPT ![c] = k]
    BY <1>3 DEF Srv!Send
  <2>2. m \in Messages /\ client[c].sent \in Seq(Messages)
    BY <1>1 DEF Jobs, Messages, ClientRecords
  <2> HIDE DEF c, f, m
  <2>3. s \in Seq(Messages)
    BY <2>2
  <2> HIDE DEF s
  <2>4. k \in ClientRecords /\ k.up = client[c].up
    BY <1>1, <2>3 DEF ClientRecords
  <2> HIDE DEF k
  <2> QED
    BY <1>1, <2>1, <2>4 DEF c
<1>4. CASE ~Srv!Number(u) /\ ~Srv!Send(u)
  <2>1. client' = client
    BY <1>4 DEF Uses, Srv!Read, Srv!Diagnosed, Srv!Expire, Srv!Return, Srv!Ask
  <2> QED
    BY <1>1, <2>1
<1> QED
  BY <1>2, <1>3, <1>4

LEMMA PoolUses == ASSUME PoolInv, NEW u \in Threads, Uses(u) PROVE PoolInv'
<1> DEFINE c == job[u].c
<1>1. /\ pc[u] \in Served \ {"dial"} /\ UNCHANGED <<disk, manifest, current, entry, started, closed>>
      /\ \E p \in {"idle"} \cup (Served \ {"dial"}) : pc' = [pc EXCEPT ![u] = p]
      /\ job' \in [Threads -> Jobs] /\ \A v \in Threads : v # u => job'[v] = job[v]
      /\ pc'[u] # "idle" => job'[u].e = job[u].e /\ job'[u].f = job[u].f /\ job'[u].c = c
  BY UsesJob
<1>2. /\ client' \in [Clients -> ClientRecords] /\ client'[c].up = client[c].up
      /\ \A d \in Clients : d # c => client'[d] = client[d]
  BY UsesClient
<1>3. c \in 1..started /\ started \in Nat
  BY <1>1, Holds DEF PoolInv, SrvTypes
<1> HIDE DEF c
<1>4. /\ pc' \in [Threads -> {"idle", "entry"} \cup Served]
      /\ \A v \in Threads : v # u => pc'[v] = pc[v]
      /\ pc'[u] # "dial" /\ pc[u] # "dial" /\ pc[u] # "idle"
  BY <1>1 DEF PoolInv, SrvTypes, Served
<1>5. SrvTypes'
  BY <1>1, <1>2, <1>4 DEF PoolInv, SrvTypes
<1>6. SrvHeld'
  <2>1. \A v \in Threads : pc'[v] # "idle" => job'[v].e \in 1..2 /\ job'[v].f \in Documents
    BY <1>1, <1>4 DEF PoolInv, SrvHeld
  <2>2. \A v \in Threads : pc'[v] \in Served => job'[v].c \in 1..started
    BY <1>1, <1>3, <1>4 DEF PoolInv, SrvHeld, Served
  <2>3. \A d \in Clients : d > started => client'[d] = Srv!NotStarted
    BY <1>2, <1>3 DEF PoolInv, SrvHeld, Clients
  <2> QED
    BY <1>1, <2>1, <2>2, <2>3 DEF PoolInv, SrvHeld
<1>7. OnePool'
  <2> SUFFICES ASSUME ~closed PROVE OnePool'
    BY <1>1 DEF OnePool
  <2>1. \A v \in Threads : pc'[v] # "idle" => job'[v].e = 1
    BY <1>1, <1>4 DEF PoolInv, OnePool
  <2>2. \A v \in Threads : entry'[1].lock = v <=> pc'[v] = "dial"
    BY <1>1, <1>4 DEF PoolInv, OnePool
  <2>3. \A v \in Threads : entry[1].lock = v => job'[v] = job[v]
    BY <1>1, <1>4 DEF PoolInv, OnePool
  <2>4. \A d \in Clients : client'[d].up => client[d].up
    BY <1>2
  <2> QED
    BY <1>1, <2>1, <2>2, <2>3, <2>4 DEF PoolInv, OnePool
<1> QED
  BY <1>5, <1>6, <1>7 DEF PoolInv

\* The server, the tree and the end of the pool.
Outside == \/ \E c \in Clients : Srv!Receive(c) \/ Srv!Crash(c)
           \/ \E c \in Clients, f \in Documents : Srv!Publish(c, f)
           \/ \E f \in Documents : Srv!Write(f)
           \/ Srv!ManifestChanged \/ Srv!Close

LEMMA OutsideClient ==
  ASSUME PoolInv, Outside
  PROVE  /\ client' \in [Clients -> ClientRecords]
         /\ \A d \in Clients : client'[d].up => client[d].up
         /\ \A d \in Clients : d > started => client'[d] = client[d]
<1> DEFINE Kept == /\ client' \in [Clients -> ClientRecords]
                   /\ \A d \in Clients : client'[d].up => client[d].up
                   /\ \A d \in Clients : d > started => client'[d] = client[d]
<1>1. client \in [Clients -> ClientRecords] /\ started \in Nat
  BY DEF PoolInv, SrvTypes
<1>2. \A c \in Clients : client[c].up => ~(c > started)
  BY SrvFresh DEF PoolInv, SrvHeld
<1>3. ASSUME NEW c \in Clients, Srv!Receive(c) PROVE Kept
  <2> DEFINE d == Head(client[c].sent)
             left == Tail(client[c].sent)
             shown == [ver |-> d.ver, text |-> d.text]
  <2>1. /\ client[c].up /\ client[c].sent # <<>>
        /\ client' = [client EXCEPT ![c].sent = left, ![c].docs[d.f] = shown]
    BY <1>3 DEF Srv!Receive
  <2>2. client[c].sent \in Seq(Messages) /\ client[c].docs \in [Documents -> Versions]
    BY <1>1 DEF ClientRecords
  <2>3. d \in Messages /\ left \in Seq(Messages)
    BY <2>1, <2>2
  <2>4. shown \in Versions /\ d.f \in Documents
    BY <2>3 DEF Messages, Versions
  <2> HIDE DEF d, left, shown
  <2>5. client' \in [Clients -> ClientRecords]
    BY <1>1, <2>1, <2>3, <2>4 DEF ClientRecords
  <2> QED
    BY <1>1, <1>2, <2>1, <2>5 DEF ClientRecords
<1>4. ASSUME NEW c \in Clients, Srv!Crash(c) PROVE Kept
  BY <1>1, <1>2, <1>4 DEF Srv!Crash, ClientRecords
<1>5. ASSUME NEW c \in Clients, NEW f \in Documents, Srv!Publish(c, f) PROVE Kept
  <2>1. /\ client[c].up /\ client' = [client EXCEPT ![c].published[f] = client[c].docs[f]]
        /\ client[c].docs[f] \in Versions
    BY <1>1, <1>5 DEF Srv!Publish, ClientRecords
  <2> QED
    BY <1>1, <1>2, <2>1 DEF ClientRecords
<1>6. CASE Srv!Close
  <2> DEFINE c == entry[current].client
  <2>1. c \in 0..started /\ client' = IF c # 0 THEN [client EXCEPT ![c] = Srv!Killed(c)] ELSE client
    BY <1>6 DEF Srv!Close, PoolInv, SrvTypes, SrvHeld
  <2> HIDE DEF c
  <2>2. CASE c = 0
    BY <1>1, <2>1, <2>2
  <2>3. CASE c # 0
    <3>1. c \in Clients /\ ~(c > started)
      BY <1>1, <2>1, <2>3 DEF PoolInv, SrvTypes, Clients
    <3> QED
      BY <1>1, <2>1, <2>3, <3>1, KilledTyped
  <2> QED
    BY <2>2, <2>3
<1>7. CASE (\E f \in Documents : Srv!Write(f)) \/ Srv!ManifestChanged
  <2>1. client' = client
    BY <1>7 DEF Srv!Write, Srv!ManifestChanged
  <2> QED
    BY <1>1, <2>1
<1> QED
  BY <1>3, <1>4, <1>5, <1>6, <1>7 DEF Outside

LEMMA PoolOutside == ASSUME PoolInv, Outside PROVE PoolInv'
<1>1. UNCHANGED <<entry, started, pc, job>>
  BY DEF Outside, Srv!Receive, Srv!Crash, Srv!Publish, Srv!Write, Srv!ManifestChanged, Srv!Close
<1>2. /\ client' \in [Clients -> ClientRecords]
      /\ \A d \in Clients : client'[d].up => client[d].up
      /\ \A d \in Clients : d > started => client'[d] = client[d]
  BY OutsideClient
<1>3. /\ disk' \in [Documents -> Nat] /\ manifest' \in Nat
      /\ \/ closed' = TRUE /\ current' = 2
         \/ UNCHANGED <<current, closed>>
  <2>1. disk \in [Documents -> Nat] /\ manifest \in Nat
    BY DEF PoolInv, SrvTypes
  <2>2. /\ disk' = disk \/ \E f \in Documents : disk' = [disk EXCEPT ![f] = disk[f] + 1]
        /\ manifest' = manifest \/ manifest' = 1
        /\ \/ closed' = TRUE /\ current' = 2
           \/ UNCHANGED <<current, closed>>
    BY DEF Outside, Srv!Receive, Srv!Crash, Srv!Publish, Srv!Write, Srv!ManifestChanged, Srv!Close
  <2>3. disk' \in [Documents -> Nat]
    BY <2>1, <2>2
  <2> QED
    BY <2>1, <2>2, <2>3
<1>4. SrvTypes'
  <2>1. current' \in 1..2
    BY <1>3 DEF PoolInv, SrvTypes
  <2>2. closed' \in BOOLEAN
    BY <1>3 DEF PoolInv, SrvTypes
  <2> QED
    BY <1>1, <1>2, <1>3, <2>1, <2>2 DEF PoolInv, SrvTypes
<1>5. SrvHeld'
  BY <1>1, <1>2 DEF PoolInv, SrvHeld
<1>6. OnePool'
  BY <1>1, <1>2, <1>3 DEF PoolInv, OnePool
<1> QED
  BY <1>4, <1>5, <1>6 DEF PoolInv

LEMMA PoolNext == ASSUME PoolInv, Srv!Next PROVE PoolInv'
  BY PoolFind, PoolEnters, PoolRestarts, PoolDialed, PoolUses, PoolOutside
  DEF Srv!Next, Clients, Uses, Outside, Srv!Enter

LEMMA PoolOne == PoolInv => Srv!OneServer
  BY DEF PoolInv, SrvTypes, OnePool, Srv!OneServer, Clients

\* What a server has been told or has said of a file, or is about to be told.
SaidOf(c, f) ==
    {client[c].docs[f], client[c].published[f]} \cup
    {[ver |-> client[c].sent[i].ver, text |-> client[c].sent[i].text] :
        i \in {j \in 1..Len(client[c].sent) : client[c].sent[j].f = f}}

Syncing(u, f) == pc[u] \in {"read", "numbered"} /\ job[u].f = f
Waits(u, f) == pc[u] = "wait" /\ job[u].f = f

\* No record is ahead of the tree, or of the versions given out.
Bounded ==
    /\ \A c \in Clients, f \in Documents : \A r \in SaidOf(c, f) :
          r.ver <= client[c].versions[f] /\ r.text <= disk[f]
    /\ \A u \in Threads, f \in Documents :
          /\ Syncing(u, f) \/ Waits(u, f) => job[u].text <= disk[f]
          /\ Syncing(u, f) /\ pc[u] = "numbered" => job[u].ver <= client[job[u].c].versions[f]

\* Of a file that no two synced at once: whoever syncs it has the latest text and, once it is
\* numbered, the highest version, and no record of a version a caller waits for has an older
\* text than the caller's.
Alone(f) == \A u, v \in Threads : Syncing(u, f) /\ Syncing(v, f) => u = v
Latest(f) ==
    \A u \in Threads : Syncing(u, f) =>
        /\ \A c \in Clients : \A r \in SaidOf(c, f) : r.text <= job[u].text
        /\ \A v \in Threads : Waits(v, f) => job[v].text <= job[u].text
Newest(f) ==
    \A u \in Threads : Syncing(u, f) /\ pc[u] = "numbered" =>
        \A r \in SaidOf(job[u].c, f) : r.ver < job[u].ver
Answered(f) ==
    \A u \in Threads : Waits(u, f) =>
        \A r \in SaidOf(job[u].c, f) : r.ver >= job[u].ver => r.text >= job[u].text
Told(f) == \A u \in Threads : pc[u] = "told" /\ job[u].f = f => job[u].got >= job[u].text
SyncedInOrder(f) == Alone(f) /\ Latest(f) /\ Newest(f) /\ Answered(f) /\ Told(f)

DiagInv == PoolInv /\ Bounded /\ \A f \in Documents \ overlap : SyncedInOrder(f)

LEMMA SaidTyped ==
  ASSUME PoolInv, NEW c \in Clients, NEW f \in Documents
  PROVE  /\ SaidOf(c, f) \subseteq Versions /\ client[c].published[f] \in SaidOf(c, f)
         /\ client[c].versions[f] \in Nat /\ disk[f] \in Nat
<1>1. client[c] \in ClientRecords
  BY DEF PoolInv, SrvTypes
<1>2. client[c].docs[f] \in Versions /\ client[c].published[f] \in Versions /\ client[c].versions[f] \in Nat
  BY <1>1 DEF ClientRecords
<1>3. client[c].sent \in Seq(Messages)
  BY <1>1 DEF ClientRecords
<1>4. \A i \in 1..Len(client[c].sent) : client[c].sent[i] \in Messages
  BY <1>3
<1>5. \A i \in 1..Len(client[c].sent) :
         [ver |-> client[c].sent[i].ver, text |-> client[c].sent[i].text] \in Versions
  BY <1>4 DEF Messages, Versions
<1>6. disk[f] \in Nat
  BY DEF PoolInv, SrvTypes
<1> QED
  BY <1>2, <1>5, <1>6 DEF SaidOf

LEMMA SaidSame ==
  ASSUME NEW c, NEW f, UNCHANGED <<client[c].sent, client[c].docs, client[c].published>>
  PROVE  SaidOf(c, f)' = SaidOf(c, f)
  BY DEF SaidOf

LEMMA DiagStarts == Srv!Init => DiagInv
<1> SUFFICES ASSUME Srv!Init PROVE DiagInv
  OBVIOUS
<1>1. PoolInv
  BY PoolStarts
<1>2. pc = [u \in Threads |-> "idle"] /\ client = [c \in Clients |-> Srv!NotStarted]
      /\ disk = [f \in Documents |-> 1]
  BY DEF Srv!Init, Clients
<1>3. \A c \in Clients : client[c] = Srv!NotStarted
  BY <1>2
<1>4. ASSUME NEW c \in Clients, NEW f \in Documents
      PROVE  SaidOf(c, f) = {Srv!NoPub} /\ client[c].versions[f] = 0
  <2>1. client[c].sent = <<>> /\ client[c].docs[f] = Srv!NoPub /\ client[c].published[f] = Srv!NoPub
        /\ client[c].versions[f] = 0
    BY <1>3 DEF Srv!NotStarted, Srv!Fresh
  <2>2. Len(client[c].sent) = 0
    BY <2>1
  <2>3. 1..0 = {}
    OBVIOUS
  <2> QED
    BY <2>1, <2>2, <2>3 DEF SaidOf
<1>5. \A u \in Threads, f \in Documents : ~Syncing(u, f) /\ ~Waits(u, f) /\ pc[u] # "told"
  BY <1>2 DEF Syncing, Waits
<1>6. Bounded
  BY <1>2, <1>4, <1>5 DEF Bounded, Srv!NoPub
<1> QED
  BY <1>1, <1>5, <1>6 DEF DiagInv, SyncedInOrder, Alone, Latest, Newest, Answered, Told

\* A step that adds no record, no version and no thread that syncs or waits.
LEMMA DiagQuiet ==
  ASSUME DiagInv, PoolInv', UNCHANGED overlap,
         \A c \in Clients, f \in Documents :
            SaidOf(c, f)' \subseteq SaidOf(c, f) /\ client'[c].versions[f] = client[c].versions[f],
         \A f \in Documents : disk'[f] >= disk[f],
         \A u \in Threads : \/ pc'[u] = pc[u] /\ job'[u] = job[u]
                            \/ pc'[u] \notin {"read", "numbered", "wait", "told"}
  PROVE  DiagInv'
<1>1. \A f \in Documents : disk[f] \in Nat /\ disk'[f] \in Nat
  BY DEF DiagInv, PoolInv, SrvTypes
<1>2. \A u \in Threads, f \in Documents :
         /\ Syncing(u, f)' => Syncing(u, f) /\ job'[u] = job[u] /\ pc'[u] = pc[u]
         /\ Waits(u, f)' => Waits(u, f) /\ job'[u] = job[u]
         /\ pc'[u] = "told" => pc[u] = "told" /\ job'[u] = job[u]
  BY DEF Syncing, Waits
<1>3. \A u \in Threads : job[u] \in Jobs /\ (pc[u] \in Served => job[u].c \in Clients)
  BY Holds DEF DiagInv
<1>4. Bounded'
  <2>1. ASSUME NEW c \in Clients, NEW f \in Documents, NEW r \in SaidOf(c, f)'
        PROVE  r.ver <= client'[c].versions[f] /\ r.text <= disk'[f]
    <3>1. r \in SaidOf(c, f) /\ r \in Versions
      BY SaidTyped DEF DiagInv
    <3>2. r.ver <= client[c].versions[f] /\ r.text <= disk[f]
      BY <3>1 DEF DiagInv, Bounded
    <3> QED
      BY <1>1, <3>1, <3>2 DEF Versions
  <2>2. ASSUME NEW u \in Threads, NEW f \in Documents
        PROVE  /\ (Syncing(u, f) \/ Waits(u, f))' => job'[u].text <= disk'[f]
               /\ Syncing(u, f)' /\ pc'[u] = "numbered" => job'[u].ver <= client'[job'[u].c].versions[f]
    <3>1. ASSUME (Syncing(u, f) \/ Waits(u, f))' PROVE job'[u].text <= disk'[f]
      <4>1. job[u].text <= disk[f] /\ job'[u] = job[u] /\ job[u].text \in Nat
        BY <1>2, <1>3, <3>1 DEF DiagInv, Bounded, Jobs
      <4> QED
        BY <1>1, <4>1
    <3>2. ASSUME Syncing(u, f)', pc'[u] = "numbered" PROVE job'[u].ver <= client'[job'[u].c].versions[f]
      <4>1. job'[u] = job[u] /\ job[u].c \in Clients /\ job[u].ver <= client[job[u].c].versions[f]
        BY <1>2, <1>3, <3>2 DEF DiagInv, Bounded, Served
      <4> QED
        BY <4>1
    <3> QED
      BY <3>1, <3>2
  <2> QED
    BY <2>1, <2>2 DEF Bounded
<1>5. ASSUME NEW f \in Documents \ overlap PROVE SyncedInOrder(f)'
  <2>1. SyncedInOrder(f)
    BY DEF DiagInv
  <2>2. \A u \in Threads : Syncing(u, f)' \/ Waits(u, f)' => job[u].c \in Clients
    BY <1>2, <1>3 DEF Syncing, Waits, Served
  <2>3. Alone(f)' /\ Told(f)'
    BY <1>2, <2>1 DEF SyncedInOrder, Alone, Told
  <2>4. Latest(f)'
    BY <1>2, <2>1 DEF SyncedInOrder, Latest
  <2>5. Newest(f)' /\ Answered(f)'
    BY <1>2, <2>1, <2>2 DEF SyncedInOrder, Newest, Answered
  <2> QED
    BY <2>3, <2>4, <2>5 DEF SyncedInOrder
<1> QED
  BY <1>4, <1>5 DEF DiagInv

\* Tail and Head of what is on its way to a server.
LEMMA SaidReceive ==
  ASSUME PoolInv, NEW c \in Clients, Srv!Receive(c), NEW d \in Clients, NEW f \in Documents
  PROVE  SaidOf(d, f)' \subseteq SaidOf(d, f) /\ client'[d].versions[f] = client[d].versions[f]
<1> DEFINE m == Head(client[c].sent)
           left == Tail(client[c].sent)
<1>1. client \in [Clients -> ClientRecords] /\ client[c].sent \in Seq(Messages) /\ client[c].sent # <<>>
      /\ client[c].docs \in [Documents -> Versions]
  BY DEF Srv!Receive, PoolInv, SrvTypes, ClientRecords
<1>2. /\ left \in Seq(Messages) /\ m = client[c].sent[1] /\ Len(client[c].sent) >= 1
      /\ Len(left) = Len(client[c].sent) - 1
      /\ \A i \in 1..Len(left) : left[i] = client[c].sent[i + 1] /\ i + 1 \in 1..Len(client[c].sent)
  BY <1>1
<1>3. client' = [client EXCEPT ![c].sent = left, ![c].docs[m.f] = [ver |-> m.ver, text |-> m.text]]
  BY DEF Srv!Receive
<1>4. CASE d # c
  <2>1. client'[d] = client[d]
    BY <1>1, <1>3, <1>4
  <2> QED
    BY <2>1, SaidSame
<1>5. CASE d = c
  <2> HIDE DEF left
  <2>1. /\ client'[c].sent = left /\ client'[c].published = client[c].published
        /\ client'[c].versions = client[c].versions
        /\ client'[c].docs = [client[c].docs EXCEPT ![m.f] = [ver |-> m.ver, text |-> m.text]]
    BY <1>1, <1>3 DEF ClientRecords
  <2>2. ASSUME NEW i \in 1..Len(left), left[i].f = f
        PROVE  [ver |-> left[i].ver, text |-> left[i].text] \in SaidOf(c, f)
    BY <1>2, <2>2 DEF SaidOf
  <2>3. client'[c].docs[f] \in SaidOf(c, f)
    <3>1. CASE m.f = f
      <4>1. client'[c].docs[f] = [ver |-> m.ver, text |-> m.text]
        BY <1>1, <2>1, <3>1
      <4>2. 1 \in {j \in 1..Len(client[c].sent) : client[c].sent[j].f = f}
        BY <1>1, <1>2, <3>1
      <4> QED
        BY <1>2, <4>1, <4>2 DEF SaidOf
    <3>2. CASE m.f # f
      <4>1. client'[c].docs[f] = client[c].docs[f]
        BY <1>1, <2>1, <3>2
      <4> QED
        BY <4>1 DEF SaidOf
    <3> QED
      BY <3>1, <3>2
  <2>4. client'[c].published[f] \in SaidOf(c, f)
    BY <2>1 DEF SaidOf
  <2>5. SaidOf(c, f)' = {client'[c].docs[f], client'[c].published[f]} \cup
           {[ver |-> left[i].ver, text |-> left[i].text] : i \in {j \in 1..Len(left) : left[j].f = f}}
    BY <2>1 DEF SaidOf
  <2> QED
    BY <1>5, <2>1, <2>2, <2>3, <2>4, <2>5
<1> QED
  BY <1>4, <1>5

\* The pool, the answers that are no diagnostics, the server and the tree.
LEMMA DiagSettles ==
  ASSUME DiagInv, PoolInv',
         \/ Outside
         \/ \E u \in Threads : \/ Srv!Enter(u) \/ Srv!Expire(u) \/ Srv!Return(u) \/ Srv!Ask(u)
                               \/ \E f \in Documents : Srv!Find(u, f)
                               \/ \E ok \in BOOLEAN : Srv!Dialed(u, ok)
  PROVE  DiagInv'
<1> DEFINE Quiet == \A c \in Clients, f \in Documents :
              SaidOf(c, f)' \subseteq SaidOf(c, f) /\ client'[c].versions[f] = client[c].versions[f]
           Same == \A c \in Clients : /\ client'[c].sent = client[c].sent
                                      /\ client'[c].docs = client[c].docs
                                      /\ client'[c].published = client[c].published
                                      /\ client'[c].versions = client[c].versions
<1>1. Same => Quiet
  BY SaidSame
<1>2. client \in [Clients -> ClientRecords] /\ disk \in [Documents -> Nat] /\ PoolInv
      /\ pc \in [Threads -> {"idle", "entry"} \cup Served]
  BY DEF DiagInv, PoolInv, SrvTypes
<1> HIDE DEF Same
<1>3. CASE Outside
  <2>1. UNCHANGED <<overlap, pc, job>>
    BY <1>3 DEF Outside, Srv!Receive, Srv!Crash, Srv!Publish, Srv!Write, Srv!ManifestChanged, Srv!Close
  <2>2. \A f \in Documents : disk'[f] >= disk[f]
    <3>1. disk' = disk \/ \E g \in Documents : disk' = [disk EXCEPT ![g] = disk[g] + 1]
      BY <1>3 DEF Outside, Srv!Receive, Srv!Crash, Srv!Publish, Srv!Write, Srv!ManifestChanged, Srv!Close
    <3> QED
      BY <1>2, <3>1
  <2>3. ASSUME NEW c \in Clients, Srv!Receive(c) PROVE Quiet
    BY <1>2, <2>3, SaidReceive
  <2>4. ASSUME NEW c \in Clients, Srv!Crash(c) PROVE Same
    BY <1>2, <2>4 DEF Srv!Crash, ClientRecords, Same
  <2>5. ASSUME NEW c \in Clients, NEW g \in Documents, Srv!Publish(c, g) PROVE Quiet
    <3>1. /\ \A d \in Clients : d # c => client'[d] = client[d]
          /\ client'[c].sent = client[c].sent /\ client'[c].docs = client[c].docs
          /\ client'[c].versions = client[c].versions
          /\ client'[c].published = [client[c].published EXCEPT ![g] = client[c].docs[g]]
          /\ client[c].published \in [Documents -> Versions]
      BY <1>2, <2>5 DEF Srv!Publish, ClientRecords
    <3>2. \A f \in Documents : SaidOf(c, f)' \subseteq SaidOf(c, f)
      <4> TAKE f \in Documents
      <4>1. client'[c].published[f] \in {client[c].docs[f], client[c].published[f]}
        BY <3>1
      <4> QED
        BY <3>1, <4>1 DEF SaidOf
    <3> QED
      BY <3>1, <3>2, SaidSame
  <2>6. ASSUME Srv!Close PROVE Same
    <3> DEFINE k == entry[current].client
    <3>1. current \in 1..2 /\ started \in 0..MaxClients
      BY <1>2 DEF PoolInv, SrvTypes
    <3>2. k \in 0..started
      BY <1>2, <3>1 DEF PoolInv, SrvHeld
    <3>3. client' = IF k # 0 THEN [client EXCEPT ![k] = Srv!Killed(k)] ELSE client
      BY <2>6 DEF Srv!Close
    <3> HIDE DEF k
    <3>4. CASE k = 0
      BY <3>3, <3>4 DEF Same
    <3>5. CASE k # 0
      <4>1. k \in Clients
        BY <3>1, <3>2, <3>5 DEF Clients
      <4> QED
        BY <1>2, <3>3, <3>5, <4>1, KilledTyped DEF Same
    <3> QED
      BY <3>4, <3>5
  <2>7. ASSUME (\E f \in Documents : Srv!Write(f)) \/ Srv!ManifestChanged PROVE Same
    BY <2>7 DEF Srv!Write, Srv!ManifestChanged, Same
  <2>8. Quiet
    BY <1>1, <1>3, <2>3, <2>4, <2>5, <2>6, <2>7 DEF Outside
  <2> QED
    BY <2>1, <2>2, <2>8, DiagQuiet
<1>4. ASSUME NEW u \in Threads,
             \/ Srv!Enter(u) \/ Srv!Expire(u) \/ Srv!Return(u) \/ Srv!Ask(u)
             \/ \E f \in Documents : Srv!Find(u, f)
             \/ \E ok \in BOOLEAN : Srv!Dialed(u, ok)
      PROVE  DiagInv'
  <2>1. UNCHANGED <<overlap, disk>>
    BY <1>4 DEF Srv!Enter, Srv!Expire, Srv!Return, Srv!Ask, Srv!Find, Srv!Dialed
  <2>2. \A f \in Documents : disk'[f] >= disk[f]
    BY <1>2, <2>1
  <2>3. \A v \in Threads : \/ pc'[v] = pc[v] /\ job'[v] = job[v]
                           \/ pc'[v] \notin {"read", "numbered", "wait", "told"}
    <3>1. /\ pc'[u] \notin {"read", "numbered", "wait", "told"}
          /\ \A v \in Threads : v # u => pc'[v] = pc[v]
      <4>1. \E p \in {"idle", "entry", "dial", "have", "slow", "exited"} : pc' = [pc EXCEPT ![u] = p]
        BY <1>4 DEF Srv!Enter, Srv!Expire, Srv!Return, Srv!Ask, Srv!Find, Srv!Dialed, Srv!To
      <4> QED
        BY <1>2, <4>1
    <3>2. \A v \in Threads : v # u => job'[v] = job[v]
      <4>1. job \in [Threads -> Jobs]
        BY <1>2 DEF PoolInv, SrvTypes
      <4>2. \/ job' = job \/ job' = [job EXCEPT ![u] = job'[u]]
        BY <1>4, <4>1 DEF Srv!Enter, Srv!Expire, Srv!Return, Srv!Ask, Srv!Find, Srv!Dialed
      <4> QED
        BY <4>1, <4>2
    <3> QED
      BY <3>1, <3>2
  <2>4. Same
    <3>1. CASE ~Srv!Enter(u) /\ ~\E ok \in BOOLEAN : Srv!Dialed(u, ok)
      BY <1>4, <3>1 DEF Srv!Expire, Srv!Return, Srv!Ask, Srv!Find, Same
    <3>2. ASSUME NEW ok \in BOOLEAN, Srv!Dialed(u, ok) PROVE Same
      <4> DEFINE c == job[u].c
      <4>1. c \in Clients /\ client' = IF ok THEN client ELSE [client EXCEPT ![c] = Srv!Killed(c)]
        BY <1>2, <3>2, Holds DEF Srv!Dialed, Served
      <4> HIDE DEF c
      <4> QED
        BY <1>2, <4>1, KilledTyped DEF Same
    <3>3. ASSUME Srv!Enter(u) PROVE Same
      <4> DEFINE e == job[u].e
                 k == entry[e].client
                 n == started + 1
                 left == Srv!CloseOld(e)
      <4>1. \/ client' = client
            \/ client' = [left EXCEPT ![n] = Srv!Fresh] /\ started < MaxClients
        BY <3>3 DEF Srv!Enter
      <4>2. k \in 0..started /\ started \in 0..MaxClients
        BY <1>2, <3>3, Holds DEF Srv!Enter, PoolInv, SrvTypes
      <4>3. left \in [Clients -> ClientRecords]
            /\ \A c \in Clients : /\ left[c].sent = client[c].sent /\ left[c].docs = client[c].docs
                                  /\ left[c].published = client[c].published
                                  /\ left[c].versions = client[c].versions
        <5>1. CASE Srv!Stale(e)
          <6>1. k \in Clients
            BY <4>2, <5>1 DEF Srv!Stale, Clients
          <6>2. left = [client EXCEPT ![k] = Srv!Killed(k)]
            BY <5>1 DEF Srv!CloseOld
          <6> HIDE DEF left, k
          <6> QED
            BY <1>2, <6>1, <6>2, KilledTyped
        <5>2. CASE ~Srv!Stale(e)
          BY <1>2, <5>2 DEF Srv!CloseOld
        <5> QED
          BY <5>1, <5>2
      <4>4. CASE client' = client
        BY <4>4 DEF Same
      <4>5. CASE client' = [left EXCEPT ![n] = Srv!Fresh] /\ started < MaxClients
        <5>1. n \in Clients /\ n > started
          BY <4>2, <4>5 DEF Clients
        <5>2. client[n] = Srv!NotStarted
          BY <1>2, <5>1 DEF PoolInv, SrvHeld
        <5>3. /\ Srv!NotStarted.sent = Srv!Fresh.sent /\ Srv!NotStarted.docs = Srv!Fresh.docs
              /\ Srv!NotStarted.published = Srv!Fresh.published
              /\ Srv!NotStarted.versions = Srv!Fresh.versions
          BY DEF Srv!NotStarted, Srv!Fresh
        <5> HIDE DEF left, n
        <5>4. client'[n] = Srv!Fresh /\ \A c \in Clients : c # n => client'[c] = left[c]
          BY <4>3, <4>5, <5>1
        <5> QED
          BY <4>3, <5>2, <5>3, <5>4 DEF Same
      <4> QED
        BY <4>1, <4>4, <4>5
    <3> QED
      BY <3>1, <3>2, <3>3
  <2> QED
    BY <1>1, <2>1, <2>2, <2>3, <2>4, DiagQuiet
<1> QED
  BY <1>3, <1>4

\* Whoever reads a file alone reads a text no record is ahead of.
LEMMA DiagRead == ASSUME DiagInv, PoolInv', NEW u \in Threads, Srv!Read(u) PROVE DiagInv'
<1> DEFINE g == job[u].f
<1>1. /\ pc[u] = "have" /\ pc' = [pc EXCEPT ![u] = "read"]
      /\ job' = [job EXCEPT ![u].text = disk[g]] /\ UNCHANGED <<disk, client>>
      /\ overlap' = IF \E v \in Threads \ {u} : pc[v] \in {"read", "numbered"} /\ job[v].f = g
                    THEN overlap \cup {g} ELSE overlap
  BY DEF Srv!Read, Srv!To
<1>2. /\ g \in Documents /\ job[u] \in Jobs /\ job \in [Threads -> Jobs]
      /\ pc \in [Threads -> {"idle", "entry"} \cup Served] /\ disk \in [Documents -> Nat]
  BY <1>1, Holds DEF DiagInv, PoolInv, SrvTypes
<1>3. job'[u].text = disk[g] /\ job'[u].f = g /\ \A v \in Threads : v # u => job'[v] = job[v]
  BY <1>1, <1>2 DEF Jobs
<1>4. pc'[u] = "read" /\ \A v \in Threads : v # u => pc'[v] = pc[v]
  BY <1>1, <1>2
<1>5. \A c, f : SaidOf(c, f)' = SaidOf(c, f)
  BY <1>1 DEF SaidOf
<1>6. \A v \in Threads, f \in Documents :
         v # u => (Syncing(v, f)' <=> Syncing(v, f)) /\ (Waits(v, f)' <=> Waits(v, f))
  BY <1>3, <1>4 DEF Syncing, Waits
<1>7. \A f \in Documents : (Syncing(u, f)' => f = g) /\ ~Waits(u, f)' /\ disk[f] \in Nat
  BY <1>2, <1>3, <1>4 DEF Syncing, Waits
<1> HIDE DEF g
<1>8. Bounded'
  <2>1. \A c \in Clients, f \in Documents : \A r \in SaidOf(c, f)' :
           r.ver <= client'[c].versions[f] /\ r.text <= disk'[f]
    BY <1>1, <1>5 DEF DiagInv, Bounded
  <2>2. ASSUME NEW v \in Threads, NEW f \in Documents
        PROVE  /\ (Syncing(v, f) \/ Waits(v, f))' => job'[v].text <= disk'[f]
               /\ Syncing(v, f)' /\ pc'[v] = "numbered" => job'[v].ver <= client'[job'[v].c].versions[f]
    <3>1. CASE v = u
      BY <1>1, <1>3, <1>4, <1>7, <3>1
    <3>2. CASE v # u
      BY <1>1, <1>3, <1>4, <1>6, <3>2 DEF DiagInv, Bounded
    <3> QED
      BY <3>1, <3>2
  <2> QED
    BY <2>1, <2>2 DEF Bounded
<1>9. ASSUME NEW f \in Documents, f \notin overlap' PROVE SyncedInOrder(f)'
  <2>1. SyncedInOrder(f)
    BY <1>1, <1>9 DEF DiagInv
  <2>2. f = g => \A v \in Threads \ {u} : ~Syncing(v, f)
    BY <1>1, <1>9 DEF Syncing
  <2>3. Alone(f)'
    BY <1>6, <1>7, <2>1, <2>2 DEF SyncedInOrder, Alone
  <2>4. Latest(f)'
    <3> SUFFICES ASSUME NEW v \in Threads, Syncing(v, f)'
                 PROVE  /\ \A c \in Clients : \A r \in SaidOf(c, f) : r.text <= job'[v].text
                        /\ \A w \in Threads : Waits(w, f)' => job'[w].text <= job'[v].text
      BY <1>5 DEF Latest
    <3>1. CASE v = u
      <4>1. f = g /\ job'[v].text = disk[f]
        BY <1>3, <1>7, <3>1
      <4>2. \A w \in Threads : Waits(w, f)' => Waits(w, f) /\ job'[w] = job[w]
        BY <1>3, <1>6, <1>7
      <4> QED
        BY <4>1, <4>2 DEF DiagInv, Bounded
    <3>2. CASE v # u
      BY <1>3, <1>6, <1>7, <2>1, <3>2 DEF SyncedInOrder, Latest
    <3> QED
      BY <3>1, <3>2
  <2>5. Newest(f)' /\ Answered(f)'
    BY <1>3, <1>4, <1>5, <1>6, <1>7, <2>1 DEF SyncedInOrder, Newest, Answered
  <2>6. Told(f)'
    BY <1>3, <1>4, <2>1 DEF SyncedInOrder, Told
  <2> QED
    BY <2>3, <2>4, <2>5, <2>6 DEF SyncedInOrder
<1> QED
  BY <1>8, <1>9 DEF DiagInv

\* A new number is above every record's.
LEMMA DiagNumber == ASSUME DiagInv, PoolInv', NEW u \in Threads, Srv!Number(u) PROVE DiagInv'
<1> DEFINE g == job[u].f
           k == job[u].c
           n == client[k].versions[g] + 1
<1>1. /\ pc[u] = "read" /\ pc' = [pc EXCEPT ![u] = "numbered"]
      /\ job' = [job EXCEPT ![u].ver = n] /\ UNCHANGED <<disk, overlap>>
      /\ client' = [client EXCEPT ![k].versions[g] = n]
  BY DEF Srv!Number, Srv!To
<1>2. /\ g \in Documents /\ k \in Clients /\ job[u] \in Jobs /\ job \in [Threads -> Jobs]
      /\ pc \in [Threads -> {"idle", "entry"} \cup Served] /\ client \in [Clients -> ClientRecords]
  BY <1>1, Holds DEF DiagInv, PoolInv, SrvTypes, Served
<1>3. client[k] \in ClientRecords /\ client[k].versions \in [Documents -> Nat] /\ n \in Nat
      /\ n > client[k].versions[g]
  BY <1>2 DEF ClientRecords
<1>4. /\ \A c \in Clients : /\ client'[c].sent = client[c].sent /\ client'[c].docs = client[c].docs
                            /\ client'[c].published = client[c].published
      /\ client'[k].versions = [client[k].versions EXCEPT ![g] = n]
      /\ \A c \in Clients : c # k => client'[c] = client[c]
  BY <1>1, <1>2, <1>3 DEF ClientRecords
<1>5. /\ job'[u].ver = n /\ job'[u].f = g /\ job'[u].c = k /\ job'[u].text = job[u].text
      /\ \A v \in Threads : v # u => job'[v] = job[v]
  BY <1>1, <1>2 DEF Jobs
<1>6. pc'[u] = "numbered" /\ \A v \in Threads : v # u => pc'[v] = pc[v]
  BY <1>1, <1>2
<1>7. \A c \in Clients, f \in Documents : SaidOf(c, f)' = SaidOf(c, f)
  BY <1>4, SaidSame
<1>8. \A c \in Clients, f \in Documents :
         /\ client[c].versions[f] \in Nat /\ client'[c].versions[f] \in Nat
         /\ client[c].versions[f] <= client'[c].versions[f]
         /\ c = k /\ f = g => client'[c].versions[f] = n
  <2> TAKE c \in Clients, f \in Documents
  <2>1. client[c].versions[f] \in Nat
    BY SaidTyped DEF DiagInv
  <2>2. CASE c = k /\ f = g
    BY <1>3, <1>4, <2>1, <2>2
  <2>3. CASE ~(c = k /\ f = g)
    <3>1. client'[c].versions[f] = client[c].versions[f]
      BY <1>3, <1>4, <2>3
    <3> QED
      BY <2>1, <2>3, <3>1
  <2> QED
    BY <2>2, <2>3
<1>9. \A v \in Threads, f \in Documents :
         (Syncing(v, f)' <=> Syncing(v, f)) /\ (Waits(v, f)' <=> Waits(v, f))
  BY <1>1, <1>5, <1>6 DEF Syncing, Waits
<1>10. Syncing(u, g) /\ \A f \in Documents : Syncing(u, f) => f = g
  BY <1>1 DEF Syncing
<1>11. \A v \in Threads : job'[v].text = job[v].text /\ job'[v].c = job[v].c
  BY <1>5
<1>12. \A v \in Threads : pc[v] \in Served => job[v].c \in Clients /\ job[v].ver \in Nat
  BY Holds DEF DiagInv, Jobs
<1> HIDE DEF g, k, n
<1>13. Bounded'
  <2>1. ASSUME NEW c \in Clients, NEW f \in Documents, NEW r \in SaidOf(c, f)'
        PROVE  r.ver <= client'[c].versions[f] /\ r.text <= disk'[f]
    <3>1. r \in SaidOf(c, f) /\ r.ver \in Nat
      BY <1>7, SaidTyped DEF DiagInv, Versions
    <3>2. r.ver <= client[c].versions[f] /\ r.text <= disk[f]
      BY <3>1 DEF DiagInv, Bounded
    <3> QED
      BY <1>1, <1>8, <3>1, <3>2
  <2>2. ASSUME NEW v \in Threads, NEW f \in Documents, (Syncing(v, f) \/ Waits(v, f))'
        PROVE  job'[v].text <= disk'[f]
    BY <1>1, <1>9, <1>11, <2>2 DEF DiagInv, Bounded
  <2>3. ASSUME NEW v \in Threads, NEW f \in Documents, Syncing(v, f)', pc'[v] = "numbered"
        PROVE  job'[v].ver <= client'[job'[v].c].versions[f]
    <3>1. CASE v = u
      <4>1. f = g
        BY <1>9, <1>10, <2>3, <3>1
      <4> QED
        BY <1>2, <1>3, <1>5, <1>8, <3>1, <4>1
    <3>2. CASE v # u
      <4>1. /\ job'[v] = job[v] /\ job[v].c \in Clients /\ job[v].ver \in Nat
            /\ job[v].ver <= client[job[v].c].versions[f]
        BY <1>5, <1>6, <1>9, <1>12, <2>3, <3>2 DEF DiagInv, Bounded, Syncing, Served
      <4> QED
        BY <1>8, <4>1
    <3> QED
      BY <3>1, <3>2
  <2> QED
    BY <2>1, <2>2, <2>3 DEF Bounded
<1>14. ASSUME NEW f \in Documents \ overlap PROVE SyncedInOrder(f)'
  <2>1. SyncedInOrder(f)
    BY DEF DiagInv
  <2>2. Alone(f)'
    BY <1>9, <2>1 DEF SyncedInOrder, Alone
  <2>3. Latest(f)'
    BY <1>7, <1>9, <1>11, <2>1 DEF SyncedInOrder, Latest
  <2>4. Newest(f)'
    <3> SUFFICES ASSUME NEW v \in Threads, Syncing(v, f), pc'[v] = "numbered",
                        NEW r \in SaidOf(job[v].c, f)'
                 PROVE  r.ver < job'[v].ver
      BY <1>9 DEF Newest
    <3>1. job[v].c \in Clients
      BY <1>12 DEF Syncing, Served
    <3>2. r \in SaidOf(job[v].c, f)
      BY <1>7, <1>11, <3>1
    <3>3. CASE v = u
      <4>1. f = g /\ job[v].c = k /\ job'[v].ver = n
        BY <1>5, <1>10, <3>3 DEF k
      <4>2. r.ver \in Nat /\ r.ver <= client[k].versions[g]
        BY <1>2, <3>2, <4>1, SaidTyped DEF DiagInv, Bounded, Versions
      <4> QED
        BY <1>2, <1>3, <1>8, <4>1, <4>2
    <3>4. CASE v # u
      BY <1>5, <1>6, <2>1, <3>2, <3>4 DEF SyncedInOrder, Newest
    <3> QED
      BY <3>3, <3>4
  <2>5. Answered(f)'
    <3> SUFFICES ASSUME NEW v \in Threads, Waits(v, f)', NEW r \in SaidOf(job[v].c, f)',
                        r.ver >= job'[v].ver
                 PROVE  r.text >= job'[v].text
      BY DEF Answered
    <3>1. v # u /\ Waits(v, f) /\ job'[v] = job[v]
      BY <1>5, <1>6, <1>9 DEF Waits
    <3>2. r \in SaidOf(job[v].c, f)
      BY <1>7, <1>12, <3>1 DEF Waits, Served
    <3> QED
      BY <2>1, <3>1, <3>2 DEF SyncedInOrder, Answered
  <2>6. Told(f)'
    BY <1>5, <1>6, <2>1 DEF SyncedInOrder, Told
  <2> QED
    BY <2>2, <2>3, <2>4, <2>5, <2>6 DEF SyncedInOrder
<1> QED
  BY <1>1, <1>13, <1>14 DEF DiagInv

\* What is sent is the newest of its file: the latest text, under the highest version.
LEMMA SaidSend ==
  ASSUME PoolInv, NEW c \in Clients, NEW m \in Messages, client'[c].sent = Append(client[c].sent, m),
         client'[c].docs = client[c].docs, client'[c].published = client[c].published,
         NEW f \in Documents, NEW r \in SaidOf(c, f)'
  PROVE  r \in SaidOf(c, f) \/ (m.f = f /\ r = [ver |-> m.ver, text |-> m.text])
<1> DEFINE s == client[c].sent
           more == Append(s, m)
<1>1. s \in Seq(Messages)
  BY DEF PoolInv, SrvTypes, ClientRecords
<1>2. Len(more) = Len(s) + 1 /\ more[Len(s) + 1] = m /\ \A i \in 1..Len(s) : more[i] = s[i]
  BY <1>1
<1>3. Len(s) \in Nat
  BY <1>1
<1> HIDE DEF more
<1>4. SaidOf(c, f)' = {client[c].docs[f], client[c].published[f]} \cup
         {[ver |-> more[i].ver, text |-> more[i].text] : i \in {j \in 1..Len(more) : more[j].f = f}}
  BY DEF SaidOf, more
<1>5. SaidOf(c, f) = {client[c].docs[f], client[c].published[f]} \cup
         {[ver |-> s[i].ver, text |-> s[i].text] : i \in {j \in 1..Len(s) : s[j].f = f}}
  BY DEF SaidOf
<1> HIDE DEF s
<1>6. CASE r \in {client[c].docs[f], client[c].published[f]}
  BY <1>5, <1>6
<1>7. CASE r \notin {client[c].docs[f], client[c].published[f]}
  <2>1. PICK i \in 1..Len(more) : more[i].f = f /\ r = [ver |-> more[i].ver, text |-> more[i].text]
    BY <1>4, <1>7
  <2>2. CASE i = Len(s) + 1
    BY <1>2, <2>1, <2>2
  <2>3. CASE i # Len(s) + 1
    <3>1. i \in 1..Len(s) /\ more[i] = s[i]
      BY <1>2, <1>3, <2>3
    <3> QED
      BY <1>5, <2>1, <3>1
  <2> QED
    BY <2>2, <2>3
<1> QED
  BY <1>6, <1>7

LEMMA DiagSend == ASSUME DiagInv, PoolInv', NEW u \in Threads, Srv!Send(u) PROVE DiagInv'
<1> DEFINE g == job[u].f
           k == job[u].c
           m == [f |-> g, ver |-> job[u].ver, text |-> job[u].text]
<1>1. pc[u] = "numbered" /\ UNCHANGED <<disk, overlap, job>>
  BY DEF Srv!Send
<1>2. /\ g \in Documents /\ k \in Clients /\ job[u] \in Jobs
      /\ pc \in [Threads -> {"idle", "entry"} \cup Served] /\ client \in [Clients -> ClientRecords]
      /\ disk \in [Documents -> Nat]
  BY <1>1, Holds DEF DiagInv, PoolInv, SrvTypes, Served
<1>3. CASE ~client[k].up
  <2>1. client' = client /\ pc' = [pc EXCEPT ![u] = "idle"]
    BY <1>3 DEF Srv!Send, Srv!To
  <2>2. \A c, f : SaidOf(c, f)' = SaidOf(c, f)
    BY <2>1 DEF SaidOf
  <2>3. \A v \in Threads : pc'[v] = pc[v] \/ pc'[v] = "idle"
    BY <1>2, <2>1
  <2>4. \A f \in Documents : disk'[f] >= disk[f]
    BY <1>1, <1>2
  <2> QED
    BY <1>1, <2>1, <2>2, <2>3, <2>4, DiagQuiet
<1>4. CASE client[k].up
  <2>1. /\ client' = [client EXCEPT ![k].sent = Append(client[k].sent, m)]
        /\ pc' = [pc EXCEPT ![u] = "wait"]
    BY <1>4 DEF Srv!Send, Srv!To
  <2>2. m \in Messages /\ m.f = g /\ m.ver = job[u].ver /\ m.text = job[u].text
        /\ job[u].ver \in Nat /\ job[u].text \in Nat
    BY <1>2 DEF Jobs, Messages
  <2> HIDE DEF g, k, m
  <2>3. /\ client'[k].sent = Append(client[k].sent, m)
        /\ client'[k].docs = client[k].docs /\ client'[k].published = client[k].published
        /\ client'[k].versions = client[k].versions
        /\ \A c \in Clients : c # k => client'[c] = client[c]
    BY <1>2, <2>1 DEF ClientRecords
  <2>4. ASSUME NEW c \in Clients, NEW f \in Documents, NEW r \in SaidOf(c, f)'
        PROVE  r \in SaidOf(c, f)
               \/ (c = k /\ f = g /\ r.ver = job[u].ver /\ r.text = job[u].text)
    <3>1. CASE c = k
      BY <2>2, <2>3, <2>4, <3>1, SaidSend DEF DiagInv
    <3>2. CASE c # k
      <4>1. SaidOf(c, f)' = SaidOf(c, f)
        BY <2>3, <3>2, SaidSame
      <4> QED
        BY <2>4, <4>1
    <3> QED
      BY <3>1, <3>2
  <2>5. pc'[u] = "wait" /\ \A v \in Threads : v # u => pc'[v] = pc[v]
    BY <1>2, <2>1
  <2>6. /\ Syncing(u, g) /\ job[u].f = g /\ job[u].c = k
        /\ \A f \in Documents : ~Syncing(u, f)' /\ (Waits(u, f)' => f = g)
        /\ \A v \in Threads, f \in Documents :
              v # u => (Syncing(v, f)' <=> Syncing(v, f)) /\ (Waits(v, f)' <=> Waits(v, f))
    BY <1>1, <2>5 DEF Syncing, Waits, g, k
  <2>7. \A v \in Threads : pc[v] \in Served => job[v].c \in Clients
    BY Holds DEF DiagInv
  <2>8. \A c \in Clients, f \in Documents : client'[c].versions[f] = client[c].versions[f]
    BY <2>3
  <2>9. job[u].text <= disk[g] /\ job[u].ver <= client[k].versions[g]
    BY <1>1, <1>2, <2>6 DEF DiagInv, Bounded
  <2>10. Bounded'
    <3>1. ASSUME NEW c \in Clients, NEW f \in Documents, NEW r \in SaidOf(c, f)'
          PROVE  r.ver <= client'[c].versions[f] /\ r.text <= disk'[f]
      BY <1>1, <2>4, <2>8, <2>9, <3>1 DEF DiagInv, Bounded
    <3>2. ASSUME NEW v \in Threads, NEW f \in Documents, (Syncing(v, f) \/ Waits(v, f))'
          PROVE  job'[v].text <= disk'[f]
      <4>1. Syncing(v, f) \/ Waits(v, f)
        BY <2>6, <3>2
      <4> QED
        BY <1>1, <4>1 DEF DiagInv, Bounded
    <3>3. ASSUME NEW v \in Threads, NEW f \in Documents, Syncing(v, f)', pc'[v] = "numbered"
          PROVE  job'[v].ver <= client'[job'[v].c].versions[f]
      <4>1. Syncing(v, f) /\ pc[v] = "numbered" /\ job[v].c \in Clients
        BY <2>5, <2>6, <2>7, <3>3 DEF Served
      <4> QED
        BY <1>1, <2>8, <4>1 DEF DiagInv, Bounded
    <3> QED
      BY <3>1, <3>2, <3>3 DEF Bounded
  <2>11. ASSUME NEW f \in Documents \ overlap PROVE SyncedInOrder(f)'
    <3>1. SyncedInOrder(f)
      BY DEF DiagInv
    <3>2. f = g => \A v \in Threads : ~Syncing(v, f)'
      BY <2>6, <3>1 DEF SyncedInOrder, Alone
    <3>3. Alone(f)'
      BY <2>6, <3>1 DEF SyncedInOrder, Alone
    <3>4. Latest(f)'
      <4> SUFFICES ASSUME NEW v \in Threads, Syncing(v, f)'
                   PROVE  /\ \A c \in Clients : \A r \in SaidOf(c, f)' : r.text <= job'[v].text
                          /\ \A w \in Threads : Waits(w, f)' => job'[w].text <= job'[v].text
        BY DEF Latest
      <4>1. f # g /\ v # u /\ Syncing(v, f)
        BY <2>6, <3>2
      <4>2. \A c \in Clients : \A r \in SaidOf(c, f)' : r \in SaidOf(c, f)
        BY <2>4, <4>1
      <4>3. \A w \in Threads : Waits(w, f)' => Waits(w, f)
        BY <2>6, <4>1
      <4> QED
        BY <1>1, <3>1, <4>1, <4>2, <4>3 DEF SyncedInOrder, Latest
    <3>5. Newest(f)'
      <4> SUFFICES ASSUME NEW v \in Threads, Syncing(v, f)', pc'[v] = "numbered",
                          NEW r \in SaidOf(job[v].c, f)'
                   PROVE  r.ver < job'[v].ver
        BY DEF Newest
      <4>1. f # g /\ Syncing(v, f) /\ pc[v] = "numbered" /\ job[v].c \in Clients
        BY <2>5, <2>6, <2>7, <3>2 DEF Served
      <4>2. r \in SaidOf(job[v].c, f)
        BY <1>1, <2>4, <4>1
      <4> QED
        BY <1>1, <3>1, <4>1, <4>2 DEF SyncedInOrder, Newest
    <3>6. Answered(f)'
      <4> SUFFICES ASSUME NEW v \in Threads, Waits(v, f)', NEW r \in SaidOf(job[v].c, f)',
                          r.ver >= job'[v].ver
                   PROVE  r.text >= job'[v].text
        BY DEF Answered
      <4>1. pc'[v] = "wait" /\ job'[v] = job[v]
        BY <1>1 DEF Waits
      <4>2. job[v].c \in Clients /\ job[v] \in Jobs
        <5>1. pc[v] \in Served
          BY <1>1, <2>5, <4>1 DEF Served
        <5> QED
          BY <5>1, Holds DEF DiagInv
      <4>3. r \in SaidOf(job[v].c, f)
            \/ (job[v].c = k /\ f = g /\ r.ver = job[u].ver /\ r.text = job[u].text)
        BY <1>1, <2>4, <4>2
      <4>4. CASE v = u
        <5>1. f = g /\ job[v].c = k
          BY <2>6, <4>4
        <5>2. ASSUME r \in SaidOf(k, g) PROVE FALSE
          <6>1. r.ver < job[u].ver
            BY <1>1, <2>6, <3>1, <5>1, <5>2 DEF SyncedInOrder, Newest
          <6>2. r.ver \in Nat
            BY <1>2, <5>2, SaidTyped DEF DiagInv, Versions
          <6> QED
            BY <2>2, <4>1, <4>4, <6>1, <6>2
        <5> QED
          BY <2>2, <4>1, <4>3, <4>4, <5>1, <5>2
      <4>5. CASE v # u
        <5>1. Waits(v, f)
          BY <2>6, <4>5
        <5>2. CASE r \in SaidOf(job[v].c, f)
          BY <3>1, <4>1, <5>1, <5>2 DEF SyncedInOrder, Answered
        <5>3. CASE f = g /\ r.text = job[u].text
          <6>1. job[v].text <= job[u].text
            BY <2>6, <3>1, <5>1, <5>3 DEF SyncedInOrder, Latest
          <6> QED
            BY <2>2, <4>1, <4>2, <5>3, <6>1 DEF Jobs
        <5> QED
          BY <4>3, <5>2, <5>3
      <4> QED
        BY <4>4, <4>5
    <3>7. Told(f)'
      BY <1>1, <2>5, <3>1 DEF SyncedInOrder, Told
    <3> QED
      BY <3>3, <3>4, <3>5, <3>6, <3>7 DEF SyncedInOrder
  <2> QED
    BY <1>1, <2>10, <2>11 DEF DiagInv
<1> QED
  BY <1>3, <1>4

\* The answer is of a record no older than the caller's text.
LEMMA DiagDiagnosed == ASSUME DiagInv, PoolInv', NEW u \in Threads, Srv!Diagnosed(u) PROVE DiagInv'
<1> DEFINE g == job[u].f
           k == job[u].c
           pub == client[k].published[g]
<1>1. /\ pc[u] = "wait" /\ pc' = [pc EXCEPT ![u] = "told"] /\ pub.ver >= job[u].ver
      /\ job' = [job EXCEPT ![u].got = pub.text] /\ UNCHANGED <<disk, client, overlap>>
  BY DEF Srv!Diagnosed, Srv!atLeast, Srv!To
<1>2. /\ g \in Documents /\ k \in Clients /\ job[u] \in Jobs /\ job \in [Threads -> Jobs]
      /\ pc \in [Threads -> {"idle", "entry"} \cup Served]
  BY <1>1, Holds DEF DiagInv, PoolInv, SrvTypes, Served
<1>3. pub \in SaidOf(k, g)
  BY <1>2, SaidTyped DEF DiagInv
<1> HIDE DEF pub
<1>4. /\ job'[u].got = pub.text /\ job'[u].f = g /\ job'[u].text = job[u].text
      /\ \A v \in Threads : v # u => job'[v] = job[v]
  BY <1>1, <1>2 DEF Jobs
<1>5. pc'[u] = "told" /\ \A v \in Threads : v # u => pc'[v] = pc[v]
  BY <1>1, <1>2
<1>6. \A c, f : SaidOf(c, f)' = SaidOf(c, f)
  BY <1>1 DEF SaidOf
<1>7. \A v \in Threads, f \in Documents :
         /\ Syncing(v, f)' => Syncing(v, f) /\ v # u
         /\ Waits(v, f)' => Waits(v, f) /\ v # u
  BY <1>4, <1>5 DEF Syncing, Waits
<1>8. Bounded'
  BY <1>1, <1>4, <1>5, <1>6, <1>7 DEF DiagInv, Bounded
<1>9. ASSUME NEW f \in Documents \ overlap PROVE SyncedInOrder(f)'
  <2>1. SyncedInOrder(f)
    BY DEF DiagInv
  <2>2. Alone(f)' /\ Latest(f)'
    BY <1>4, <1>6, <1>7, <2>1 DEF SyncedInOrder, Alone, Latest
  <2>3. Newest(f)' /\ Answered(f)'
    BY <1>4, <1>5, <1>6, <1>7, <2>1 DEF SyncedInOrder, Newest, Answered
  <2>4. f = g => pub.text >= job[u].text
    BY <1>1, <1>3, <2>1 DEF SyncedInOrder, Answered, Waits
  <2>5. Told(f)'
    BY <1>4, <1>5, <2>1, <2>4 DEF SyncedInOrder, Told
  <2> QED
    BY <2>2, <2>3, <2>5 DEF SyncedInOrder
<1> QED
  BY <1>1, <1>8, <1>9 DEF DiagInv

LEMMA DiagNext == ASSUME DiagInv, Srv!Next PROVE DiagInv'
<1>1. PoolInv'
  BY PoolNext DEF DiagInv
<1> QED
  BY <1>1, DiagSettles, DiagRead, DiagNumber, DiagSend, DiagDiagnosed DEF Srv!Next, Outside, Clients

LEMMA DiagToldRight == DiagInv => Srv!OneServer /\ Srv!DiagnosticsCurrent
<1> SUFFICES ASSUME DiagInv PROVE Srv!DiagnosticsCurrent
  BY PoolOne DEF DiagInv
<1>1. \A u \in Threads : pc[u] = "told" => job[u].f \in Documents
  BY Holds DEF DiagInv
<1> QED
  BY <1>1 DEF DiagInv, SyncedInOrder, Told, Srv!DiagnosticsCurrent


LEMMA DiagStutters == ASSUME DiagInv, UNCHANGED <<lspVars, pc, disk>> PROVE DiagInv'
<1>1. UNCHANGED <<manifest, current, entry, client, started, job, closed, overlap, pc, disk>>
  BY DEF lspVars
<1>2. PoolInv'
  BY <1>1 DEF DiagInv, PoolInv, SrvTypes, SrvHeld, OnePool
<1>3. Bounded'
  BY <1>1 DEF DiagInv, Bounded, SaidOf, Syncing, Waits
<1>4. \A f \in Documents \ overlap : SyncedInOrder(f)'
  BY <1>1 DEF DiagInv, SyncedInOrder, Alone, Latest, Newest, Answered, Told, SaidOf, Syncing, Waits
<1> QED
  BY <1>1, <1>2, <1>3, <1>4 DEF DiagInv

HIDE LspAssumption

-----------------------------------------------------------------------------
(* The services together: a behaviour is of one part, and takes its steps *)

LEMMA PartOfInit ==
  ASSUME ServicesInit
  PROVE  /\ part = "lint" => Lint!Init
         /\ part = "coverage" => Cov!Init
         /\ part = "verdict" => Gate!Init
         /\ part = "index" => Index(Threads, QueryFiles, QueryTree)!Init
         /\ part = "build" => Index(Starters, StartFiles, StartTree)!Init
         /\ part = "daemon" => Dmn!Init
         /\ part = "projects" => Prj!Init
         /\ part = "lsp" => Srv!Init
  BY DEF ServicesInit, PartInit

LEMMA PartOfNext ==
  ASSUME ServicesNext
  PROVE  /\ part' = part
         /\ part = "lint" => Lint!Next
         /\ part = "coverage" => Cov!Next
         /\ part = "verdict" => Gate!Next
         /\ part = "index" => Index(Threads, QueryFiles, QueryTree)!Next
         /\ part = "build" => Index(Starters, StartFiles, StartTree)!Next
         /\ part = "daemon" => Dmn!Next
         /\ part = "projects" => Prj!Next
         /\ part = "lsp" => Srv!Next
  BY DEF ServicesNext, PartNext

VerdictsInv ==
    /\ part = "lint" => LintInv
    /\ part = "coverage" => CovInv
    /\ part = "verdict" => GateInv

\* What the gates tell a run is about the run (lint.go, coverage.go, gates.go): no finding it
\* inherited fails it, an index that says it is ready has the rows of its tests, a pass is of
\* the tests the changes can reach, and no package is put down to a run that has not touched it.
THEOREM VerdictsAreEarned == ASSUME TestsSeen PROVE ServicesSpec => []VerdictsEarned
<1>1. ServicesInit => VerdictsInv
  BY PartOfInit, LintStarts, CovStarts, GateStarts DEF VerdictsInv
<1>2. VerdictsInv /\ [ServicesNext]_servicesVars => VerdictsInv'
  <2> SUFFICES ASSUME VerdictsInv, [ServicesNext]_servicesVars PROVE VerdictsInv'
    OBVIOUS
  <2>1. CASE ServicesNext
    BY <2>1, PartOfNext, LintNext, CovNext, GateNext, TestsSeen DEF VerdictsInv
  <2>2. CASE UNCHANGED servicesVars
    <3>1. ASSUME LintInv PROVE LintInv'
      BY <2>2, <3>1
      DEF servicesVars, lintVars, LintInv, LintTypes, BaselineHolds, Lint!InheritedSpared
    <3>2. ASSUME CovInv PROVE CovInv'
      BY <2>2, <3>2
      DEF servicesVars, coverageVars, CovInv, CovTypes, Accounted, Listed, RowsKept, Backed
    <3>3. ASSUME GateInv PROVE GateInv'
      BY <2>2, <3>3
      DEF servicesVars, gatesVars, GateInv, GateTypes, SelectionHolds, GatesPassed,
          Gate!Selected, Gate!CoveringTests, Gate!BrokenIsOwned
    <3>4. part' = part
      BY <2>2 DEF servicesVars
    <3> QED
      BY <3>1, <3>2, <3>3, <3>4 DEF VerdictsInv
  <2> QED
    BY <2>1, <2>2
<1>3. VerdictsInv => VerdictsEarned
  BY TestsSeen, CovReady, GatePasses DEF VerdictsInv, VerdictsEarned, LintInv, GateInv
<1> QED
  BY <1>1, <1>2, <1>3, PTL DEF ServicesSpec

IndexesInv ==
    /\ part = "index" => IndexInv(Threads, QueryFiles, QueryTree)
    /\ part = "build" => IndexInv(Starters, StartFiles, StartTree)

\* A query of the code index that neither says the index is being built nor that files were left
\* for later answers from the tree as it is, the first build reaches every file, and no query
\* waits for the graph to be built (indexer.go, index.go, edges.go).
THEOREM IndexIsCurrent == ServicesSpec => []IndexCurrent
<1> USE IndexAssumption DEF NoStart
<1>1. ServicesInit => IndexesInv
  BY PartOfInit, IndexStarts DEF IndexesInv
<1>2. IndexesInv /\ [ServicesNext]_servicesVars => IndexesInv'
  <2> SUFFICES ASSUME IndexesInv, [ServicesNext]_servicesVars PROVE IndexesInv'
    OBVIOUS
  <2>1. CASE ServicesNext
    BY <2>1, PartOfNext, IndexNext DEF IndexesInv
  <2>2. CASE UNCHANGED servicesVars
    BY <2>2, IndexStutters DEF servicesVars, IndexesInv
  <2> QED
    BY <2>1, <2>2
<1>3. IndexesInv => IndexCurrent
  BY IndexInvSound DEF IndexesInv, IndexCurrent
<1> QED
  BY <1>1, <1>2, <1>3, PTL DEF ServicesSpec

\* The diagnostics a caller gets from a language server are of the text it asked about, or of a
\* later one, unless two calls synced its file at once (lsp.go).
THEOREM DiagnosticsAreCurrent == ServicesSpec => []DiagnosticsCurrent
<1> DEFINE Inv == part = "lsp" => DiagInv
<1>1. ServicesInit => Inv
  BY PartOfInit, DiagStarts
<1>2. Inv /\ [ServicesNext]_servicesVars => Inv'
  <2> SUFFICES ASSUME Inv, [ServicesNext]_servicesVars PROVE Inv'
    OBVIOUS
  <2>1. CASE ServicesNext
    BY <2>1, PartOfNext, DiagNext
  <2>2. CASE UNCHANGED servicesVars
    BY <2>2, DiagStutters DEF servicesVars
  <2> QED
    BY <2>1, <2>2
<1>3. Inv => DiagnosticsCurrent
  BY DiagToldRight DEF DiagnosticsCurrent
<1> QED
  BY <1>1, <1>2, <1>3, PTL DEF ServicesSpec

ServersInv ==
    /\ part = "daemon" => SocketInv /\ ProgramInv
    /\ part = "projects" => ProjectInv
    /\ part = "lsp" => DiagInv

\* A daemon that serves is the one its socket leads to and its sweep kills what daemons that
\* are gone left running, that and nothing else (daemon.go, proc.go); a root has one project
\* and no model server outlives the daemon that started it (project.go, supervisor.go); a
\* workspace has one language server at a time (lsp.go).
THEOREM ServersAreSound == ServicesSpec => []ServersSound
<1>1. ServicesInit => ServersInv
  BY PartOfInit, SocketStarts, ProgramStarts, ProjectStarts, DiagStarts DEF ServersInv
<1>2. ServersInv /\ [ServicesNext]_servicesVars => ServersInv'
  <2> SUFFICES ASSUME ServersInv, [ServicesNext]_servicesVars PROVE ServersInv'
    OBVIOUS
  <2>1. CASE ServicesNext
    BY <2>1, PartOfNext, SocketNext, ProgramNext, ProjectNext, DiagNext DEF ServersInv
  <2>2. CASE UNCHANGED servicesVars
    <3>1. ASSUME SocketInv PROVE SocketInv'
      BY <2>2, <3>1
      DEF servicesVars, daemonVars, SocketInv, SocketTypes, OwnListener, OwnSocketNoted
    <3>2. ASSUME ProgramInv PROVE ProgramInv'
      BY <2>2, <3>2
      DEF servicesVars, daemonVars, ProgramInv, ProgramTypes, Accountable, OfDaemons,
          Dmn!SweepSound, Dmn!Entry, Dmn!Working, Dmn!Unwritten
    <3>3. ASSUME ProjectInv PROVE ProjectInv'
      BY <2>2, <3>3
      DEF servicesVars, projectsVars, ProjectInv, ProjectTypes, OneLoad, ServerKept, ServerClosed
    <3>4. ASSUME DiagInv PROVE DiagInv'
      BY <2>2, <3>4, DiagStutters DEF servicesVars
    <3>5. part' = part
      BY <2>2 DEF servicesVars
    <3> QED
      BY <3>1, <3>2, <3>3, <3>4, <3>5 DEF ServersInv
  <2> QED
    BY <2>1, <2>2
<1>3. ServersInv => ServersSound
  BY DaemonSafe, ProjectsSafe, DiagToldRight DEF ServersInv, ServersSound
<1> QED
  BY <1>1, <1>2, <1>3, PTL DEF ServicesSpec
=============================================================================

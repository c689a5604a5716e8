------------------------ MODULE WorkspacePurgeProofs ------------------------
(***************************************************************************)
(* Restore and destruction of workspaces, for any set of workspaces, any   *)
(* number of purge workers, any tables and any number of rows in each.     *)
(***************************************************************************)
EXTENDS WorkspacePurge, WellFoundedInduction, TLAPS

\* The destructive phase begins with the status purging and is never left; a
\* workspace in it is deleted, and only such a workspace loses its name.
RecordFits(w) ==
    /\ record[w].destructive <=> record[w].status \in {"purging", "complete", "failed"}
    /\ record[w].destructive => Deleted(w)
    /\ org[w].purged => record[w].destructive

\* Nothing is gone before the destructive phase; a table in completed_tables
\* is empty; members go only after the census, which counts all of them.
RowsFit(w) ==
    /\ ~record[w].destructive => \A t \in Store : rows[w][t] = MaxRows
    /\ \A t \in record[w].done : rows[w][t] = 0
    /\ record[w].counted => record[w].members = MaxRows
    /\ ~record[w].counted => rows[w]["auth"] = MaxRows
    /\ record[w].status = "complete" => org[w].purged /\ Store \subseteq record[w].done

\* Whoever holds the lock of a workspace is on a walk of it.
LockFits(w) ==
    lock[w] # NoWorker => worker[lock[w]].pc \in Walking /\ worker[lock[w]].ws = w

\* A walk holds the lock, its record says purging as long as it runs, and it
\* has behind it what comes before the point it has reached.
WalkFits(p) == worker[p].pc \in Walking =>
    /\ worker[p].ws \in Workspace /\ lock[worker[p].ws] = p
    /\ record[worker[p].ws].status = "purging"
    /\ worker[p].pc # "table" => Table \subseteq record[worker[p].ws].done
    /\ worker[p].pc \in {"auth_delete", "auth_mark"} => record[worker[p].ws].counted
    /\ worker[p].pc = "auth_mark" => rows[worker[p].ws]["auth"] = 0
    /\ worker[p].pc \in {"tombstone", "complete"} => "auth" \in record[worker[p].ws].done
    /\ worker[p].pc = "complete" => org[worker[p].ws].purged

Inv ==
    /\ TypeOK
    /\ \A w \in Workspace : RecordFits(w) /\ RowsFit(w) /\ LockFits(w)
    /\ \A p \in Worker : WalkFits(p)

\* A nonempty set of natural numbers has a least element.
LEMMA LeastNat ==
    ASSUME NEW S \in SUBSET Nat, S # {}
    PROVE  \E i \in S : \A j \in S : i <= j
<1> DEFINE Less == OpToRel(<, Nat)
<1>1. \A i, j \in Nat : j < i => <<j, i>> \in Less
  BY DEF OpToRel
<1>2. \E i \in S : \A j \in S : <<j, i>> \notin Less
  BY WFMin, NatLessThanWellFounded
<1> HIDE DEF Less
<1>3. PICK i \in S : \A j \in S : <<j, i>> \notin Less
  BY <1>2
<1>4. \A j \in S : ~ (j < i)
  BY <1>1, <1>3
<1> QED
  BY <1>4

\* While a table is left, the walk is at one: never at the members.
LEMMA NextTableIsLeft ==
    ASSUME NEW w \in Workspace, ~AllTablesDone(w)
    PROVE  NextTable(w) \in Table \ record[w].done /\ NextTable(w) # "auth"
<1> DEFINE left == {i \in DOMAIN TableOrder : TableOrder[i] \notin record[w].done}
<1>1. left \in SUBSET Nat /\ left # {}
  BY WorkspacePurgeAssumption DEF WorkspacePurgeAssumption, AllTablesDone, Table
<1>2. \E i \in left : \A j \in left : i <= j
  BY <1>1, LeastNat
<1>3. (CHOOSE i \in left : \A j \in left : i <= j) \in left
  BY <1>2
<1> HIDE DEF left
<1>4. NextTable(w) = TableOrder[CHOOSE i \in left : \A j \in left : i <= j]
  BY DEF NextTable, left
<1> QED
  BY <1>3, <1>4, WorkspacePurgeAssumption DEF WorkspacePurgeAssumption, Table, left

\* What the statements on an organization, a purge record and a worker make of
\* one of them is one again.
LEMMA RowUpdates ==
    /\ \A o \in Organization : /\ \A d \in 0 .. MaxDay : [o EXCEPT !.deletedAt = d] \in Organization
                               /\ [o EXCEPT !.purged = TRUE] \in Organization
    /\ \A r \in PurgeRecord :
         /\ \A s \in {"reported", "purging", "complete", "failed"} : [r EXCEPT !.status = s] \in PurgeRecord
         /\ \A T \in SUBSET Store : [r EXCEPT !.done = T] \in PurgeRecord
         /\ [r EXCEPT !.status = "purging", !.destructive = TRUE] \in PurgeRecord
         /\ \A n \in 0 .. MaxRows : [r EXCEPT !.members = n, !.counted = TRUE] \in PurgeRecord
    /\ \A s \in WorkerState :
         /\ \A c \in {"report", "destroy"} \cup Walking : [s EXCEPT !.pc = c] \in WorkerState
         /\ \A T \in SUBSET Workspace : [s EXCEPT !.todo = T] \in WorkerState
         /\ \A n \in 1 .. MaxAttempts : [s EXCEPT !.attempt = n] \in WorkerState
    /\ Idle \in WorkerState
<1>1. ASSUME NEW o \in Organization
      PROVE  /\ \A d \in 0 .. MaxDay : [o EXCEPT !.deletedAt = d] \in Organization
             /\ [o EXCEPT !.purged = TRUE] \in Organization
  BY DEF Organization
<1>2. ASSUME NEW r \in PurgeRecord
      PROVE  /\ \A s \in {"reported", "purging", "complete", "failed"} : [r EXCEPT !.status = s] \in PurgeRecord
             /\ \A T \in SUBSET Store : [r EXCEPT !.done = T] \in PurgeRecord
             /\ [r EXCEPT !.status = "purging", !.destructive = TRUE] \in PurgeRecord
             /\ \A n \in 0 .. MaxRows : [r EXCEPT !.members = n, !.counted = TRUE] \in PurgeRecord
  BY DEF PurgeRecord
<1>3. ASSUME NEW s \in WorkerState
      PROVE  /\ \A c \in {"report", "destroy"} \cup Walking : [s EXCEPT !.pc = c] \in WorkerState
             /\ \A T \in SUBSET Workspace : [s EXCEPT !.todo = T] \in WorkerState
             /\ \A n \in 1 .. MaxAttempts : [s EXCEPT !.attempt = n] \in WorkerState
  BY DEF WorkerState, Walking
<1>4. Idle \in WorkerState
  BY WorkspacePurgeAssumption DEF WorkspacePurgeAssumption, WorkerState, Idle
<1> QED
  BY <1>1, <1>2, <1>3, <1>4

\* At first nobody is deleted and nothing destroyed.
LEMMA PurgeInit == Init => Inv
<1> SUFFICES ASSUME Init PROVE Inv
  OBVIOUS
<1>1. TypeOK
  BY WorkspacePurgeAssumption
  DEF WorkspacePurgeAssumption, Init, TypeOK, Organization, PurgeRecord, WorkerState, NoRecord, Idle, Walking
<1>2. \A w \in Workspace : RecordFits(w) /\ RowsFit(w) /\ LockFits(w)
  BY DEF Init, RecordFits, RowsFit, LockFits, NoRecord, Store
<1>3. \A p \in Worker : WalkFits(p)
  BY DEF Init, WalkFits, Idle, Walking
<1> QED
  BY <1>1, <1>2, <1>3 DEF Inv

\* A step about one workspace that nobody walks: the walks go on undisturbed.
LEMMA WorkspaceStep ==
    ASSUME Inv, TypeOK', NEW w \in Workspace, lock[w] = NoWorker,
           \A v \in Workspace \ {w} : record'[v] = record[v] /\ org'[v] = org[v],
           rows' = rows, lock' = lock,
           \A p \in Worker : worker'[p].pc = worker[p].pc /\ worker'[p].ws = worker[p].ws,
           RecordFits(w)', RowsFit(w)'
    PROVE  Inv'
<1>1. \A p \in Worker : worker[p].pc \in Walking => worker[p].ws \in Workspace \ {w}
  BY WorkspacePurgeAssumption DEF WorkspacePurgeAssumption, Inv, WalkFits
<1>2. \A p \in Worker : WalkFits(p)'
  BY <1>1 DEF Inv, WalkFits
<1>3. \A v \in Workspace : LockFits(v)'
  BY DEF Inv, TypeOK, LockFits
<1>4. ASSUME NEW v \in Workspace \ {w} PROVE RecordFits(v)' /\ RowsFit(v)'
  BY DEF Inv, RecordFits, RowsFit, Deleted
<1> QED
  BY <1>2, <1>3, <1>4 DEF Inv

\* A step of one worker about one workspace, which is its own or nobody's: the
\* other walks and workspaces are not disturbed.
LEMMA WorkerStep ==
    ASSUME Inv, TypeOK', NEW p \in Worker, NEW w \in Workspace, lock[w] \in {p, NoWorker},
           worker[p].pc \in Walking => worker[p].ws = w,
           \A v \in Workspace \ {w} :
             record'[v] = record[v] /\ org'[v] = org[v] /\ rows'[v] = rows[v] /\ lock'[v] = lock[v],
           \A q \in Worker \ {p} : worker'[q] = worker[q],
           lock'[w] \in {p, NoWorker},
           RecordFits(w)', RowsFit(w)', LockFits(w)', WalkFits(p)'
    PROVE  Inv'
<1>1. \A q \in Worker \ {p} : worker[q].pc \in Walking => worker[q].ws \in Workspace \ {w}
  BY WorkspacePurgeAssumption DEF WorkspacePurgeAssumption, Inv, WalkFits
<1>2. \A q \in Worker \ {p} : WalkFits(q)'
  BY <1>1 DEF Inv, WalkFits
<1>3. ASSUME NEW v \in Workspace \ {w} PROVE LockFits(v)'
  <2>1. lock[v] # NoWorker => lock[v] \in Worker \ {p}
    BY DEF Inv, TypeOK, LockFits
  <2> QED
    BY <2>1 DEF Inv, LockFits
<1>4. ASSUME NEW v \in Workspace \ {w} PROVE RecordFits(v)' /\ RowsFit(v)'
  BY DEF Inv, RecordFits, RowsFit, Deleted
<1> QED
  BY <1>2, <1>3, <1>4 DEF Inv

\* A soft deletion, a restore and a resumed failure leave the invariant true.
LEMMA OperatorSteps ==
    ASSUME Inv, NEW w \in Workspace, DeleteWorkspace(w) \/ RestoreWorkspace(w) \/ ResumeFailed(w)
    PROVE  Inv'
<1>1. ASSUME record[w].status # "purging" PROVE lock[w] = NoWorker
  BY <1>1 DEF Inv, TypeOK, LockFits, WalkFits
<1>2. TypeOK /\ RecordFits(w) /\ RowsFit(w)
  BY DEF Inv
<1>3. CASE DeleteWorkspace(w)
  <2>1. TypeOK'
    <3>1. day \in 0 .. MaxDay
      BY <1>2, WorkspacePurgeAssumption DEF WorkspacePurgeAssumption, TypeOK
    <3> QED
      BY <1>3, <1>2, <3>1, RowUpdates DEF DeleteWorkspace, TypeOK
  <2>2. RecordFits(w)' /\ RowsFit(w)'
    BY <1>3, <1>2 DEF DeleteWorkspace, TypeOK, RecordFits, RowsFit, Deleted
  <2>3. lock[w] = NoWorker
    BY <1>1, <1>2, <1>3 DEF DeleteWorkspace, RecordFits
  <2> QED
    BY <1>3, <2>1, <2>2, <2>3, WorkspaceStep DEF DeleteWorkspace, Inv, TypeOK
<1>4. CASE RestoreWorkspace(w)
  <2>1. TypeOK'
    <3>1. 0 \in 0 .. MaxDay
      BY WorkspacePurgeAssumption DEF WorkspacePurgeAssumption
    <3> QED
      BY <1>4, <1>2, <3>1, RowUpdates DEF RestoreWorkspace, TypeOK
  <2>2. RecordFits(w)' /\ RowsFit(w)'
    BY <1>4, <1>2 DEF RestoreWorkspace, Restorable, TypeOK, RecordFits, RowsFit, Deleted
  <2> QED
    BY <1>4, <2>1, <2>2, WorkspaceStep DEF RestoreWorkspace, Inv, TypeOK
<1>5. CASE ResumeFailed(w)
  <2>1. TypeOK'
    BY <1>5, <1>2, RowUpdates DEF ResumeFailed, TypeOK
  <2>2. RecordFits(w)' /\ RowsFit(w)'
    BY <1>5, <1>2 DEF ResumeFailed, TypeOK, RecordFits, RowsFit, Deleted
  <2>3. lock[w] = NoWorker
    BY <1>1, <1>5 DEF ResumeFailed
  <2> QED
    BY <1>5, <2>1, <2>2, <2>3, WorkspaceStep DEF ResumeFailed, Inv, TypeOK
<1> QED
  BY <1>3, <1>4, <1>5

\* A step of a worker between its walks that changes nothing but the worker.
LEMMA QuietStep ==
    ASSUME Inv, NEW p \in Worker, NEW s \in WorkerState,
           worker[p].pc \notin Walking, s.pc \notin Walking,
           worker' = [worker EXCEPT ![p] = s],
           UNCHANGED <<org, record, rows, lock, day>>
    PROVE  Inv'
<1>1. TypeOK'
  BY DEF Inv, TypeOK
<1>2. \A q \in Worker : WalkFits(q)'
  BY DEF Inv, TypeOK, WalkFits
<1>3. \A w \in Workspace : LockFits(w)'
  BY DEF Inv, TypeOK, LockFits
<1>4. \A w \in Workspace : RecordFits(w)' /\ RowsFit(w)'
  BY DEF Inv, RecordFits, RowsFit, Deleted
<1> QED
  BY <1>1, <1>2, <1>3, <1>4 DEF Inv

\* The steps of a tick up to the lock of a workspace leave the invariant true.
LEMMA TickSteps ==
    ASSUME Inv, NEW p \in Worker, TickStep(p)
    PROVE  Inv'
<1>1. TypeOK /\ worker[p] \in WorkerState /\ Idle \in WorkerState /\ Idle.pc \notin Walking
  BY RowUpdates DEF Inv, TypeOK, Idle, Walking
<1>2. ASSUME NEW w \in Workspace, worker[p].pc \in {"destroy", "report"}, Skip(p, w),
             UNCHANGED <<org, record, rows, lock, day>>
      PROVE  Inv'
  <2> DEFINE s == [worker[p] EXCEPT !.todo = @ \ {w}]
  <2>1. worker[p].todo \ {w} \in SUBSET Workspace
    BY <1>1 DEF WorkerState
  <2>2. s \in WorkerState /\ s.pc = worker[p].pc /\ worker' = [worker EXCEPT ![p] = s]
    BY <1>1, <1>2, <2>1, RowUpdates DEF Skip, WorkerState
  <2>3. s.pc \notin Walking /\ worker[p].pc \notin Walking
    BY <1>2, <2>2 DEF Walking
  <2> QED
    BY <1>2, <2>2, <2>3, QuietStep
<1>3. CASE Tick(p)
  <2> DEFINE s == [Idle EXCEPT !.pc = "destroy", !.todo = {w \in Workspace : Destructible(w)}]
  <2>1. s \in WorkerState /\ s.pc \notin Walking /\ worker[p].pc \notin Walking
    BY <1>1, <1>3 DEF Tick, Idle, Walking, WorkerState
  <2> QED
    BY <1>3, <2>1, QuietStep DEF Tick
<1>4. CASE BeginReport(p)
  <2> DEFINE s == [worker[p] EXCEPT !.pc = "report", !.todo = {w \in Workspace : Eligible(w)}]
  <2>1. s \in WorkerState /\ s.pc \notin Walking /\ worker[p].pc \notin Walking
    BY <1>1, <1>4 DEF BeginReport, Walking, WorkerState
  <2>2. worker' = [worker EXCEPT ![p] = s]
    BY <1>4 DEF BeginReport
  <2> QED
    BY <1>4, <2>1, <2>2, QuietStep DEF BeginReport
<1>5. CASE EndTick(p)
  BY <1>1, <1>5, QuietStep DEF EndTick, Walking
<1>6. ASSUME NEW w \in Workspace, ReportWorkspaceForPurge(p, w) PROVE Inv'
  <2>1. CASE record[w].status # "none"
    BY <1>2, <1>6, <2>1 DEF ReportWorkspaceForPurge
  <2>2. CASE record[w].status = "none"
    <3>1. lock[w] = NoWorker /\ RecordFits(w) /\ RowsFit(w)
      BY <2>2 DEF Inv, TypeOK, LockFits, WalkFits
    <3>2. /\ record' = [record EXCEPT ![w].status = "reported"]
          /\ worker' = [worker EXCEPT ![p].todo = @ \ {w}]
          /\ UNCHANGED <<org, rows, lock, day>>
      BY <1>6, <2>2 DEF ReportWorkspaceForPurge, Skip
    <3>3. worker[p].todo \ {w} \in SUBSET Workspace
      BY <1>1 DEF WorkerState
    <3>4. TypeOK'
      BY <1>1, <3>2, <3>3, RowUpdates DEF TypeOK
    <3>5. RecordFits(w)' /\ RowsFit(w)'
      BY <1>1, <2>2, <3>1, <3>2 DEF TypeOK, PurgeRecord, RecordFits, RowsFit, Deleted
    <3>6. \A q \in Worker : worker'[q].pc = worker[q].pc /\ worker'[q].ws = worker[q].ws
      BY <1>1, <3>2 DEF TypeOK, WorkerState
    <3>7. \A v \in Workspace \ {w} : record'[v] = record[v] /\ org'[v] = org[v]
      BY <1>1, <3>2 DEF TypeOK
    <3> QED
      BY <3>1, <3>2, <3>4, <3>5, <3>6, <3>7, WorkspaceStep
  <2> QED
    BY <2>1, <2>2
<1>7. ASSUME NEW w \in Workspace, BeginWalk(p, w) PROVE Inv'
  <2>1. CASE lock[w] # NoWorker \/ ~Destructible(w)
    BY <1>2, <1>7, <2>1 DEF BeginWalk
  <2>2. CASE lock[w] = NoWorker /\ Destructible(w) /\ ~Deleted(w)
    <3>1. record[w].status = "reported" /\ ~record[w].destructive
      BY <2>2 DEF Inv, RecordFits, Destructible
    <3> QED
      BY <1>2, <1>7, <2>2, <3>1 DEF BeginWalk
  <2>3. CASE lock[w] = NoWorker /\ Destructible(w) /\ Deleted(w)
    <3>1. /\ worker[p].pc = "destroy"
          /\ lock' = [lock EXCEPT ![w] = p]
          /\ record' = [record EXCEPT ![w].status = "purging", ![w].destructive = TRUE]
          /\ worker' = [worker EXCEPT ![p].pc = "table", ![p].ws = w,
                                      ![p].todo = @ \ {w}, ![p].attempt = 1]
          /\ UNCHANGED <<org, rows, day>>
      BY <1>7, <2>3 DEF BeginWalk
    <3>2. /\ worker'[p] \in WorkerState /\ worker'[p].pc = "table" /\ worker'[p].ws = w
          /\ worker' = [worker EXCEPT ![p] = worker'[p]]
      <4> DEFINE s == [worker[p] EXCEPT !.pc = "table", !.ws = w, !.todo = @ \ {w}, !.attempt = 1]
      <4>1. worker' = [worker EXCEPT ![p] = s] /\ worker'[p] = s
        BY <1>1, <3>1 DEF TypeOK
      <4>2. 1 \in 1 .. MaxAttempts
        BY WorkspacePurgeAssumption DEF WorkspacePurgeAssumption
      <4>3. s \in WorkerState /\ s.pc = "table" /\ s.ws = w
        BY <1>1, <4>2 DEF WorkerState, Walking
      <4> QED
        BY <4>1, <4>3
    <3>3. /\ record'[w] = [record[w] EXCEPT !.status = "purging", !.destructive = TRUE]
          /\ record' = [record EXCEPT ![w] = record'[w]]
      BY <1>1, <3>1 DEF TypeOK
    <3>4. TypeOK'
      BY <1>1, <3>1, <3>2, <3>3, RowUpdates DEF TypeOK
    <3>5. RecordFits(w) /\ RowsFit(w)
      BY DEF Inv
    <3>6. RecordFits(w)' /\ RowsFit(w)'
      BY <1>1, <2>3, <3>1, <3>3, <3>5 DEF TypeOK, PurgeRecord, RecordFits, RowsFit, Deleted, Destructible
    <3>7. LockFits(w)' /\ WalkFits(p)'
      BY <1>1, <3>1, <3>2, <3>3 DEF TypeOK, PurgeRecord, LockFits, WalkFits, Walking
    <3>8. worker[p].pc \notin Walking
      BY <3>1 DEF Walking
    <3>9. /\ \A v \in Workspace \ {w} :
               record'[v] = record[v] /\ org'[v] = org[v] /\ rows'[v] = rows[v] /\ lock'[v] = lock[v]
          /\ \A q \in Worker \ {p} : worker'[q] = worker[q]
          /\ lock'[w] = p
      BY <1>1, <3>1, <3>2, <3>3 DEF TypeOK
    <3> QED
      BY <2>3, <3>4, <3>6, <3>7, <3>8, <3>9, WorkerStep
  <2> QED
    BY <2>1, <2>2, <2>3
<1> QED
  BY <1>3, <1>4, <1>5, <1>6, <1>7 DEF TickStep

\* What holds of a worker on a walk and of its workspace.
LEMMA OnWalk ==
    ASSUME Inv, NEW p \in Worker, worker[p].pc \in Walking
    PROVE  \E w \in Workspace :
             /\ w = worker[p].ws /\ lock[w] = p /\ p # NoWorker
             /\ record[w].status = "purging" /\ record[w].destructive
             /\ record[w] \in PurgeRecord /\ rows[w] \in [Store -> 0 .. MaxRows]
             /\ org[w] \in Organization /\ worker[p] \in WorkerState
             /\ RecordFits(w) /\ RowsFit(w) /\ LockFits(w) /\ WalkFits(p)
<1>1. TypeOK /\ WalkFits(p)
  BY DEF Inv
<1>2. PICK w \in Workspace : w = worker[p].ws /\ lock[w] = p /\ record[w].status = "purging"
  BY <1>1 DEF WalkFits
<1>3. RecordFits(w) /\ RowsFit(w) /\ LockFits(w) /\ record[w].destructive
  BY <1>2 DEF Inv, RecordFits
<1>4. /\ record[w] \in PurgeRecord /\ rows[w] \in [Store -> 0 .. MaxRows]
      /\ org[w] \in Organization /\ worker[p] \in WorkerState /\ p # NoWorker
  BY <1>1, WorkspacePurgeAssumption DEF WorkspacePurgeAssumption, TypeOK
<1> QED
  BY <1>1, <1>2, <1>3, <1>4

\* A step of a walk: it writes nothing but its worker and what belongs to its
\* workspace.
Touches(p, w) ==
    /\ record' = [record EXCEPT ![w] = record'[w]] /\ record'[w] \in PurgeRecord
    /\ rows' = [rows EXCEPT ![w] = rows'[w]] /\ rows'[w] \in [Store -> 0 .. MaxRows]
    /\ org' = [org EXCEPT ![w] = org'[w]] /\ org'[w] \in Organization
    /\ lock' = [lock EXCEPT ![w] = lock'[w]] /\ lock'[w] \in {p, NoWorker}
    /\ worker' = [worker EXCEPT ![p] = worker'[p]] /\ worker'[p] \in WorkerState
    /\ day' = day

\* Such a step preserves the invariant if it does so of its workspace and its
\* own walk.
LEMMA WalkerStep ==
    ASSUME Inv, NEW p \in Worker, worker[p].pc \in Walking, NEW w \in Workspace, w = worker[p].ws,
           Touches(p, w), RecordFits(w)', RowsFit(w)', LockFits(w)', WalkFits(p)'
    PROVE  Inv'
<1>1. TypeOK /\ lock[w] = p
  BY OnWalk DEF Inv
<1>2. TypeOK'
  <2>1. record' \in [Workspace -> PurgeRecord]
    BY <1>1 DEF TypeOK, Touches
  <2>2. org' \in [Workspace -> Organization]
    BY <1>1 DEF TypeOK, Touches
  <2>3. rows' \in [Workspace -> [Store -> 0 .. MaxRows]]
    <3> DEFINE Counts == [Store -> 0 .. MaxRows]
    <3>1. rows \in [Workspace -> Counts] /\ rows' = [rows EXCEPT ![w] = rows'[w]] /\ rows'[w] \in Counts
      BY <1>1 DEF TypeOK, Touches
    <3> HIDE DEF Counts
    <3>2. rows' \in [Workspace -> Counts]
      BY <3>1
    <3> QED
      BY <3>2 DEF Counts
  <2>4. lock' \in [Workspace -> Worker \cup {NoWorker}]
    BY <1>1 DEF TypeOK, Touches
  <2>5. worker' \in [Worker -> WorkerState] /\ day' \in 1 .. MaxDay
    BY <1>1 DEF TypeOK, Touches
  <2> QED
    BY <2>1, <2>2, <2>3, <2>4, <2>5 DEF TypeOK
<1>3. /\ \A v \in Workspace \ {w} :
           record'[v] = record[v] /\ org'[v] = org[v] /\ rows'[v] = rows[v] /\ lock'[v] = lock[v]
      /\ \A q \in Worker \ {p} : worker'[q] = worker[q]
      /\ lock'[w] \in {p, NoWorker}
  BY <1>1 DEF TypeOK, Touches
<1> QED
  BY <1>1, <1>2, <1>3, WorkerStep

\* What a step of a walk does not write stays as it is.
LEMMA Unwritten ==
    ASSUME TypeOK, NEW w \in Workspace, NEW p \in Worker
    PROVE  /\ record = [record EXCEPT ![w] = record[w]] /\ record[w] \in PurgeRecord
           /\ rows = [rows EXCEPT ![w] = rows[w]] /\ rows[w] \in [Store -> 0 .. MaxRows]
           /\ org = [org EXCEPT ![w] = org[w]] /\ org[w] \in Organization
           /\ lock = [lock EXCEPT ![w] = lock[w]]
           /\ worker = [worker EXCEPT ![p] = worker[p]] /\ worker[p] \in WorkerState
  BY DEF TypeOK

\* A walk that ends without a result: the record says failed, or what it said.
LEMMA WalkEnds ==
    ASSUME Inv, NEW p \in Worker, worker[p].pc \in Walking,
           record' \in {record, Failed(worker[p].ws)}, worker' = [worker EXCEPT ![p] = Idle],
           lock' = [lock EXCEPT ![worker[p].ws] = NoWorker], UNCHANGED <<org, rows, day>>
    PROVE  Inv'
<1>1. PICK w \in Workspace :
             /\ w = worker[p].ws /\ lock[w] = p /\ p # NoWorker
             /\ record[w].status = "purging" /\ record[w].destructive
             /\ record[w] \in PurgeRecord /\ rows[w] \in [Store -> 0 .. MaxRows]
             /\ org[w] \in Organization /\ worker[p] \in WorkerState
             /\ RecordFits(w) /\ RowsFit(w) /\ LockFits(w) /\ WalkFits(p)
  BY OnWalk
<1>t. TypeOK
  BY DEF Inv
<1> DEFINE f == [record[w] EXCEPT !.status = "failed"]
<1>2. /\ f \in PurgeRecord /\ f.status = "failed" /\ f.destructive = record[w].destructive
      /\ f.done = record[w].done /\ f.counted = record[w].counted /\ f.members = record[w].members
  BY <1>1, RowUpdates, ZenonT(40) DEF PurgeRecord
<1>3. /\ record' = [record EXCEPT ![w] = record'[w]]
      /\ record'[w] = record[w] \/ record'[w] = f
  BY <1>t, <1>1, Unwritten DEF TypeOK, Failed
<1> HIDE DEF f
<1>4. Idle \in WorkerState /\ Idle.pc \notin Walking
  BY RowUpdates DEF Idle, Walking
<1>5. /\ lock' = [lock EXCEPT ![w] = lock'[w]] /\ lock'[w] = NoWorker
      /\ worker' = [worker EXCEPT ![p] = worker'[p]] /\ worker'[p] = Idle
  BY <1>t, <1>1 DEF TypeOK
<1>6. Touches(p, w)
  <2>1. /\ rows' = [rows EXCEPT ![w] = rows'[w]] /\ rows'[w] \in [Store -> 0 .. MaxRows]
        /\ org' = [org EXCEPT ![w] = org'[w]] /\ org'[w] \in Organization /\ day' = day
    BY <1>t, Unwritten
  <2>2. record'[w] \in PurgeRecord /\ worker'[p] \in WorkerState /\ lock'[w] \in {p, NoWorker}
    BY <1>1, <1>2, <1>3, <1>4, <1>5
  <2> QED
    BY <1>3, <1>5, <2>1, <2>2 DEF Touches
<1>7. RecordFits(w)' /\ RowsFit(w)'
  <2>1. /\ record'[w].status \in {"purging", "failed"} /\ record'[w].destructive = record[w].destructive
        /\ record'[w].done = record[w].done /\ record'[w].counted = record[w].counted
        /\ record'[w].members = record[w].members
    BY <1>1, <1>2, <1>3
  <2>2. RecordFits(w)'
    BY <1>1, <2>1 DEF RecordFits, Deleted
  <2>3. RowsFit(w)'
    BY <1>1, <2>1 DEF RowsFit
  <2> QED
    BY <2>2, <2>3
<1>8. LockFits(w)' /\ WalkFits(p)'
  BY <1>4, <1>5 DEF LockFits, WalkFits
<1> QED
  BY <1>1, <1>6, <1>7, <1>8, WalkerStep

\* Every step of a walk leaves the invariant true.
LEMMA WalkSteps ==
    ASSUME Inv, NEW p \in Worker, WalkStep(p)
    PROVE  Inv'
<1>t. TypeOK /\ worker[p].pc \in Walking
  BY DEF Inv, TypeOK, WalkStep, DeletePage, FinishTable, BeginAuth, RecordAuthPurgeCounts,
         DeleteWorkspaceAuthRows, MarkAuthDone, TombstoneOrganization, MarkPurgeComplete, Walking
<1>1. PICK w \in Workspace :
             /\ w = worker[p].ws /\ lock[w] = p /\ p # NoWorker
             /\ record[w].status = "purging" /\ record[w].destructive
             /\ record[w] \in PurgeRecord /\ rows[w] \in [Store -> 0 .. MaxRows]
             /\ org[w] \in Organization /\ worker[p] \in WorkerState
             /\ RecordFits(w) /\ RowsFit(w) /\ LockFits(w) /\ WalkFits(p)
  BY <1>t, OnWalk
<1>2. CASE DeletePage(p)
  <2>1. /\ worker[p].pc = "table" /\ ~AllTablesDone(w)
        /\ \E n \in 1 .. rows[w][NextTable(w)] : rows' = [rows EXCEPT ![w][NextTable(w)] = @ - n]
        /\ UNCHANGED <<org, record, lock, worker, day>>
    BY <1>1, <1>2, ZenonT(40) DEF DeletePage
  <2>2. PICK t \in Table \ record[w].done : t = NextTable(w) /\ t # "auth"
    BY <2>1, NextTableIsLeft
  <2>3. PICK n \in 1 .. rows[w][t] : rows' = [rows EXCEPT ![w][t] = @ - n]
    BY <2>1, <2>2
  <2> DEFINE R == [rows[w] EXCEPT ![t] = @ - n]
  <2>4. rows' = [rows EXCEPT ![w] = R] /\ rows'[w] = R
    BY <1>t, <2>3 DEF TypeOK
  <2>5. rows[w][t] - n \in 0 .. MaxRows
    <3>1. rows[w][t] \in 0 .. MaxRows /\ MaxRows \in Nat
      BY <1>1, <2>2, WorkspacePurgeAssumption DEF WorkspacePurgeAssumption, Store
    <3> QED
      BY <2>3, <3>1
  <2>6. R \in [Store -> 0 .. MaxRows] /\ \A u \in Store \ {t} : R[u] = rows[w][u]
    BY <1>1, <2>5
  <2>7. RecordFits(w)' /\ LockFits(w)' /\ WalkFits(p)'
    <3>1. WalkFits(p)'
      BY <1>1, <2>1 DEF WalkFits
    <3> QED
      BY <1>1, <2>1, <3>1 DEF RecordFits, LockFits, Deleted
  <2>8. RowsFit(w)'
    <3>1. \A u \in record[w].done \cup {"auth"} : rows'[w][u] = rows[w][u]
      BY <1>1, <2>2, <2>4, <2>6 DEF PurgeRecord, Store
    <3> QED
      BY <1>1, <2>1, <3>1 DEF RowsFit
  <2>9. Touches(p, w)
    BY <1>t, <1>1, <2>1, <2>4, <2>6, Unwritten, ZenonT(40) DEF Touches
  <2> QED
    BY <1>t, <1>1, <2>7, <2>8, <2>9, WalkerStep
<1>3. CASE FinishTable(p)
  <2>1. worker[p].pc = "table" /\ ~AllTablesDone(w) /\ UNCHANGED <<org, rows, day>>
    BY <1>1, <1>3 DEF FinishTable
  <2>2. PICK t \in Table \ record[w].done : t = NextTable(w) /\ t # "auth"
    BY <2>1, NextTableIsLeft
  <2>4. CASE rows[w][t] = 0
    <3> DEFINE r == [record[w] EXCEPT !.done = @ \cup {t}]
               s == [worker[p] EXCEPT !.attempt = 1]
    <3>1. /\ record' = [record EXCEPT ![w].done = @ \cup {t}]
          /\ worker' = [worker EXCEPT ![p].attempt = 1]
          /\ lock' = lock
      BY <1>1, <1>3, <2>2, <2>4 DEF FinishTable, TableEmpty
    <3>2. /\ record' = [record EXCEPT ![w] = r] /\ worker' = [worker EXCEPT ![p] = s]
          /\ record'[w] = r /\ worker'[p] = s
      BY <1>t, <3>1 DEF TypeOK
    <3>3. r \in PurgeRecord /\ s \in WorkerState
      <4>1. 1 \in 1 .. MaxAttempts /\ record[w].done \cup {t} \in SUBSET Store
        BY <1>1, <2>2, WorkspacePurgeAssumption DEF WorkspacePurgeAssumption, PurgeRecord, Store
      <4> QED
        BY <1>1, <4>1, RowUpdates
    <3>4. /\ r.done = record[w].done \cup {t} /\ r.status = record[w].status /\ r.members = record[w].members
          /\ r.destructive = record[w].destructive /\ r.counted = record[w].counted
          /\ s.pc = worker[p].pc /\ s.ws = worker[p].ws
      BY <1>1 DEF PurgeRecord, WorkerState
    <3> HIDE DEF r, s
    <3>5. RecordFits(w)' /\ RowsFit(w)'
      BY <1>1, <2>1, <2>4, <3>2, <3>4 DEF RecordFits, RowsFit, Deleted
    <3>6. LockFits(w)' /\ WalkFits(p)'
      BY <1>1, <2>1, <3>1, <3>2, <3>4 DEF LockFits, WalkFits
    <3>7. Touches(p, w)
      BY <1>t, <1>1, <2>1, <3>1, <3>2, <3>3, Unwritten DEF Touches
    <3> QED
      BY <1>t, <1>1, <3>5, <3>6, <3>7, WalkerStep
  <2>5. CASE rows[w][t] # 0 /\ worker[p].attempt < MaxAttempts
    <3> DEFINE s == [worker[p] EXCEPT !.attempt = @ + 1]
    <3>1. worker' = [worker EXCEPT ![p].attempt = @ + 1] /\ UNCHANGED <<record, lock>>
      BY <1>1, <1>3, <2>2, <2>5 DEF FinishTable, TableEmpty
    <3>2. worker' = [worker EXCEPT ![p] = s] /\ worker'[p] = s
      BY <1>t, <3>1 DEF TypeOK
    <3>3. s \in WorkerState /\ s.pc = worker[p].pc /\ s.ws = worker[p].ws
      <4>1. worker[p].attempt + 1 \in 1 .. MaxAttempts
        BY <1>1, <2>5, WorkspacePurgeAssumption DEF WorkspacePurgeAssumption, WorkerState
      <4> QED
        BY <1>1, <4>1, RowUpdates DEF WorkerState
    <3> HIDE DEF s
    <3>4. RecordFits(w)' /\ RowsFit(w)' /\ LockFits(w)' /\ WalkFits(p)'
      BY <1>1, <2>1, <3>1, <3>2, <3>3 DEF RecordFits, RowsFit, LockFits, WalkFits, Deleted
    <3>5. Touches(p, w)
      BY <1>t, <1>1, <2>1, <3>1, <3>2, <3>3, Unwritten DEF Touches
    <3> QED
      BY <1>t, <1>1, <3>4, <3>5, WalkerStep
  <2>6. CASE rows[w][t] # 0 /\ ~(worker[p].attempt < MaxAttempts)
    BY <1>t, <1>1, <1>3, <2>1, <2>2, <2>6, WalkEnds DEF FinishTable, TableEmpty
  <2> QED
    BY <2>4, <2>5, <2>6
<1>4. CASE BeginAuth(p)
  <2> DEFINE s == [worker[p] EXCEPT !.pc = IF "auth" \in record[w].done THEN "tombstone" ELSE "auth_count"]
  <2>1. /\ worker[p].pc = "table" /\ Table \subseteq record[w].done
        /\ worker' = [worker EXCEPT ![p] = s] /\ worker'[p] = s
        /\ UNCHANGED <<org, record, rows, lock, day>>
    BY <1>t, <1>1, <1>4 DEF BeginAuth, AllTablesDone, TypeOK
  <2>2. /\ s \in WorkerState /\ s.ws = w
        /\ s.pc = IF "auth" \in record[w].done THEN "tombstone" ELSE "auth_count"
    BY <1>1, RowUpdates DEF WorkerState, Walking
  <2> HIDE DEF s
  <2>3. Touches(p, w)
    BY <1>t, <1>1, <2>1, <2>2, Unwritten DEF Touches
  <2>4. RecordFits(w)' /\ RowsFit(w)' /\ LockFits(w)' /\ WalkFits(p)'
    BY <1>1, <2>1, <2>2 DEF RecordFits, RowsFit, LockFits, WalkFits, Deleted, Walking
  <2> QED
    BY <1>t, <1>1, <2>3, <2>4, WalkerStep
<1>5. CASE RecordAuthPurgeCounts(p)
  <2> DEFINE n == MembersRecorded(w, rows[w]["auth"])
             r == [record[w] EXCEPT !.members = n, !.counted = TRUE]
             s == [worker[p] EXCEPT !.pc = "auth_delete"]
  <2>1. /\ worker[p].pc = "auth_count"
        /\ record' = [record EXCEPT ![w] = r] /\ record'[w] = r
        /\ worker' = [worker EXCEPT ![p] = s] /\ worker'[p] = s
        /\ UNCHANGED <<org, rows, lock, day>>
    BY <1>t, <1>1, <1>5 DEF RecordAuthPurgeCounts, TypeOK
  <2>2. n = MaxRows
    BY <1>1 DEF MembersRecorded, RowsFit
  <2>3. n \in 0 .. MaxRows
    BY <2>2, WorkspacePurgeAssumption DEF WorkspacePurgeAssumption
  <2> HIDE DEF n
  <2>4. /\ r \in PurgeRecord /\ r.members = n /\ r.counted /\ r.done = record[w].done
        /\ r.status = record[w].status /\ r.destructive = record[w].destructive
    BY <1>1, <2>3, RowUpdates, ZenonT(40) DEF PurgeRecord
  <2>5. s \in WorkerState /\ s.ws = w /\ s.pc = "auth_delete"
    BY <1>1, RowUpdates DEF WorkerState, Walking
  <2> HIDE DEF r, s
  <2>6. Touches(p, w)
    BY <1>t, <1>1, <2>1, <2>4, <2>5, Unwritten DEF Touches
  <2>7. RecordFits(w)' /\ RowsFit(w)' /\ LockFits(w)' /\ WalkFits(p)'
    <3>1. RecordFits(w)' /\ RowsFit(w)'
      BY <1>1, <2>1, <2>2, <2>4, <2>5 DEF RecordFits, RowsFit, Deleted
    <3>2. LockFits(w)' /\ WalkFits(p)'
      BY <1>1, <2>1, <2>2, <2>4, <2>5 DEF LockFits, WalkFits, Walking
    <3> QED
      BY <3>1, <3>2
  <2> QED
    BY <1>t, <1>1, <2>6, <2>7, WalkerStep
<1>6. CASE DeleteWorkspaceAuthRows(p)
  <2> DEFINE R == [rows[w] EXCEPT !["auth"] = 0]
             s == [worker[p] EXCEPT !.pc = "auth_mark"]
  <2>1. /\ worker[p].pc = "auth_delete"
        /\ rows' = [rows EXCEPT ![w] = R] /\ rows'[w] = R
        /\ worker' = [worker EXCEPT ![p] = s] /\ worker'[p] = s
        /\ UNCHANGED <<org, record, lock, day>>
    BY <1>t, <1>1, <1>6 DEF DeleteWorkspaceAuthRows, TypeOK
  <2>2. /\ R \in [Store -> 0 .. MaxRows] /\ R["auth"] = 0
        /\ \A u \in Store : R[u] \in {0, rows[w][u]}
    BY <1>1, WorkspacePurgeAssumption DEF WorkspacePurgeAssumption, Store
  <2>3. s \in WorkerState /\ s.ws = w /\ s.pc = "auth_mark"
    BY <1>1, RowUpdates DEF WorkerState, Walking
  <2> HIDE DEF R, s
  <2>4. Touches(p, w)
    BY <1>t, <1>1, <2>1, <2>2, <2>3, Unwritten DEF Touches
  <2>5. record[w].counted /\ Table \subseteq record[w].done
    BY <1>1, <2>1 DEF WalkFits, Walking
  <2>6. RowsFit(w)'
    BY <1>1, <2>1, <2>2, <2>5 DEF RowsFit, PurgeRecord
  <2>7. RecordFits(w)' /\ LockFits(w)' /\ WalkFits(p)'
    BY <1>1, <2>1, <2>2, <2>3, <2>5 DEF RecordFits, LockFits, WalkFits, Deleted, Walking
  <2> QED
    BY <1>t, <1>1, <2>4, <2>6, <2>7, WalkerStep
<1>7. CASE MarkAuthDone(p)
  <2> DEFINE r == [record[w] EXCEPT !.done = @ \cup {"auth"}]
             s == [worker[p] EXCEPT !.pc = "tombstone"]
  <2>1. /\ worker[p].pc = "auth_mark"
        /\ record' = [record EXCEPT ![w] = r] /\ record'[w] = r
        /\ worker' = [worker EXCEPT ![p] = s] /\ worker'[p] = s
        /\ UNCHANGED <<org, rows, lock, day>>
    BY <1>t, <1>1, <1>7 DEF MarkAuthDone, TypeOK
  <2>2. record[w].done \cup {"auth"} \in SUBSET Store
    BY <1>1 DEF PurgeRecord, Store
  <2>3. /\ r \in PurgeRecord /\ r.done = record[w].done \cup {"auth"} /\ r.counted = record[w].counted
        /\ r.members = record[w].members
        /\ r.status = record[w].status /\ r.destructive = record[w].destructive
    BY <1>1, <2>2, RowUpdates, ZenonT(40) DEF PurgeRecord
  <2>4. s \in WorkerState /\ s.ws = w /\ s.pc = "tombstone"
    BY <1>1, RowUpdates DEF WorkerState, Walking
  <2> HIDE DEF r, s
  <2>5. Touches(p, w)
    BY <1>t, <1>1, <2>1, <2>3, <2>4, Unwritten DEF Touches
  <2>6. Table \subseteq record[w].done /\ rows[w]["auth"] = 0
    BY <1>1, <2>1 DEF WalkFits, Walking
  <2>7. RecordFits(w)' /\ RowsFit(w)' /\ LockFits(w)' /\ WalkFits(p)'
    <3>1. RecordFits(w)' /\ RowsFit(w)'
      BY <1>1, <2>1, <2>3, <2>4, <2>6 DEF RecordFits, RowsFit, Deleted
    <3>2. LockFits(w)' /\ WalkFits(p)'
      BY <1>1, <2>1, <2>3, <2>4, <2>6 DEF LockFits, WalkFits, Walking
    <3> QED
      BY <3>1, <3>2
  <2> QED
    BY <1>t, <1>1, <2>5, <2>7, WalkerStep
<1>8. CASE TombstoneOrganization(p)
  <2> DEFINE o == [org[w] EXCEPT !.purged = TRUE]
             s == [worker[p] EXCEPT !.pc = "complete"]
  <2>1. /\ worker[p].pc = "tombstone"
        /\ org' = [org EXCEPT ![w] = o] /\ org'[w] = o
        /\ worker' = [worker EXCEPT ![p] = s] /\ worker'[p] = s
        /\ UNCHANGED <<record, rows, lock, day>>
    BY <1>t, <1>1, <1>8 DEF TombstoneOrganization, TypeOK
  <2>2. o \in Organization /\ o.purged /\ o.deletedAt = org[w].deletedAt
    BY <1>1, RowUpdates DEF Organization
  <2>3. s \in WorkerState /\ s.ws = w /\ s.pc = "complete"
    BY <1>1, RowUpdates DEF WorkerState, Walking
  <2> HIDE DEF o, s
  <2>4. Touches(p, w)
    BY <1>t, <1>1, <2>1, <2>2, <2>3, Unwritten DEF Touches
  <2>5. Table \subseteq record[w].done /\ "auth" \in record[w].done
    BY <1>1, <2>1 DEF WalkFits, Walking
  <2>6. RecordFits(w)' /\ RowsFit(w)' /\ LockFits(w)' /\ WalkFits(p)'
    BY <1>1, <2>1, <2>2, <2>3, <2>5 DEF RecordFits, RowsFit, LockFits, WalkFits, Deleted, Walking
  <2> QED
    BY <1>t, <1>1, <2>4, <2>6, WalkerStep
<1>9. CASE MarkPurgeComplete(p)
  <2> DEFINE r == [record[w] EXCEPT !.status = "complete"]
             s == [worker[p] EXCEPT !.pc = "destroy", !.ws = NoWorker]
  <2>1. /\ worker[p].pc = "complete"
        /\ record' = [record EXCEPT ![w] = r] /\ record'[w] = r
        /\ worker' = [worker EXCEPT ![p] = s] /\ worker'[p] = s
        /\ lock' = [lock EXCEPT ![w] = NoWorker] /\ lock'[w] = NoWorker
        /\ UNCHANGED <<org, rows, day>>
    BY <1>t, <1>1, <1>9 DEF MarkPurgeComplete, TypeOK
  <2>2. /\ r \in PurgeRecord /\ r.done = record[w].done /\ r.counted = record[w].counted
        /\ r.members = record[w].members
        /\ r.status = "complete" /\ r.destructive = record[w].destructive
    BY <1>1, RowUpdates, ZenonT(40) DEF PurgeRecord
  <2>3. s \in WorkerState /\ s.pc \notin Walking
    BY <1>1 DEF WorkerState, Walking
  <2> HIDE DEF r, s
  <2>4. Touches(p, w)
    BY <1>t, <1>1, <2>1, <2>2, <2>3, Unwritten DEF Touches
  <2>5. Store \subseteq record[w].done /\ org[w].purged
    BY <1>1, <2>1 DEF WalkFits, Walking, Store
  <2>6. RecordFits(w)' /\ RowsFit(w)' /\ LockFits(w)' /\ WalkFits(p)'
    <3>1. RecordFits(w)' /\ RowsFit(w)'
      <4>1. RecordFits(w)'
        BY <1>1, <2>1, <2>2 DEF RecordFits, Deleted
      <4>2. RowsFit(w)'
        <5>1. /\ record'[w].done = record[w].done /\ record'[w].counted = record[w].counted
              /\ record'[w].members = record[w].members
              /\ record'[w].destructive /\ rows' = rows /\ org' = org
          BY <1>1, <2>1, <2>2
        <5>2. RowsFit(w)
          BY <1>1
        <5> QED
          BY <2>5, <5>1, <5>2 DEF RowsFit
      <4> QED
        BY <4>1, <4>2
    <3>2. LockFits(w)' /\ WalkFits(p)'
      BY <1>1, <2>1, <2>2, <2>3, <2>5 DEF LockFits, WalkFits
    <3> QED
      BY <3>1, <3>2
  <2> QED
    BY <1>t, <1>1, <2>4, <2>6, WalkerStep
<1> QED
  BY <1>2, <1>3, <1>4, <1>5, <1>6, <1>7, <1>8, <1>9 DEF WalkStep

\* A worker that dies leaves its workspace without a lock and its record as
\* it was: the next walk resumes there.
LEMMA CrashStep ==
    ASSUME Inv, NEW p \in Worker, Crash(p)
    PROVE  Inv'
<1>1. /\ lock' = [w \in Workspace |-> IF lock[w] = p THEN NoWorker ELSE lock[w]]
      /\ worker' = [worker EXCEPT ![p] = Idle]
      /\ UNCHANGED <<org, record, rows, day>>
  BY DEF Crash
<1>2. TypeOK /\ Idle \in WorkerState /\ Idle.pc \notin Walking
  BY RowUpdates DEF Inv, Idle, Walking
<1>3. TypeOK'
  BY <1>1, <1>2 DEF TypeOK
<1>4. \A w \in Workspace : RecordFits(w)' /\ RowsFit(w)'
  BY <1>1 DEF Inv, RecordFits, RowsFit, Deleted
<1>5. ASSUME NEW w \in Workspace PROVE LockFits(w)'
  BY <1>1, <1>2 DEF Inv, LockFits, TypeOK
<1>6. ASSUME NEW q \in Worker PROVE WalkFits(q)'
  BY <1>1, <1>2 DEF Inv, WalkFits, TypeOK
<1> QED
  BY <1>3, <1>4, <1>5, <1>6 DEF Inv

\* Every action preserves the invariant.
LEMMA PurgeStep == Inv /\ [Next]_vars => Inv'
<1> SUFFICES ASSUME Inv, [Next]_vars PROVE Inv'
  OBVIOUS
<1>1. ASSUME NEW w \in Workspace, DeleteWorkspace(w) \/ RestoreWorkspace(w) \/ ResumeFailed(w) PROVE Inv'
  BY <1>1, OperatorSteps
<1>2. CASE DayPasses
  <2>1. TypeOK'
    BY <1>2, WorkspacePurgeAssumption DEF WorkspacePurgeAssumption, DayPasses, Inv, TypeOK
  <2> QED
    BY <1>2, <2>1 DEF DayPasses, Inv, RecordFits, RowsFit, LockFits, WalkFits, Deleted
<1>3. ASSUME NEW p \in Worker, TickStep(p) \/ WalkStep(p) \/ Crash(p) PROVE Inv'
  BY <1>3, TickSteps, WalkSteps, CrashStep
<1>4. ASSUME NEW p \in Worker, WalkFails(p) PROVE Inv'
  BY <1>4, WalkEnds DEF WalkFails
<1>5. CASE UNCHANGED vars
  BY <1>5 DEF vars, Inv, TypeOK, RecordFits, RowsFit, LockFits, WalkFits, Deleted
<1> QED
  BY <1>1, <1>2, <1>3, <1>4, <1>5 DEF Next

\* So the invariant holds in every reachable state.
LEMMA PurgeInvariant == Spec => []Inv
<1>1. Init => Inv
  BY PurgeInit
<1>2. Inv /\ [Next]_vars => Inv'
  BY PurgeStep
<1> QED
  BY <1>1, <1>2, PTL DEF Spec

\* The rows of organizations, purge records and workers keep their shape, and
\* no table is ever walked beyond empty.
THEOREM TypeCorrect == Spec => []TypeOK
<1>1. Inv => TypeOK
  BY DEF Inv
<1> QED
  BY <1>1, PurgeInvariant, PTL

\* A workspace that is open for its members has all its rows, whatever ticks
\* and walks were under way when it was restored.
THEOREM LiveMeansIntactTheorem == Spec => []LiveMeansIntact
<1>1. Inv => LiveMeansIntact
  BY DEF Inv, RecordFits, RowsFit, LiveMeansIntact
<1> QED
  BY <1>1, PurgeInvariant, PTL

\* A purge that is reported complete has destroyed every row and counted every
\* member, however often the walk was cut off and resumed.
THEOREM CompleteMeansDestroyedTheorem == Spec => []CompleteMeansDestroyed
<1>1. ASSUME Inv, NEW w \in Workspace, record[w].status = "complete"
      PROVE  /\ record[w].members = MaxRows
             /\ org[w].purged /\ Deleted(w)
             /\ \A t \in Store : rows[w][t] = 0
  <2>1. org[w].purged /\ Deleted(w) /\ \A t \in Store : rows[w][t] = 0
    BY <1>1 DEF Inv, RecordFits, RowsFit
  <2>2. rows[w]["auth"] # MaxRows
    BY <2>1, WorkspacePurgeAssumption DEF WorkspacePurgeAssumption, Store
  <2> QED
    BY <1>1, <2>1, <2>2 DEF Inv, RowsFit
<1>2. Inv => CompleteMeansDestroyed
  BY <1>1 DEF CompleteMeansDestroyed
<1> QED
  BY <1>2, PurgeInvariant, PTL
=============================================================================

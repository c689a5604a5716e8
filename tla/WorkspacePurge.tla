--------------------------- MODULE WorkspacePurge ---------------------------
(***************************************************************************)
(* The end of a workspace: deleted by its owner (softly: organization.     *)
(* deletedAt), restored by an operator, reported for purge when the        *)
(* retention window has passed, and destroyed by a later tick of the purge *)
(* worker, table by table, then its members and invitations, then its      *)
(* name.                                                                   *)
(*                                                                         *)
(* Every batch is a transaction of its own and the worker may die or fail  *)
(* between any two; what is left is picked up by a later tick.  The walk   *)
(* and the restore exclude each other by an advisory lock of the database, *)
(* which goes with the session of a dead worker.                           *)
(***************************************************************************)
EXTENDS Naturals, Sequences

CONSTANTS
    Workspace,
    Worker,          \* purge jobs that may run at the same time
    NoWorker,
    TableOrder,      \* PURGE_TABLE_ORDER: tables in the order of destruction
    MaxRows,         \* rows of each table of a workspace at first
    MaxAttempts,     \* MAX_ATTEMPTS of walkPurgeTable
    Retention,       \* WORKSPACE_PURGE_RETENTION_DAYS
    MaxDay,          \* bound: days
    MaxDeletions,    \* bound: soft deletions of a workspace
    MaxFaults        \* bound: crashes, failures and pages lost to locks

ASSUME WorkspacePurgeAssumption ==
    /\ NoWorker \notin Worker
    /\ MaxRows \in Nat \ {0} /\ MaxAttempts \in Nat \ {0}
    /\ Retention \in Nat \ {0} /\ MaxDay \in Nat \ {0} /\ MaxFaults \in Nat
    /\ TableOrder \in Seq(STRING)
    /\ \A i \in DOMAIN TableOrder : TableOrder[i] # "auth"

Table == {TableOrder[i] : i \in DOMAIN TableOrder}
Store == Table \cup {"auth"}     \* "auth": members and invitations

VARIABLES
    org,       \* rows of organization: deletedAt (0: not deleted), purged
    record,    \* purge_records
    rows,      \* rows of each workspace, per table
    lock,      \* advisory lock of each workspace
    worker,    \* the tick each worker is in
    day,
    deletions, faults

vars == <<org, record, rows, lock, worker, day, deletions, faults>>

NoRecord == [status |-> "none", destructive |-> FALSE, done |-> {},
             counted |-> FALSE, members |-> 0]
Idle     == [pc |-> "idle", ws |-> NoWorker, todo |-> {}, attempt |-> 1]

\* Where a worker is inside a walk, holding the lock of its workspace.
Walking == {"table", "auth_count", "auth_delete", "auth_mark", "tombstone", "complete"}

Organization == [deletedAt : 0 .. MaxDay, purged : BOOLEAN]
PurgeRecord  == [status : {"none", "reported", "purging", "complete", "failed"},
                 destructive : BOOLEAN, done : SUBSET Store,
                 counted : BOOLEAN, members : 0 .. MaxRows]
WorkerState  == [pc : {"idle", "destroy", "report"} \cup Walking,
                 ws : Workspace \cup {NoWorker},
                 todo : SUBSET Workspace, attempt : 1 .. MaxAttempts]

TypeOK ==
    /\ org \in [Workspace -> Organization]
    /\ record \in [Workspace -> PurgeRecord]
    /\ rows \in [Workspace -> [Store -> 0 .. MaxRows]]
    /\ lock \in [Workspace -> Worker \cup {NoWorker}]
    /\ worker \in [Worker -> WorkerState]
    /\ day \in 1 .. MaxDay

Init ==
    /\ org = [w \in Workspace |-> [deletedAt |-> 0, purged |-> FALSE]]
    /\ record = [w \in Workspace |-> NoRecord]
    /\ rows = [w \in Workspace |-> [t \in Store |-> MaxRows]]
    /\ lock = [w \in Workspace |-> NoWorker]
    /\ worker = [p \in Worker |-> Idle]
    /\ day = 1
    /\ deletions = [w \in Workspace |-> 0] /\ faults = 0

Deleted(w) == org[w].deletedAt > 0
Fault      == faults < MaxFaults /\ faults' = faults + 1

-----------------------------------------------------------------------------
\* DELETE /api/workspaces/:slug.
DeleteWorkspace(w) ==
    /\ ~Deleted(w) /\ deletions[w] < MaxDeletions
    /\ org' = [org EXCEPT ![w].deletedAt = day]
    /\ deletions' = [deletions EXCEPT ![w] = @ + 1]
    /\ UNCHANGED <<record, rows, lock, worker, day, faults>>

\* Mutant: a failed purge may be restored.
RestorableUnlessPurging(w) == record[w].status # "purging"

\* The guard of restoreWorkspace on the purge record.
Restorable(w) == ~record[w].destructive

\* restoreWorkspace, by the operator; it does not wait for the lock.  The
\* purge record stays as it is.
RestoreWorkspace(w) ==
    /\ lock[w] = NoWorker /\ Deleted(w) /\ Restorable(w)
    /\ org' = [org EXCEPT ![w].deletedAt = 0]
    /\ UNCHANGED <<record, rows, lock, worker, day, deletions, faults>>

\* The runbook's recovery: the operator sets a failed record to purging.
ResumeFailed(w) ==
    /\ record[w].status = "failed" /\ Fault
    /\ record' = [record EXCEPT ![w].status = "purging"]
    /\ UNCHANGED <<org, rows, lock, worker, day, deletions>>

\* findEligibleWorkspaces
Eligible(w) == Deleted(w) /\ org[w].deletedAt + Retention <= day

DayPasses ==
    /\ day < MaxDay
    /\ day' = day + 1
    /\ UNCHANGED <<org, record, rows, lock, worker, deletions, faults>>

-----------------------------------------------------------------------------
\* Mutant: only reported workspaces are destroyed.
DestructibleIfReported(w) == record[w].status = "reported"

\* loadDestructiblePurgeRecords
Destructible(w) == record[w].status \in {"reported", "purging"}

\* processWorkspacePurge, on the schedule or at the start of a worker process:
\* first the walks of what earlier ticks have reported.
Tick(p) ==
    /\ worker[p].pc = "idle"
    /\ worker' = [worker EXCEPT ![p] = [Idle EXCEPT !.pc = "destroy",
                                                    !.todo = {w \in Workspace : Destructible(w)}]]
    /\ UNCHANGED <<org, record, rows, lock, day, deletions, faults>>

Skip(p, w) == worker' = [worker EXCEPT ![p].todo = @ \ {w}]

\* markPurgeFailed
Failed(w) == [record EXCEPT ![w].status = "failed"]

\* runWorkspacePurgeWalk up to beginDestructivePhase.  A workspace restored
\* since it was reported is passed over; one that was restored although its
\* record says purging fails the walk, and with it the tick.
BeginWalk(p, w) ==
    /\ worker[p].pc = "destroy" /\ w \in worker[p].todo
    /\ CASE lock[w] # NoWorker \/ ~Destructible(w) -> Skip(p, w) /\ UNCHANGED <<record, lock>>
         [] lock[w] = NoWorker /\ Destructible(w) /\ ~Deleted(w) ->
              /\ UNCHANGED lock
              /\ IF record[w].status = "reported" /\ ~record[w].destructive
                 THEN Skip(p, w) /\ UNCHANGED record
                 ELSE record' = Failed(w) /\ worker' = [worker EXCEPT ![p] = Idle]
         [] lock[w] = NoWorker /\ Destructible(w) /\ Deleted(w) ->
              /\ lock' = [lock EXCEPT ![w] = p]
              /\ record' = [record EXCEPT ![w].status = "purging", ![w].destructive = TRUE]
              /\ worker' = [worker EXCEPT ![p].pc = "table", ![p].ws = w,
                                          ![p].todo = @ \ {w}, ![p].attempt = 1]
    /\ UNCHANGED <<org, rows, day, deletions, faults>>

\* The first table of the order that is not in completed_tables.
NextTable(w) ==
    LET left == {i \in DOMAIN TableOrder : TableOrder[i] \notin record[w].done}
    IN  TableOrder[CHOOSE i \in left : \A j \in left : i <= j]

AllTablesDone(w) == Table \subseteq record[w].done

\* One page of walkPurgeTable: a batch of rows goes, those locked by others
\* stay.
DeletePage(p) ==
    /\ worker[p].pc = "table"
    /\ LET w == worker[p].ws IN
       /\ ~AllTablesDone(w) /\ Deleted(w)
       /\ \E n \in 1 .. rows[w][NextTable(w)] :
            rows' = [rows EXCEPT ![w][NextTable(w)] = @ - n]
    /\ UNCHANGED <<org, record, lock, worker, day, deletions, faults>>

\* Mutant: an empty page ends the table, whatever is left.
TableEmptyEnough(w, t) == TRUE

\* A page found nothing to delete: the rows left are counted.
TableEmpty(w, t) == rows[w][t] = 0

\* markPurgeTableDone when none is left; otherwise (rows locked by others) the
\* table is walked again, or the walk fails.
FinishTable(p) ==
    /\ worker[p].pc = "table"
    /\ LET w == worker[p].ws
           t == NextTable(w)
       IN  /\ ~AllTablesDone(w)
           /\ IF TableEmpty(w, t)
              THEN /\ record' = [record EXCEPT ![w].done = @ \cup {t}]
                   /\ worker' = [worker EXCEPT ![p].attempt = 1]
                   /\ UNCHANGED <<lock, faults>>
              ELSE /\ Fault
                   /\ IF worker[p].attempt < MaxAttempts
                      THEN worker' = [worker EXCEPT ![p].attempt = @ + 1] /\ UNCHANGED <<record, lock>>
                      ELSE /\ record' = Failed(w)
                           /\ lock' = [lock EXCEPT ![w] = NoWorker]
                           /\ worker' = [worker EXCEPT ![p] = Idle]
    /\ UNCHANGED <<org, rows, day, deletions>>

\* After the tables come the rows of the auth schema, unless they are done.
BeginAuth(p) ==
    /\ worker[p].pc = "table" /\ AllTablesDone(worker[p].ws)
    /\ worker' = [worker EXCEPT ![p].pc = IF "auth" \in record[worker[p].ws].done
                                          THEN "tombstone" ELSE "auth_count"]
    /\ UNCHANGED <<org, record, rows, lock, day, deletions, faults>>

\* The merge of recordAuthPurgeCounts: a count that is there wins.
MembersRecorded(w, n) == IF record[w].counted THEN record[w].members ELSE n

\* countWorkspaceAuthRows and recordAuthPurgeCounts
RecordAuthPurgeCounts(p) ==
    /\ worker[p].pc = "auth_count"
    /\ LET w == worker[p].ws IN
       record' = [record EXCEPT ![w].members = MembersRecorded(w, rows[w]["auth"]), ![w].counted = TRUE]
    /\ worker' = [worker EXCEPT ![p].pc = "auth_delete"]
    /\ UNCHANGED <<org, rows, lock, day, deletions, faults>>

\* deleteWorkspaceAuthRows, a transaction on a connection of its own.
DeleteWorkspaceAuthRows(p) ==
    /\ worker[p].pc = "auth_delete"
    /\ rows' = [rows EXCEPT ![worker[p].ws]["auth"] = 0]
    /\ worker' = [worker EXCEPT ![p].pc = "auth_mark"]
    /\ UNCHANGED <<org, record, lock, day, deletions, faults>>

MarkAuthDone(p) ==
    /\ worker[p].pc = "auth_mark"
    /\ record' = [record EXCEPT ![worker[p].ws].done = @ \cup {"auth"}]
    /\ worker' = [worker EXCEPT ![p].pc = "tombstone"]
    /\ UNCHANGED <<org, rows, lock, day, deletions, faults>>

\* tombstoneOrganization
TombstoneOrganization(p) ==
    /\ worker[p].pc = "tombstone"
    /\ org' = [org EXCEPT ![worker[p].ws].purged = TRUE]
    /\ worker' = [worker EXCEPT ![p].pc = "complete"]
    /\ UNCHANGED <<record, rows, lock, day, deletions, faults>>

\* markPurgeComplete, and the lock.
MarkPurgeComplete(p) ==
    /\ worker[p].pc = "complete"
    /\ record' = [record EXCEPT ![worker[p].ws].status = "complete"]
    /\ lock' = [lock EXCEPT ![worker[p].ws] = NoWorker]
    /\ worker' = [worker EXCEPT ![p].pc = "destroy", ![p].ws = NoWorker]
    /\ UNCHANGED <<org, rows, day, deletions, faults>>

\* A statement of the walk throws: the record is marked failed, unless that
\* fails too, and the tick ends.
WalkFails(p) ==
    /\ worker[p].pc \in Walking /\ Fault
    /\ record' \in {record, Failed(worker[p].ws)}
    /\ lock' = [lock EXCEPT ![worker[p].ws] = NoWorker]
    /\ worker' = [worker EXCEPT ![p] = Idle]
    /\ UNCHANGED <<org, rows, day, deletions>>

\* The worker process dies; its session and the lock go with it.
Crash(p) ==
    /\ worker[p].pc # "idle" /\ Fault
    /\ lock' = [w \in Workspace |-> IF lock[w] = p THEN NoWorker ELSE lock[w]]
    /\ worker' = [worker EXCEPT ![p] = Idle]
    /\ UNCHANGED <<org, record, rows, day, deletions>>

\* The walks are done; the tick reads the eligible workspaces.
BeginReport(p) ==
    /\ worker[p].pc = "destroy" /\ worker[p].todo = {}
    /\ worker' = [worker EXCEPT ![p].pc = "report", ![p].todo = {w \in Workspace : Eligible(w)}]
    /\ UNCHANGED <<org, record, rows, lock, day, deletions, faults>>

\* reportWorkspaceForPurge, for a workspace without a record.
ReportWorkspaceForPurge(p, w) ==
    /\ worker[p].pc = "report" /\ w \in worker[p].todo
    /\ record' = IF record[w].status = "none"
                 THEN [record EXCEPT ![w].status = "reported"] ELSE record
    /\ Skip(p, w)
    /\ UNCHANGED <<org, rows, lock, day, deletions, faults>>

EndTick(p) ==
    /\ worker[p].pc = "report" /\ worker[p].todo = {}
    /\ worker' = [worker EXCEPT ![p] = Idle]
    /\ UNCHANGED <<org, record, rows, lock, day, deletions, faults>>

WalkStep(p) ==
    \/ DeletePage(p) \/ FinishTable(p) \/ BeginAuth(p) \/ RecordAuthPurgeCounts(p)
    \/ DeleteWorkspaceAuthRows(p) \/ MarkAuthDone(p) \/ TombstoneOrganization(p)
    \/ MarkPurgeComplete(p)

TickStep(p) ==
    \/ Tick(p) \/ (\E w \in Workspace : BeginWalk(p, w) \/ ReportWorkspaceForPurge(p, w))
    \/ BeginReport(p) \/ EndTick(p)

Next ==
    \/ (\E w \in Workspace : DeleteWorkspace(w) \/ RestoreWorkspace(w) \/ ResumeFailed(w))
    \/ DayPasses
    \/ (\E p \in Worker : TickStep(p) \/ WalkStep(p) \/ WalkFails(p) \/ Crash(p))

Spec == Init /\ [][Next]_vars

\* The scheduler keeps starting ticks and each worker goes on with its own.
FairSpec ==
    /\ Spec
    /\ \A p \in Worker : WF_vars(TickStep(p)) /\ WF_vars(WalkStep(p))
    /\ WF_vars(DayPasses)

-----------------------------------------------------------------------------
\* A live workspace has all its rows: no tick that read an older state of the
\* world, no restore between two ticks and no resumed failure leaves one that
\* is open for its members and partly destroyed.
LiveMeansIntact ==
    \A w \in Workspace : ~Deleted(w) =>
      /\ ~org[w].purged
      /\ \A t \in Store : rows[w][t] = MaxRows

\* A purge that is reported complete has left nothing behind, although each
\* batch, mark and step may be cut off from the next, and its evidence says how
\* many members there were, also when that step was repeated after they were gone.
CompleteMeansDestroyed ==
    \A w \in Workspace : record[w].status = "complete" =>
      /\ record[w].members = MaxRows
      /\ org[w].purged /\ Deleted(w)
      /\ \A t \in Store : rows[w][t] = 0

\* Nothing is destroyed before the retention window has passed since the
\* deletion in force.
RetentionServed ==
    [][\A w \in Workspace :
         ~record[w].destructive /\ record'[w].destructive => Eligible(w)]_vars

\* A workspace that stays deleted is destroyed in the end, unless the purge
\* fails and waits for the operator: walks cut off by a crash are resumed.
PurgeFinishes ==
    \A w \in Workspace :
      Eligible(w) ~> record[w].status \in {"complete", "failed"} \/ ~Deleted(w)
=============================================================================

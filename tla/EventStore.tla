----------------------------- MODULE EventStore -----------------------------
(***************************************************************************)
(* The event tables (events and send_events) and what works on them at the *)
(* same time: ingestion; the maintenance run, which creates the partitions *)
(* of the coming months and drops those beyond the retention horizon; the  *)
(* operator's relocation of rows out of the DEFAULT partition; and the     *)
(* erasure of a contact, whose scrub walks both tables page by page.       *)
(*                                                                         *)
(* Everything but the relocation reads and writes through the parent       *)
(* table: a row in a child that is not attached is seen by nobody.         *)
(***************************************************************************)
EXTENDS Naturals, Sequences, FiniteSets, FiniteSetsExt

CONSTANTS
    Tables,        \* PARTITIONED_TABLES, in the order of the scrub
    Event,         \* events, numbered in the order of (occurred_at, id)
    MonthOf,       \* their month
    TableOf,       \* their table
    Lookahead,     \* LOOKAHEAD_MONTHS
    Retention,     \* PARTITION_RETENTION_MONTHS
    MaxMonth,      \* bound: months
    PageLimit,     \* ERASURE_SCRUB_PAGE_LIMIT
    Scrubber,      \* scrubs that may run at the same time
    Done,          \* the cursor { done: true }
    MaxFaults      \* bound: failures, crashes and lost calls

ASSUME EventStoreAssumption ==
    /\ DOMAIN Tables = 1 .. Len(Tables) /\ Len(Tables) \in Nat \ {0}
    /\ Event \subseteq Nat \ {0} /\ IsFiniteSet(Event) /\ Done \notin Nat
    /\ TableOf \in [Event -> {Tables[i] : i \in DOMAIN Tables}]
    /\ MonthOf \in [Event -> 1 .. MaxMonth] /\ MaxMonth \in Nat \ {0}
    /\ Lookahead \in Nat /\ Retention \in Nat \ {0}
    /\ PageLimit \in Nat \ {0} /\ MaxFaults \in Nat

Table == {Tables[i] : i \in DOMAIN Tables}
Month == 1 .. MaxMonth + Lookahead

VARIABLES
    now,        \* the month
    place,      \* where each event is
    child,      \* the partition of each table and month
    upkeep,     \* the maintenance run
    reloc,      \* the relocation run
    record,     \* erasure_records: status and the cursor per table
    job,        \* the job erasure-scrub of that record
    scrub,      \* the scrubs under way
    scrubbed,   \* events whose payload has been erased
    owed,       \* history: events stored and seen at the request, and seen ever since
    cutOff,     \* history: months whose relocation was cut off
    faults

vars == <<now, place, child, upkeep, reloc, record, job, scrub, scrubbed, owed, cutOff, faults>>
partitions == <<now, place, child, upkeep, reloc, cutOff>>
erasure    == <<record, job, scrub, scrubbed>>

NoUpkeep == [pc |-> "idle", base |-> 1, at |-> 1]
NoReloc  == [pc |-> "idle", todo |-> {}, at |-> <<Tables[1], 1>>]
NoScrub  == [pc |-> "idle", table |-> 1, cursor |-> 0]

TypeOK ==
    /\ now \in 1 .. MaxMonth
    /\ place \in [Event -> {"absent", "default", "child", "dropped"}]
    /\ child \in [Table \X Month -> {"none", "freestanding", "attached"}]
    /\ upkeep \in [pc : {"idle", "ensure", "retention"}, base : 1 .. MaxMonth, at : Nat]
    /\ reloc \in [pc : {"idle", "next", "move", "attach"}, todo : SUBSET (Table \X Month),
                  at : Table \X Month]
    /\ record \in [status : {"none", "pending", "scrubbing", "complete", "failed"},
                   cursor : [Table -> Event \cup {0, Done}]]
    /\ job \in {"none", "queued", "retained"}
    /\ scrub \in [Scrubber -> [pc : {"idle", "load", "page", "finish"}, table : DOMAIN Tables,
                               cursor : Event \cup {0}]]
    /\ scrubbed \subseteq Event /\ owed \subseteq Event
    /\ cutOff \subseteq Table \X Month /\ faults \in 0 .. MaxFaults

Init ==
    /\ now = 1
    /\ place = [e \in Event |-> "absent"]
    /\ child = [p \in Table \X Month |-> IF p[2] = 1 THEN "attached" ELSE "none"]
    /\ upkeep = NoUpkeep /\ reloc = NoReloc
    /\ record = [status |-> "none", cursor |-> [t \in Table |-> 0]]
    /\ job = "none" /\ scrub = [s \in Scrubber |-> NoScrub]
    /\ scrubbed = {} /\ owed = {} /\ cutOff = {} /\ faults = 0

Fault == faults < MaxFaults /\ faults' = faults + 1

PartitionOf(e)  == <<TableOf[e], MonthOf[e]>>
InDefault(p)    == {e \in Event : PartitionOf(e) = p /\ place[e] = "default"}

\* The events a query of the parent table finds.
Visible(e) ==
    \/ place[e] = "default"
    \/ place[e] = "child" /\ child[PartitionOf(e)] = "attached"

-----------------------------------------------------------------------------
\* A row is inserted through the parent, which puts it into the partition of
\* its month or else into DEFAULT.
Ingest(e) ==
    /\ place[e] = "absent" /\ MonthOf[e] <= now
    /\ place' = [place EXCEPT ![e] = IF child[PartitionOf(e)] = "attached" THEN "child" ELSE "default"]
    /\ UNCHANGED <<now, child, upkeep, reloc, cutOff, erasure, owed, faults>>

MonthPasses ==
    /\ now < MaxMonth
    /\ now' = now + 1
    /\ UNCHANGED <<place, child, upkeep, reloc, cutOff, erasure, owed, faults>>

\* attachPartitionCheckFirst, one transaction: DEFAULT must hold no row of the
\* month.
Attachable(p) == InDefault(p) = {}

\* runPartitionMaintenance, daily: first ensurePartitions, table by table and
\* month by month.
StartUpkeep ==
    /\ upkeep.pc = "idle"
    /\ upkeep' = [pc |-> "ensure", base |-> now, at |-> 0]
    /\ UNCHANGED <<now, place, child, reloc, cutOff, erasure, owed, faults>>

\* The partition the run has to look at next.
Ahead == <<Tables[1 + upkeep.at \div (Lookahead + 1)],
           upkeep.base + (upkeep.at % (Lookahead + 1))>>

\* One month of ensurePartitions.  A child of the right name counts, attached
\* or not; if DEFAULT holds rows of the month the run throws.
EnsureMonth ==
    /\ upkeep.pc = "ensure"
    /\ child' = IF child[Ahead] = "none" /\ Attachable(Ahead)
                THEN [child EXCEPT ![Ahead] = "attached"] ELSE child
    /\ upkeep' = CASE child[Ahead] = "none" /\ ~Attachable(Ahead) -> NoUpkeep
                   [] child[Ahead] # "none" \/ Attachable(Ahead) ->
                        IF upkeep.at + 1 = Len(Tables) * (Lookahead + 1)
                        THEN [upkeep EXCEPT !.pc = "retention"] ELSE [upkeep EXCEPT !.at = @ + 1]
    /\ UNCHANGED <<now, place, reloc, cutOff, erasure, owed, faults>>

\* Mutant: the month of the horizon goes too.
ExpiredEarly(p) == child[p] = "attached" /\ p[2] + Retention <= upkeep.base

\* findExpiredPartitions: the end of the month is not after the horizon.
Expired(p) == child[p] = "attached" /\ p[2] + 1 + Retention <= upkeep.base

\* One turn of dropExpiredPartitions: DETACH and DROP in a transaction.
DropPartition(p) ==
    /\ upkeep.pc = "retention" /\ Expired(p)
    /\ child' = [child EXCEPT ![p] = "none"]
    /\ place' = [e \in Event |-> IF PartitionOf(e) = p /\ place[e] = "child" THEN "dropped" ELSE place[e]]
    /\ UNCHANGED <<now, upkeep, reloc, cutOff, erasure, owed, faults>>

\* The run is recorded; also when retention has failed on the way or is off.
EndUpkeep ==
    /\ upkeep.pc = "retention"
    /\ upkeep' = NoUpkeep
    /\ UNCHANGED <<now, place, child, reloc, cutOff, erasure, owed, faults>>

-----------------------------------------------------------------------------
\* relocateAllDefaultRows under its lock: the months that have rows in DEFAULT.
StartRelocation ==
    /\ reloc.pc = "idle"
    /\ LET found == {p \in Table \X Month : InDefault(p) # {}} IN
       /\ found # {}
       /\ reloc' = [NoReloc EXCEPT !.pc = "next", !.todo = found]
    /\ UNCHANGED <<now, place, child, upkeep, cutOff, erasure, owed, faults>>

\* relocateMonth: the child is created, on its own.
CreateChild(p) ==
    /\ reloc.pc = "next" /\ p \in reloc.todo
    /\ child' = [child EXCEPT ![p] = IF @ = "none" THEN "freestanding" ELSE @]
    /\ reloc' = [pc |-> "move", todo |-> reloc.todo \ {p}, at |-> p]
    /\ UNCHANGED <<now, place, upkeep, cutOff, erasure, owed, faults>>

\* A batch of rows goes from DEFAULT into the child, in one transaction; the
\* last is a short one: nothing is left that is not locked by somebody.
MoveBatch ==
    /\ reloc.pc = "move"
    /\ \E moved \in SUBSET InDefault(reloc.at) :
         /\ place' = [e \in Event |-> IF e \in moved THEN "child" ELSE place[e]]
         /\ owed' = owed \ moved
    /\ reloc' \in {reloc, [reloc EXCEPT !.pc = "attach"]}
    /\ UNCHANGED <<now, child, upkeep, cutOff, erasure, faults>>

\* attachPartitionCheckFirst; rows left in DEFAULT make it throw, and with it
\* the run.
AttachChild ==
    /\ reloc.pc = "attach"
    /\ IF Attachable(reloc.at)
       THEN /\ child' = [child EXCEPT ![reloc.at] = "attached"]
            /\ cutOff' = cutOff \ {reloc.at}
            /\ reloc' = IF reloc.todo = {} THEN NoReloc ELSE [reloc EXCEPT !.pc = "next"]
       ELSE /\ cutOff' = cutOff \cup {reloc.at}
            /\ reloc' = NoReloc /\ UNCHANGED child
    /\ UNCHANGED <<now, place, upkeep, erasure, owed, faults>>

\* The operator's process dies, or a statement throws.
RelocationFails ==
    /\ reloc.pc # "idle" /\ Fault
    /\ cutOff' = IF reloc.pc = "next" THEN cutOff ELSE cutOff \cup {reloc.at}
    /\ reloc' = NoReloc
    /\ UNCHANGED <<now, place, child, upkeep, erasure, owed>>

-----------------------------------------------------------------------------
\* deleteContact: the erasure is recorded in the transaction that makes the
\* contact anonymous; the job is queued afterwards, unless the process dies.
DeleteContact ==
    /\ record.status = "none"
    /\ record' = [record EXCEPT !.status = "pending"]
    /\ owed' = {e \in Event : Visible(e)}
    /\ \/ job' = "queued" /\ UNCHANGED faults
       \/ UNCHANGED job /\ Fault
    /\ UNCHANGED <<partitions, scrub, scrubbed>>

\* runErasureScrub up to the first table.  A second one starts only if the
\* first has lost its lock.  A job whose record is complete does nothing.
BeginScrub(s) ==
    /\ job = "queued" /\ scrub[s].pc = "idle"
    /\ IF \A other \in Scrubber : scrub[other].pc = "idle" THEN UNCHANGED faults ELSE Fault
    /\ IF record.status = "complete"
       THEN job' = "retained" /\ UNCHANGED <<record, scrub>>
       ELSE /\ record' = [record EXCEPT !.status = IF @ = "pending" THEN "scrubbing" ELSE @]
            /\ scrub' = [scrub EXCEPT ![s] = [NoScrub EXCEPT !.pc = "load"]]
            /\ UNCHANGED job
    /\ UNCHANGED <<partitions, scrubbed, owed>>

\* The table is walked: on to the next one or to the end.
NextTable(s) ==
    IF scrub[s].table = Len(Tables) THEN [scrub EXCEPT ![s].pc = "finish"]
    ELSE [scrub EXCEPT ![s].pc = "load", ![s].table = @ + 1]

\* loadErasureScrubCheckpoint
LoadCursor(s) ==
    /\ scrub[s].pc = "load"
    /\ LET cursor == record.cursor[Tables[scrub[s].table]] IN
       scrub' = IF cursor = Done THEN NextTable(s)
                ELSE [scrub EXCEPT ![s].pc = "page", ![s].cursor = cursor]
    /\ UNCHANGED <<partitions, record, job, scrubbed, owed, faults>>

\* Mutant: an event of the page's last instant is taken for one already seen.
PageAfterNext(t, cursor) ==
    LET left == {e \in Event : TableOf[e] = t /\ Visible(e) /\ e > cursor + 1}
    IN  {e \in left : Cardinality({f \in left : f < e}) < PageLimit}

\* The rows of a page: the first of those after the cursor.
PageAfter(t, cursor) ==
    LET left == {e \in Event : TableOf[e] = t /\ Visible(e) /\ e > cursor}
    IN  {e \in left : Cardinality({f \in left : f < e}) < PageLimit}

\* scrubSendEventsPage and scrubEventsPage: rows and cursor in one transaction;
\* an empty page ends the table.
ScrubPage(s) ==
    /\ scrub[s].pc = "page"
    /\ LET t    == Tables[scrub[s].table]
           page == PageAfter(t, scrub[s].cursor)
           last == IF page = {} THEN Done ELSE Max(page)
       IN  /\ scrubbed' = scrubbed \cup page
           /\ record' = [record EXCEPT !.cursor[t] = last]
           /\ scrub' = IF page = {} THEN NextTable(s) ELSE [scrub EXCEPT ![s].cursor = last]
    /\ UNCHANGED <<partitions, job, owed, faults>>

\* markScrubComplete, and the job is done.
FinishScrub(s) ==
    /\ scrub[s].pc = "finish"
    /\ record' = [record EXCEPT !.status = "complete"]
    /\ scrub' = [scrub EXCEPT ![s] = NoScrub]
    /\ job' = "retained"
    /\ UNCHANGED <<partitions, scrubbed, owed, faults>>

\* A statement throws: markScrubFailed, unless that throws too.  The job is
\* tried again or, after its last attempt, retained as failed.
ScrubFails(s) ==
    /\ scrub[s].pc # "idle" /\ Fault
    /\ record' \in {record, [record EXCEPT !.status = "failed"]}
    /\ scrub' = [scrub EXCEPT ![s] = NoScrub]
    /\ job' \in {job, "retained"}
    /\ UNCHANGED <<partitions, scrubbed, owed>>

\* Mutant: a scrub that has started is left to its worker.
ReclaimableIfPending == record.status = "pending"

\* findReclaimableErasureRecords, once the lease has passed.
Reclaimable == record.status \in {"pending", "scrubbing"}

\* runErasureScrubReclaim; a job of the same id that is still there, finished
\* ones included, makes it do nothing.
ReclaimErasure ==
    /\ Reclaimable /\ job = "none"
    /\ job' = "queued"
    /\ UNCHANGED <<partitions, record, scrub, scrubbed, owed, faults>>

\* The queue removes a finished job when its retention has passed.
JobExpires ==
    /\ job = "retained"
    /\ job' = "none"
    /\ UNCHANGED <<partitions, record, scrub, scrubbed, owed, faults>>

ScrubStep(s) == BeginScrub(s) \/ LoadCursor(s) \/ ScrubPage(s) \/ FinishScrub(s)

Next ==
    \/ \E e \in Event : Ingest(e)
    \/ MonthPasses \/ StartUpkeep \/ EnsureMonth \/ EndUpkeep
    \/ \E p \in Table \X Month : DropPartition(p) \/ CreateChild(p)
    \/ StartRelocation \/ MoveBatch \/ AttachChild \/ RelocationFails
    \/ DeleteContact \/ ReclaimErasure \/ JobExpires
    \/ \E s \in Scrubber : ScrubStep(s) \/ ScrubFails(s)

Spec == Init /\ [][Next]_vars

\* The workers go on with their jobs, the reclaim tick keeps coming and the
\* queue forgets.
FairSpec ==
    /\ Spec
    /\ \A s \in Scrubber : WF_vars(ScrubStep(s))
    /\ WF_vars(ReclaimErasure) /\ WF_vars(JobExpires)

-----------------------------------------------------------------------------
\* An event is within reach of every query until it is older than the horizon:
\* no maintenance run of a month ago, no late row and no relocation loses one,
\* except while its month is being relocated and after a relocation was cut off
\* between the first batch and the attachment of the month.
EventsStayReachable ==
    \A e \in Event :
      /\ place[e] = "dropped" => MonthOf[e] + Retention < now
      /\ place[e] = "child" /\ ~Visible(e) =>
           \/ reloc.pc \in {"move", "attach"} /\ reloc.at = PartitionOf(e)
           \/ PartitionOf(e) \in cutOff

\* An erasure that says it is complete has reached every event that was there
\* at the request and could be found ever since, also when the scrub was cut
\* off, repeated or run twice at once, while rows moved between partitions.
ErasureScrubsAll ==
    record.status = "complete" => \A e \in owed : e \in scrubbed \/ place[e] = "dropped"

\* A request never waits for ever: it is carried out, or marked as failed for
\* the operator, although the job may be lost at any point.
ErasureSettles == record.status = "pending" ~> record.status \in {"complete", "failed"}

\* What the runbook of the relocation says of a row: "it remains fully queryable
\* through the parent ... the entire time".
RowsStayQueryable == \A e \in Event : place[e] \in {"absent", "dropped"} \/ Visible(e)
=============================================================================

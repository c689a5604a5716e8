-------------------------- MODULE WebhookIngestion --------------------------
(***************************************************************************)
(* The path of a SendGrid event batch through one workspace: the webhook   *)
(* route journals and enqueues it, the webhook-events worker applies it,   *)
(* the replay sweep re-enqueues the batches that got lost on the way and   *)
(* retires old journal rows.  What an event does to the rows is SendFacts; *)
(* the recount that corrects the daily rollup is DailyRollup.              *)
(*                                                                         *)
(* A transaction is one action at its commit: the inserts and updates of   *)
(* two batches on one send serialize on the send_events key and the row    *)
(* locks.                                                                  *)
(***************************************************************************)
EXTENDS SendFacts, Sequences, SequencesExt

CONSTANTS
    Row,                \* 1 .. n: ingress_journal rows, in the order of received_at
    Batches,            \* what SendGrid may deliver: sequences of events
    PastDays,           \* OCCURRED_AT_MAX_PAST_DAYS
    RetentionDays,      \* INGRESS_JOURNAL_RETENTION_DAYS, SEND_EVENT_QUARANTINE_RETENTION_DAYS
    ReplayPageLimit,    \* WEBHOOK_REPLAY_SWEEP_PAGE_LIMIT
    ReplayMaxAttempts,  \* WEBHOOK_REPLAY_MAX_ATTEMPTS
    MaxJobs,            \* bound: queued jobs of one batch
    MaxFaults,          \* bound: crashes, exhausted jobs, aborted sweeps
    MaxOperator         \* bound: deletions, restores, manual replays, unsubscribe clicks

EventName == {"delivered", "open", "click", "dropped", "bounce", "spamreport",
              "unsubscribe", "group_unsubscribe", "deferred"}

\* send_id as the payload gives it: none, of a sibling workspace on the same
\* SendGrid account, of no row at all, or ours.
Elsewhere == {"none", "sibling", "ghost"}

\* type: the bounce's subtype or the drop's reason; hasId: a usable sg_event_id.
\* at: Null stands for an unusable timestamp, MaxDay + 1 for one in the future.
Event == [event : EventName, type : STRING, send : Send \cup Elsewhere,
          at : 0 .. MaxDay + 1, test : BOOLEAN, hasId : BOOLEAN]

ASSUME WebhookIngestionAssumption ==
    /\ IsFiniteSet(Row) /\ Row = 1 .. Cardinality(Row)
    /\ Batches \subseteq Seq(Event)
    /\ Send \cap Elsewhere = {}
    /\ {PastDays, RetentionDays, ReplayPageLimit, ReplayMaxAttempts} \subseteq Nat
    /\ MaxJobs \in Nat \ {0} /\ {MaxFaults, MaxOperator} \subseteq Nat

VARIABLES
    db,         \* the rows of SendFacts
    stored,     \* send_events: the rows that name a send of this workspace
    quarantine, \* send_event_quarantine
    journal,    \* ingress_journal
    jobs,       \* [Row -> webhook-events jobs waiting]
    began,      \* [Row -> the day a worker judges the batch by; Null: none at work]
    today,
    deleted,    \* organization.deletedAt is set
    faults, ops

ingestVars == <<stored, quarantine, journal, jobs, began>>
vars == <<db, ingestVars, today, deleted, faults, ops>>

StoredEvent == [send : Send, event : EventName, at : Day, test : BOOLEAN]

JournalRow == [exists : BOOLEAN, batch : Seq(Event), received : Day \cup {Null},
               done : BOOLEAN, purged : BOOLEAN, replays : Nat]
NoRow == [exists |-> FALSE, batch |-> <<>>, received |-> Null,
          done |-> FALSE, purged |-> FALSE, replays |-> 0]

TypeOK ==
    /\ db \in Db
    /\ stored \subseteq StoredEvent
    /\ quarantine \subseteq [event : Event, day : Day]
    /\ journal \in [Row -> JournalRow]
    /\ \A j \in Row : /\ journal[j].replays \in 0 .. ReplayMaxAttempts + MaxOperator
                      /\ journal[j].exists => journal[j].received \in Day
    /\ jobs \in [Row -> 0 .. MaxJobs]
    /\ began \in [Row -> Day \cup {Null}]
    /\ today \in Day
    /\ deleted \in BOOLEAN
    /\ faults \in 0 .. MaxFaults /\ ops \in 0 .. MaxOperator

Init ==
    /\ db = EmptyDb
    /\ stored = {} /\ quarantine = {}
    /\ journal = [j \in Row |-> NoRow]
    /\ jobs = [j \in Row |-> 0]
    /\ began = [j \in Row |-> Null]
    /\ today = 1
    /\ deleted = FALSE
    /\ faults = 0 /\ ops = 0

-----------------------------------------------------------------------------
(* The webhook route.                                                      *)

\* The rows written so far are a prefix of Row: received_at follows their order.
NextRow == CHOOSE j \in Row : journal[j].received = Null
                              /\ \A i \in Row : i < j => journal[i].received # Null

\* A signed, fresh delivery for a live workspace: the journal row commits, then
\* the batch is enqueued and acknowledged -- unless Redis refuses the job or the
\* process dies, and only the row stays.  A batch that SendGrid delivers again
\* gets a row of its own.
ReceiveBatch(b) ==
    /\ ~deleted
    /\ \E j \in Row : journal[j].received = Null
    /\ \A n \in 1 .. Len(b) : b[n].at \in Day => b[n].at <= today
    /\ journal' = [journal EXCEPT ![NextRow] =
                     [NoRow EXCEPT !.exists = TRUE, !.batch = b, !.received = today]]
    /\ \/ jobs' = [jobs EXCEPT ![NextRow] = @ + 1] /\ UNCHANGED faults
       \/ faults < MaxFaults /\ faults' = faults + 1 /\ UNCHANGED jobs
    /\ UNCHANGED <<db, stored, quarantine, began, today, deleted, ops>>

-----------------------------------------------------------------------------
(* The webhook-events worker.                                              *)

\* A job of a soft-deleted workspace returns before anything else.
DropJobOfDeletedWorkspace(j) ==
    /\ jobs[j] > 0 /\ deleted
    /\ jobs' = [jobs EXCEPT ![j] = @ - 1]
    /\ UNCHANGED <<db, stored, quarantine, journal, began, today, deleted, faults, ops>>

\* The workspace was live when the job looked; `now' is read right after.
BeginBatch(j) ==
    /\ jobs[j] > 0 /\ ~deleted /\ began[j] = Null
    /\ jobs' = [jobs EXCEPT ![j] = @ - 1]
    /\ began' = [began EXCEPT ![j] = today]
    /\ UNCHANGED <<db, stored, quarantine, journal, today, deleted, faults, ops>>

\* classifyOccurredAt against the day the batch is judged by.
OccurredAtAccepted(e, now) == e.at \in Day /\ now - PastDays <= e.at /\ e.at <= now

\* extractEventRow and dropSiblingWorkspaceEvents.
Quarantined(b, now) ==
    {e \in ToSet(b) : e.hasId /\ ~OccurredAtAccepted(e, now)}
Extracted(e, now) == e.hasId /\ OccurredAtAccepted(e, now) /\ e.send # "sibling"

SameKey(k, e) == k.send = e.send /\ k.event = e.event /\ k.at = e.at

\* Mutant: the insert does not say ON CONFLICT DO NOTHING for a repeated open.
IngestOneAgain(acc, e, now) ==
    IF e.send \notin Send THEN acc
    ELSE [stored |-> acc.stored \cup {[send |-> e.send, event |-> e.event, at |-> e.at, test |-> e.test]},
          db     |-> IF e.test THEN acc.db ELSE ApplyEventSideEffects(acc.db, e, now)]

\* One row of the INSERT ... ON CONFLICT DO NOTHING and, for a row that is new,
\* not a test and of a live send, its side effects.
IngestOne(acc, e, now) ==
    IF e.send \notin Send \/ \E k \in acc.stored : SameKey(k, e) THEN acc
    ELSE [stored |-> acc.stored \cup {[send |-> e.send, event |-> e.event, at |-> e.at, test |-> e.test]},
          db     |-> IF e.test THEN acc.db ELSE ApplyEventSideEffects(acc.db, e, now)]

\* No recount runs here: a mark predates the next one.
Now == [today |-> today, mark |-> "before"]

\* The n-th event of the batch, after the rows the earlier ones left.
IngestNext(acc, j, n) ==
    LET b == journal[j].batch
    IN  IF n <= Len(b) /\ Extracted(b[n], began[j]) THEN IngestOne(acc, b[n], Now) ELSE acc

\* The workspace's rows after the first n events of each journalled batch.
IngestUpTo[n \in Nat] ==
    [j \in Row |-> IF n = 0 THEN [stored |-> stored, db |-> db]
                   ELSE IngestNext(IngestUpTo[n - 1][j], j, n)]

Ingest(j) == IngestUpTo[Len(journal[j].batch)][j]

\* markIngestionComplete of a row the sweep may have deleted meanwhile.
MarkIngestionComplete(j) ==
    IF journal[j].exists THEN [journal EXCEPT ![j].done = TRUE] ELSE journal

\* processWebhookEventBatch after the check: one transaction with the quarantine
\* rows, the inserts, the side effects and the completion of the journal row.
ProcessWebhookEventBatch(j) ==
    /\ began[j] # Null
    /\ LET new == Ingest(j)
       IN  db' = new.db /\ stored' = new.stored
    /\ quarantine' = quarantine \cup
         {[event |-> e, day |-> today] : e \in Quarantined(journal[j].batch, began[j])}
    /\ journal' = MarkIngestionComplete(j)
    /\ began' = [began EXCEPT ![j] = Null]
    /\ UNCHANGED <<jobs, today, deleted, faults, ops>>

\* The worker dies or the transaction rolls back; the job is redelivered while
\* it has attempts left, and given up after.
BatchFails(j) ==
    /\ began[j] # Null /\ faults < MaxFaults
    /\ began' = [began EXCEPT ![j] = Null]
    /\ \/ jobs[j] < MaxJobs /\ jobs' = [jobs EXCEPT ![j] = @ + 1]
       \/ UNCHANGED jobs
    /\ faults' = faults + 1
    /\ UNCHANGED <<db, stored, quarantine, journal, today, deleted, ops>>

\* POST /unsubscribe/:token with a verified token; nobody asks about deletion.
UnsubscribeClick(s) ==
    /\ ops < MaxOperator
    /\ db' = Unsubscribed(db, s, today, Now)
    /\ ops' = ops + 1
    /\ UNCHANGED <<ingestVars, today, deleted, faults>>

-----------------------------------------------------------------------------
(* The replay sweep and the replay tool.                                   *)

Incomplete(j) == journal[j].exists /\ ~journal[j].done
Expired(j)    == journal[j].received < today - RetentionDays

\* Mutant: a row right at the threshold is not stuck, nor ever gets there.
StuckBefore(n) ==
    LET stuck == {j \in Row : Incomplete(j) /\ j < n}
    IN  {j \in stuck : Cardinality({i \in stuck : i < j}) < ReplayPageLimit}

\* findStuckIngressJournalRows, with the rows up to n past the threshold: the
\* oldest incomplete ones, tombstones and capped rows included, one page of them.
StuckRows(n) ==
    LET stuck == {j \in Row : Incomplete(j) /\ j <= n}
    IN  {j \in stuck : Cardinality({i \in stuck : i < j}) < ReplayPageLimit}

\* What the sweep re-enqueues of its page.
Replayable(n) ==
    {j \in StuckRows(n) : ~journal[j].purged /\ journal[j].replays < ReplayMaxAttempts}

\* Mutant: retention deletes every old row.
RetainedWithoutCompletion(row, j) ==
    CASE ~row.exists \/ ~Expired(j) -> row
      [] OTHER                      -> [row EXCEPT !.exists = FALSE]

\* pruneIngressJournal and purgeExpiredIngressJournalPayloads.
Retained(row, j) ==
    CASE ~row.exists \/ ~Expired(j) -> row
      [] row.exists /\ Expired(j) /\ row.done  -> [row EXCEPT !.exists = FALSE]
      [] row.exists /\ Expired(j) /\ ~row.done -> [row EXCEPT !.purged = TRUE]

\* runWorkspaceTick claims what can be replayed, then applies retention, in one
\* transaction; the adds to the queue follow its commit, and a crash in between
\* leaves attempts counted and no job.  Deleted workspaces are scanned as well.
RunReplaySweep(n, added) ==
    /\ added \subseteq Replayable(n)
    /\ \A j \in added : jobs[j] < MaxJobs
    /\ journal' = [j \in Row |->
         Retained(IF j \in Replayable(n) THEN [journal[j] EXCEPT !.replays = @ + 1] ELSE journal[j], j)]
    /\ quarantine' = {q \in quarantine : q.day >= today - RetentionDays}
    /\ jobs' = [j \in Row |-> IF j \in added THEN jobs[j] + 1 ELSE jobs[j]]
    /\ IF added = Replayable(n) THEN UNCHANGED faults ELSE faults < MaxFaults /\ faults' = faults + 1
    /\ UNCHANGED <<db, stored, began, today, deleted, ops>>

\* replay-webhook-journal: any row that still has its payload, complete or not.
ReplayJournal(j) ==
    /\ ops < MaxOperator /\ jobs[j] < MaxJobs
    /\ journal[j].exists /\ ~journal[j].purged
    /\ journal' = [journal EXCEPT ![j].replays = @ + 1]
    /\ jobs' = [jobs EXCEPT ![j] = @ + 1]
    /\ ops' = ops + 1
    /\ UNCHANGED <<db, stored, quarantine, began, today, deleted, faults>>

-----------------------------------------------------------------------------
(* Time, and the workspace's owner.                                        *)

NextDay ==
    /\ today < MaxDay
    /\ today' = today + 1
    /\ UNCHANGED <<db, ingestVars, deleted, faults, ops>>

SoftDeleteOrRestore ==
    /\ ops < MaxOperator
    /\ deleted' = ~deleted
    /\ ops' = ops + 1
    /\ UNCHANGED <<db, ingestVars, today, faults>>

Next ==
    \/ \E b \in Batches : ReceiveBatch(b)
    \/ \E j \in Row : \/ DropJobOfDeletedWorkspace(j) \/ BeginBatch(j)
                      \/ ProcessWebhookEventBatch(j) \/ BatchFails(j)
                      \/ ReplayJournal(j)
    \/ \E n \in Row : \E added \in SUBSET Row : RunReplaySweep(n, added)
    \/ \E s \in Send : UnsubscribeClick(s)
    \/ NextDay \/ SoftDeleteOrRestore

Spec == Init /\ [][Next]_vars

\* The workers run while they have something to do and the schedulers repeat
\* their ticks, one of them after every row has passed the threshold.  No batch
\* has to arrive, nobody has to click, nothing has to fail.
TakesJob(j)  == jobs[j] > 0 /\ (deleted \/ began[j] = Null) /\ jobs' = [jobs EXCEPT ![j] = @ - 1]
EndsBatch(j) == began[j] # Null /\ began' = [began EXCEPT ![j] = Null]

Fairness ==
    /\ \A j \in Row : WF_jobs(TakesJob(j)) /\ WF_began(EndsBatch(j))
    /\ WF_vars(\E n \in Row : /\ \A j \in Row : j <= n
                              /\ RunReplaySweep(n, Replayable(n)))

FairSpec == Spec /\ Fairness

-----------------------------------------------------------------------------
(* Properties.                                                             *)

\* The fact a counter counts.
CountedFacts(m) ==
    CASE m = "delivered"    -> {"delivered_at"}
      [] m = "opened"       -> {"first_opened_at"}
      [] m = "clicked"      -> {"first_clicked_at"}
      [] m = "bounced"      -> NonDeliveryTerminal
      [] m = "unsubscribed" -> {"unsubscribed_at"}

\* Redelivered, replayed and concurrently processed batches, drops that
\* unsubscribe and clicks on the unsubscribe link never count a send twice, or
\* miss one: each campaign counter is the number of its sends with the fact.
CountersMatchFacts ==
    \A m \in Metric :
        db.count[m] = Cardinality({s \in CampaignSend :
                        \E f \in CountedFacts(m) : db.fact[s][f] # Null})

\* open_count and click_count, which count every event, count each stored one
\* exactly once however often its batch is processed.
EngagementMatchesEvents ==
    \A s \in Send :
        LET seen(name) == Cardinality({k \in stored : k.send = s /\ k.event = name /\ ~k.test})
        IN  db.opens[s] = seen("open") /\ db.clicks[s] = seen("click")

\* An address whose mail bounced hard, bounced too often or was reported is on
\* the suppression list, whatever its subscription became in the meantime.
TerminalsAreSuppressed ==
    \A s \in Send : db.fact[s]["bounced_at"] # Null \/ db.fact[s]["spam_reported_at"] # Null
                    => ContactOf[s] \in db.hashed /\ db.status[ContactOf[s]] # "subscribed"

\* What retention has deleted, and what counts as complete, has reached
\* send_events: no acknowledged event of a live send disappears between the
\* journal and the facts.  An event too old by now may have been quarantined.
CompleteMeansIngested ==
    \A j \in Row : journal[j].received # Null /\ (journal[j].done \/ ~journal[j].exists) =>
        \A e \in ToSet(journal[j].batch) :
            e.hasId /\ e.send \in Send /\ e.at \in Day /\ e.at >= today - PastDays
                => \E k \in stored : SameKey(k, e)

\* A journalled batch is ingested, or stays visible as lost: its replays used
\* up, its payload expired, or its workspace deleted.
BatchesSettle ==
    \A j \in Row : journal[j].exists ~>
        \/ journal[j].done \/ ~journal[j].exists
        \/ journal[j].purged \/ journal[j].replays >= ReplayMaxAttempts \/ deleted
=============================================================================

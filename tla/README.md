# Verification of the campaign delivery platform

Mega-crm is a multi-tenant email CRM: a Fastify API (`apps/api`), BullMQ workers
(`apps/worker`), a React client (`apps/web`), PostgreSQL with row-level security,
Redis, and SendGrid as the provider. This directory holds TLA+ models of its
stateful core, the TLC runs that check them, and TLAPS proofs.

## 1. Inventory

| Component | State | Operations | What is hard | What makes it correct |
|---|---|---|---|---|
| Send ledger (`delivery-core/send-ledger.ts`) | one `sends` row per intent, campaign counters | claim, release, record, exclude, resolve, sweep, count, complete | statements with and without status guards, from several processes | the row tells the truth; counters agree with it |
| Status state machine (`send-state-machine.ts`) | status of a row | allowed edges | two writers for one edge | nothing else happens to a status |
| Send dispatch (`send-dispatch.ts`, send workers) | job, lock, claim, request on the wire | claim / call / record in three units | crash between units, lock lapse, retries, lost answers | at most one acceptance per intent |
| Reconciler (`reconciler.ts`, `send-reconciler.worker.ts`) | batch of candidates | discover, classify, resolve | stale candidates, late evidence, aborted ticks | ambiguity ends; each row is resolved and counted once |
| Campaign API (`campaigns/campaign.repository.ts`) | campaign row with a version | update, launch, schedule, cancel, delete, test send | stale clients | what goes out was approved; a cancel is final |
| Scheduler (`campaign-scheduler.worker.ts`) | none (scan) | discover, transition, enqueue | stale candidate; commit and enqueue are two steps | a due campaign is found again after a crash; only the known ways strand it |
| Kickoff and snapshot (`campaign-kickoff.worker.ts`, `recipient-snapshot.ts`) | recipients, cursor, totals | materialise, walk, finish | redelivery over a moving audience | nobody is missed, nobody is dropped, the snapshot is frozen |
| Lane semaphore (`tenant-lane-semaphore.ts`) | sorted set of tokens in Redis | acquire, release, lease purge | leaked slots, clocks | the cap holds; slots come back |
| Soft delete and restore (`tenancy/workspaces.ts`, `workspace-restore.ts`) | `deletedAt` | delete, restore | jobs in flight on both sides | nothing is sent meanwhile; no surprise afterwards |
| Webhook ingestion (`webhooks.routes.ts`, `webhook-events.worker.ts`, `webhook-replay-sweep.worker.ts`) | journal, `send_events`, quarantine, facts on `sends`, counters, suppressions | journal and enqueue, validate, insert once, apply, replay, retire | duplicates, reordering, crash between journal, queue and apply | facts, counters and suppressions agree with the events; no batch is forgotten |
| Unsubscribe (`unsubscribe-apply.ts`) | contact status, `unsubscribed_at` | click | races the provider's own unsubscribe event | counted once |
| Daily rollup (`daily-rollup.ts`, `analytics-reconciliation.worker.ts`) | one row per day, dirty marks | increment, mark, recount, overwrite, clear | a recount from an older snapshot overwrites newer increments | never too much; recent days converge |
| Flow graph (`flows-core`) | a definition | validate, resolve the next node | cycles, dead ends | no publishable definition traps a run |
| Flow runs (`flow-run-advance.worker.ts`, `flow-reconciliation.worker.ts`, flow API) | runs, steps, nudges, versions | enter, advance, nudge, publish, pause, delete, eject | lost and duplicate nudges, rollback after enqueue, publication under way | runs follow their version, wait, mail once, end |
| Flow entry (`flow-trigger-evaluator`, `flow-segment-sweep*`, `flow-enroll-existing`) | membership snapshot, checkpoint, cursor | check, sweep, enrol, seed | keyset walks over a moving segment, several jobs at once | who should enter is considered, who should not stays out |
| Workspace purge (`workspace-purge*.ts`, `workspace-restore.ts`) | purge record, tables, advisory lock | report, walk, census, tombstone, restore | restore between two steps, crash between two batches | live means intact, complete means destroyed |
| Ops watchdogs (`apps/api/src/modules/ops`, `db/src/ops`) | one alert slot per watchdog | read, claim, mail, release, re-arm | several replicas, refused mails | one alert per window; lasting trouble is heard of |
| Event store and erasure (`db/src/partitions`, `partition-maintenance.worker.ts`, `erasure-scrub*.ts`) | partitions, DEFAULT rows, erasure record with cursor | premake, drop, relocate, scrub, reclaim | paged walk under partitions that move, two scrubs at once | events stay within reach; a completed erasure is complete |

How they interact: the API and the scheduler commit `sending` and enqueue one
kickoff job; the kickoff freezes the segment and enqueues one send job per
recipient under a deterministic id; a send job claims its ledger row, calls
SendGrid and records the answer, counting it on the campaign; whatever it cannot
decide it leaves to the reconciler, which decides by webhook evidence or by age.
SendGrid's events come back through the journal and set facts on the same `sends`
rows, counters on the campaign and on the day, and suppressions on the contact, which
the pre-send gate reads before the next mail. Flows enter contacts on events and
segment membership and queue the same kind of send job. Purge, erasure and partition
maintenance delete under all of this. Every step may be the last one its process
takes.

`PROJECT.json` lists all components, the hazards with their source lines, and the
lines each definition stands for.

## 2. Modules

| Module | Models |
|---|---|
| `SendLedger` | every statement on a ledger row and on the campaign counters, as an operator from row to row |
| `SendStateMachine` | the abstract specification: `SEND_STATUS_TRANSITIONS`, entries, release |
| `SendDispatch` | jobs, attempts, provider, reconciler and counters, composed from `SendLedger` |
| `CampaignFanOut` | the campaign's life: API, scheduler, snapshot, fan-out, completion, soft delete; composed from `SendLedger` |
| `TenantLaneSemaphore` | the lane slots |
| `SendFacts` | what one provider event or unsubscribe click does to a send's facts, the campaign and daily counters and the contact, as operators from database to database |
| `WebhookIngestion` | journal, queue, worker, replay sweep and retention around `SendFacts` |
| `DailyRollup` | the writers of the daily rollup around `SendFacts` |
| `FlowGraph` | flow definitions: validation and next-node resolution |
| `FlowRuns` | the runs of one flow, composed from `FlowGraph`, with the API calls on the flow |
| `FlowEntry` | the four ways into a flow and the snapshot of members |
| `WorkspacePurge` | soft delete, restore and purge of workspaces |
| `OpsAlerts` | the ten watchdogs and their alert slots |
| `EventStore` | partitions of the event tables, relocation, and the erasure that walks them |
| `<Module>Proofs` | theorems about `SendDispatch`, `CampaignFanOut`, `FlowRuns`, `FlowEntry`, `WorkspacePurge` and `EventStore` |
| `SendFactsProofs` | theorems about `WebhookIngestion` and `DailyRollup`, which share the tables of `SendFacts` |
| `AgedClaimsProofs` | theorems about `TenantLaneSemaphore` and `OpsAlerts`, whose claims lapse with age |
| `MC*` | instances for TLC |

**Time** is elapsed time: a row carries the age of `queued_at` and of
`reconciling_since`, a token the time since its owner read the clock. Ages saturate
above the largest threshold, so time itself is not bounded.

**SendDispatch.** `row` is the ledger, `campaign` the campaign row, `job[i]` BullMQ's
record (state, lock owner, attempts made, stalls), `att[a]` a worker slot with a
program counter between transactions, `accepted[i]` how often SendGrid took the
message (ghost state), `evidence` the intents with a `send_events` row, `batch` what
the reconciler's tick has still to visit. One action is one transaction, one Redis
round or one HTTP exchange. `Crash` and `Throw` may come between any two;
`Return` models the `finally` that releases the lane slot and whose own error
replaces the result. An intent of the campaign reads the campaign status and counts;
the others are flow steps (`processFlowSendJob`), which do neither. The pre-send gate
and the token bucket answer arbitrarily here.

`LockMayLapse` says whether BullMQ may hand a job out again while its attempt is
alive. The lock is renewed on a timer, so this takes a Redis outage or a paused
process of more than the 60 s lock. Both values are checked: at-most-once does not
depend on locks, the single-writer rules do.

**CampaignFanOut** dispatches a send job in one step and resolves an ambiguous row in
one step; in return it has the whole campaign row, the audience and the kickoff walk.
`view` and `approved` are what a marketer's client shows and what was launched or
scheduled last. Contacts are ordered ids because snapshot and walk are keyset walks.

**TenantLaneSemaphore** keeps the sorted set, where each owner stands, and the age of
each score. The purge uses the caller's own clock reading, which may be older than
the moment the script runs.

**SendFacts, WebhookIngestion, DailyRollup.** `db` is the record of tables an event's
transaction touches: facts per send, counters per campaign, rollup and dirty mark per
day, status and soft bounces per contact (`facts` in `DailyRollup`). `WebhookIngestion` has the transaction at its
commit (two batches on one send serialise on the unique key of `send_events` and on row
locks); `DailyRollup` opens up the one transaction whose interleaving matters, the
reconciliation: a day is counted from one statement's snapshot, overwritten later, and
the row is then locked to the end. A dirty mark is "before" or "after" the start of the
sweep under way, which is all the clearing predicate compares.

**FlowRuns.** `txn[r]` is an advance that holds the lock of its run; the jobs it
enqueues are in the queues at once and survive its rollback. `HandleNode` is what a node
handler decides, as the set of outcomes of a read. Time is a clock of `DayTicks` instants
with quiet ones among them; a run carries the ticks to its wake-up. The walk is bounded
by `MaxSteps` in the handlers themselves, as in the code (`MAX_STEPS_PER_RUN`); at 6 steps
a run of the instance that is deferred often enough at its mail is ended by it.

**FlowEntry** splits the trigger check and the page of a sweep into read and write.
Runs only begin and end there.

**WorkspacePurge.** One action per transaction of the walk: a page of a table, the mark
of a finished table, the census of members, their deletion, its mark, the tombstone,
completion. The advisory lock belongs to the session and goes with it.

**OpsAlerts.** A behaviour follows one watchdog, chosen by `Init`; `signal` is what its
query reads and `Trouble` its verdict, one operator per watchdog. The replicas of the
API are `Check`s that race for the slot.

**EventStore.** An event is absent, in DEFAULT, in its month's child, or dropped; a
child is none, freestanding, or attached. Only the relocation sees freestanding children.
A cursor is the last event scrubbed of a table, or `Done`.

Operators under a comment that begins with "Mutant" are deliberate mistakes, one
statement of the code changed. They are not used by any specification; each is
substituted for its original to show that a property notices it.

## 3. Runs

| Run | Instance | States | Shows |
|---|---|---|---|
| `dispatch_lapsed_locks` | 1 recipient, 2 slots, 2 attempts, 1 stall, locks may lapse | 270 000 | `AtMostOnce`, `LedgerTellsTruth`, `ClaimDiscipline` |
| `dispatch_locks_held` | 1 campaign recipient, 2 slots, locks hold, fairness | 23 000 | `CountersMatchLedger`, `ClaimUndisturbed`, `LedgerRefinement`, `ReconcilerIsSoleWriter`, `ClaimsResolve`, `AmbiguityResolves` |
| `fanout_redelivery` | 3 contacts, pages of 2, one drifter, one failing kickoff attempt, soft delete, crashing producer | 1 750 000 | `FanOutMissesNobody`, `CompletedMeansSettled`, `CancelIsFinal` |
| `campaign_lifecycle` | 1 contact that drifts and unsubscribes, cap of one, 2 contents, 4 versions, 2 failing kickoff attempts (all), soft delete, crashing producers, fairness | 341 000 | `ContentAsApproved`, `DueCampaignStarts` |
| `lane_slots` | 3 tokens, cap 2, lease 3, hold 2, fairness | 20 000 | `CapRespected`, `OwnersKeepTheirSlots`, `LeakedSlotsComeBack` |
| `webhook_ingest` | 2 journal rows, 2 batches of 6 and 10 events on 2 sends of a contact, 2 days, 1 fault, 1 operator act, fairness | 104 000 | `CountersMatchFacts`, `EngagementMatchesEvents`, `TerminalsAreSuppressed`, `CompleteMeansIngested`, `BatchesSettle` |
| `daily_rollup` | 5 late or early events on 3 days, window of 1 day, dirty page of 1, 1 rollback, fairness | 138 000 | `RollupNeverOverstates`, `RecentDaysConverge` |
| `flow_runs` | 1 run, 3 definitions (one cyclic), 2 versions, 2 API calls, 1 fault, fairness | 211 000 | `StepsFollowVersion`, `NodeMailsOnce`, `WalksInNoCircle`, `DelaysAreServed`, `RunsEnd` |
| `flow_entry` | 2 contacts, pages of 1, 2 changes, 1 fault, fairness | 248 000 | `SettledMembersStayOut`, `EnrolmentMissesNobody`, `NewMembersAreConsidered` |
| `workspace_purge` | 1 workspace, 2 tables of 2 rows, 2 workers, 3 days, 2 deletions, 2 faults, fairness | 15 000 | `LiveMeansIntact`, `CompleteMeansDestroyed`, `PurgeFinishes` |
| `ops_alerts` | every watchdog, 2 checks at once, window of 2, 1 fault, fairness | 88 000 | `OneAlertPerWindow`, `LastingTroubleIsReported` |
| `event_store` | 2 events of two months, 1 table, 2 scrubbers, pages of 1, 3 months, 1 fault, fairness | 647 000 | `EventsStayReachable`, `ErasureScrubsAll`, `ErasureSettles` |

Each property's comment in its module says what it means and which hazard of
`PROJECT.json` it is about. The type invariant of every module holds on the same instances
and can be added to any configuration. Two configurations are larger variants that pass and
take longer: `MCSendDispatch_campaign.cfg` (two recipients of one campaign, 1.7 million
states, `CountersMatchLedger`, `CompletedMeansSettled`) and `MCCampaignFanOut_gate.cfg`
(the gate changes its mind between fan-out and dispatch: `CompletedMeansSettled`,
`SnapshotFrozen`).

`SnapshotFrozen` is checked without failing kickoff attempts and `CompletedMeansSettled`
of the fan-out either without them or without a moving gate: with both, neither holds
(section 4).

Why the bounds are enough to meet the interesting cases: two slots are two live
processors on one row; two attempts and one stall are a retry after a throw, after a
crash, and a job that fails for good; ages distinguish before and after each
window; three contacts on pages of two give a full page, a partial page and an empty
one, with a boundary for the cursor to resume at; one failing kickoff attempt at any
step is a redelivery from any step, and two use its attempts up; three tokens over a cap
of two give a rejected caller, a purge by somebody else, and two leaked slots at once. The webhook batches
repeat an event within a batch and across batches, give one send two terminals, reach
the soft-bounce threshold, and carry every reason for quarantine. Two days tell an event
of today from a late one, and three days a recent day, a dirty one outside the window
and one that has left it. A delay as long as the day crosses the quiet hours. Two
contacts on pages of one cut every walk in the middle. Two faults in the purge are a
failure and a crash of the worker that resumes. With a window of two ticks and checks
of one, a slow check can claim a slot another one has released. Three months are one
expired, one current and one ahead.

`CHECK_DEADLOCK FALSE` is said where the modelled part of the system may come to rest:
`flow_entry` (the allowed changes are used up and every job has ended) and
`event_store` (time has run out and the erasure is done), and three of the
configurations of section 4, whose campaign is over.

## 4. Disagreements between code and its documentation

The runs above check what the code keeps. What follows is what it does not: a comment,
a runbook or the surrounding code says one thing and TLC shows a behaviour of the model
that does another. The configuration named with each reproduces it
(`tlc -config <cfg> <module>`).

- `MCSendDispatch_hang.cfg`, `SettledCampaignCompletes`: the writes that make a row
  ambiguous, and the verdict `resolve_unknown`, do not call `tryCompleteCampaign`. A
  campaign whose last recipient turns ambiguous stays `sending`, for good if no evidence
  arrives; `send-ledger.ts:579` says that it "still completes instead of hanging". An
  exclusion at dispatch time of a recipient already counted in `sendable_total` has the
  same effect.
- `MCSendDispatch_double_count.cfg`, `CountersMatchLedger`: `recordSendResult` has no
  status guard. After a lock lapse a late attempt moves a row out of `reconciling` (which
  ARCHITECTURE.md section 9 reserves to the reconciler), and counts a send the reconciler
  has counted; `send-ledger.ts:541-548` says each terminal transition happens "AT MOST
  ONCE". At-most-once delivery and the truth of the ledger are not affected.
- `MCCampaignFanOut_lost_kickoff.cfg`, `EveryDueCampaignStarts`: a crash between the commit
  of `sending` and the enqueue of the kickoff job strands the campaign, against
  "Self-healing/restart-safe by construction" (`campaign-scheduler.worker.ts:167`). A
  kickoff job that ran while the workspace was soft-deleted strands it in the same way
  after a restore, and so does one whose last attempt fails. What the code does keep is
  `DueCampaignStarts`, which `campaign_lifecycle` checks with all three happening: there is
  no fourth way, and a crash before the commit is made good by the next scan.
- `MCCampaignFanOut_recount.cfg`, `CompletedMeansSettled`: the second walk of a
  redelivered kickoff takes recipients of the first one for frequency-capped, lowers
  `sendable_total`, and the campaign completes with a recipient still queued, whose job
  is then skipped (`send-ledger.ts:570`). The second walk also re-enters the snapshot
  loop and adds contacts that joined meanwhile behind the cursor, against the comment in
  `recipient-snapshot.ts` that they are not added.
- `MCCampaignFanOut_incomplete.cfg`, `OnlyCompleteCampaignsStart`: neither scheduling nor
  the scheduler checks completeness, against `campaign.repository.ts:330`.
- `MCDailyRollup_late.cfg`, `ClearedDaysAreVerified`: `daily-rollup.ts:127` keeps the
  first mark of a day (`COALESCE(dirtied_at, now())`), so an event that comes late on a
  day already marked does not renew the mark, and the sweep under way clears it;
  `analytics-reconciliation.worker.ts:194` says such a mark must survive. The event's own
  increment may be overwritten by the same sweep, and outside the window nothing repairs
  it.
- `MCFlowEntry_republish.cfg`, `SettledMembersStayOut`: a sweep reads its segment once
  at the start. When a flow is republished with another trigger segment meanwhile, the
  sweep deletes snapshot rows that publication has just seeded, and a later one enters
  those members; `flow.repository.ts:408-413` says there is no such window.
- `MCWorkspacePurge_restored.cfg`, `RetentionServed`: a purge record in `reported` outlives a
  restore. When the workspace is deleted again, the next tick destroys it without a new
  retention window; the runbook (`docs/runbooks/workspace-purge-and-restore.md:36-38`) says
  the days "must elapse from `deletedAt`".
- `MCEventStore_relocation.cfg`, `RowsStayQueryable`: rows under relocation sit in a
  child that is not attached and are seen by no query;
  `docs/runbooks/relocate-default-partition-rows.md:203` says they remain fully queryable
  through the parent the entire time.

Smaller observations met while modelling, without a configuration of their own:

- Replay picks the oldest unfinished rows first; rows that fail for ever use up their
  attempts before younger ones get a turn, and the rows of a soft-deleted workspace use
  theirs up without being processed.
- `bounced_count` of a day counts the first terminal's day, the recount each terminal's;
  a drop for an unsubscribed address sets `unsubscribed_at` without an increment. Both
  are repaired by the recount inside the window only.
- Two trigger paths that check re-entry at the same time can both enter a `once_ever`
  contact whose first run has ended; a page's view of the snapshot is older than its
  writes; `enroll_cursor` is never reset, so a second enrolment starts where the first
  ended.
- A mail enqueued by an advance that rolls back is sent and has no step.
- A failed purge record waits for an operator, and a walk that fails ends the tick for
  the workspaces after it.
- In the reputation watchdog a refused mail throws out of the loop over rows, so the
  rows after it wait for the next check (`reputation-watchdog.ts:311-313` says none can
  suppress another).
- A relocation cut off between the drain and the attachment leaves rows out of sight
  until an operator resumes it; maintenance throws for a month that has rows in
  DEFAULT until they are relocated.
- `markScrubFailed` has no status guard, a failed erasure is never reclaimed, and a
  retained job blocks a reclaim until the queue forgets it. Events that arrive after the
  request are not scrubbed.

## 5. Fairness

`SendDispatch`: a live attempt takes its next step (its calls have time-outs); idle
slots pick up waiting jobs; the stalled checker finds a job whose owner died; the
repeatable reconciler tick runs; time passes; the kickoff finishes. A tick may abort
any number of times, but not for ever before it reaches a given candidate (strong
fairness on `ResolveOneSend`): with one intent a tick has one candidate, so this says
that a candidate does not throw every time. No fairness on `Crash`, `Throw`, `Webhook`
or cancellation: evidence may never arrive. `CampaignFanOut`: the tick, a
producer that lives and the kickoff worker run; nobody is obliged to launch. Producers may
die between any two steps; the scheduler does not die each time between finding a campaign
and locking its row (strong fairness on `TransitionToSending`), while nothing at all says that
it lives to enqueue what it committed: `DueCampaignStarts` excuses what is stranded then.
`TenantLaneSemaphore`: Redis answers and expires keys, live owners release. `WebhookIngestion`: the
worker takes a waiting job and ends the batch it began, and the replay sweep keeps
ticking with a page that reaches every row: `BatchesSettle` says nothing about the
starvation noted in section 4. `DailyRollup`: the reconciliation keeps ticking and a
tick runs to its end unless it fails. `FlowRuns`: due nudges are taken, an open advance
commits or rolls back, the reconciliation ticks, time passes; nudges may be lost, and
`RunsEnd` rests on the reconciliation alone. `FlowEntry`: the sweep's discovery and its
job run on and a failed job expires from its queue; nothing obliges an event or an
enrolment. `WorkspacePurge`: ticks start, each worker goes on with its own, days pass.
`OpsAlerts`: the intervals fire and time passes. `EventStore`: scrubs run on, the
reclaim ticks, the queue forgets finished jobs. Faults are bounded and never obliged. The
expiry of a failed sweep job (`NewMembersAreConsidered`) and of a finished scrub job
(`ErasureSettles`) is optimistic: BullMQ evicts by age only when another job of the same
queue ends, so in a queue that falls silent the job stays, and both properties hold only as
long as the queue is used.

## 6. Proofs

Each module's theorems hold for every value of its constants that its named assumption
admits: any finite set of intents or contacts, any number of workers, slots, scrubs and
tables, any page size and any bound on attempts, faults and changes. The assumptions say
that numbers are numbers and sets are finite, and three things more: the reconciler's
windows are ordered (`WindowsAssumption`), an attempt that holds its lock ends before its
claim can be swept (`DispatchAssumption`), and the longest hold of a lane slot is below
its lease (`SemaphoreAssumption`). All three are relations between constants of the code.
Every module proved about has a type theorem, and every safety property of the runs is a
theorem (of `DueCampaignStarts`, its safety half). What follows is the argument of each: the
invariant that is inductive, and why the property alone is not. TLC was run on each of these invariants before it was proved.

`SendDispatchProofs`:

- `AtMostOnceTheorem`, `LedgerTellsTruthTheorem`, `ClaimDisciplineTheorem`, whether or
  not locks lapse. None of the three is inductive alone: a second acceptance is excluded
  because an attempt before its answer is the only engaged one on its intent and nothing
  has been accepted (`ClaimDiscipline`); that in turn needs that a row which would let
  somebody claim (absent) means nothing was accepted (`LedgerTellsTruth`) and that
  evidence is about an acceptance (`EvidenceIsTrue`, which the reconciler's verdict rests
  on). `SafetyInv` is their conjunction; `QuietStep` and `StatusStep` carry the actions
  that change no status and one status.
- `ClaimUndisturbedTheorem`, `LedgerRefinementTheorem`, `SoleWriterTheorem`, assuming
  that locks do not lapse under live attempts. `LockInv` adds to the types that each
  busy slot holds the lock of its job (`LocksHeld`), so nobody else works on its
  intent. The refinement maps `status` to the statuses of the rows; `OneEdge` shows that
  a change of one row along an allowed edge is an abstract step.
- `CountersMatchLedgerTheorem`, under the same hypothesis, without which it is false
  (section 4). With locks held, a result is recorded on a row that is still dispatching and a
  candidate is resolved while it is ambiguous, so each row comes into `sent` or `failed`
  once, in the transaction that counts it, and leaves neither. `RowsKept` and `RowsGained` say
  what that means for the number of rows of a status; each action is either an
  `UncountedStep` or a `CountedStep`.

`AgedClaimsProofs`:

- `OwnersKeepTheirSlotsTheorem` and `CapRespectedTheorem`, of the lane semaphore. The
  invariant adds `OwnersAreInTime`; `LiveOwnersSurvive` is the heart of it: a purge with an
  old clock reading removes less, never more.
- `OneAlertPerWindowTheorem`, of the nine watchdogs with one row. The property speaks of the
  past, and nothing in it ties the past to the slot; `ClaimsApart` does: who has claimed and
  not mailed yet holds the slot, at the time it claimed; a mail inside the window is the one
  the slot remembers, and then nobody is about to mail. So the next claim is more than a
  window behind, less at most `MaxCheck`: a check that began earlier may claim with the
  older time it took at its start. When a refused mail frees the slot its own claim
  is forgotten, and an earlier mail is out of the window already. If `MaxCheck` exceeds the
  window the property promises nothing, and neither does the invariant. The purge and the
  reputation watchdog may repeat themselves by design, and no mail of theirs is counted
  (`RepeatingUncounted`).

`WorkspacePurgeProofs`: `LiveMeansIntactTheorem` and `CompleteMeansDestroyedTheorem`, from
one invariant about each workspace and each worker. A record is destructive exactly when
it is purging, complete or failed, and a destructive one is of a deleted workspace, which
is what a restore checks under the same row lock (`RecordFits`); whoever holds the
advisory lock is the only walker (`LockFits`), so a table marked as done stays empty, and
members go only after the census has counted all of them (`RowsFit`); a walk has behind it
what precedes its step (`WalkFits`), which a resumed walk gets from the marks.

`CampaignFanOutProofs`:

- `ContentAsApprovedTheorem`: a client never shows a later version than the row's, and
  what it shows of that version is the row's content (`ViewFits`); this is inductive because
  every change of content raises the version.
- `CancelIsFinalTheorem`, an action property: no step but a deletion leaves `canceled`.
- `StrandedOnlyAsKnownTheorem`, an action property: the kickoff job is owed by nobody before
  the campaign is sending, and by nobody once it exists (`JobOwed`), so it can be added exactly
  once; from then on somebody has it until the fan-out is complete (`KickoffFits`), but for
  the three ways the property names.
- `FanOutMissesNobodyTheorem`, for a segment that moves under both walks. The persisted cursor
  bounds the snapshot from above and vouches for everybody below it who never left the
  segment (`SnapshotFits`); the walk over the snapshot has behind it only contacts that are
  excluded or have a job, and the page it holds has no gap (`WalkFits`). Both rest on one
  lemma on keyset pages: a page that is cut at its size skips nobody up to its last
  member.
- `CompletedMeansSettledTheorem`, under `GateStands`: nobody opts out and one send does not reach
  the cap, or no kickoff attempt fails. These are the two cases of section 3, and without them
  TLC refutes the property (section 4). `sendable_total`, in the walk and then on the
  campaign, is at least the number of send jobs behind it, and the counters together are at
  most the number of finished rows (`TotalsFit`); results that reach the total are therefore those of
  all send jobs (`EverybodySettled`), and who has none was excluded. `FirstWalk` says why a
  single walk may meet a gate that moves: whoever it has still before it has no job.

`FlowRunsProofs`:

- `StepsFollowVersionTheorem`: the version a run is pinned to is never the draft, the only
  one that changes (`RunsFit`), and what an open advance will commit was computed for the
  node the run still stands at, since the advance holds the row's lock (`TxnsFit`).
- `NodeMailsOnceTheorem`: a mail, queued or sent, belongs to a step the run took or to the send
  node it stands at (`MailsFit`), so an advance that is repeated after a rollback asks for the
  mail `claimFlowSend` already knows.
- `DelaysAreServedTheorem`, an action property: what is left of a delay and the time since it
  began make up at least the delay (`DelaysFit`), also for an advance that is open
  while time passes (the last conjunct of `Advances`).
- `WalksInNoCircleTheorem`: a run stays pinned to a version that validation accepted
  (`PinnedValid`), its steps are a walk along that version, and every step but a deferral
  takes an edge of it (`StepTakesEdge`). Coming back to a node would put a node that is
  reached from the trigger on a cycle (`NoCircle`), which `findCycleReachableFrom` excludes.
  `Closure` is the least set that no edge leaves, so that this follows without counting the
  rounds of the search.
- `BudgetTheorem`: therefore a run takes at most one step per node besides its deferrals, and
  one that `MAX_STEPS_PER_RUN` ended had used up its budget (`BudgetSpent`), the rest of it on
  deferrals: workers that are late every time may defer a run until then.

`EventStoreProofs`:

- `EventsStayReachableTheorem`: a maintenance run uses the month it began in, which is never
  after the present one, so it drops nothing inside the horizon (`HorizonKept`); a row in a
  child that is not attached is where the relocation stands or was cut off (`ChildrenFound`).
- `ErasureScrubsAllTheorem`: the persisted cursor of a table, and the cursor every scrub goes on
  with, vouch for what is behind them, also those of a second scrub that overwrites a later
  cursor with its own earlier one (`CursorsVouch`). Events owed stay in reach or are dropped for
  good (`OwedInReach`).

`FlowEntryProofs`: `SettledMembersStayOutTheorem` and `EnrolmentMissesNobodyTheorem`, assuming
that the flow keeps its trigger segment (`OneSegment`). The hypothesis is needed: with two
segments TLC refutes both, by the sweep of section 4 that deletes with an old segment what a
publication has just marked. A settled member is marked, is a member, and is neither in an
open check nor among the contacts a page is about to enter (`SettledInv`, which needs
`Untouched`: before the first publication nothing is under way). The enrolment's cursor
vouches for those who have stayed (`EnrolInv`); `PageIsNext` is its lemma on keyset pages.

`SendFactsProofs`, on the ingestion: `CountersMatchFactsTheorem`,
`EngagementMatchesEventsTheorem`, `TerminalsAreSuppressedTheorem` and
`CompleteMeansIngestedTheorem`.

- First one event: each case of `applyEventSideEffects` keeps `RowsOK`, from lemmas on the
  primitives of `SendFacts` (`SetFact`, `Counter`, `Rollup`, `Suppress`, `UnsubscribeRows`). A
  counter moves exactly when one more send has its metric (`CountStep`), and the first
  non-delivery terminal is the one that finds no other (`TerminalRows`).
- Then one batch: `IngestUpTo` is the recursion over the positions of a batch. That it is
  well defined (`IngestUpToUnfolds`) and that a whole batch keeps the rows and stores what it
  accepts (`IngestKeeps`) are inductions over its length, done by least counterexample.
- Then one step: `WebhookInv` adds `BatchInv`: no job and no worker has a batch that
  was never journalled, and a worker judges a batch by a day no earlier than its receipt. So an
  event that is young enough now was young enough then, and was not quarantined.

`SendFactsProofs`, on the rollup: `RollupNeverOverstatesTheorem`. A recount, once overwritten, hides
what came before it, so the property needs `SweepNeverOverstates`: what the sweep has counted or is
about to publish is at most a recount of the facts as they now are. Both are
kept by an event because it is `Backed`: no recount falls, and a rollup day grows by no
more than its recount does. Every case of `applyEventSideEffects` is (`BackedTwice` composes
them); the bounce metric, which two facts of one send share, needs that the increment is
taken only if no other terminal of the send is set (`FirstTerminal`). Nothing is assumed of
when events come; locks and dirty marks play no part in this property, only in convergence.

Where a proof needs that a nonempty set of numbers has a least element (the next page, the next
table, a least counterexample), it takes it from `WellFoundedInduction` as `LeastNat`. The
library's induction theorems, which take a predicate as a parameter, are not used.

Only model-checked, and why:

- All liveness: the prover does not reason about fairness or `ENABLED`. The liveness half of
  `DueCampaignStarts` is among it.

## 7. Not modelled

The map covers the stateful back end: the delivery, campaign, ingestion, flow, purge,
erasure, alert and partition code. It does not reach most of the repository's lines,
and cannot do so faithfully, because most of them have no state that steps of several
actors could bring out of order:

- The web client (`apps/web`), the scripts and the deployment files: presentation, checks
  of configuration and shell work.
- Contacts, segments and imports: row-by-row writes validated by schemas, SQL compiled
  from segment conditions, CSV parsing, exports. What the rest of the system sees of
  them, membership and opt-out that move at any time, is in `CampaignFanOut` and
  `FlowEntry`.
- Authentication, sessions, membership, invitations, API and SendGrid keys: delegated to a
  library, or one guarded statement per route.
- Tenant context and row-level security: enforced by PostgreSQL policies on every
  statement.
- The token bucket (a library; its verdict is arbitrary in `SendDispatch`), dead letters
  and the queue registry (they record and change nothing), key management, redaction,
  the health endpoint.

Within what is modelled: test sends, which write no ledger row; two live attempts at one
kickoff job; several campaigns sharing a contact's frequency cap; a 5xx answer to a
message SendGrid nevertheless accepted (the code takes a 5xx as proof of non-acceptance,
and so does `Refuse`); the hard deletion of a contact at dispatch, which throws and is
covered by a job whose attempts run out; jobs of other queues that still write into a
workspace while it is purged; several contacts and conditions in one flow run; SQL
isolation below one statement. Message content, templates, headers and logging carry no
property.

## 8. Plan

1. Reconciler under load: more candidates than the batch limit, candidates that always
   throw, the horizon filled with `unknown` rows.
2. `CampaignFanOut`: two live kickoff attempts; two campaigns on one frequency cap.
3. `WebhookIngestion` as the source of `SendDispatch`'s evidence, composed over one ledger.

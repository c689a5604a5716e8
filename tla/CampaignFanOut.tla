--------------------------- MODULE CampaignFanOut ---------------------------
(***************************************************************************)
(* The life of one campaign, from the draft the marketer edits to the last *)
(* recipient: the API's locked transitions, the scheduler tick, the        *)
(* kickoff job that freezes the segment and fans the snapshot out into     *)
(* send jobs, and the completion of the campaign.  A send job is           *)
(* dispatched in one step here; SendDispatch opens that step up.           *)
(***************************************************************************)
EXTENDS SendLedger, FiniteSetsExt

CONSTANTS
    Contact,             \* contact ids, in the order the keyset walks use
    Drifter,             \* the contacts that may join or leave the segment
    Fickle,              \* the contacts that may unsubscribe
    Content,             \* what a marketer may put into the draft
    MaxVersion,          \* bound on campaigns.version
    SnapshotBatchSize,   \* SNAPSHOT_BATCH_SIZE
    BreakdownPageSize,   \* BREAKDOWN_PAGE_SIZE
    MaxAttempts,         \* attempts of the kickoff job
    MaxFaults,           \* how many of its attempts may fail
    OneSendReachesCap,   \* does one send put a contact at the workspace's frequency cap?
    WorkspaceMayBeDeleted,   \* may the workspace be soft-deleted and restored?
    ProducerMayCrash     \* may the API or the scheduler die between two of its steps?

ASSUME FanOutAssumption ==
    /\ Contact \subseteq Nat \ {0} /\ IsFiniteSet(Contact)
    /\ Drifter \subseteq Contact /\ Fickle \subseteq Contact
    /\ MaxVersion \in Nat /\ MaxAttempts \in Nat \ {0} /\ MaxFaults \in Nat
    /\ SnapshotBatchSize \in Nat \ {0} /\ BreakdownPageSize \in Nat \ {0}
    /\ OneSendReachesCap \in BOOLEAN /\ WorkspaceMayBeDeleted \in BOOLEAN /\ ProducerMayCrash \in BOOLEAN

VARIABLES
    campaign,     \* the campaigns row: status, totals and counters
    draft,        \* its marketer-facing columns: version, content, complete, due
    view,         \* the version and content a marketer's client has on screen
    approved,     \* the content launched or scheduled last
    segment,      \* the contacts the segment matches
    softDeleted,  \* organization."deletedAt" is set
    optedOut,     \* the contacts that are unsubscribed or suppressed
    recipients,   \* campaign_recipients
    cursor,       \* campaigns.snapshot_cursor, 0 for NULL
    row,          \* [Contact -> Row]: the sends ledger
    sendJob,      \* [Contact -> state of the recipient's email-broadcast job]
    candidate,    \* did the scheduler's discovery scan return the campaign?
    owed,         \* is a process about to add the kickoff job?
    kickoff,      \* the kickoff job: its state and the attempts made
    walk          \* the local state of the attempt at it

api      == <<draft, view, approved>>
people   == <<segment, optedOut, softDeleted>>
ledger   == <<row, sendJob>>
snapshot == <<recipients, cursor>>
queue    == <<candidate, owed, kickoff>>
vars     == <<campaign, api, people, ledger, snapshot, queue, walk>>

NoWalk == [pc |-> "idle", after |-> 0, todo |-> {}, unsubscribed |-> {}, sendableTotal |-> 0]

Draft      == [version : 0 .. MaxVersion + 3, content : Content, complete : BOOLEAN, due : BOOLEAN]
View       == [version : 0 .. MaxVersion + 3, content : Content]
KickoffJob == [state : {"none", "waiting", "active", "completed", "failed"}, made : 0 .. MaxAttempts]
Walk       == [pc : {"idle", "entered", "snapshot", "page", "recipients", "finish"},
               after : Contact \cup {0}, todo : SUBSET Contact, unsubscribed : SUBSET Contact,
               sendableTotal : Nat]

TypeOK ==
    /\ campaign \in Campaign
    /\ draft \in Draft /\ view \in View
    /\ approved \in Content
    /\ segment \subseteq Contact /\ optedOut \subseteq Fickle /\ softDeleted \in BOOLEAN
    /\ recipients \subseteq Contact /\ cursor \in Contact \cup {0}
    /\ row \in [Contact -> Row]
    /\ sendJob \in [Contact -> {"none", "waiting", "done"}]
    /\ candidate \in BOOLEAN /\ owed \in BOOLEAN
    /\ kickoff \in KickoffJob /\ walk \in Walk

Init ==
    /\ campaign = [status |-> "draft", fanOutComplete |-> FALSE, sendableTotal |-> 0,
                   sentCount |-> 0, failedCount |-> 0]
    /\ \E c \in Content, ok \in BOOLEAN :
         /\ draft = [version |-> 0, content |-> c, complete |-> ok, due |-> FALSE]
         /\ view = [version |-> 0, content |-> c]
         /\ approved = c
    /\ segment \in {S \in SUBSET Contact : Contact \ Drifter \subseteq S}
    /\ optedOut = {} /\ softDeleted = FALSE
    /\ recipients = {} /\ cursor = 0
    /\ row = [c \in Contact |-> NoRow]
    /\ sendJob = [c \in Contact |-> "none"]
    /\ candidate = FALSE /\ owed = FALSE
    /\ kickoff = [state |-> "none", made |-> 0]
    /\ walk = NoWalk

-----------------------------------------------------------------------------
(* The API: every transition is a locked read-check-write; the routes do   *)
(* not find a workspace that is soft-deleted                               *)

\* The marketer's client loads the campaign.
Load ==
    /\ ~softDeleted
    /\ campaign.status # "deleted"
    /\ view' = [version |-> draft.version, content |-> draft.content]
    /\ UNCHANGED <<campaign, draft, approved, people, ledger, snapshot, queue, walk>>

\* Anybody may edit a draft; no version is asked for.
UpdateCampaign ==
    /\ ~softDeleted
    /\ campaign.status = "draft"
    /\ draft.version < MaxVersion
    /\ \E c \in Content, ok \in BOOLEAN :
         draft' = [draft EXCEPT !.version = @ + 1, !.content = c, !.complete = ok]
    /\ UNCHANGED <<campaign, view, approved, people, ledger, snapshot, queue, walk>>

\* Mutant: the version the client saw is not compared.
LaunchStaleVersion ==
    /\ ~softDeleted
    /\ campaign.status = "draft" /\ draft.complete
    /\ campaign' = [campaign EXCEPT !.status = "sending"]
    /\ draft' = [draft EXCEPT !.version = @ + 1]
    /\ approved' = view.content
    /\ owed' = TRUE
    /\ UNCHANGED <<view, people, ledger, snapshot, candidate, kickoff, walk>>

\* draft -> sending: the version the client saw is still the row's, and
\* template, sender and segment are set.  The route adds the kickoff job next.
LaunchCampaign ==
    /\ ~softDeleted
    /\ campaign.status = "draft"
    /\ view.version = draft.version
    /\ draft.complete
    /\ campaign' = [campaign EXCEPT !.status = "sending"]
    /\ draft' = [draft EXCEPT !.version = @ + 1]
    /\ approved' = view.content
    /\ owed' = TRUE
    /\ UNCHANGED <<view, people, ledger, snapshot, candidate, kickoff, walk>>

\* draft -> scheduled: the version is checked, completeness is not.
ScheduleCampaign ==
    /\ ~softDeleted
    /\ campaign.status = "draft"
    /\ view.version = draft.version
    /\ draft.version < MaxVersion
    /\ campaign' = [campaign EXCEPT !.status = "scheduled"]
    /\ draft' = [draft EXCEPT !.version = @ + 1, !.due = FALSE]
    /\ approved' = view.content
    /\ UNCHANGED <<view, people, ledger, snapshot, queue, walk>>

\* scheduled -> draft, or sending -> canceled.
CancelCampaign ==
    /\ ~softDeleted
    /\ campaign.status \in {"scheduled", "sending"}
    /\ campaign' = [campaign EXCEPT !.status = IF @ = "scheduled" THEN "draft" ELSE "canceled"]
    /\ draft' = [draft EXCEPT !.version = @ + 1, !.due = FALSE]
    /\ UNCHANGED <<view, approved, people, ledger, snapshot, queue, walk>>

\* Only a draft or a canceled campaign; the recipients go with it.
DeleteCampaign ==
    /\ ~softDeleted
    /\ campaign.status \in {"draft", "canceled"}
    /\ campaign' = [campaign EXCEPT !.status = "deleted"]
    /\ recipients' = {}
    /\ UNCHANGED <<api, people, ledger, cursor, queue, walk>>

\* A test send that has to persist the resolved sender: a version check in
\* any status, a new version, the marketer's choices untouched.
PrepareCampaignTestSend ==
    /\ ~softDeleted
    /\ campaign.status # "deleted"
    /\ view.version = draft.version
    /\ draft.complete
    /\ draft.version < MaxVersion
    /\ draft' = [draft EXCEPT !.version = @ + 1]
    /\ UNCHANGED <<campaign, view, approved, people, ledger, snapshot, queue, walk>>

-----------------------------------------------------------------------------
(* The scheduler                                                           *)

\* scheduled_at passes.
BecomeDue ==
    /\ campaign.status = "scheduled" /\ ~draft.due
    /\ draft' = [draft EXCEPT !.due = TRUE]
    /\ UNCHANGED <<campaign, view, approved, people, ledger, snapshot, queue, walk>>

StillDue == campaign.status = "scheduled" /\ draft.due

FindDueCampaignCandidates ==
    /\ ~candidate /\ ~owed
    /\ StillDue /\ ~softDeleted
    /\ candidate' = TRUE
    /\ UNCHANGED <<campaign, api, people, ledger, snapshot, owed, kickoff, walk>>

\* The row is locked and re-checked; only a transition is followed by a kickoff.
TransitionToSending ==
    /\ candidate
    /\ candidate' = FALSE
    /\ campaign' = IF StillDue THEN [campaign EXCEPT !.status = "sending"] ELSE campaign
    /\ owed' = (StillDue \/ owed)
    /\ UNCHANGED <<api, people, ledger, snapshot, kickoff, walk>>

\* kickoffQueue.add with jobId = campaign id: a no-op while the job exists.
AddKickoff ==
    /\ owed
    /\ owed' = FALSE
    /\ kickoff' = IF kickoff.state = "none" THEN [kickoff EXCEPT !.state = "waiting"] ELSE kickoff
    /\ UNCHANGED <<campaign, api, people, ledger, snapshot, candidate, walk>>

\* The API or the scheduler dies, or its Redis call fails: what it had found
\* to be due, or had still to enqueue, is forgotten.
ProducerCrash ==
    /\ ProducerMayCrash
    /\ \/ candidate /\ candidate' = FALSE /\ UNCHANGED owed
       \/ owed /\ owed' = FALSE /\ UNCHANGED candidate
    /\ UNCHANGED <<campaign, api, people, ledger, snapshot, kickoff, walk>>

-----------------------------------------------------------------------------
(* The kickoff job                                                         *)

KickoffReturns ==
    /\ kickoff' = [kickoff EXCEPT !.state = "completed"]
    /\ walk' = NoWalk

\* The members of S a keyset page of `size` after the id `after` holds.
KeysetPage(S, after, size) ==
    LET rest == {c \in S : c > after} IN
    {c \in rest : Cardinality({d \in rest : d < c}) < size}

Last(S, otherwise) == IF S = {} THEN otherwise ELSE Max(S)

KickoffStart ==
    /\ kickoff.state = "waiting"
    /\ kickoff' = [kickoff EXCEPT !.state = "active", !.made = @ + 1]
    /\ walk' = [NoWalk EXCEPT !.pc = "entered"]
    /\ UNCHANGED <<campaign, api, people, ledger, snapshot, candidate, owed>>

\* Mutant: an attempt that finds a snapshot takes the fan-out for finished.
ReadStateTakesCursorForDone ==
    /\ walk.pc = "entered"
    /\ IF softDeleted \/ campaign.status \in {"sent", "canceled", "deleted"} \/ cursor # 0
       THEN KickoffReturns
       ELSE walk' = [walk EXCEPT !.pc = "snapshot", !.after = cursor] /\ UNCHANGED kickoff
    /\ UNCHANGED <<campaign, api, people, ledger, snapshot, candidate, owed>>

\* A soft-deleted workspace, a missing or terminal campaign and a finished
\* fan-out end the job at once; otherwise the snapshot resumes from the persisted cursor.
ReadState ==
    /\ walk.pc = "entered"
    /\ IF softDeleted \/ campaign.status \in {"sent", "canceled", "deleted"} \/ campaign.fanOutComplete
       THEN KickoffReturns
       ELSE walk' = [walk EXCEPT !.pc = "snapshot", !.after = cursor] /\ UNCHANGED kickoff
    /\ UNCHANGED <<campaign, api, people, ledger, snapshot, candidate, owed>>

\* One INSERT .. SELECT and its cursor, in one transaction; a batch that
\* inserts nothing ends the loop.
MaterializeBatch ==
    LET page == KeysetPage(segment, walk.after, SnapshotBatchSize)
        inserted == page \ recipients
        last == Last(inserted, walk.after) IN
    /\ walk.pc = "snapshot"
    /\ campaign.status # "deleted"
    /\ recipients' = recipients \cup inserted
    /\ cursor' = last
    /\ walk' = IF inserted = {} THEN [walk EXCEPT !.pc = "page", !.after = 0] ELSE [walk EXCEPT !.after = last]
    /\ UNCHANGED <<campaign, api, people, ledger, queue>>

\* Mutants: a page that is not full ends the walk before it is sent; the walk
\* goes back to the segment for late joiners.
ReadPageStopsShort ==
    LET page == KeysetPage(recipients, walk.after, BreakdownPageSize) IN
    /\ walk.pc = "page"
    /\ walk' = IF Cardinality(page) < BreakdownPageSize THEN [walk EXCEPT !.pc = "finish"]
               ELSE [walk EXCEPT !.pc = "recipients", !.todo = page, !.unsubscribed = optedOut]
    /\ UNCHANGED <<campaign, api, people, ledger, snapshot, queue>>
\* The next page of the snapshot, its contacts, and a fresh look at the status.
ReadPage ==
    LET page == KeysetPage(recipients, walk.after, BreakdownPageSize) IN
    /\ walk.pc = "page"
    /\ IF campaign.status \in {"canceled", "sent"}
       THEN KickoffReturns
       ELSE /\ walk' = IF page = {} THEN [walk EXCEPT !.pc = "finish"]
                       ELSE [walk EXCEPT !.pc = "recipients", !.todo = page, !.unsubscribed = optedOut]
            /\ UNCHANGED kickoff
    /\ UNCHANGED <<campaign, api, people, ledger, snapshot, candidate, owed>>

\* evaluatePreSendGate, given which contacts the caller read as unsubscribed.
PreSendGate(c, unsubscribed) ==
    /\ c \notin unsubscribed
    /\ ~(row[c].status = "sent" /\ OneSendReachesCap)

\* The next recipient of the page is excluded, or counted and enqueued under
\* its deterministic job id.
WalkRecipient ==
    LET c == Min(walk.todo)
        rest == walk.todo \ {c}
        next == [walk EXCEPT !.todo = rest, !.after = c, !.pc = IF rest = {} THEN "page" ELSE @] IN
    /\ walk.pc = "recipients"
    /\ IF PreSendGate(c, walk.unsubscribed)
       THEN /\ sendJob' = [sendJob EXCEPT ![c] = IF @ = "none" THEN "waiting" ELSE @]
            /\ walk' = [next EXCEPT !.sendableTotal = @ + 1]
            /\ UNCHANGED row
       ELSE /\ campaign.status # "deleted"
            /\ row' = [row EXCEPT ![c] = RecordExcluded(@)]
            /\ walk' = next
            /\ UNCHANGED sendJob
    /\ UNCHANGED <<campaign, api, people, snapshot, queue>>

AmbiguousCount(rs) == Cardinality({c \in Contact : rs[c].status \in Ambiguous})

\* The last transaction: an empty audience completes a campaign that is still
\* sending; any other gets its totals and the completion check.
FinishKickoff ==
    LET totals == [campaign EXCEPT !.sendableTotal = walk.sendableTotal, !.fanOutComplete = TRUE] IN
    /\ walk.pc = "finish"
    /\ campaign' =
         CASE campaign.status = "deleted" -> campaign
           [] campaign.status # "deleted" /\ walk.sendableTotal = 0 ->
                IF campaign.status = "sending" THEN [totals EXCEPT !.status = "sent"] ELSE campaign
           [] OTHER -> TryCompleteCampaign(totals, AmbiguousCount(row))
    /\ KickoffReturns
    /\ UNCHANGED <<api, people, ledger, snapshot, candidate, owed>>

\* The attempt throws or its process dies, and BullMQ hands the job out again
\* while attempts are left.  A deleted campaign makes it throw by itself (no
\* row to snapshot, a foreign key to violate).
KickoffFails ==
    /\ walk.pc # "idle"
    /\ kickoff.made <= MaxFaults \/ campaign.status = "deleted"
    /\ kickoff' = [kickoff EXCEPT !.state = IF kickoff.made < MaxAttempts THEN "waiting" ELSE "failed"]
    /\ walk' = NoWalk
    /\ UNCHANGED <<campaign, api, people, ledger, snapshot, candidate, owed>>

-----------------------------------------------------------------------------
(* Dispatch and reconciliation, one step each                              *)

\* One send job from pick-up to record.  result is the status it records, or
\* "none" for a job whose attempts ran out.
Dispatch(c, result) ==
    LET claimed == [row EXCEPT ![c] = RecordSendResult(InsertDispatching, result)]
        excluded == [row EXCEPT ![c] = RecordExcluded(@)]
        sendable == ~softDeleted /\ PreSendGate(c, optedOut) IN
    /\ sendJob[c] = "waiting"
    /\ sendJob' = [sendJob EXCEPT ![c] = "done"]
    /\ IF campaign.status # "sending" \/ result = "none" \/ (sendable /\ row[c].status # "none")
       THEN UNCHANGED <<row, campaign>>
       ELSE IF ~sendable
       THEN row' = excluded /\ UNCHANGED campaign
       ELSE /\ row' = claimed
            /\ campaign' = CASE result = "sent" ->
                                  TryCompleteCampaign(IncrementSent(campaign), AmbiguousCount(claimed))
                             [] result = "failed" ->
                                  TryCompleteCampaign(IncrementFailed(campaign), AmbiguousCount(claimed))
                             [] OTHER -> campaign
    /\ UNCHANGED <<api, people, snapshot, queue, walk>>

\* The reconciler resolves an ambiguous row.
Resolve(c, verdict) ==
    LET resolved == [row EXCEPT ![c] = ResolveReconcilingSend(@, verdict)] IN
    /\ row[c].status \in (IF verdict = "resolve_sent" THEN Ambiguous ELSE {"reconciling"})
    /\ row' = resolved
    /\ campaign' = IF verdict = "resolve_sent" /\ campaign.status # "deleted"
                   THEN TryCompleteCampaign(BackfillSent(campaign), AmbiguousCount(resolved)) ELSE campaign
    /\ UNCHANGED <<api, people, sendJob, snapshot, queue, walk>>

-----------------------------------------------------------------------------
(* The audience moves; the workspace goes and comes back                   *)

Drift(c) ==
    /\ c \in Drifter
    /\ segment' = IF c \in segment THEN segment \ {c} ELSE segment \cup {c}
    /\ UNCHANGED <<campaign, api, optedOut, softDeleted, ledger, snapshot, queue, walk>>

Unsubscribe(c) ==
    /\ c \in Fickle \ optedOut
    /\ optedOut' = optedOut \cup {c}
    /\ UNCHANGED <<campaign, api, segment, softDeleted, ledger, snapshot, queue, walk>>

SoftDeleteWorkspace ==
    /\ WorkspaceMayBeDeleted /\ ~softDeleted
    /\ softDeleted' = TRUE
    /\ UNCHANGED <<campaign, api, segment, optedOut, ledger, snapshot, queue, walk>>

\* restoreWorkspace, before the purge has destroyed anything: an overdue
\* scheduled campaign becomes a draft again in the same transaction.
RestoreWorkspace ==
    /\ softDeleted
    /\ softDeleted' = FALSE
    /\ campaign' = IF StillDue THEN [campaign EXCEPT !.status = "draft"] ELSE campaign
    /\ UNCHANGED <<api, segment, optedOut, ledger, snapshot, queue, walk>>

-----------------------------------------------------------------------------
Kickoff == KickoffStart \/ ReadState \/ MaterializeBatch \/ ReadPage \/ WalkRecipient \/ FinishKickoff

Next ==
    \/ Load \/ UpdateCampaign \/ LaunchCampaign \/ ScheduleCampaign \/ CancelCampaign
    \/ DeleteCampaign \/ PrepareCampaignTestSend
    \/ BecomeDue \/ FindDueCampaignCandidates \/ TransitionToSending \/ AddKickoff \/ ProducerCrash
    \/ Kickoff \/ KickoffFails
    \/ \E c \in Contact :
         \/ \E result \in {"sent", "failed", "reconciling", "none"} : Dispatch(c, result)
         \/ \E verdict \in {"resolve_sent", "resolve_unknown"} : Resolve(c, verdict)
         \/ Drift(c) \/ Unsubscribe(c)
    \/ SoftDeleteWorkspace \/ RestoreWorkspace

Spec == Init /\ [][Next]_vars

\* The repeatable tick and the queues run; nobody is obliged to launch or
\* cancel.  The scheduler may die on a campaign it has found, but not each time
\* it finds one.
Fairness ==
    /\ WF_vars(FindDueCampaignCandidates) /\ SF_vars(TransitionToSending)
    /\ WF_vars(AddKickoff) /\ WF_vars(Kickoff)

FairSpec == Spec /\ Fairness

-----------------------------------------------------------------------------
\* What is scheduled or sent is what the marketer who launched or scheduled it
\* had on screen, whatever colleagues edit, cancel and reschedule meanwhile.
ContentAsApproved ==
    campaign.status \in {"scheduled", "sending", "sent", "canceled"} => draft.content = approved

\* A canceled campaign is never sent after all, wherever the kickoff walk,
\* the send jobs and the reconciler stand when it is canceled.
CancelIsFinal == [][campaign.status = "canceled" => campaign'.status \in {"canceled", "deleted"}]_vars

\* Once fan-out is complete, every contact that was in the segment throughout
\* is in the snapshot, and every recipient was enqueued or excluded: no crash,
\* resumed cursor or page boundary loses one.
FanOutMissesNobody ==
    campaign.fanOutComplete /\ campaign.status # "deleted" =>
        /\ Contact \ Drifter \subseteq recipients
        /\ \A c \in recipients : sendJob[c] # "none" \/ row[c].status = "excluded"

\* Completion comes "once fan-out has finished AND every sendable recipient
\* has reached a terminal send" (send-ledger.ts): nobody of the snapshot is
\* left queued, to be dropped because the campaign is no longer sending.
CompletedMeansSettled ==
    campaign.status = "sent" =>
        \A c \in recipients : row[c].status \in {"sent", "failed", "excluded"} \cup Ambiguous

\* Contacts joining the segment mid-send are not added (recipient-snapshot.ts):
\* once a recipient was enqueued the snapshot does not grow.
SnapshotFrozen ==
    [][(\E c \in Contact : sendJob[c] # "none") => recipients' \subseteq recipients]_vars

\* A campaign only starts sending with its template, sender and segment set
\* (campaign.repository.ts: "the launch that eventually fires the scheduled
\* campaign is what enforces completeness").
OnlyCompleteCampaignsStart ==
    [][campaign.status # "sending" /\ campaign'.status = "sending" => draft.complete]_vars

CalledOff == campaign.status \in {"draft", "canceled", "sent", "deleted"}

\* A campaign that is due starts, says campaign-scheduler.worker.ts:167
\* ("Self-healing/restart-safe by construction").  The scan is; the commit of
\* 'sending' and the enqueue of the kickoff job after it are not.
EveryDueCampaignStarts == StillDue ~> (campaign.fanOutComplete \/ CalledOff)

\* A campaign that is sending, with no job left to fan it out and nobody about
\* to add one: no code path ever takes it up again.
Stranded ==
    /\ campaign.status = "sending" /\ ~campaign.fanOutComplete
    /\ ~owed /\ kickoff.state \notin {"waiting", "active"}

\* What may strand a campaign: the process that committed 'sending' dies before
\* the enqueue, the kickoff job meets the workspace soft-deleted and takes that
\* for the end, or its last attempt fails.  No stale candidate, redelivered or
\* resumed kickoff, cancellation, restore or moving gate does.
StrandedOnlyAsKnown ==
    [][~Stranded /\ Stranded' =>
         \/ ProducerMayCrash /\ owed /\ kickoff.state = "none"
         \/ softDeleted /\ walk.pc = "entered"
         \/ kickoff.made = MaxAttempts /\ kickoff'.state = "failed"]_vars

\* However often the scheduler dies on its way, a campaign that is due is found
\* again, and fanned out or called off in the end, unless its workspace is
\* deleted or it is stranded in one of the known ways.
DueCampaignStarts ==
    /\ StrandedOnlyAsKnown
    /\ StillDue ~> (campaign.fanOutComplete \/ CalledOff \/ softDeleted \/ Stranded)
=============================================================================

---------------------------- MODULE SendDispatch ----------------------------
(***************************************************************************)
(* The send pipeline behind one campaign and any number of flow steps: the *)
(* BullMQ send job of every intent, the attempts that process it in the    *)
(* three units of send-dispatch.ts (claim transaction, SendGrid call,      *)
(* record transaction), the reconciler, and the campaign counters.         *)
(*                                                                         *)
(* A step is what one transaction, one Redis round or one HTTP exchange    *)
(* does; a crash, a thrown error or a lost job lock may come between any   *)
(* two of them.                                                            *)
(***************************************************************************)
EXTENDS SendLedger

CONSTANTS
    Intent,            \* send intents: one deterministic id, one job, at most one row each
    CampaignIntent,    \* the intents of the campaign; the others are flow steps
    Attempt,           \* the slots in which attempts at jobs run
    MaxAttempts,       \* SEND_JOB_MAX_ATTEMPTS
    MaxStalled,        \* BullMQ's maxStalledCount
    MaxAttemptAge,     \* how old a claim gets while its attempt holds the job lock
    BatchLimit,        \* RECONCILER_BATCH_LIMIT
    LockMayLapse,      \* may a job lock lapse under an attempt that is alive?
    NoAttempt,         \* the lock of a job nobody holds
    NoIntent           \* the job of a slot that has none

\* The timing the constants of queue-options.ts, send-mail.ts and
\* reconciler.ts are chosen for: an attempt that holds its lock is over
\* before its claim is old enough to be swept.
ASSUME DispatchAssumption ==
    /\ CampaignIntent \subseteq Intent
    /\ IsFiniteSet(Intent)
    /\ MaxAttempts \in Nat /\ MaxStalled \in Nat /\ BatchLimit \in Nat \ {0}
    /\ MaxAttemptAge \in Nat /\ MaxAttemptAge <= StaleDispatchingAge
    /\ LockMayLapse \in BOOLEAN
    /\ NoAttempt \notin Attempt /\ NoIntent \notin Intent

VARIABLES
    row,        \* [Intent -> Row]: the sends ledger
    campaign,   \* the campaigns row
    job,        \* [Intent -> Job]: BullMQ's record of the intent's job
    att,        \* [Attempt -> Att]: the attempts in progress
    accepted,   \* [Intent -> Nat]: how often SendGrid accepted the message
    evidence,   \* the intents with a send_events row
    batch       \* the candidates the reconciler's current tick has still to visit

vars == <<row, campaign, job, att, accepted, evidence, batch>>

Job == [state : {"waiting", "active", "completed", "failed"},
        lock : Attempt \cup {NoAttempt}, made : 0 .. MaxAttempts, stalled : 0 .. MaxStalled + 1]

\* Where an attempt stands.  checked: the campaign was 'sending';
\* claimed: unit 1 committed; calling: the mail/send request may be on the
\* wire; accepted .. lost: unit 2 is over; complete,
\* throw and defer: what processSendJob hands back to BullMQ.
BeforeAnswer == {"claimed", "calling"}
AfterAnswer  == {"accepted", "rejected", "throttled", "unreachable", "lost"}
Outcome      == {"complete", "throw", "defer"}
PC           == {"idle", "picked", "checked"} \cup BeforeAnswer \cup AfterAnswer \cup Outcome
Att          == [pc : PC, on : Intent \cup {NoIntent}]

Idle == [pc |-> "idle", on |-> NoIntent]

TypeOK ==
    /\ row \in [Intent -> Row]
    /\ campaign \in Campaign
    /\ job \in [Intent -> Job]
    /\ att \in [Attempt -> Att]
    /\ \A a \in Attempt : att[a].pc # "idle" => att[a].on \in Intent
    /\ accepted \in [Intent -> Nat]
    /\ evidence \subseteq Intent
    /\ batch \subseteq Intent

Init ==
    /\ row = [i \in Intent |-> NoRow]
    /\ campaign = [status |-> "sending", fanOutComplete |-> FALSE, sendableTotal |-> 0,
                   sentCount |-> 0, failedCount |-> 0]
    /\ job = [i \in Intent |-> [state |-> "waiting", lock |-> NoAttempt, made |-> 0, stalled |-> 0]]
    /\ att = [a \in Attempt |-> Idle]
    /\ accepted = [i \in Intent |-> 0]
    /\ evidence = {}
    /\ batch = {}

\* The (SELECT count(*) ..) of tryCompleteCampaign over the rows rs.
AmbiguousCount(rs) == Cardinality({i \in CampaignIntent : rs[i].status \in Ambiguous})

\* The statements a transaction issues on the campaign row, for an intent of it.
CountFor(i, counted, rs) ==
    IF i \in CampaignIntent THEN TryCompleteCampaign(counted, AmbiguousCount(rs)) ELSE campaign

Goto(a, pc) == att' = [att EXCEPT ![a].pc = pc]
SetRow(i, r) == row' = [row EXCEPT ![i] = r]

-----------------------------------------------------------------------------
(* BullMQ, as far as the send workers see it (external)                    *)

\* A free slot takes a waiting job and its lock.
PickUp(a, i) ==
    /\ att[a].pc = "idle"
    /\ job[i].state = "waiting"
    /\ att' = [att EXCEPT ![a] = [pc |-> "picked", on |-> i]]
    /\ job' = [job EXCEPT ![i].state = "active", ![i].lock = a]
    /\ UNCHANGED <<row, campaign, accepted, evidence, batch>>

\* A job that threw goes back until its attempts are used up.
JobAfterThrow(j) ==
    [j EXCEPT !.state = IF j.made + 1 >= MaxAttempts THEN "failed" ELSE "waiting",
              !.made  = IF j.made < MaxAttempts THEN @ + 1 ELSE @,
              !.lock  = NoAttempt]

\* The attempt ends: a returned result completes the job, an error consumes
\* one of its attempts, a tenant deferral (moveToDelayed) consumes none.  An
\* attempt that no longer holds the lock changes nothing.
Settle(a) ==
    LET i == att[a].on IN
    /\ att[a].pc \in Outcome
    /\ job' = IF job[i].lock # a THEN job
              ELSE [job EXCEPT ![i] =
                      CASE att[a].pc = "complete" -> [@ EXCEPT !.state = "completed", !.lock = NoAttempt]
                        [] att[a].pc = "defer"    -> [@ EXCEPT !.state = "waiting", !.lock = NoAttempt]
                        [] att[a].pc = "throw"    -> JobAfterThrow(@)]
    /\ att' = [att EXCEPT ![a] = Idle]
    /\ UNCHANGED <<row, campaign, accepted, evidence, batch>>

\* The process dies: the attempt is gone, its lock is no longer renewed.
Crash(a) ==
    LET i == att[a].on IN
    /\ att[a].pc # "idle"
    /\ att' = [att EXCEPT ![a] = Idle]
    /\ job' = IF job[i].lock = a THEN [job EXCEPT ![i].lock = NoAttempt] ELSE job
    /\ UNCHANGED <<row, campaign, accepted, evidence, batch>>

\* A job that stalled goes back until it stalled too often.
JobAfterStall(j) ==
    [j EXCEPT !.state   = IF j.stalled >= MaxStalled THEN "failed" ELSE "waiting",
              !.stalled = IF j.stalled <= MaxStalled THEN @ + 1 ELSE @,
              !.lock    = NoAttempt]

\* The stalled checker finds an active job whose lock lapsed, because its
\* attempt died or because Redis could not be reached to renew it.
Stall(i) ==
    /\ job[i].state = "active"
    /\ job[i].lock = NoAttempt \/ LockMayLapse
    /\ job' = [job EXCEPT ![i] = JobAfterStall(@)]
    /\ UNCHANGED <<row, campaign, att, accepted, evidence, batch>>

-----------------------------------------------------------------------------
(* Unit 1: claimCampaignSend and its flow sibling                          *)

\* readSendPrereqs reads the campaign once; a campaign that is not sending
\* any more ends the attempt.  A flow step has no campaign to read.
CheckCampaign(a) ==
    /\ att[a].pc = "picked"
    /\ Goto(a, IF att[a].on \in CampaignIntent /\ campaign.status # "sending"
               THEN "complete" ELSE "checked")
    /\ UNCHANGED <<row, campaign, job, accepted, evidence, batch>>

\* The workspace is soft-deleted, or evaluatePreSendGate refuses the contact.
Exclude(a) ==
    LET i == att[a].on IN
    /\ att[a].pc = "checked"
    /\ SetRow(i, RecordExcluded(row[i]))
    /\ Goto(a, "complete")
    /\ UNCHANGED <<campaign, job, accepted, evidence, batch>>

\* The gate lets the intent through: it is claimed, left alone, or, when an
\* earlier attempt's claim is still there, handed to the reconciler.
Claim(a) ==
    LET i == att[a].on
        gate == DispatchSendGate(row[i]) IN
    /\ att[a].pc = "checked"
    /\ SetRow(i, CASE gate = "proceed"     -> InsertDispatching
                   [] gate = "interrupted" -> RecordSendResult(row[i], "reconciling")
                   [] gate = "skipped"     -> row[i])
    /\ Goto(a, IF gate = "proceed" THEN "claimed" ELSE "complete")
    /\ UNCHANGED <<campaign, job, accepted, evidence, batch>>

-----------------------------------------------------------------------------
(* Between the units: the tenant's lane slot and token bucket              *)

\* A result handed back through the `finally` that releases the lane slot,
\* whose own Redis error would take the result's place.
Return(a, result) == \E o \in {result, "throw"} : Goto(a, o)

\* No slot or no token: the claim is released, the job deferred.
Deny(a) ==
    LET i == att[a].on IN
    /\ att[a].pc = "claimed"
    /\ SetRow(i, ReleaseDispatchClaim(row[i]))
    /\ Return(a, "defer")
    /\ UNCHANGED <<campaign, job, accepted, evidence, batch>>

Call(a) ==
    /\ att[a].pc = "claimed"
    /\ Goto(a, "calling")
    /\ UNCHANGED <<row, campaign, job, accepted, evidence, batch>>

-----------------------------------------------------------------------------
(* Unit 2: SendGrid's answer (external)                                    *)

\* SendGrid accepts the message; the 2xx may or may not get back.
Accept(a) ==
    /\ att[a].pc = "calling"
    /\ accepted' = [accepted EXCEPT ![att[a].on] = @ + 1]
    /\ \E pc \in {"accepted", "lost"} : Goto(a, pc)
    /\ UNCHANGED <<row, campaign, job, evidence, batch>>

\* A permanent 4xx; a 429 or 5xx; no connection; or a request that was lost.
Refuse(a) ==
    /\ att[a].pc = "calling"
    /\ \E pc \in {"rejected", "throttled", "unreachable", "lost"} : Goto(a, pc)
    /\ UNCHANGED <<row, campaign, job, accepted, evidence, batch>>

-----------------------------------------------------------------------------
(* Unit 3: the record transaction                                          *)

\* 2xx: the row, the counter and the completion check in one transaction.
RecordSent(a) ==
    LET i == att[a].on
        recorded == [row EXCEPT ![i] = RecordSendResult(@, "sent")] IN
    /\ att[a].pc = "accepted"
    /\ row' = recorded
    /\ campaign' = CountFor(i, IncrementSent(campaign), recorded)
    /\ Return(a, "complete")
    /\ UNCHANGED <<job, accepted, evidence, batch>>

\* Permanent 4xx, likewise.
RecordFailed(a) ==
    LET i == att[a].on
        recorded == [row EXCEPT ![i] = RecordSendResult(@, "failed")] IN
    /\ att[a].pc = "rejected"
    /\ row' = recorded
    /\ campaign' = CountFor(i, IncrementFailed(campaign), recorded)
    /\ Return(a, "complete")
    /\ UNCHANGED <<job, accepted, evidence, batch>>

\* 429, 5xx or a provably pre-connection failure: nothing was accepted, the
\* claim is released and the error consumes one of the job's attempts.
BackOff(a) ==
    LET i == att[a].on IN
    /\ att[a].pc \in {"throttled", "unreachable"}
    /\ SetRow(i, ReleaseDispatchClaim(row[i]))
    /\ Goto(a, "throw")
    /\ UNCHANGED <<campaign, job, accepted, evidence, batch>>

\* Mutant: an unanswered request is taken for a failed one.
RecordLostAsFailed(a) ==
    /\ att[a].pc = "lost"
    /\ SetRow(att[a].on, RecordSendResult(row[att[a].on], "failed"))
    /\ Return(a, "complete")
    /\ UNCHANGED <<campaign, job, accepted, evidence, batch>>

\* Any other transport error: handed to the reconciler, never retried; no
\* counter and no completion check.
RecordLost(a) ==
    LET i == att[a].on IN
    /\ att[a].pc = "lost"
    /\ SetRow(i, RecordSendResult(row[i], "reconciling"))
    /\ Return(a, "complete")
    /\ UNCHANGED <<campaign, job, accepted, evidence, batch>>

\* A transaction is rolled back or a Redis command fails: the error goes to
\* BullMQ and the ledger stays as the last committed transaction left it.
Throw(a) ==
    /\ att[a].pc \in {"picked", "checked", "claimed"} \cup AfterAnswer
    /\ Goto(a, "throw")
    /\ UNCHANGED <<row, campaign, job, accepted, evidence, batch>>

-----------------------------------------------------------------------------
(* The reconciler                                                          *)

Candidates == {i \in Intent : Reconcilable(row[i])}

\* Discovery: the BatchLimit oldest candidates.
ReconcilerTick ==
    /\ batch = {}
    /\ Candidates # {}
    /\ batch' \in SUBSET Candidates
    /\ Cardinality(batch') = IF Cardinality(Candidates) < BatchLimit
                             THEN Cardinality(Candidates) ELSE BatchLimit
    /\ \A i \in batch', k \in Candidates \ batch' : row[i].age >= row[k].age
    /\ UNCHANGED <<row, campaign, job, att, accepted, evidence>>

\* resolveOneSend: re-read under the row lock, at most one transition.
ResolveOneSend(i) ==
    LET verdict == ClassifyReconcilableSend(row[i], i \in evidence)
        resolved == [row EXCEPT ![i] =
                       CASE verdict = "sweep_to_reconciling" -> SweepStaleDispatchingSend(@)
                         [] verdict \in {"resolve_sent", "resolve_unknown"} -> ResolveReconcilingSend(@, verdict)
                         [] OTHER -> @] IN
    /\ i \in batch
    /\ batch' = batch \ {i}
    /\ row' = resolved
    /\ campaign' = IF verdict = "resolve_sent"
                   THEN CountFor(i, BackfillSent(campaign), resolved) ELSE campaign
    /\ UNCHANGED <<job, att, accepted, evidence>>

\* A candidate throws or the process dies: the rest of the tick is dropped.
ReconcilerAbort ==
    /\ batch # {}
    /\ batch' = {}
    /\ UNCHANGED <<row, campaign, job, att, accepted, evidence>>

-----------------------------------------------------------------------------
(* The surroundings                                                        *)

\* The last transaction of the kickoff walk.
FanOutDone ==
    /\ ~campaign.fanOutComplete
    /\ campaign' = TryCompleteCampaign(
                     [campaign EXCEPT !.fanOutComplete = TRUE,
                                      !.sendableTotal = Cardinality(CampaignIntent)],
                     AmbiguousCount(row))
    /\ UNCHANGED <<row, job, att, accepted, evidence, batch>>

CancelCampaign ==
    /\ campaign.status = "sending"
    /\ campaign' = [campaign EXCEPT !.status = "canceled"]
    /\ UNCHANGED <<row, job, att, accepted, evidence, batch>>

\* A webhook about an accepted message reaches send_events.
Webhook(i) ==
    /\ accepted[i] > 0
    /\ evidence' = evidence \cup {i}
    /\ UNCHANGED <<row, campaign, job, att, accepted, batch>>

\* An attempt between its claim and its record, and one that still holds the
\* lock on its job.
Engaged(a) == att[a].pc \in BeforeAnswer \cup AfterAnswer

HoldsClaim(a) ==
    /\ Engaged(a)
    /\ job[att[a].on].lock = a

\* Time passes, except that the lock, SendGrid-timeout and transaction
\* budgets end an attempt that holds its lock within MaxAttemptAge.
Tick ==
    /\ \A a \in Attempt : HoldsClaim(a) => row[att[a].on].age < MaxAttemptAge
    /\ row' = [i \in Intent |-> OlderRow(row[i])]
    /\ UNCHANGED <<campaign, job, att, accepted, evidence, batch>>

-----------------------------------------------------------------------------
\* The steps an attempt takes when nothing goes wrong in the process itself.
Progress(a) ==
    \/ CheckCampaign(a) \/ Exclude(a) \/ Claim(a) \/ Deny(a) \/ Call(a)
    \/ Accept(a) \/ Refuse(a)
    \/ RecordSent(a) \/ RecordFailed(a) \/ BackOff(a) \/ RecordLost(a)
    \/ Settle(a)

WorkerStep(a) == Progress(a) \/ Throw(a) \/ Crash(a) \/ \E i \in Intent : PickUp(a, i)

Next ==
    \/ \E a \in Attempt : WorkerStep(a)
    \/ \E i \in Intent : Stall(i) \/ ResolveOneSend(i) \/ Webhook(i)
    \/ ReconcilerTick \/ ReconcilerAbort
    \/ FanOutDone \/ CancelCampaign \/ Tick

Spec == Init /\ [][Next]_vars

\* The scheduling the program relies on: processes that are up make
\* progress, BullMQ runs the stalled checker and the repeatable tick, and the
\* tick does not abort for ever before it reaches a given candidate.
Fairness ==
    /\ \A a \in Attempt : WF_vars(Progress(a)) /\ WF_vars(\E i \in Intent : PickUp(a, i))
    /\ \A i \in Intent : WF_vars(Stall(i) /\ job[i].lock = NoAttempt) /\ SF_vars(ResolveOneSend(i))
    /\ WF_vars(ReconcilerTick) /\ WF_vars(Tick) /\ WF_vars(FanOutDone)

FairSpec == Spec /\ Fairness

-----------------------------------------------------------------------------
(* Safety                                                                  *)

\* SendGrid accepts a message at most once per intent, across crashes,
\* redeliveries, lapsed locks, retries and sweeps (ARCHITECTURE.md section 9,
\* "at-most-once at the SendGrid-acceptance boundary").
AtMostOnce == \A i \in Intent : accepted[i] <= 1

\* The ledger never asserts an outcome that did not happen: a sent row was
\* accepted, and a failed, excluded or absent row was not.
LedgerTellsTruth ==
    \A i \in Intent :
        /\ row[i].status = "sent" => accepted[i] > 0
        /\ row[i].status \in {"none", "failed", "excluded"} => accepted[i] = 0

\* What makes both of them hold: from its claim to its record an attempt is
\* the only one so far on its intent; before the answer nothing has been
\* accepted; and whatever a redelivery or the reconciler does to the row
\* meanwhile, the claim is not deleted, failed, excluded or, while nothing
\* was accepted, recorded as sent.
StatusWhile(pc) ==
    {"dispatching"} \cup Ambiguous \cup (IF pc \in {"accepted", "lost"} THEN {"sent"} ELSE {})

ClaimDiscipline ==
    \A a \in Attempt : Engaged(a) =>
        /\ \A b \in Attempt : Engaged(b) /\ att[b].on = att[a].on => b = a
        /\ row[att[a].on].status \in StatusWhile(att[a].pc)
        /\ att[a].pc = "accepted" => accepted[att[a].on] > 0
        /\ att[a].pc \notin {"accepted", "lost"} => accepted[att[a].on] = 0

\* While job locks hold, nothing disturbs a claim before its own attempt
\* records the result: no redelivery interrupts it and no sweep takes it
\* (send-mail.ts: "the original processor always reaches its own
\* terminal/ambiguous write first").
ClaimUndisturbed ==
    \A a \in Attempt : Engaged(a) =>
        row[att[a].on].status = "dispatching" /\ row[att[a].on].age <= MaxAttemptAge

\* A webhook, and so the reconciler's evidence, is about an accepted message.
EvidenceIsTrue == \A i \in evidence : accepted[i] > 0

\* The campaign's sent_count and failed_count are the numbers of its sent and
\* failed rows while it is sending, and never exceed them afterwards.
CountersMatchLedger ==
    LET Count(st) == Cardinality({i \in CampaignIntent : row[i].status = st}) IN
    /\ campaign.sentCount <= Count("sent") /\ campaign.failedCount <= Count("failed")
    /\ campaign.status = "sending" =>
           campaign.sentCount = Count("sent") /\ campaign.failedCount = Count("failed")

\* A campaign is completed only when every recipient fanned out to it is
\* settled: sent, failed, or handed to the reconciler.  Anything queued or
\* dispatching at that moment would be dropped by CheckCampaign.
CompletedMeansSettled ==
    campaign.status = "sent" =>
        \A i \in CampaignIntent : row[i].status \in {"sent", "failed"} \cup Ambiguous

\* What send-state-machine.ts sees of the ledger.
LedgerStatus == [i \in Intent |-> row[i].status]

Ledger == INSTANCE SendStateMachine WITH status <- LedgerStatus

\* Every status change is an edge of SEND_STATUS_TRANSITIONS, an entry, or
\* the release of a claim.
LedgerRefinement == Ledger!Spec

\* Only the reconciler moves a row out of reconciling or unknown.
ReconcilerIsSoleWriter ==
    [][(\E a \in Attempt : WorkerStep(a)) =>
          \A i \in Intent : row[i].status \in Ambiguous => row'[i].status = row[i].status]_vars

-----------------------------------------------------------------------------
(* Liveness                                                                *)

\* A claim never stays dispatching for good: its attempt, a redelivery or the
\* stale sweep moves it.
ClaimsResolve == \A i \in Intent : row[i].status = "dispatching" ~> row[i].status # "dispatching"

\* Ambiguity ends: by evidence, or by the resolution window.
AmbiguityResolves ==
    \A i \in Intent : row[i].status = "reconciling" ~> row[i].status \in {"sent", "unknown"}

\* A fanned-out campaign whose recipients are all settled leaves 'sending'
\* (send-ledger.ts: it "still completes instead of hanging").
SettledCampaignCompletes ==
    (/\ campaign.fanOutComplete
     /\ \A i \in CampaignIntent : row[i].status \in {"sent", "failed"} \cup Ambiguous)
        ~> campaign.status # "sending"
=============================================================================

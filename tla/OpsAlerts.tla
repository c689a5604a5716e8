----------------------------- MODULE OpsAlerts -----------------------------
(***************************************************************************)
(* The watchdogs of the API process and the alerts they mail to the        *)
(* operator.  Every replica of the API checks at an interval: it reads the *)
(* signals of the watchdog, and if they are bad it claims the alert slot   *)
(* (a row of the database with the time of the last alert), mails, and     *)
(* gives the slot back if the mail was refused.                            *)
(*                                                                         *)
(* One behaviour follows one of the ten watchdogs, chosen at the start:    *)
(* they share no row.  Nine have one row; the reputation watchdog has one  *)
(* per workspace and metric, written by the reputation tick of the worker, *)
(* and mails the members of the workspace too.                             *)
(*                                                                         *)
(* Times are ages in ticks: ClockTicks makes everything older.             *)
(***************************************************************************)
EXTENDS Naturals, FiniteSets

CONSTANTS
    Kind,           \* watchdogs followed
    ReputationRow,  \* metrics of a workspace the reputation watchdog follows
    Check,          \* checks that may run at the same time, over all replicas
    NoCheck,
    Dedup,          \* ..._ALERT_DEDUP_HOURS, in ticks
    MaxCheck,       \* bound: ticks a check lasts at most
    MaxFaults       \* bound: refused mails and crashes

ASSUME OpsAlertsAssumption ==
    /\ Kind \subseteq {"queue_depth", "oldest_job_age", "webhook_lag", "send_reconciler",
                      "dead_letter", "failed_send_share", "ingestion", "purge",
                      "partition", "reputation"}
    /\ ReputationRow \subseteq {"complaint_rate", "hard_bounce_rate"}
    /\ NoCheck \notin Check /\ Dedup \in Nat \ {0} /\ MaxCheck \in Nat /\ MaxFaults \in Nat

Horizon == Dedup + MaxCheck + 1      \* ages above are all alike
Never   == Horizon + 1               \* the age of a time that is null
SentAge == 0 .. Never

VARIABLES
    kind,       \* the watchdog this behaviour follows
    signal,     \* what it reads, per row
    slot,       \* last_alert_sent_at (as an age) and alerted_tier, per row
    check,
    told,       \* history: tiers mailed to everybody since the row was last healthy
    mailed,     \* history: alerts mailed, by the age of their claim (not if Repeating)
    faults

alertVars == <<kind, signal, slot, check, told, mailed, faults>>

-----------------------------------------------------------------------------
(* What each watchdog looks at.  A time is "none", "recent" or "old", on   *)
(* the side of its threshold that counts.                                  *)
Time  == {"none", "recent", "old"}
Since == {"recent", "old"}         \* of a time for which none is as good as recent

DepthThreshold == 1      \* QUEUE_DEPTH_THRESHOLDS, scaled
MinSampleSize  == 20     \* FAILED_SEND_SHARE_MIN_SAMPLE_SIZE
DeliveredFloor == 500    \* REPUTATION_MIN_DELIVERED_FLOOR
BufferAlert    == 2      \* BUFFER_ALERT_THRESHOLD_MONTHS

Rows == IF kind = "reputation" THEN ReputationRow ELSE {"row"}

\* Rates that warn and that are critical, in thousandths of what was delivered.
Warn(row)     == IF row = "complaint_rate" THEN 1 ELSE 20
Critical(row) == IF row = "complaint_rate" THEN 3 ELSE 50

Signals(row) ==
    CASE kind = "queue_depth"       -> [readable : BOOLEAN, depth : 0 .. DepthThreshold + 1]
      [] kind = "oldest_job_age"    -> [readable : BOOLEAN, oldestPendingAt : Since, reconcilingSince : Since]
      [] kind = "webhook_lag"       -> [newestEventAt : Time, outstanding : BOOLEAN]
      [] kind = "send_reconciler"   -> [lastRunAt : Since, reconcilingSince : Since]
      [] kind = "dead_letter"       -> [unacknowledged : 0 .. 1]
      [] kind = "failed_send_share" -> [failed : {2, 3}, sent : {0, 17, 18}]
      [] kind = "ingestion"         -> [stuck : BOOLEAN, purgedAt : Time]
      [] kind = "purge"             -> [status : {"none", "purging", "failed"}, progressAt : Since]
      [] kind = "partition"         -> [lastRunAt : Since, bufferMonths : {BufferAlert - 1, BufferAlert},
                                        defaultRows : 0 .. 1]
      [] kind = "reputation"        -> {[delivered |-> DeliveredFloor - 1, bad |-> Critical(row)],
                                        [delivered |-> 1000, bad |-> Warn(row)],
                                        [delivered |-> 1000, bad |-> Critical(row)]}

\* evaluateQueueDepthHealth: a queue that cannot be read is bad.
QueueDepthBad(s) == ~s.readable \/ s.depth > DepthThreshold

\* evaluateOldestJobAgeHealth
OldestJobAgeBad(s) == ~s.readable \/ s.oldestPendingAt = "old" \/ s.reconcilingSince = "old"

\* evaluateWebhookLagHealth: silence is bad only while sends wait for evidence.
WebhookLagBad(s) == s.outstanding /\ s.newestEventAt # "recent"

\* evaluateReconcilerHealth; its row is seeded by the migration.
ReconcilerBad(s) == s.lastRunAt = "old" \/ s.reconcilingSince = "old"

\* readDeadLetterHealth
DeadLettersBad(s) == s.unacknowledged > 0

\* evaluateFailedSendShareHealth: more than a tenth of those attempted.
FailedSendShareBad(s) ==
    /\ s.failed + s.sent >= MinSampleSize
    /\ 10 * s.failed > s.failed + s.sent

\* readIngestionHealth, for one row of the journal: stuck or capped it is bad;
\* without payload it is for a while.
IngestionBad(s) == s.stuck /\ s.purgedAt # "old"

\* evaluateWorkspacePurgeHealth
PurgeBad(s) == s.status = "failed" \/ (s.status = "purging" /\ s.progressAt = "old")

\* evaluatePartitionHealth; its row is seeded by the migration.
PartitionBad(s) == s.lastRunAt = "old" \/ s.bufferMonths < BufferAlert \/ s.defaultRows > 0

\* classifyReputationRate, as the reputation tick records it.
ReputationTier(row, s) ==
    CASE s.delivered < DeliveredFloor -> "none"
      [] s.delivered >= DeliveredFloor ->
           IF 1000 * s.bad >= Critical(row) * s.delivered THEN "critical"
           ELSE IF 1000 * s.bad >= Warn(row) * s.delivered THEN "warn" ELSE "none"

Down(bad) == IF bad THEN "down" ELSE "none"

\* How bad a row is.
Trouble(row, s) ==
    CASE kind = "queue_depth"       -> Down(QueueDepthBad(s))
      [] kind = "oldest_job_age"    -> Down(OldestJobAgeBad(s))
      [] kind = "webhook_lag"       -> Down(WebhookLagBad(s))
      [] kind = "send_reconciler"   -> Down(ReconcilerBad(s))
      [] kind = "dead_letter"       -> Down(DeadLettersBad(s))
      [] kind = "failed_send_share" -> Down(FailedSendShareBad(s))
      [] kind = "ingestion"         -> Down(IngestionBad(s))
      [] kind = "purge"             -> Down(PurgeBad(s))
      [] kind = "partition"         -> Down(PartitionBad(s))
      [] kind = "reputation"        -> ReputationTier(row, s)

TroubleOf(row) == Trouble(row, signal[row])

-----------------------------------------------------------------------------
\* Watchdogs that may alert more than once per window: the slot of the purge
\* watchdog is given back by a healthy check, a worse reputation is reported
\* at once.
Repeating == {"purge", "reputation"}

Idle == [pc |-> "idle", now |-> 0, todo |-> {}, item |-> NoCheck]

Tier == {"none", "down", "warn", "critical"}
Item == [row : Rows, tier : Tier, alerted : Tier]   \* what a check read of a row

AlertTypeOK ==
    /\ kind \in Kind
    /\ signal \in [Rows -> UNION {Signals(row) : row \in Rows}]
    /\ \A row \in Rows : signal[row] \in Signals(row)
    /\ slot \in [Rows -> [sentAt : SentAge, by : Check \cup {NoCheck}, tier : Tier]]
    /\ check \in [Check -> [pc : {"idle", "rearm", "working", "mailing", "members"},
                           now : 0 .. MaxCheck, todo : SUBSET Item, item : Item \cup {NoCheck}]]
    /\ \A c \in Check : check[c].pc \in {"mailing", "members"} => check[c].item \in Item
    /\ told \in [Rows -> SUBSET Tier]
    /\ mailed \in [0 .. Horizon -> Nat]
    /\ faults \in 0 .. MaxFaults

AlertInit ==
    /\ kind \in Kind
    /\ signal \in [Rows -> UNION {Signals(row) : row \in Rows}]
    /\ \A row \in Rows : signal[row] \in Signals(row)
    /\ slot = [row \in Rows |-> [sentAt |-> Never, by |-> NoCheck, tier |-> "none"]]
    /\ check = [c \in Check |-> Idle]
    /\ told = [row \in Rows |-> {}]
    /\ mailed = [a \in 0 .. Horizon |-> 0]
    /\ faults = 0

Fault == faults < MaxFaults /\ faults' = faults + 1

\* A check that has no row left to do is over.
Rest(c, todo) == IF todo = {} THEN Idle ELSE [check[c] EXCEPT !.pc = "working", !.todo = todo, !.item = NoCheck]

\* The interval fires: now is taken, the check reads its rows and keeps the bad
\* ones, with what their slots say.  The purge watchdog gives its slot back
\* when all is well.
StartCheck(c) ==
    /\ check[c].pc = "idle"
    /\ LET bad == {[row |-> row, tier |-> TroubleOf(row), alerted |-> slot[row].tier] :
                     row \in {row \in Rows : TroubleOf(row) # "none"}}
       IN  check' = [check EXCEPT ![c] = IF bad = {} /\ kind = "purge"
                                         THEN [Idle EXCEPT !.pc = "rearm"] ELSE Rest(c, bad)]
    /\ UNCHANGED <<kind, signal, slot, told, mailed, faults>>

\* releaseWorkspacePurgeAlertSlotUnconditionally
Rearm(c) ==
    /\ check[c].pc = "rearm"
    /\ slot' = [row \in Rows |-> [slot[row] EXCEPT !.sentAt = Never, !.by = NoCheck]]
    /\ check' = [check EXCEPT ![c] = Idle]
    /\ UNCHANGED <<kind, signal, told, mailed, faults>>

\* Mutant: a slot once claimed has to be given back.
ClaimableIfNull(c, item) == slot[item.row].sentAt = Never

\* Mutant: the window is not subtracted.
ClaimableAtOnce(c, item) == slot[item.row].sentAt = Never \/ slot[item.row].sentAt > check[c].now

\* The WHERE of claimOpsAlertSlot and its siblings; an alert about a worse
\* tier passes.
Claimable(c, item) ==
    LET s == slot[item.row] IN
    \/ s.sentAt = Never
    \/ s.sentAt > check[c].now + Dedup
    \/ s.tier = "warn" /\ item.tier = "critical"

\* claimOpsAlertSlot, claimAlertSlot, claimReputationAlertSlot and the others;
\* rows that are not claimed are passed over.
Claim(c, item) ==
    /\ check[c].pc = "working" /\ item \in check[c].todo
    /\ IF Claimable(c, item)
       THEN /\ slot' = [slot EXCEPT ![item.row] = [sentAt |-> check[c].now, by |-> c, tier |-> item.tier]]
            /\ check' = [check EXCEPT ![c].pc = "mailing", ![c].todo = @ \ {item}, ![c].item = item]
       ELSE /\ check' = [check EXCEPT ![c] = Rest(c, check[c].todo \ {item})]
            /\ UNCHANGED slot
    /\ UNCHANGED <<kind, signal, told, mailed, faults>>

\* Everybody has been told; the check goes on with its next row.
Delivered(c) ==
    /\ told' = [told EXCEPT ![check[c].item.row] = @ \cup {check[c].item.tier}]
    /\ check' = [check EXCEPT ![c] = Rest(c, check[c].todo)]

\* The mail to the operator is accepted.
MailOperator(c) ==
    /\ check[c].pc = "mailing"
    /\ mailed' = IF kind \in Repeating THEN mailed ELSE [mailed EXCEPT ![check[c].now] = @ + 1]
    /\ IF kind = "reputation"
       THEN check' = [check EXCEPT ![c].pc = "members"] /\ UNCHANGED told
       ELSE Delivered(c)
    /\ UNCHANGED <<kind, signal, slot, faults>>

\* resolveWorkspaceAlertRecipients, and the mails to the members.
MailMembers(c) ==
    /\ check[c].pc = "members"
    /\ Delivered(c)
    /\ UNCHANGED <<kind, signal, slot, mailed, faults>>

\* releaseOpsAlertSlot and its siblings: the slot is cleared if it still holds
\* the time this check has set.
Released(c) ==
    LET item == check[c].item IN
    IF slot[item.row].by = c
    THEN [slot EXCEPT ![item.row] = [sentAt |-> Never, by |-> NoCheck, tier |-> item.alerted]]
    ELSE slot

\* A mail is refused: the slot is released, unless that fails too, and the
\* check throws; the rows it had still to do wait for the next one.
MailFails(c) ==
    /\ check[c].pc \in {"mailing", "members"} /\ Fault
    /\ slot' \in {slot, Released(c)}
    /\ check' = [check EXCEPT ![c] = Idle]
    /\ UNCHANGED <<kind, signal, told, mailed>>

\* The replica dies and another takes its place.
Crash(c) ==
    /\ check[c].pc # "idle" /\ Fault
    /\ check' = [check EXCEPT ![c] = Idle]
    /\ UNCHANGED <<kind, signal, slot, told, mailed>>

\* The watched part of the system changes; for the reputation watchdog, its
\* tick records a new rate.
SignalChanges(row) ==
    /\ \E s \in Signals(row) \ {signal[row]} :
         /\ signal' = [signal EXCEPT ![row] = s]
         /\ told' = IF Trouble(row, s) = "none" THEN [told EXCEPT ![row] = {}] ELSE told
    /\ UNCHANGED <<kind, slot, check, mailed, faults>>

Aged(a) == IF a < Horizon THEN a + 1 ELSE a

ClockTicks ==
    /\ \A c \in Check : check[c].now < MaxCheck
    /\ slot' = [row \in Rows |-> [slot[row] EXCEPT !.sentAt = Aged(@)]]
    /\ check' = [c \in Check |-> IF check[c].pc = "idle" THEN Idle ELSE [check[c] EXCEPT !.now = @ + 1]]
    /\ mailed' = [a \in 0 .. Horizon |-> IF a = 0 THEN 0 ELSE mailed[a - 1]]
    /\ UNCHANGED <<kind, signal, told, faults>>

CheckStep(c) ==
    \/ StartCheck(c) \/ Rearm(c) \/ MailOperator(c) \/ MailMembers(c)
    \/ \E item \in check[c].todo : Claim(c, item)

AlertNext ==
    \/ \E c \in Check : CheckStep(c) \/ MailFails(c) \/ Crash(c)
    \/ \E row \in Rows : SignalChanges(row)
    \/ ClockTicks

AlertSpec == AlertInit /\ [][AlertNext]_alertVars

\* The intervals of the API keep firing, and time passes.
FairAlertSpec ==
    /\ AlertSpec
    /\ \A c \in Check : WF_alertVars(CheckStep(c))
    /\ WF_alertVars(ClockTicks)

-----------------------------------------------------------------------------
\* However many replicas check at once, crash or fail to mail, the operator
\* hears of one trouble once per window: no two alerts go out on claims that
\* are less than the window apart, give or take the time a check lasts (a slot
\* released by one check has forgotten the alert before, and a slower check may
\* claim it).
OneAlertPerWindow ==
    \A a, b \in 0 .. Horizon :
      a <= b /\ b + MaxCheck <= a + Dedup => mailed[a] + (IF a = b THEN 0 ELSE mailed[b]) <= 1

\* A row is in trouble at a tier nobody has been told of.
Unheard(row, tier) == row \in Rows /\ TroubleOf(row) = tier /\ tier \notin told[row]

\* Trouble that lasts is reported in the end, at its tier, whatever was claimed
\* and lost before: a claim that was never followed by a mail, an alert about
\* something milder, a window opened by an earlier trouble.
LastingTroubleIsReported ==
    \A row \in {"row"} \cup ReputationRow : \A tier \in {"down", "warn", "critical"} :
      Unheard(row, tier) ~> ~Unheard(row, tier)
=============================================================================

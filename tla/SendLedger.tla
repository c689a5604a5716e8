----------------------------- MODULE SendLedger -----------------------------
(***************************************************************************)
(* The `sends` ledger: one operator per statement the delivery core issues *)
(* against a ledger row or against the campaign row that counts it.        *)
(* Each operator maps the row before the statement to the row after it, so *)
(* that an action made of several statements is the composition of them.   *)
(*                                                                         *)
(* A row is [status, age, since].  "none" is the absence of the row; age   *)
(* is the time elapsed since queued_at and since the time elapsed since    *)
(* reconciling_since (NoAge when that column is NULL).  Both saturate one  *)
(* unit above the largest threshold they are compared with, so elapsed     *)
(* time needs no bound.                                                    *)
(***************************************************************************)
EXTENDS Integers, FiniteSets

CONSTANTS
    StaleDispatchingAge,   \* STALE_DISPATCHING_AGE_MS
    ResolutionWindow,      \* RECONCILE_RESOLUTION_WINDOW_MS
    RescanHorizon          \* RECONCILE_RESCAN_HORIZON_MS

\* The three windows of reconciler.ts keep this order (2h < 24h < 72h).
ASSUME WindowsAssumption ==
    /\ StaleDispatchingAge \in Nat /\ ResolutionWindow \in Nat /\ RescanHorizon \in Nat
    /\ 0 < StaleDispatchingAge
    /\ StaleDispatchingAge <= ResolutionWindow
    /\ ResolutionWindow <= RescanHorizon

NoAge  == -1
AgeCap == RescanHorizon + 1
Age    == 0 .. AgeCap

\* SEND_STATUSES, and "none" for an intent that has no row.
SendStatus == {"dispatching", "sent", "failed", "excluded", "reconciling", "unknown"}
Ambiguous  == {"reconciling", "unknown"}

Row   == [status : SendStatus \cup {"none"}, age : Age, since : Age \cup {NoAge}]
NoRow == [status |-> "none", age |-> 0, since |-> NoAge]

\* One unit of time passes over an elapsed-time column, or over a row.
Older(a)   == IF a = NoAge \/ a = AgeCap THEN a ELSE a + 1
OlderRow(r) == IF r.status = "none"
               THEN r
               ELSE [r EXCEPT !.age = Older(@), !.since = Older(@)]

-----------------------------------------------------------------------------
(* Statements of the send worker                                           *)

\* Mutants of the gate: a redelivery that finds a claim sends again; a row
\* that awaits the reconciler is claimed anew.
DispatchSendGateResends(r) ==
    IF r.status \in {"none", "dispatching"} THEN "proceed" ELSE "skipped"
DispatchSendGateReclaims(r) ==
    IF r.status \in {"none", "reconciling"} THEN "proceed"
    ELSE IF r.status = "dispatching" THEN "interrupted" ELSE "skipped"

\* What dispatchSendGate / claimFlowSend answer: INSERT .. ON CONFLICT DO
\* NOTHING, and the branch on the status of the row it collided with.
DispatchSendGate(r) ==
    IF r.status = "none" THEN "proceed"
    ELSE IF r.status = "dispatching" THEN "interrupted" ELSE "skipped"

\* The row that the INSERT of the gate leaves behind.
InsertDispatching == [status |-> "dispatching", age |-> 0, since |-> NoAge]

\* DELETE .. WHERE id AND status = 'dispatching'.
ReleaseDispatchClaim(r) == IF r.status = "dispatching" THEN NoRow ELSE r

\* recordSendResult and recordFlowStepResult: UPDATE .. WHERE id, whatever
\* the status of the row is by then.
RecordSendResult(r, status) ==
    IF r.status = "none"
    THEN r
    ELSE [r EXCEPT !.status = status,
                   !.since  = IF status = "reconciling" /\ @ = NoAge THEN 0 ELSE @]

\* Mutant: ON CONFLICT DO UPDATE without its WHERE.
RecordExcludedOverAny(r) == [r EXCEPT !.status = "excluded"]

\* recordExcluded and recordFlowExcluded: INSERT 'excluded', ON CONFLICT DO
\* UPDATE only a row that is itself 'excluded'.
RecordExcluded(r) ==
    IF r.status \in {"sent", "dispatching", "failed", "reconciling", "unknown"}
    THEN r
    ELSE [r EXCEPT !.status = "excluded"]

-----------------------------------------------------------------------------
(* Statements of the reconciler                                            *)

\* Mutant: a claim is stale at the threshold already.
StaleDispatchingEarly(r) == r.status = "dispatching" /\ r.age >= StaleDispatchingAge

\* The age test that the discovery scan and the classification share.
StaleDispatching(r) == r.status = "dispatching" /\ r.age > StaleDispatchingAge

\* classifyReconcilableSend, in the order of its branches.
ClassifyReconcilableSend(r, hasEvidence) ==
    CASE StaleDispatching(r) -> "sweep_to_reconciling"
      [] r.status = "reconciling" /\ hasEvidence -> "resolve_sent"
      [] /\ r.status = "reconciling" /\ ~hasEvidence
         /\ (IF r.since = NoAge THEN r.age ELSE r.since) > ResolutionWindow -> "resolve_unknown"
      [] r.status = "unknown" /\ hasEvidence /\ r.age <= RescanHorizon -> "resolve_sent"
      [] OTHER -> "hold"

\* resolveReconcilingSend: both UPDATEs match only reconciling and unknown.
ResolveReconcilingSend(r, verdict) ==
    IF r.status \notin Ambiguous
    THEN r
    ELSE IF verdict = "resolve_unknown"
         THEN [r EXCEPT !.status = "unknown"]
         ELSE [r EXCEPT !.status = "sent", !.since = NoAge]

\* sweepStaleDispatchingSend.
SweepStaleDispatchingSend(r) ==
    IF r.status = "dispatching"
    THEN [r EXCEPT !.status = "reconciling", !.since = IF @ = NoAge THEN 0 ELSE @]
    ELSE r

\* Mutants: the scan misses claims; it applies the horizon to every
\* ambiguous row.
ReconcilableMissesClaims(r) ==
    \/ r.status = "reconciling"
    \/ r.status = "unknown" /\ r.age <= RescanHorizon
ReconcilableForgetsOld(r) ==
    \/ r.status \in Ambiguous /\ r.age <= RescanHorizon
    \/ StaleDispatching(r)

\* The WHERE clause of the reconciler's discovery scan.
Reconcilable(r) ==
    \/ r.status = "reconciling"
    \/ r.status = "unknown" /\ r.age <= RescanHorizon
    \/ StaleDispatching(r)

-----------------------------------------------------------------------------
(* Statements on the campaign row                                          *)

\* "deleted" is the absence of the row.
CampaignStatus == {"draft", "scheduled", "sending", "sent", "canceled", "deleted"}

Campaign == [status : CampaignStatus, fanOutComplete : BOOLEAN,
             sendableTotal : Nat, sentCount : Nat, failedCount : Nat]

\* incrementCampaignSendCounter: frozen once the campaign left 'sending'.
IncrementSent(c)   == IF c.status = "sending" THEN [c EXCEPT !.sentCount = @ + 1] ELSE c
IncrementFailed(c) == IF c.status = "sending" THEN [c EXCEPT !.failedCount = @ + 1] ELSE c

\* Mutant: a late resolution is not counted.
BackfillSentForgotten(c) == c

\* backfillCampaignSendCounter(.., "sent"): the same without the guard.
BackfillSent(c) == [c EXCEPT !.sentCount = @ + 1]

\* Mutants: completion before the fan-out is over; completion of a campaign
\* in any status.
TryCompleteEarly(c, ambiguous) ==
    IF c.status = "sending" /\ c.sentCount + c.failedCount + ambiguous >= c.sendableTotal
    THEN [c EXCEPT !.status = "sent"] ELSE c
TryCompleteAnyStatus(c, ambiguous) ==
    IF c.fanOutComplete /\ c.sentCount + c.failedCount + ambiguous >= c.sendableTotal
    THEN [c EXCEPT !.status = "sent"] ELSE c

\* tryCompleteCampaign, where `ambiguous` is the number of the campaign's
\* rows in reconciling or unknown as this transaction sees them.
TryCompleteCampaign(c, ambiguous) ==
    IF /\ c.status = "sending"
       /\ c.fanOutComplete
       /\ c.sentCount + c.failedCount + ambiguous >= c.sendableTotal
    THEN [c EXCEPT !.status = "sent"]
    ELSE c
=============================================================================

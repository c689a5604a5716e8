------------------------- MODULE SendDispatchProofs -------------------------
(***************************************************************************)
(* Proofs about SendDispatch for every set of intents and attempts, every  *)
(* retry budget, and, unless a theorem says otherwise, with job locks that *)
(* may lapse under a live attempt.                                         *)
(***************************************************************************)
EXTENDS SendDispatch, FiniteSetTheorems, TLAPS

-----------------------------------------------------------------------------
(* What the ledger statements do to a row                                  *)

\* The absence of a row and a fresh claim are rows.
LEMMA NewRowTypes == NoRow \in Row /\ InsertDispatching \in Row
  BY WindowsAssumption
  DEF WindowsAssumption, NoRow, InsertDispatching, Row, SendStatus, Age, AgeCap, NoAge

\* Every ledger statement maps rows to rows.
LEMMA LedgerTypes ==
    ASSUME NEW r \in Row
    PROVE  /\ ReleaseDispatchClaim(r) \in Row
           /\ \A s \in SendStatus : RecordSendResult(r, s) \in Row
           /\ RecordExcluded(r) \in Row
           /\ \A v : ResolveReconcilingSend(r, v) \in Row
           /\ SweepStaleDispatchingSend(r) \in Row
           /\ OlderRow(r) \in Row
<1> USE WindowsAssumption DEF WindowsAssumption, Row, SendStatus, Age, AgeCap, NoAge
<1>1. 0 \in Age /\ NoAge \notin Age
  OBVIOUS
<1>3. ReleaseDispatchClaim(r) \in Row
  BY NewRowTypes DEF ReleaseDispatchClaim
<1>4. ASSUME NEW s \in SendStatus PROVE RecordSendResult(r, s) \in Row
  BY <1>1 DEF RecordSendResult
<1>5. RecordExcluded(r) \in Row
  BY DEF RecordExcluded
<1>6. ASSUME NEW v PROVE ResolveReconcilingSend(r, v) \in Row
  BY DEF ResolveReconcilingSend
<1>7. SweepStaleDispatchingSend(r) \in Row
  BY <1>1 DEF SweepStaleDispatchingSend
<1>8. \A a \in Age \cup {NoAge} : Older(a) \in Age \cup {NoAge} /\ (a \in Age => Older(a) \in Age)
  BY DEF Older
<1>9. OlderRow(r) \in Row
  <2>1. Older(r.age) \in Age /\ Older(r.since) \in Age \cup {NoAge}
    BY <1>8
  <2> QED
    BY <2>1 DEF OlderRow
<1> QED
  BY <1>3, <1>4, <1>5, <1>6, <1>7, <1>9

\* Every campaign statement maps campaign rows to campaign rows.
LEMMA CampaignTypes ==
    ASSUME NEW c \in Campaign
    PROVE  /\ IncrementSent(c) \in Campaign /\ IncrementFailed(c) \in Campaign
           /\ BackfillSent(c) \in Campaign
           /\ \A n : TryCompleteCampaign(c, n) \in Campaign
  BY DEF Campaign, CampaignStatus, IncrementSent, IncrementFailed, BackfillSent, TryCompleteCampaign

\* The transaction of unit 3 and of the reconciler leaves a campaign row.
LEMMA CountForType ==
    ASSUME TypeOK, NEW i, NEW rs, NEW c \in Campaign
    PROVE  CountFor(i, c, rs) \in Campaign
  BY CampaignTypes DEF CountFor, TypeOK

\* BullMQ's bookkeeping of a thrown error keeps the job record well formed.
LEMMA JobAfterThrowType ==
    ASSUME NEW j \in Job
    PROVE  JobAfterThrow(j) \in Job
<1> DEFINE made == IF j.made < MaxAttempts THEN j.made + 1 ELSE j.made
           state == IF j.made + 1 >= MaxAttempts THEN "failed" ELSE "waiting"
<1>1. made \in 0 .. MaxAttempts
  BY DispatchAssumption DEF DispatchAssumption, Job
<1>2. JobAfterThrow(j) = [j EXCEPT !.state = state, !.made = made, !.lock = NoAttempt]
  BY DEF JobAfterThrow
<1>3. state \in {"waiting", "failed"}
  OBVIOUS
<1> HIDE DEF made, state
<1> QED
  BY <1>1, <1>2, <1>3 DEF Job

\* So does its bookkeeping of a stalled job.
LEMMA JobAfterStallType ==
    ASSUME NEW j \in Job
    PROVE  JobAfterStall(j) \in Job
<1> DEFINE stalled == IF j.stalled <= MaxStalled THEN j.stalled + 1 ELSE j.stalled
           state == IF j.stalled >= MaxStalled THEN "failed" ELSE "waiting"
<1>1. stalled \in 0 .. MaxStalled + 1
  BY DispatchAssumption DEF DispatchAssumption, Job
<1>2. JobAfterStall(j) = [j EXCEPT !.state = state, !.stalled = stalled, !.lock = NoAttempt]
  BY DEF JobAfterStall
<1>3. state \in {"waiting", "failed"}
  OBVIOUS
<1> HIDE DEF stalled, state
<1> QED
  BY <1>1, <1>2, <1>3 DEF Job

-----------------------------------------------------------------------------
(* Type correctness                                                        *)

\* The initial state is well typed.
LEMMA TypeInit == Init => TypeOK
<1> SUFFICES ASSUME Init PROVE TypeOK
  OBVIOUS
<1>1. row \in [Intent -> Row]
  BY NewRowTypes DEF Init
<1>2. job \in [Intent -> Job]
  BY DispatchAssumption DEF DispatchAssumption, Init, Job
<1>3. campaign \in Campaign
  BY DEF Init, Campaign, CampaignStatus
<1>4. att \in [Attempt -> Att] /\ \A a \in Attempt : att[a].pc = "idle"
  BY DEF Init, Att, PC, Idle
<1> QED
  BY <1>1, <1>2, <1>3, <1>4 DEF Init, TypeOK

\* Every action keeps the state well typed.
LEMMA TypeStep == TypeOK /\ [Next]_vars => TypeOK'
<1> SUFFICES ASSUME TypeOK, [Next]_vars PROVE TypeOK'
  OBVIOUS
<1> USE DEF TypeOK
<1>a. \A a \in Attempt, pc \in PC \ {"idle"} :
          att[a].pc # "idle" /\ Goto(a, pc) =>
            /\ att' \in [Attempt -> Att]
            /\ \A b \in Attempt : att'[b].pc # "idle" => att'[b].on \in Intent
  BY DEF Goto, Att
<1>r. \A i \in Intent, r \in Row : SetRow(i, r) => row' \in [Intent -> Row]
  BY DEF SetRow
<1>pc. /\ PC \ {"idle"} = {"picked", "checked"} \cup BeforeAnswer \cup AfterAnswer \cup Outcome
       /\ \A a \in Attempt : att[a] \in Att
  BY DEF PC, BeforeAnswer, AfterAnswer, Outcome
<1>1. ASSUME NEW a \in Attempt, NEW i \in Intent, PickUp(a, i) PROVE TypeOK'
  BY <1>1, ZenonT(40) DEF PickUp, Att, PC, Job
<1>2. ASSUME NEW a \in Attempt, Settle(a) PROVE TypeOK'
  <2>1. att[a].on \in Intent
    BY <1>2 DEF Settle, Outcome
  <2>2. JobAfterThrow(job[att[a].on]) \in Job
    BY <2>1, JobAfterThrowType
  <2>3. job' \in [Intent -> Job]
    BY <1>2, <2>1, <2>2, ZenonT(40) DEF Settle, Job, Outcome
  <2> QED
    BY <1>2, <2>3 DEF Settle, Idle, Att, PC
<1>3. ASSUME NEW a \in Attempt, Crash(a) PROVE TypeOK'
  BY <1>3, ZenonT(40) DEF Crash, Idle, Att, PC, Job
<1>4. ASSUME NEW i \in Intent, Stall(i) PROVE TypeOK'
  BY <1>4, JobAfterStallType DEF Stall
<1>5. ASSUME NEW a \in Attempt, CheckCampaign(a) \/ Call(a) \/ Throw(a) PROVE TypeOK'
  BY <1>5, <1>a, <1>pc
  DEF CheckCampaign, Call, Throw, BeforeAnswer, AfterAnswer, Outcome
<1>6. ASSUME NEW a \in Attempt, Exclude(a) \/ Claim(a) PROVE TypeOK'
  <2>1. att[a].on \in Intent /\ att[a].pc # "idle"
    BY <1>6 DEF Exclude, Claim
  <2>2. row' \in [Intent -> Row]
    BY <1>6, <2>1, <1>r, NewRowTypes, LedgerTypes DEF Exclude, Claim, SendStatus, DispatchSendGate
  <2> QED
    BY <1>6, <2>1, <2>2, <1>a, <1>pc DEF Exclude, Claim, BeforeAnswer, Outcome
<1>7. ASSUME NEW a \in Attempt, Deny(a) \/ BackOff(a) \/ RecordLost(a) PROVE TypeOK'
  <2>1. att[a].on \in Intent /\ att[a].pc # "idle"
    BY <1>7 DEF Deny, BackOff, RecordLost
  <2>2. row' \in [Intent -> Row]
    BY <1>7, <2>1, <1>r, LedgerTypes DEF Deny, BackOff, RecordLost, SendStatus
  <2> QED
    BY <1>7, <2>1, <2>2, <1>a, <1>pc DEF Deny, BackOff, RecordLost, Return, Outcome
<1>8. ASSUME NEW a \in Attempt, Accept(a) \/ Refuse(a) PROVE TypeOK'
  <2>1. att[a].on \in Intent /\ att[a].pc # "idle"
    BY <1>8 DEF Accept, Refuse
  <2> QED
    BY <1>8, <2>1, <1>a, <1>pc DEF Accept, Refuse, AfterAnswer
<1>9. ASSUME NEW a \in Attempt, RecordSent(a) \/ RecordFailed(a) PROVE TypeOK'
  <2>1. att[a].on \in Intent /\ att[a].pc # "idle"
    BY <1>9 DEF RecordSent, RecordFailed
  <2>2. row' \in [Intent -> Row]
    BY <1>9, <2>1, LedgerTypes DEF RecordSent, RecordFailed, SendStatus
  <2>3. campaign' \in Campaign
    BY <1>9, CountForType, CampaignTypes DEF RecordSent, RecordFailed
  <2> QED
    BY <1>9, <2>1, <2>2, <2>3, <1>a, <1>pc DEF RecordSent, RecordFailed, Return, Outcome
<1>10. ASSUME NEW i \in Intent, ResolveOneSend(i) PROVE TypeOK'
  <2>1. row' \in [Intent -> Row]
    BY <1>10, LedgerTypes DEF ResolveOneSend
  <2>2. campaign' \in Campaign
    BY <1>10, CountForType, CampaignTypes DEF ResolveOneSend
  <2> QED
    BY <1>10, <2>1, <2>2 DEF ResolveOneSend
<1>11. CASE ReconcilerTick \/ ReconcilerAbort
  BY <1>11 DEF ReconcilerTick, ReconcilerAbort, Candidates
<1>12. CASE FanOutDone
  <2>1. Cardinality(CampaignIntent) \in Nat
    BY DispatchAssumption, FS_Subset, FS_CardinalityType DEF DispatchAssumption
  <2>2. [campaign EXCEPT !.fanOutComplete = TRUE,
                         !.sendableTotal = Cardinality(CampaignIntent)] \in Campaign
    BY <2>1 DEF Campaign
  <2>3. campaign' \in Campaign
    BY <1>12, <2>2, CampaignTypes DEF FanOutDone
  <2> QED
    BY <1>12, <2>3 DEF FanOutDone
<1>13. CASE CancelCampaign
  BY <1>13 DEF CancelCampaign, Campaign, CampaignStatus
<1>14. ASSUME NEW i \in Intent, Webhook(i) PROVE TypeOK'
  BY <1>14 DEF Webhook
<1>15. CASE Tick
  BY <1>15, LedgerTypes DEF Tick
<1>16. CASE UNCHANGED vars
  BY <1>16 DEF vars
<1> QED
  BY <1>1, <1>2, <1>3, <1>4, <1>5, <1>6, <1>7, <1>8, <1>9, <1>10, <1>11, <1>12, <1>13, <1>14,
     <1>15, <1>16
  DEF Next, WorkerStep, Progress

\* Every reachable state of the pipeline is well typed: rows, counters, jobs
\* and attempts never leave the domains the code gives them.
THEOREM TypeCorrect == Spec => []TypeOK
<1>1. Init => TypeOK
  BY TypeInit
<1>2. TypeOK /\ [Next]_vars => TypeOK'
  BY TypeStep
<1> QED
  BY <1>1, <1>2, PTL DEF Spec

-----------------------------------------------------------------------------
(* At-most-once and the truth of the ledger                                *)

\* The status each ledger statement leaves behind.
LEMMA LedgerStatuses ==
    ASSUME NEW r \in Row
    PROVE  /\ NoRow.status = "none" /\ InsertDispatching.status = "dispatching"
           /\ ReleaseDispatchClaim(r).status = IF r.status = "dispatching" THEN "none" ELSE r.status
           /\ \A s \in SendStatus :
                RecordSendResult(r, s).status = IF r.status = "none" THEN "none" ELSE s
           /\ RecordExcluded(r).status =
                IF r.status \in {"none", "excluded"} THEN "excluded" ELSE r.status
           /\ ResolveReconcilingSend(r, "resolve_unknown").status =
                IF r.status \in Ambiguous THEN "unknown" ELSE r.status
           /\ ResolveReconcilingSend(r, "resolve_sent").status =
                IF r.status \in Ambiguous THEN "sent" ELSE r.status
           /\ SweepStaleDispatchingSend(r).status =
                IF r.status = "dispatching" THEN "reconciling" ELSE r.status
           /\ OlderRow(r).status = r.status
<1> USE DEF Row
<1>1. NoRow.status = "none" /\ InsertDispatching.status = "dispatching"
  BY DEF NoRow, InsertDispatching
<1>2. ReleaseDispatchClaim(r).status = IF r.status = "dispatching" THEN "none" ELSE r.status
  BY DEF ReleaseDispatchClaim, NoRow
<1>3. ASSUME NEW s \in SendStatus
      PROVE  RecordSendResult(r, s).status = IF r.status = "none" THEN "none" ELSE s
  BY DEF RecordSendResult
<1>4. RecordExcluded(r).status = IF r.status \in {"none", "excluded"} THEN "excluded" ELSE r.status
  BY DEF RecordExcluded, SendStatus
<1>5. /\ ResolveReconcilingSend(r, "resolve_unknown").status =
           IF r.status \in Ambiguous THEN "unknown" ELSE r.status
      /\ ResolveReconcilingSend(r, "resolve_sent").status =
           IF r.status \in Ambiguous THEN "sent" ELSE r.status
  BY DEF ResolveReconcilingSend
<1>6. SweepStaleDispatchingSend(r).status = IF r.status = "dispatching" THEN "reconciling" ELSE r.status
  BY DEF SweepStaleDispatchingSend
<1>7. OlderRow(r).status = r.status
  BY DEF OlderRow
<1> QED
  BY <1>1, <1>2, <1>3, <1>4, <1>5, <1>6, <1>7

\* The inductive invariant: what holds of an attempt between its claim and
\* its record is what keeps a second acceptance and a false record away.
SafetyInv ==
    TypeOK /\ AtMostOnce /\ LedgerTellsTruth /\ ClaimDiscipline /\ EvidenceIsTrue

\* The invariant holds before any job is picked up.
LEMMA SafetyInit == Init => SafetyInv
<1> SUFFICES ASSUME Init PROVE SafetyInv
  OBVIOUS
<1>1. TypeOK
  BY TypeInit
<1>2. \A i \in Intent : row[i].status = "none" /\ accepted[i] = 0
  BY DEF Init, NoRow
<1>3. \A a \in Attempt : ~Engaged(a)
  BY DEF Init, Idle, Engaged, BeforeAnswer, AfterAnswer
<1> QED
  BY <1>1, <1>2, <1>3
  DEF Init, SafetyInv, AtMostOnce, LedgerTellsTruth, ClaimDiscipline, EvidenceIsTrue

\* A step that keeps every row's status, every acceptance and the evidence,
\* and in which an attempt that is engaged afterwards was engaged before on
\* the same intent with as much leave, preserves the invariant.
LEMMA QuietStep ==
    ASSUME SafetyInv, TypeOK',
           \A i \in Intent : row'[i].status = row[i].status,
           UNCHANGED <<accepted, evidence>>,
           \A a \in Attempt : Engaged(a)' =>
               /\ Engaged(a) /\ att'[a].on = att[a].on
               /\ att'[a].pc = att[a].pc \/ (att[a].pc = "claimed" /\ att'[a].pc = "calling")
                                        \/ (att[a].pc = "calling" /\ att'[a].pc \in AfterAnswer \ {"accepted"})
    PROVE  SafetyInv'
<1> USE DEF SafetyInv
<1>1. AtMostOnce' /\ LedgerTellsTruth' /\ EvidenceIsTrue'
  BY DEF TypeOK, AtMostOnce, LedgerTellsTruth, EvidenceIsTrue
<1>2. ASSUME NEW a \in Attempt, Engaged(a)'
      PROVE  /\ \A b \in Attempt : Engaged(b)' /\ att'[b].on = att'[a].on => b = a
             /\ row'[att'[a].on].status \in StatusWhile(att'[a].pc)
             /\ att'[a].pc = "accepted" => accepted'[att'[a].on] > 0
             /\ att'[a].pc \notin {"accepted", "lost"} => accepted'[att'[a].on] = 0
  <2>1. att[a].on \in Intent /\ Engaged(a) /\ att'[a].on = att[a].on
    BY <1>2 DEF TypeOK, Engaged, BeforeAnswer, AfterAnswer
  <2>2. StatusWhile(att[a].pc) \subseteq StatusWhile(att'[a].pc)
    BY <1>2 DEF StatusWhile
  <2> QED
    BY <1>2, <2>1, <2>2 DEF ClaimDiscipline, AfterAnswer
<1>3. ClaimDiscipline'
  BY <1>2 DEF ClaimDiscipline
<1> QED
  BY <1>1, <1>3

\* A step that changes the status of one row only, to one that is true and
\* that the attempts still engaged on that intent can live with, preserves
\* the invariant.
LEMMA StatusStep ==
    ASSUME SafetyInv, TypeOK', NEW i \in Intent,
           \A k \in Intent \ {i} : row'[k].status = row[k].status,
           row'[i].status = "sent" => accepted[i] > 0,
           row'[i].status \in {"none", "failed", "excluded"} => accepted[i] = 0,
           UNCHANGED <<accepted, evidence>>,
           \A b \in Attempt : Engaged(b)' =>
               /\ Engaged(b) /\ att'[b] = att[b]
               /\ att[b].on = i => row'[i].status \in StatusWhile(att[b].pc)
    PROVE  SafetyInv'
<1> USE DEF SafetyInv
<1>1. AtMostOnce' /\ LedgerTellsTruth' /\ EvidenceIsTrue'
  BY DEF TypeOK, AtMostOnce, LedgerTellsTruth, EvidenceIsTrue
<1>2. ASSUME NEW a \in Attempt, Engaged(a)'
      PROVE  /\ \A b \in Attempt : Engaged(b)' /\ att'[b].on = att'[a].on => b = a
             /\ row'[att'[a].on].status \in StatusWhile(att'[a].pc)
             /\ att'[a].pc = "accepted" => accepted'[att'[a].on] > 0
             /\ att'[a].pc \notin {"accepted", "lost"} => accepted'[att'[a].on] = 0
  <2>1. att[a].on \in Intent
    BY <1>2 DEF TypeOK, Engaged, BeforeAnswer, AfterAnswer
  <2> QED
    BY <1>2, <2>1 DEF ClaimDiscipline
<1>3. ClaimDiscipline'
  BY <1>2 DEF ClaimDiscipline
<1> QED
  BY <1>1, <1>3

\* Every action preserves the invariant, whether or not job locks lapse.
LEMMA SafetyStep == SafetyInv /\ [Next]_vars => SafetyInv'
<1> SUFFICES ASSUME SafetyInv, [Next]_vars PROVE SafetyInv'
  OBVIOUS
<1>t. TypeOK /\ TypeOK'
  BY TypeStep DEF SafetyInv
<1>on. \A a \in Attempt : att[a] \in Att /\ (att[a].pc # "idle" => att[a].on \in Intent)
  BY <1>t DEF TypeOK
<1>e. \A a \in Attempt : Engaged(a) <=> att[a].pc \in BeforeAnswer \cup AfterAnswer
  BY DEF Engaged
<1>e2. \A a \in Attempt : Engaged(a)' <=> att'[a].pc \in BeforeAnswer \cup AfterAnswer
  BY DEF Engaged
<1>g. \A a \in Attempt : \A pc : Goto(a, pc) =>
          /\ att'[a].pc = pc /\ att'[a].on = att[a].on
          /\ \A b \in Attempt \ {a} : att'[b] = att[b]
  BY <1>t DEF Goto, TypeOK, Att
<1>o. \A a \in Attempt : (\E pc \in Outcome : Goto(a, pc)) =>
          ~Engaged(a)' /\ \A b \in Attempt : Engaged(b)' => Engaged(b) /\ att'[b] = att[b]
  BY <1>g, <1>e, <1>e2 DEF Outcome, BeforeAnswer, AfterAnswer
<1>r. \A i \in Intent : row[i] \in Row
  BY <1>t DEF TypeOK
<1>1. ASSUME NEW a \in Attempt, NEW i \in Intent, PickUp(a, i) PROVE SafetyInv'
  <2>1. \A b \in Attempt : Engaged(b)' => Engaged(b) /\ att'[b] = att[b]
    BY <1>1, <1>t, <1>e, <1>e2 DEF PickUp, TypeOK, BeforeAnswer, AfterAnswer
  <2> QED
    BY <1>1, <1>t, <2>1, QuietStep DEF PickUp
<1>2. ASSUME NEW a \in Attempt, Settle(a) \/ Crash(a) PROVE SafetyInv'
  <2>1. \A b \in Attempt : Engaged(b)' => Engaged(b) /\ att'[b] = att[b]
    BY <1>2, <1>t, <1>e, <1>e2 DEF Settle, Crash, Idle, TypeOK, BeforeAnswer, AfterAnswer
  <2> QED
    BY <1>2, <1>t, <2>1, QuietStep DEF Settle, Crash
<1>3. ASSUME NEW i \in Intent, Stall(i) PROVE SafetyInv'
  <2>1. \A b \in Attempt : Engaged(b)' => Engaged(b) /\ att'[b] = att[b]
    BY <1>3, <1>e, <1>e2 DEF Stall
  <2> QED
    BY <1>3, <1>t, <2>1, QuietStep DEF Stall
<1>4. ASSUME NEW a \in Attempt, CheckCampaign(a) PROVE SafetyInv'
  <2>1. \A b \in Attempt : Engaged(b)' => Engaged(b) /\ att'[b] = att[b]
    BY <1>4, <1>g, <1>e, <1>e2 DEF CheckCampaign, BeforeAnswer, AfterAnswer
  <2> QED
    BY <1>4, <1>t, <2>1, QuietStep DEF CheckCampaign
<1>5. ASSUME NEW a \in Attempt, Throw(a) PROVE SafetyInv'
  <2>1. \A b \in Attempt : Engaged(b)' => Engaged(b) /\ att'[b] = att[b]
    BY <1>5, <1>o DEF Throw, Outcome
  <2> QED
    BY <1>5, <1>t, <2>1, QuietStep DEF Throw
<1>6. ASSUME NEW a \in Attempt, Call(a) PROVE SafetyInv'
  <2>1. \A b \in Attempt : Engaged(b)' =>
           /\ Engaged(b) /\ att'[b].on = att[b].on
           /\ att'[b].pc = att[b].pc \/ (att[b].pc = "claimed" /\ att'[b].pc = "calling")
    BY <1>6, <1>g, <1>e, <1>e2 DEF Call, BeforeAnswer
  <2> QED
    BY <1>6, <1>t, <2>1, QuietStep DEF Call
<1>7. ASSUME NEW a \in Attempt, Refuse(a) PROVE SafetyInv'
  <2>1. \A b \in Attempt : Engaged(b)' =>
           /\ Engaged(b) /\ att'[b].on = att[b].on
           /\ att'[b].pc = att[b].pc
                \/ (att[b].pc = "calling" /\ att'[b].pc \in AfterAnswer \ {"accepted"})
    BY <1>7, <1>g, <1>e, <1>e2 DEF Refuse, BeforeAnswer, AfterAnswer
  <2> QED
    BY <1>7, <1>t, <2>1, QuietStep DEF Refuse
<1>8. ASSUME NEW a \in Attempt, Exclude(a) PROVE SafetyInv'
  <2> DEFINE i == att[a].on
  <2>1. i \in Intent /\ row' = [row EXCEPT ![i] = RecordExcluded(row[i])]
    BY <1>8, <1>on DEF Exclude, SetRow
  <2>2. row'[i].status = IF row[i].status \in {"none", "excluded"} THEN "excluded" ELSE row[i].status
    BY <2>1, <1>r, <1>t, LedgerStatuses DEF TypeOK
  <2>3. \A b \in Attempt : Engaged(b)' => Engaged(b) /\ att'[b] = att[b]
    BY <1>8, <1>o DEF Exclude, Outcome
  <2>4. \A b \in Attempt : Engaged(b) /\ att[b].on = i => row'[i].status \in StatusWhile(att[b].pc)
    BY <2>2 DEF SafetyInv, ClaimDiscipline, StatusWhile, Ambiguous
  <2>5. /\ row'[i].status = "sent" => accepted[i] > 0
        /\ row'[i].status \in {"none", "failed", "excluded"} => accepted[i] = 0
    BY <2>1, <2>2 DEF SafetyInv, LedgerTellsTruth
  <2>6. \A k \in Intent \ {i} : row'[k].status = row[k].status
    BY <2>1, <1>t DEF TypeOK
  <2> HIDE DEF i
  <2> QED
    BY <1>8, <1>t, <2>1, <2>3, <2>4, <2>5, <2>6, StatusStep DEF Exclude
<1>9. ASSUME NEW a \in Attempt, Claim(a) PROVE SafetyInv'
  <2> DEFINE i == att[a].on
  <2>1. i \in Intent /\ att[a].pc = "checked"
    BY <1>9, <1>on DEF Claim
  <2>2. \A k \in Intent \ {i} : row'[k].status = row[k].status
    BY <1>9, <2>1, <1>t DEF Claim, SetRow, TypeOK
  <2>3. CASE row[i].status = "none"
    <3>1. row'[i].status = "dispatching" /\ Goto(a, "claimed")
      BY <1>9, <2>1, <2>3, <1>t, <1>r, LedgerStatuses DEF Claim, SetRow, DispatchSendGate, TypeOK
    <3>2. accepted[i] = 0 /\ \A b \in Attempt : Engaged(b) => att[b].on # i
      BY <2>1, <2>3 DEF SafetyInv, LedgerTellsTruth, ClaimDiscipline, StatusWhile, Ambiguous
    <3>3. /\ att'[a].pc = "claimed" /\ att'[a].on = i
          /\ \A b \in Attempt \ {a} : att'[b] = att[b]
      BY <3>1, <1>g
    <3>4. \A b \in Attempt \ {a} : Engaged(b)' => Engaged(b) /\ att'[b].on = att[b].on /\ att[b].on # i
      BY <3>2, <3>3, <1>e, <1>e2
    <3>5. ASSUME NEW c \in Attempt, Engaged(c)'
          PROVE  /\ \A b \in Attempt : Engaged(b)' /\ att'[b].on = att'[c].on => b = c
                 /\ row'[att'[c].on].status \in StatusWhile(att'[c].pc)
                 /\ att'[c].pc = "accepted" => accepted'[att'[c].on] > 0
                 /\ att'[c].pc \notin {"accepted", "lost"} => accepted'[att'[c].on] = 0
      <4>1. CASE c = a
        BY <4>1, <3>1, <3>2, <3>3, <3>4, <1>9 DEF Claim, StatusWhile
      <4>2. CASE c # a
        <5>1. att'[c] = att[c] /\ Engaged(c) /\ att[c].on # i /\ att[c].on \in Intent
          BY <3>3, <3>4, <3>5, <4>2, <1>e, <1>on DEF BeforeAnswer, AfterAnswer
        <5> QED
          BY <5>1, <4>2, <2>2, <3>3, <3>4, <1>9 DEF Claim, SafetyInv, ClaimDiscipline
      <4> QED
        BY <4>1, <4>2
    <3>6. ClaimDiscipline'
      BY <3>5 DEF ClaimDiscipline
    <3>7. AtMostOnce' /\ LedgerTellsTruth' /\ EvidenceIsTrue'
      BY <1>9, <2>1, <2>2, <3>1, <1>t
      DEF Claim, SafetyInv, AtMostOnce, LedgerTellsTruth, EvidenceIsTrue, TypeOK
    <3> QED
      BY <1>t, <3>6, <3>7 DEF SafetyInv
  <2>4. CASE row[i].status # "none"
    <3>1. /\ row'[i].status = IF row[i].status = "dispatching" THEN "reconciling" ELSE row[i].status
          /\ Goto(a, "complete")
      BY <1>9, <2>1, <2>4, <1>t, <1>r, LedgerStatuses
      DEF Claim, SetRow, DispatchSendGate, TypeOK, SendStatus
    <3>2. \A b \in Attempt : Engaged(b)' => Engaged(b) /\ att'[b] = att[b]
      BY <3>1, <1>o DEF Outcome
    <3>3. \A b \in Attempt : Engaged(b) /\ att[b].on = i => row'[i].status \in StatusWhile(att[b].pc)
      BY <3>1 DEF SafetyInv, ClaimDiscipline, StatusWhile, Ambiguous
    <3>4. /\ row'[i].status = "sent" => accepted[i] > 0
          /\ row'[i].status \in {"none", "failed", "excluded"} => accepted[i] = 0
      BY <2>1, <3>1 DEF SafetyInv, LedgerTellsTruth
    <3> HIDE DEF i
    <3> QED
      BY <1>9, <1>t, <2>1, <2>2, <3>2, <3>3, <3>4, StatusStep DEF Claim
  <2> QED
    BY <2>3, <2>4
<1>10. ASSUME NEW a \in Attempt, Deny(a) \/ BackOff(a) \/ RecordLost(a) \/ RecordSent(a) \/ RecordFailed(a)
       PROVE  SafetyInv'
  <2> DEFINE i == att[a].on
  <2>1. i \in Intent /\ Engaged(a)
    BY <1>10, <1>on, <1>e DEF Deny, BackOff, RecordLost, RecordSent, RecordFailed, BeforeAnswer, AfterAnswer
  <2>2. \A k \in Intent \ {i} : row'[k].status = row[k].status
    BY <1>10, <2>1, <1>t DEF Deny, BackOff, RecordLost, RecordSent, RecordFailed, SetRow, TypeOK
  <2>3. \A b \in Attempt : Engaged(b)' => Engaged(b) /\ att'[b] = att[b] /\ b # a
    BY <1>10, <1>o DEF Deny, BackOff, RecordLost, RecordSent, RecordFailed, Return, Outcome
  <2>4. \A b \in Attempt : Engaged(b)' => att[b].on # i
    BY <2>1, <2>3 DEF SafetyInv, ClaimDiscipline
  <2>5. /\ row'[i].status = "sent" => accepted[i] > 0
        /\ row'[i].status \in {"none", "failed", "excluded"} => accepted[i] = 0
    <3>1. CASE Deny(a) \/ BackOff(a)
      <4>1. row'[i].status = IF row[i].status = "dispatching" THEN "none" ELSE row[i].status
        BY <3>1, <2>1, <1>t, <1>r, LedgerStatuses DEF Deny, BackOff, SetRow, TypeOK
      <4>2. accepted[i] = 0
        BY <3>1, <2>1 DEF Deny, BackOff, SafetyInv, ClaimDiscipline
      <4> QED
        BY <4>1, <4>2, <2>1 DEF SafetyInv, LedgerTellsTruth
    <3>2. CASE RecordLost(a)
      <4>1. row[i].status # "none"
        BY <2>1 DEF SafetyInv, ClaimDiscipline, StatusWhile, Ambiguous
      <4> QED
        BY <3>2, <4>1, <2>1, <1>t, <1>r, LedgerStatuses DEF RecordLost, SetRow, TypeOK, SendStatus
    <3>3. CASE RecordSent(a)
      <4>1. row[i].status # "none" /\ accepted[i] > 0
        BY <3>3, <2>1 DEF RecordSent, SafetyInv, ClaimDiscipline, StatusWhile, Ambiguous
      <4> QED
        BY <3>3, <4>1, <2>1, <1>t, <1>r, LedgerStatuses DEF RecordSent, TypeOK, SendStatus
    <3>4. CASE RecordFailed(a)
      <4>1. row[i].status # "none" /\ accepted[i] = 0
        BY <3>4, <2>1 DEF RecordFailed, SafetyInv, ClaimDiscipline, StatusWhile, Ambiguous
      <4> QED
        BY <3>4, <4>1, <2>1, <1>t, <1>r, LedgerStatuses DEF RecordFailed, TypeOK, SendStatus
    <3> QED
      BY <1>10, <3>1, <3>2, <3>3, <3>4
  <2>6. UNCHANGED <<accepted, evidence>>
    BY <1>10 DEF Deny, BackOff, RecordLost, RecordSent, RecordFailed
  <2> HIDE DEF i
  <2> QED
    BY <1>t, <2>1, <2>2, <2>3, <2>4, <2>5, <2>6, StatusStep
<1>11. ASSUME NEW a \in Attempt, Accept(a) PROVE SafetyInv'
  <2> DEFINE i == att[a].on
  <2>1. i \in Intent /\ Engaged(a) /\ att[a].pc = "calling"
    BY <1>11, <1>on, <1>e DEF Accept, BeforeAnswer
  <2>2. accepted[i] = 0 /\ row[i].status \in {"dispatching"} \cup Ambiguous
    BY <2>1 DEF SafetyInv, ClaimDiscipline, StatusWhile
  <2>3. accepted'[i] = 1 /\ \A k \in Intent \ {i} : accepted'[k] = accepted[k]
    BY <1>11, <2>1, <2>2, <1>t DEF Accept, TypeOK
  <2>4. /\ att'[a].pc \in {"accepted", "lost"} /\ att'[a].on = i
        /\ \A b \in Attempt \ {a} : att'[b] = att[b]
    BY <1>11, <1>g DEF Accept
  <2>5. \A b \in Attempt \ {a} : Engaged(b)' => Engaged(b) /\ att[b].on # i /\ att[b].on \in Intent
    BY <2>1, <2>4, <1>e, <1>e2, <1>on DEF SafetyInv, ClaimDiscipline, BeforeAnswer, AfterAnswer
  <2>6. ASSUME NEW c \in Attempt, Engaged(c)'
        PROVE  /\ \A b \in Attempt : Engaged(b)' /\ att'[b].on = att'[c].on => b = c
               /\ row'[att'[c].on].status \in StatusWhile(att'[c].pc)
               /\ att'[c].pc = "accepted" => accepted'[att'[c].on] > 0
               /\ att'[c].pc \notin {"accepted", "lost"} => accepted'[att'[c].on] = 0
    <3>1. CASE c = a
      BY <3>1, <2>2, <2>3, <2>4, <2>5, <1>11 DEF Accept, StatusWhile
    <3>2. CASE c # a
      BY <3>2, <2>3, <2>4, <2>5, <2>6, <1>11 DEF Accept, SafetyInv, ClaimDiscipline
    <3> QED
      BY <3>1, <3>2
  <2>7. ClaimDiscipline'
    BY <2>6 DEF ClaimDiscipline
  <2>8. AtMostOnce' /\ LedgerTellsTruth' /\ EvidenceIsTrue'
    <3>1. UNCHANGED <<row, evidence>> /\ evidence \subseteq Intent
      BY <1>11, <1>t DEF Accept, TypeOK
    <3> QED
      BY <2>1, <2>2, <2>3, <3>1
      DEF SafetyInv, AtMostOnce, LedgerTellsTruth, EvidenceIsTrue, Ambiguous
  <2> QED
    BY <1>t, <2>7, <2>8 DEF SafetyInv
<1>12. ASSUME NEW i \in Intent, ResolveOneSend(i) PROVE SafetyInv'
  <2> DEFINE verdict == ClassifyReconcilableSend(row[i], i \in evidence)
  <2>1. \A k \in Intent \ {i} : row'[k].status = row[k].status
    BY <1>12, <1>t DEF ResolveOneSend, TypeOK
  <2>2. verdict = "resolve_sent" => accepted[i] > 0
    BY DEF ClassifyReconcilableSend, StaleDispatching, SafetyInv, EvidenceIsTrue
  <2>3. \/ row'[i].status = row[i].status
        \/ row[i].status \in {"dispatching"} \cup Ambiguous /\ row'[i].status \in Ambiguous
        \/ row[i].status \in Ambiguous /\ row'[i].status = "sent" /\ accepted[i] > 0
    BY <1>12, <2>2, <1>t, <1>r, LedgerStatuses DEF ResolveOneSend, TypeOK, Ambiguous
  <2>4. \A b \in Attempt : Engaged(b)' =>
           Engaged(b) /\ att'[b] = att[b] /\ (att[b].on = i => row'[i].status \in StatusWhile(att[b].pc))
    <3>1. \A b \in Attempt : Engaged(b)' => Engaged(b) /\ att'[b] = att[b]
      BY <1>12, <1>e, <1>e2 DEF ResolveOneSend
    <3>2. ASSUME NEW b \in Attempt, Engaged(b), att[b].on = i
          PROVE  row'[i].status \in StatusWhile(att[b].pc)
      BY <2>3, <3>2 DEF SafetyInv, ClaimDiscipline, StatusWhile, Ambiguous
    <3> QED
      BY <3>1, <3>2
  <2>5. /\ row'[i].status = "sent" => accepted[i] > 0
        /\ row'[i].status \in {"none", "failed", "excluded"} => accepted[i] = 0
    BY <2>3 DEF SafetyInv, LedgerTellsTruth, Ambiguous
  <2> QED
    BY <1>12, <1>t, <2>1, <2>4, <2>5, StatusStep DEF ResolveOneSend
<1>13. CASE ReconcilerTick \/ ReconcilerAbort \/ FanOutDone \/ CancelCampaign \/ UNCHANGED vars
  <2>1. UNCHANGED <<row, att, accepted, evidence>>
    BY <1>13 DEF ReconcilerTick, ReconcilerAbort, FanOutDone, CancelCampaign, vars
  <2>2. \A b \in Attempt : Engaged(b)' => Engaged(b) /\ att'[b] = att[b]
    BY <2>1, <1>e, <1>e2
  <2> QED
    BY <1>t, <2>1, <2>2, QuietStep
<1>14. ASSUME NEW i \in Intent, Webhook(i) PROVE SafetyInv'
  <2>1. UNCHANGED <<row, att, accepted>> /\ evidence' = evidence \cup {i} /\ accepted[i] > 0
    BY <1>14 DEF Webhook
  <2>2. AtMostOnce' /\ LedgerTellsTruth' /\ EvidenceIsTrue'
    BY <2>1 DEF SafetyInv, AtMostOnce, LedgerTellsTruth, EvidenceIsTrue
  <2>3. ClaimDiscipline'
    BY <2>1 DEF SafetyInv, ClaimDiscipline, Engaged
  <2> QED
    BY <1>t, <2>2, <2>3 DEF SafetyInv
<1>15. CASE Tick
  <2>1. \A i \in Intent : row'[i].status = row[i].status
    BY <1>15, <1>r, LedgerStatuses DEF Tick
  <2>2. \A b \in Attempt : Engaged(b)' => Engaged(b) /\ att'[b] = att[b]
    BY <1>15, <1>e, <1>e2 DEF Tick
  <2> QED
    BY <1>15, <1>t, <2>1, <2>2, QuietStep DEF Tick
<1> QED
  BY <1>1, <1>2, <1>3, <1>4, <1>5, <1>6, <1>7, <1>8, <1>9, <1>10, <1>11, <1>12, <1>13, <1>14, <1>15
  DEF Next, WorkerStep, Progress

\* So the invariant holds in every reachable state.
LEMMA SafetyInvariant == Spec => []SafetyInv
<1>1. Init => SafetyInv
  BY SafetyInit
<1>2. SafetyInv /\ [Next]_vars => SafetyInv'
  BY SafetyStep
<1> QED
  BY <1>1, <1>2, PTL DEF Spec

\* At-most-once at the SendGrid-acceptance boundary, for any number of
\* intents, attempts, retries, crashes and lapsed locks.
THEOREM AtMostOnceTheorem == Spec => []AtMostOnce
<1>1. SafetyInv => AtMostOnce
  BY DEF SafetyInv
<1> QED
  BY <1>1, SafetyInvariant, PTL

\* The ledger never records an outcome that did not happen.
THEOREM LedgerTellsTruthTheorem == Spec => []LedgerTellsTruth
<1>1. SafetyInv => LedgerTellsTruth
  BY DEF SafetyInv
<1> QED
  BY <1>1, SafetyInvariant, PTL

\* From its claim to its record an attempt is alone on its intent, and its
\* claim survives.
THEOREM ClaimDisciplineTheorem == Spec => []ClaimDiscipline
<1>1. SafetyInv => ClaimDiscipline
  BY DEF SafetyInv
<1> QED
  BY <1>1, SafetyInvariant, PTL

-----------------------------------------------------------------------------
(* While job locks hold: the ledger implements send-state-machine.ts       *)

\* Every attempt in progress holds the lock of an active job.
LocksHeld ==
    \A a \in Attempt : att[a].pc # "idle" =>
        job[att[a].on].lock = a /\ job[att[a].on].state = "active"

LockInv == TypeOK /\ LocksHeld /\ ClaimUndisturbed

\* Initially nobody holds a lock or a claim.
LEMMA LockInit == Init => LockInv
<1> SUFFICES ASSUME Init PROVE LockInv
  OBVIOUS
<1>1. \A a \in Attempt : att[a].pc = "idle"
  BY DEF Init, Idle
<1> QED
  BY <1>1, TypeInit DEF LockInv, LocksHeld, ClaimUndisturbed, Engaged, BeforeAnswer, AfterAnswer

\* A job's lock is taken from nobody who is alive.
LEMMA LocksStep ==
    ASSUME ~LockMayLapse, TypeOK, LocksHeld, [Next]_vars
    PROVE  LocksHeld'
<1> USE DEF TypeOK
<1>g. \A a \in Attempt : att[a].pc # "idle" /\ UNCHANGED job /\ (\E pc : Goto(a, pc)) => LocksHeld'
  BY DEF Goto, LocksHeld, Att
<1>1. ASSUME NEW a \in Attempt, NEW i \in Intent, PickUp(a, i) PROVE LocksHeld'
  <2>1. \A b \in Attempt \ {a} : att'[b] = att[b] /\ (att[b].pc # "idle" => att[b].on # i)
    BY <1>1 DEF PickUp, LocksHeld
  <2>2. /\ att'[a].on = i /\ job'[i].lock = a /\ job'[i].state = "active"
        /\ \A k \in Intent \ {i} : job'[k] = job[k]
    BY <1>1 DEF PickUp, Job
  <2> QED
    BY <2>1, <2>2 DEF LocksHeld
<1>2. ASSUME NEW a \in Attempt, Settle(a) \/ Crash(a) PROVE LocksHeld'
  <2> DEFINE i == att[a].on
  <2>1. i \in Intent /\ job[i].lock = a /\ att[a].pc # "idle"
    BY <1>2 DEF Settle, Crash, LocksHeld, Outcome
  <2>2. \A b \in Attempt \ {a} : att'[b] = att[b] /\ (att[b].pc # "idle" => att[b].on # i)
    BY <1>2, <2>1 DEF Settle, Crash, LocksHeld
  <2>3. att'[a].pc = "idle" /\ \A k \in Intent \ {i} : job'[k] = job[k]
    BY <1>2, <2>1 DEF Settle, Crash, Idle
  <2> QED
    BY <2>1, <2>2, <2>3 DEF LocksHeld
<1>3. ASSUME NEW i \in Intent, Stall(i) PROVE LocksHeld'
  <2>1. job[i].lock = NoAttempt
    BY <1>3 DEF Stall
  <2>2. \A b \in Attempt : att'[b] = att[b] /\ (att[b].pc # "idle" => att[b].on # i)
    BY <1>3, <2>1, DispatchAssumption DEF DispatchAssumption, Stall, LocksHeld
  <2>3. \A k \in Intent \ {i} : job'[k] = job[k]
    BY <1>3 DEF Stall
  <2> QED
    BY <2>2, <2>3 DEF LocksHeld
<1>4. ASSUME NEW a \in Attempt,
             \/ CheckCampaign(a) \/ Exclude(a) \/ Claim(a) \/ Deny(a) \/ Call(a) \/ Accept(a) \/ Refuse(a)
             \/ RecordSent(a) \/ RecordFailed(a) \/ BackOff(a) \/ RecordLost(a) \/ Throw(a)
      PROVE  LocksHeld'
  <2>1. att[a].pc # "idle" /\ UNCHANGED job /\ \E pc : Goto(a, pc)
    BY <1>4
    DEF CheckCampaign, Exclude, Claim, Deny, Call, Accept, Refuse, RecordSent, RecordFailed, BackOff,
        RecordLost, Throw, Return, AfterAnswer
  <2> QED
    BY <2>1, <1>g
<1>5. CASE UNCHANGED <<job, att>>
  BY <1>5 DEF LocksHeld
<1> QED
  BY <1>1, <1>2, <1>3, <1>4, <1>5
  DEF Next, WorkerStep, Progress, ResolveOneSend, Webhook, ReconcilerTick, ReconcilerAbort,
      FanOutDone, CancelCampaign, Tick, vars

\* So no other attempt is on the intent of an attempt in progress.
LEMMA AloneOnIntent ==
    ASSUME LocksHeld, NEW a \in Attempt, NEW b \in Attempt,
           att[a].pc # "idle", att[b].pc # "idle", att[a].on = att[b].on
    PROVE  a = b
  BY DEF LocksHeld

\* A step that leaves the rows alone and engages nobody preserves the claims.
LEMMA UndisturbedQuiet ==
    ASSUME ClaimUndisturbed, UNCHANGED row,
           \A a \in Attempt : Engaged(a)' => Engaged(a) /\ att'[a].on = att[a].on
    PROVE  ClaimUndisturbed'
  BY DEF ClaimUndisturbed

\* While locks hold, a claim stays as its attempt made it.
LEMMA UndisturbedStep ==
    ASSUME ~LockMayLapse, LockInv, [Next]_vars
    PROVE  ClaimUndisturbed'
<1>t. TypeOK /\ LocksHeld /\ ClaimUndisturbed
  BY DEF LockInv
<1> USE DEF Engaged
<1>on. \A a \in Attempt : att[a] \in Att /\ (att[a].pc # "idle" => att[a].on \in Intent)
  BY <1>t DEF TypeOK
<1>g. \A a \in Attempt : \A pc : Goto(a, pc) =>
          /\ att'[a].pc = pc /\ att'[a].on = att[a].on
          /\ \A b \in Attempt \ {a} : att'[b] = att[b]
  BY <1>t DEF Goto, TypeOK, Att
<1>r. \A i \in Intent : row[i] \in Row
  BY <1>t DEF TypeOK
<1>1. ASSUME NEW a \in Attempt, \/ Settle(a) \/ Crash(a) \/ \E i \in Intent : PickUp(a, i)
      PROVE  ClaimUndisturbed'
  <2>1. \A b \in Attempt : Engaged(b)' => Engaged(b) /\ att'[b].on = att[b].on
    <3>1. \/ att' = [att EXCEPT ![a] = Idle]
          \/ \E i \in Intent : att' = [att EXCEPT ![a] = [pc |-> "picked", on |-> i]]
      BY <1>1 DEF PickUp, Settle, Crash
    <3>2. (\A b \in Attempt \ {a} : att'[b] = att[b]) /\ att'[a].pc \in {"idle", "picked"}
      BY <3>1, <1>t DEF TypeOK, Idle
    <3> QED
      BY <3>2 DEF BeforeAnswer, AfterAnswer
  <2>2. UNCHANGED row
    BY <1>1 DEF PickUp, Settle, Crash
  <2> QED
    BY <1>t, <2>1, <2>2, UndisturbedQuiet
<1>2. ASSUME NEW a \in Attempt, CheckCampaign(a) \/ Call(a) \/ Accept(a) \/ Refuse(a) \/ Throw(a)
      PROVE  ClaimUndisturbed'
  <2>1. \A b \in Attempt : Engaged(b)' => Engaged(b) /\ att'[b].on = att[b].on
    <3>1. \/ \E pc \in {"checked", "complete", "throw"} : Goto(a, pc)
          \/ Engaged(a) /\ \E pc : Goto(a, pc)
      BY <1>2 DEF CheckCampaign, Call, Accept, Refuse, Throw, BeforeAnswer, AfterAnswer
    <3> QED
      BY <3>1, <1>g DEF BeforeAnswer, AfterAnswer
  <2>2. UNCHANGED row
    BY <1>2 DEF CheckCampaign, Call, Accept, Refuse, Throw
  <2> QED
    BY <1>t, <2>1, <2>2, UndisturbedQuiet
<1>3. ASSUME NEW a \in Attempt,
             \/ Exclude(a) \/ Claim(a) \/ Deny(a) \/ BackOff(a)
             \/ RecordLost(a) \/ RecordSent(a) \/ RecordFailed(a)
      PROVE  ClaimUndisturbed'
  <2> DEFINE i == att[a].on
  <2>1. i \in Intent /\ att[a].pc # "idle"
    BY <1>3, <1>on DEF Exclude, Claim, Deny, BackOff, RecordLost, RecordSent, RecordFailed
  <2>2. \A k \in Intent \ {i} : row'[k] = row[k]
    BY <1>3, <2>1, <1>t
    DEF Exclude, Claim, Deny, BackOff, RecordLost, RecordSent, RecordFailed, SetRow, TypeOK
  <2>3. \A b \in Attempt \ {a} : att'[b] = att[b]
    BY <1>3, <1>g DEF Exclude, Claim, Deny, BackOff, RecordLost, RecordSent, RecordFailed, Return
  <2>4. \A b \in Attempt \ {a} : Engaged(b) => att[b].on \in Intent \ {i}
    BY <1>t, <1>on, <2>1, AloneOnIntent DEF BeforeAnswer, AfterAnswer
  <2>5. Engaged(a)' => att'[a].on = i /\ row'[i] = InsertDispatching
    <3>1. CASE Claim(a)
      BY <3>1, <2>1, <1>g, <1>t DEF Claim, SetRow, TypeOK, BeforeAnswer, AfterAnswer
    <3>2. CASE ~Claim(a)
      BY <1>3, <3>2, <1>g
      DEF Exclude, Deny, BackOff, RecordLost, RecordSent, RecordFailed, Return, BeforeAnswer, AfterAnswer
    <3> QED
      BY <3>1, <3>2
  <2>6. InsertDispatching.status = "dispatching" /\ InsertDispatching.age <= MaxAttemptAge
    BY DispatchAssumption DEF DispatchAssumption, InsertDispatching
  <2>7. ASSUME NEW b \in Attempt, Engaged(b)'
        PROVE  row'[att'[b].on].status = "dispatching" /\ row'[att'[b].on].age <= MaxAttemptAge
    <3>1. CASE b = a
      BY <3>1, <2>5, <2>6, <2>7
    <3>2. CASE b # a
      BY <3>2, <2>2, <2>3, <2>4, <2>7, <1>t DEF ClaimUndisturbed
    <3> QED
      BY <3>1, <3>2
  <2> QED
    BY <2>7 DEF ClaimUndisturbed
<1>4. ASSUME NEW i \in Intent, ResolveOneSend(i) PROVE ClaimUndisturbed'
  <2>1. UNCHANGED att /\ \A k \in Intent \ {i} : row'[k] = row[k]
    BY <1>4, <1>t DEF ResolveOneSend, TypeOK
  <2>2. ASSUME NEW a \in Attempt, Engaged(a), att[a].on = i PROVE row'[i] = row[i]
    <3>1. row[i].status = "dispatching" /\ ~(row[i].age > StaleDispatchingAge)
      BY <2>2, <1>t, <1>r, DispatchAssumption, WindowsAssumption
      DEF ClaimUndisturbed, DispatchAssumption, WindowsAssumption, Row, Age, AgeCap
    <3>2. ClassifyReconcilableSend(row[i], i \in evidence) = "hold"
      BY <3>1 DEF ClassifyReconcilableSend, StaleDispatching
    <3> QED
      BY <1>4, <3>2, <1>t DEF ResolveOneSend, TypeOK
  <2>3. \A a \in Attempt : Engaged(a) => att[a].on \in Intent
    BY <1>on DEF BeforeAnswer, AfterAnswer
  <2> QED
    BY <2>1, <2>2, <2>3, <1>t DEF ClaimUndisturbed
<1>5. CASE Tick
  <2>1. ASSUME NEW a \in Attempt, Engaged(a)'
        PROVE  row'[att'[a].on].status = "dispatching" /\ row'[att'[a].on].age <= MaxAttemptAge
    <3> DEFINE r == row[att[a].on]
    <3>1. Engaged(a) /\ att' = att /\ att[a].on \in Intent /\ att[a].pc # "idle"
      BY <1>5, <2>1, <1>on DEF Tick, BeforeAnswer, AfterAnswer
    <3>2. r \in Row /\ r.status = "dispatching" /\ r.age < MaxAttemptAge
      BY <3>1, <1>5, <1>t, <1>r DEF Tick, HoldsClaim, LocksHeld, ClaimUndisturbed
    <3>3. row'[att[a].on] = OlderRow(r)
      BY <1>5, <3>1 DEF Tick
    <3> HIDE DEF r
    <3>4. OlderRow(r).status = "dispatching" /\ OlderRow(r).age = Older(r.age)
      BY <3>2 DEF OlderRow, Row
    <3>5. Older(r.age) <= MaxAttemptAge
      BY <3>2, DispatchAssumption, WindowsAssumption
      DEF DispatchAssumption, WindowsAssumption, Older, Row, Age, AgeCap, NoAge
    <3> QED
      BY <3>1, <3>3, <3>4, <3>5
  <2> QED
    BY <2>1 DEF ClaimUndisturbed
<1>6. CASE UNCHANGED <<row, att>>
  BY <1>6, <1>t DEF ClaimUndisturbed
<1> QED
  BY <1>1, <1>2, <1>3, <1>4, <1>5, <1>6
  DEF Next, WorkerStep, Progress, Stall, Webhook, ReconcilerTick, ReconcilerAbort,
      FanOutDone, CancelCampaign, vars

\* While locks hold, every action preserves all of LockInv.
LEMMA LockStep == ASSUME ~LockMayLapse PROVE LockInv /\ [Next]_vars => LockInv'
  BY TypeStep, LocksStep, UndisturbedStep DEF LockInv

\* So LockInv holds in every reachable state.
LEMMA LockInvariant == ASSUME ~LockMayLapse PROVE Spec => []LockInv
<1>1. Init => LockInv
  BY LockInit
<1>2. LockInv /\ [Next]_vars => LockInv'
  BY LockStep
<1> QED
  BY <1>1, <1>2, PTL DEF Spec

\* While job locks hold, the original processor always reaches its own
\* write first: no redelivery and no sweep touches a claim in progress.
THEOREM ClaimUndisturbedTheorem == ASSUME ~LockMayLapse PROVE Spec => []ClaimUndisturbed
<1>1. LockInv => ClaimUndisturbed
  BY DEF LockInv
<1> QED
  BY <1>1, LockInvariant, PTL

\* A step that changes at most one row, along an edge of the state machine,
\* is a step of SendStateMachine or a stutter.
LEMMA OneEdge ==
    ASSUME NEW i \in Intent,
           \A k \in Intent \ {i} : row'[k].status = row[k].status,
           \/ row'[i].status = row[i].status
           \/ row[i].status = "none" /\ row'[i].status \in {"dispatching", "excluded"}
           \/ row[i].status = "dispatching" /\ row'[i].status \in {"none", "sent", "failed", "reconciling"}
           \/ row[i].status = "reconciling" /\ row'[i].status \in {"sent", "unknown"}
           \/ row[i].status = "unknown" /\ row'[i].status = "sent"
    PROVE  [Ledger!Next]_LedgerStatus
<1> DEFINE new == row'[i].status
<1>1. LedgerStatus' = [LedgerStatus EXCEPT ![i] = new]
  BY DEF LedgerStatus
<1>2. LedgerStatus[i] = row[i].status
  BY DEF LedgerStatus
<1>3. CASE new = row[i].status
  BY <1>3 DEF LedgerStatus
<1>4. CASE row[i].status = "none" /\ new \in {"dispatching", "excluded"}
  <2>1. Ledger!Enter(i)
    BY <1>1, <1>2, <1>4 DEF Ledger!Enter
  <2> QED
    BY <2>1 DEF Ledger!Next
<1>5. CASE row[i].status = "dispatching" /\ new = "none"
  <2>1. Ledger!Release(i)
    BY <1>1, <1>2, <1>5 DEF Ledger!Release
  <2> QED
    BY <2>1 DEF Ledger!Next
<1>6. CASE new \in Ledger!AllowedFrom(row[i].status)
  <2>1. Ledger!Transition(i)
    BY <1>1, <1>2, <1>6 DEF Ledger!Transition
  <2> QED
    BY <2>1 DEF Ledger!Next
<1> QED
  BY <1>3, <1>4, <1>5, <1>6 DEF Ledger!AllowedFrom

\* While locks hold, every step of the pipeline is a step of the state machine.
LEMMA LedgerStep ==
    ASSUME LockInv, [Next]_vars
    PROVE  [Ledger!Next]_LedgerStatus
<1>t. TypeOK /\ LocksHeld /\ ClaimUndisturbed
  BY DEF LockInv
<1>on. \A a \in Attempt : att[a] \in Att /\ (att[a].pc # "idle" => att[a].on \in Intent)
  BY <1>t DEF TypeOK
<1>r. \A i \in Intent : row[i] \in Row
  BY <1>t DEF TypeOK
<1>1. ASSUME NEW a \in Attempt, Exclude(a) \/ Claim(a)
      PROVE  [Ledger!Next]_LedgerStatus
  <2> DEFINE i == att[a].on
  <2>1. i \in Intent
    BY <1>1, <1>on DEF Exclude, Claim
  <2>2. \A k \in Intent \ {i} : row'[k].status = row[k].status
    BY <1>1, <2>1, <1>t DEF Exclude, Claim, SetRow, TypeOK
  <2>3. \/ row'[i].status = row[i].status
        \/ row[i].status = "none" /\ row'[i].status \in {"dispatching", "excluded"}
        \/ row[i].status = "dispatching" /\ row'[i].status = "reconciling"
        \/ row[i].status = "excluded" /\ row'[i].status = "excluded"
    <3>1. CASE Exclude(a)
      BY <3>1, <2>1, <1>t, <1>r, LedgerStatuses DEF Exclude, SetRow, TypeOK
    <3>2. CASE Claim(a)
      BY <3>2, <2>1, <1>t, <1>r, LedgerStatuses DEF Claim, SetRow, TypeOK, DispatchSendGate, SendStatus
    <3> QED
      BY <1>1, <3>1, <3>2
  <2> HIDE DEF i
  <2> QED
    BY <2>1, <2>2, <2>3, OneEdge
<1>2. ASSUME NEW a \in Attempt,
             Deny(a) \/ BackOff(a) \/ RecordLost(a) \/ RecordSent(a) \/ RecordFailed(a)
      PROVE  [Ledger!Next]_LedgerStatus
  <2> DEFINE i == att[a].on
  <2>1. i \in Intent /\ row[i].status = "dispatching"
    BY <1>2, <1>on, <1>t
    DEF Deny, BackOff, RecordLost, RecordSent, RecordFailed, ClaimUndisturbed, Engaged,
        BeforeAnswer, AfterAnswer
  <2>2. \A k \in Intent \ {i} : row'[k].status = row[k].status
    BY <1>2, <2>1, <1>t DEF Deny, BackOff, RecordLost, RecordSent, RecordFailed, SetRow, TypeOK
  <2>3. row'[i].status \in {"none", "sent", "failed", "reconciling"}
    <3>1. CASE Deny(a) \/ BackOff(a)
      BY <3>1, <2>1, <1>t, <1>r, LedgerStatuses DEF Deny, BackOff, SetRow, TypeOK
    <3>2. CASE RecordLost(a)
      BY <3>2, <2>1, <1>t, <1>r, LedgerStatuses DEF RecordLost, SetRow, TypeOK, SendStatus
    <3>3. CASE RecordSent(a) \/ RecordFailed(a)
      BY <3>3, <2>1, <1>t, <1>r, LedgerStatuses DEF RecordSent, RecordFailed, TypeOK, SendStatus
    <3> QED
      BY <1>2, <3>1, <3>2, <3>3
  <2> HIDE DEF i
  <2> QED
    BY <2>1, <2>2, <2>3, OneEdge
<1>3. ASSUME NEW i \in Intent, ResolveOneSend(i)
      PROVE  [Ledger!Next]_LedgerStatus
  <2> DEFINE verdict == ClassifyReconcilableSend(row[i], i \in evidence)
  <2>1. \A k \in Intent \ {i} : row'[k].status = row[k].status
    BY <1>3, <1>t DEF ResolveOneSend, TypeOK
  <2>2. /\ verdict = "resolve_unknown" => row[i].status = "reconciling"
        /\ verdict = "resolve_sent" => row[i].status \in Ambiguous
    BY DEF ClassifyReconcilableSend, StaleDispatching, Ambiguous
  <2>3. \/ row'[i].status = row[i].status
        \/ row[i].status = "dispatching" /\ row'[i].status = "reconciling"
        \/ row[i].status = "reconciling" /\ row'[i].status \in {"sent", "unknown"}
        \/ row[i].status = "unknown" /\ row'[i].status = "sent"
    BY <1>3, <2>2, <1>t, <1>r, LedgerStatuses DEF ResolveOneSend, TypeOK, Ambiguous
  <2> QED
    BY <2>1, <2>3, OneEdge
<1>4. CASE \A i \in Intent : row'[i].status = row[i].status
  BY <1>4 DEF LedgerStatus
<1>5. CASE Tick
  BY <1>4, <1>5, <1>r, LedgerStatuses DEF Tick
<1>6. CASE UNCHANGED row
  BY <1>4, <1>6
<1> QED
  BY <1>1, <1>2, <1>3, <1>5, <1>6
  DEF Next, WorkerStep, Progress, PickUp, Settle, Crash, CheckCampaign, Call, Accept, Refuse, Throw,
      Stall, Webhook, ReconcilerTick, ReconcilerAbort, FanOutDone, CancelCampaign, vars

\* While job locks hold, the send pipeline implements send-state-machine.ts:
\* every status change is an edge of SEND_STATUS_TRANSITIONS, an entry, or
\* the release of a claim.
THEOREM LedgerRefinementTheorem == ASSUME ~LockMayLapse PROVE Spec => LedgerRefinement
<1>1. Init => Ledger!Init
  BY DEF Init, Ledger!Init, LedgerStatus, NoRow
<1>2. LockInv /\ [Next]_vars => [Ledger!Next]_LedgerStatus
  BY LedgerStep
<1> QED
  BY <1>1, <1>2, LockInvariant, PTL DEF Spec, LedgerRefinement, Ledger!Spec

\* While job locks hold, only the reconciler moves a row out of reconciling
\* or unknown.
THEOREM SoleWriterTheorem == ASSUME ~LockMayLapse PROVE Spec => ReconcilerIsSoleWriter
<1> DEFINE Keeps == (\E a \in Attempt : WorkerStep(a)) =>
              \A i \in Intent : row[i].status \in Ambiguous => row'[i].status = row[i].status
<1>1. LockInv /\ [Next]_vars => [Keeps]_vars
  <2> SUFFICES ASSUME LockInv, NEW a \in Attempt, WorkerStep(a),
                      NEW k \in Intent, row[k].status \in Ambiguous
               PROVE  row'[k].status = row[k].status
    OBVIOUS
  <2>t. TypeOK /\ ClaimUndisturbed /\ att[a] \in Att /\ row[k] \in Row
    BY DEF LockInv, TypeOK
  <2>1. CASE Exclude(a) \/ Claim(a)
    <3>1. row[k].status \notin {"none", "dispatching", "excluded"}
      BY DEF Ambiguous
    <3>2. CASE Exclude(a)
      BY <3>1, <3>2, <2>t, LedgerStatuses DEF Exclude, SetRow, TypeOK
    <3>3. CASE Claim(a)
      BY <3>1, <3>3, <2>t DEF Claim, SetRow, TypeOK, DispatchSendGate
    <3> QED
      BY <2>1, <3>2, <3>3
  <2>2. CASE Deny(a) \/ BackOff(a) \/ RecordLost(a) \/ RecordSent(a) \/ RecordFailed(a)
    <3>1. row[att[a].on].status = "dispatching"
      BY <2>2, <2>t
      DEF Deny, BackOff, RecordLost, RecordSent, RecordFailed, ClaimUndisturbed, Engaged,
          BeforeAnswer, AfterAnswer
    <3>2. k # att[a].on
      BY <3>1 DEF Ambiguous
    <3> QED
      BY <2>2, <3>2, <2>t DEF Deny, BackOff, RecordLost, RecordSent, RecordFailed, SetRow, TypeOK
  <2> QED
    BY <2>1, <2>2
    DEF WorkerStep, Progress, PickUp, Settle, Crash, CheckCampaign, Call, Accept, Refuse, Throw
<1> QED
  BY <1>1, LockInvariant, PTL DEF Spec, ReconcilerIsSoleWriter
-----------------------------------------------------------------------------
(* While job locks hold: the campaign's counters are those of its rows     *)

\* The campaign's rows in a status.
RowsWith(st) == {i \in CampaignIntent : row[i].status = st}

\* What the statements on the campaign row do to its counters and status.
LEMMA CounterStatements ==
    ASSUME NEW c \in Campaign
    PROVE  /\ c.sentCount \in Nat /\ c.failedCount \in Nat
           /\ IncrementSent(c).sentCount = c.sentCount + (IF c.status = "sending" THEN 1 ELSE 0)
           /\ IncrementSent(c).failedCount = c.failedCount /\ IncrementSent(c).status = c.status
           /\ IncrementFailed(c).failedCount = c.failedCount + (IF c.status = "sending" THEN 1 ELSE 0)
           /\ IncrementFailed(c).sentCount = c.sentCount /\ IncrementFailed(c).status = c.status
           /\ BackfillSent(c).sentCount = c.sentCount + 1
           /\ BackfillSent(c).failedCount = c.failedCount /\ BackfillSent(c).status = c.status
           /\ \A n : /\ TryCompleteCampaign(c, n).sentCount = c.sentCount
                     /\ TryCompleteCampaign(c, n).failedCount = c.failedCount
                     /\ TryCompleteCampaign(c, n).status = "sending" => c.status = "sending"
<1> USE DEF Campaign
<1>1. c.sentCount \in Nat /\ c.failedCount \in Nat
  OBVIOUS
<1>2. /\ IncrementSent(c).sentCount = c.sentCount + (IF c.status = "sending" THEN 1 ELSE 0)
      /\ IncrementSent(c).failedCount = c.failedCount /\ IncrementSent(c).status = c.status
  BY <1>1 DEF IncrementSent
<1>3. /\ IncrementFailed(c).failedCount = c.failedCount + (IF c.status = "sending" THEN 1 ELSE 0)
      /\ IncrementFailed(c).sentCount = c.sentCount /\ IncrementFailed(c).status = c.status
  BY <1>1 DEF IncrementFailed
<1>4. /\ BackfillSent(c).sentCount = c.sentCount + 1
      /\ BackfillSent(c).failedCount = c.failedCount /\ BackfillSent(c).status = c.status
  BY DEF BackfillSent
<1>5. \A n : /\ TryCompleteCampaign(c, n).sentCount = c.sentCount
             /\ TryCompleteCampaign(c, n).failedCount = c.failedCount
             /\ TryCompleteCampaign(c, n).status = "sending" => c.status = "sending"
  BY DEF TryCompleteCampaign
<1> QED
  BY <1>1, <1>2, <1>3, <1>4, <1>5

\* The rows in a status are finitely many, and are the same rows after a step
\* that takes none of them in or out.
LEMMA RowsKept ==
    ASSUME NEW st
    PROVE  /\ Cardinality(RowsWith(st)) \in Nat
           /\ (\A k \in CampaignIntent : row'[k].status = st <=> row[k].status = st)
                 => RowsWith(st)' = RowsWith(st)
<1>1. IsFiniteSet(CampaignIntent)
  BY DispatchAssumption, FS_Subset DEF DispatchAssumption
<1>2. Cardinality(RowsWith(st)) \in Nat
  BY <1>1, FS_Subset, FS_CardinalityType DEF RowsWith
<1> QED
  BY <1>2 DEF RowsWith

\* A row that enters a status adds one to their number.
LEMMA RowsGained ==
    ASSUME NEW st, NEW i \in CampaignIntent, row[i].status # st, row'[i].status = st,
           \A k \in CampaignIntent \ {i} : row'[k].status = row[k].status
    PROVE  Cardinality(RowsWith(st)') = Cardinality(RowsWith(st)) + 1
<1>1. IsFiniteSet(CampaignIntent)
  BY DispatchAssumption, FS_Subset DEF DispatchAssumption
<1>2. IsFiniteSet(RowsWith(st)) /\ i \notin RowsWith(st)
  BY <1>1, FS_Subset DEF RowsWith
<1>3. RowsWith(st)' = RowsWith(st) \cup {i}
  BY DEF RowsWith
<1> QED
  BY <1>2, <1>3, FS_AddElement

\* A step that leaves the rows sent and failed what they are, and the counters
\* and the status of the campaign too unless it ends it, preserves the match.
LEMMA UncountedStep ==
    ASSUME CountersMatchLedger,
           \A k \in CampaignIntent, st \in {"sent", "failed"} :
               row'[k].status = st <=> row[k].status = st,
           campaign'.sentCount = campaign.sentCount, campaign'.failedCount = campaign.failedCount,
           campaign'.status = "sending" => campaign.status = "sending"
    PROVE  CountersMatchLedger'
<1>1. RowsWith("sent")' = RowsWith("sent") /\ RowsWith("failed")' = RowsWith("failed")
  BY RowsKept
<1>2. CountersMatchLedger' <=>
        /\ campaign'.sentCount <= Cardinality(RowsWith("sent")')
        /\ campaign'.failedCount <= Cardinality(RowsWith("failed")')
        /\ campaign'.status = "sending" =>
             /\ campaign'.sentCount = Cardinality(RowsWith("sent")')
             /\ campaign'.failedCount = Cardinality(RowsWith("failed")')
  BY DEF CountersMatchLedger, RowsWith
<1>3. CountersMatchLedger <=>
        /\ campaign.sentCount <= Cardinality(RowsWith("sent"))
        /\ campaign.failedCount <= Cardinality(RowsWith("failed"))
        /\ campaign.status = "sending" =>
             /\ campaign.sentCount = Cardinality(RowsWith("sent"))
             /\ campaign.failedCount = Cardinality(RowsWith("failed"))
  BY DEF CountersMatchLedger, RowsWith
<1> QED
  BY <1>1, <1>2, <1>3

\* A step that takes one row of the campaign to `st`, sent or failed, and
\* raises the counter of that status, at most by one and while the campaign is
\* sending by one, preserves the match.
LEMMA CountedStep ==
    ASSUME TypeOK, CountersMatchLedger, NEW i \in CampaignIntent,
           NEW st \in {"sent", "failed"}, NEW n \in {0, 1},
           row[i].status \notin {"sent", "failed"}, row'[i].status = st,
           \A k \in CampaignIntent \ {i} : row'[k].status = row[k].status,
           campaign'.sentCount = campaign.sentCount + (IF st = "sent" THEN n ELSE 0),
           campaign'.failedCount = campaign.failedCount + (IF st = "failed" THEN n ELSE 0),
           campaign'.status = "sending" => campaign.status = "sending" /\ n = 1
    PROVE  CountersMatchLedger'
<1> DEFINE sent == Cardinality(RowsWith("sent"))     failed == Cardinality(RowsWith("failed"))
           sentNow == Cardinality(RowsWith("sent")')  failedNow == Cardinality(RowsWith("failed")')
<1>1. sent \in Nat /\ failed \in Nat
  BY RowsKept
<1>2. /\ sentNow = sent + (IF st = "sent" THEN 1 ELSE 0)
      /\ failedNow = failed + (IF st = "failed" THEN 1 ELSE 0)
  <2>1. CASE st = "sent"
    <3>1. sentNow = sent + 1
      BY <2>1, RowsGained
    <3>2. RowsWith("failed")' = RowsWith("failed")
      BY <2>1, RowsKept
    <3> QED
      BY <1>1, <2>1, <3>1, <3>2
  <2>2. CASE st = "failed"
    <3>1. failedNow = failed + 1
      BY <2>2, RowsGained
    <3>2. RowsWith("sent")' = RowsWith("sent")
      BY <2>2, RowsKept
    <3> QED
      BY <1>1, <2>2, <3>1, <3>2
  <2> QED
    BY <2>1, <2>2
<1>3. /\ campaign.sentCount \in Nat /\ campaign.failedCount \in Nat
      /\ campaign.sentCount <= sent /\ campaign.failedCount <= failed
      /\ campaign.status = "sending" => campaign.sentCount = sent /\ campaign.failedCount = failed
  BY DEF CountersMatchLedger, RowsWith, TypeOK, Campaign
<1>4. CountersMatchLedger' <=>
        /\ campaign'.sentCount <= sentNow /\ campaign'.failedCount <= failedNow
        /\ campaign'.status = "sending" => campaign'.sentCount = sentNow /\ campaign'.failedCount = failedNow
  BY DEF CountersMatchLedger, RowsWith
<1> HIDE DEF sent, failed, sentNow, failedNow
<1> QED
  BY <1>1, <1>2, <1>3, <1>4

\* While locks hold, every action preserves the match: a result is recorded on
\* a row that is still dispatching and is counted in the same transaction, and
\* a late resolution leaves an ambiguous row once.
LEMMA CountersStep ==
    ASSUME LockInv, CountersMatchLedger, [Next]_vars
    PROVE  CountersMatchLedger'
<1>t. TypeOK /\ ClaimUndisturbed /\ campaign \in Campaign /\ CampaignIntent \subseteq Intent
  BY DispatchAssumption DEF LockInv, TypeOK, DispatchAssumption
<1>on. \A a \in Attempt : att[a] \in Att /\ (att[a].pc # "idle" => att[a].on \in Intent)
  BY <1>t DEF TypeOK
<1>r. \A i \in Intent : row[i] \in Row
  BY <1>t DEF TypeOK
<1>q. ASSUME UNCHANGED campaign,
             \A k \in CampaignIntent, st \in {"sent", "failed"} :
                 row'[k].status = st <=> row[k].status = st
      PROVE  CountersMatchLedger'
  BY <1>q, <1>t, UncountedStep
<1>c. \A a \in Attempt :
         RecordSent(a) \/ RecordFailed(a) \/ Deny(a) \/ BackOff(a) \/ RecordLost(a) =>
           att[a].on \in Intent /\ row[att[a].on].status = "dispatching"
  BY <1>on, <1>t
  DEF Deny, BackOff, RecordLost, RecordSent, RecordFailed, ClaimUndisturbed, Engaged,
      BeforeAnswer, AfterAnswer
<1>1. ASSUME NEW a \in Attempt, Exclude(a) \/ Claim(a) PROVE CountersMatchLedger'
  <2> DEFINE i == att[a].on
  <2>1. i \in Intent /\ UNCHANGED campaign
    BY <1>1, <1>on DEF Exclude, Claim
  <2>2. \A k \in Intent \ {i} : row'[k].status = row[k].status
    BY <1>1, <2>1, <1>t DEF Exclude, Claim, SetRow, TypeOK
  <2>3. \A st \in {"sent", "failed"} : row'[i].status = st <=> row[i].status = st
    <3>1. CASE Exclude(a)
      BY <3>1, <2>1, <1>t, <1>r, LedgerStatuses DEF Exclude, SetRow, TypeOK
    <3>2. CASE Claim(a)
      BY <3>2, <2>1, <1>t, <1>r, LedgerStatuses DEF Claim, SetRow, TypeOK, DispatchSendGate, SendStatus
    <3> QED
      BY <1>1, <3>1, <3>2
  <2> HIDE DEF i
  <2> QED
    BY <2>1, <2>2, <2>3, <1>t, <1>q
<1>2. ASSUME NEW a \in Attempt, Deny(a) \/ BackOff(a) \/ RecordLost(a) PROVE CountersMatchLedger'
  <2> DEFINE i == att[a].on
  <2>1. i \in Intent /\ row[i].status = "dispatching" /\ UNCHANGED campaign
    BY <1>2, <1>c DEF Deny, BackOff, RecordLost
  <2>2. \A k \in Intent \ {i} : row'[k].status = row[k].status
    BY <1>2, <2>1, <1>t DEF Deny, BackOff, RecordLost, SetRow, TypeOK
  <2>3. row'[i].status \in {"none", "reconciling"}
    <3>1. CASE Deny(a) \/ BackOff(a)
      BY <3>1, <2>1, <1>t, <1>r, LedgerStatuses DEF Deny, BackOff, SetRow, TypeOK
    <3>2. CASE RecordLost(a)
      BY <3>2, <2>1, <1>t, <1>r, LedgerStatuses DEF RecordLost, SetRow, TypeOK, SendStatus
    <3> QED
      BY <1>2, <3>1, <3>2
  <2> HIDE DEF i
  <2> QED
    BY <2>1, <2>2, <2>3, <1>t, <1>q
<1>3. ASSUME NEW a \in Attempt, NEW st \in {"sent", "failed"}, NEW c \in Campaign,
             att[a].on \in Intent, row[att[a].on].status = "dispatching",
             row' = [row EXCEPT ![att[a].on] = RecordSendResult(@, st)],
             campaign' = CountFor(att[a].on, c, row'),
             c = IF st = "sent" THEN IncrementSent(campaign) ELSE IncrementFailed(campaign)
      PROVE  CountersMatchLedger'
  <2> DEFINE i == att[a].on
             n == IF campaign.status = "sending" THEN 1 ELSE 0
  <2>1. row'[i].status = st /\ \A k \in Intent \ {i} : row'[k].status = row[k].status
    <3>1. row'[i] = RecordSendResult(row[i], st) /\ \A k \in Intent \ {i} : row'[k] = row[k]
      BY <1>3, <1>t DEF TypeOK
    <3> QED
      BY <1>3, <1>r, <3>1, LedgerStatuses DEF SendStatus
  <2>2. CASE i \notin CampaignIntent
    <3>1. UNCHANGED campaign
      BY <1>3, <2>2 DEF CountFor
    <3> QED
      BY <2>1, <2>2, <3>1, <1>t, <1>q
  <2>3. CASE i \in CampaignIntent
    <3>1. campaign' = TryCompleteCampaign(c, AmbiguousCount(row'))
      BY <1>3, <2>3 DEF CountFor
    <3>2. /\ campaign'.sentCount = c.sentCount /\ campaign'.failedCount = c.failedCount
          /\ campaign'.status = "sending" => c.status = "sending"
      BY <3>1, <1>3, CounterStatements
    <3>3. /\ c.sentCount = campaign.sentCount + (IF st = "sent" THEN n ELSE 0)
          /\ c.failedCount = campaign.failedCount + (IF st = "failed" THEN n ELSE 0)
          /\ c.status = campaign.status
      BY <1>3, <1>t, CounterStatements
    <3>4. row[i].status \notin {"sent", "failed"} /\ n \in {0, 1}
          /\ (campaign.status = "sending" => n = 1)
      BY <1>3
    <3> HIDE DEF i, n
    <3> QED
      BY <2>1, <2>3, <3>2, <3>3, <3>4, <1>t, CountedStep
  <2> QED
    BY <2>2, <2>3
<1>4. ASSUME NEW a \in Attempt, RecordSent(a) \/ RecordFailed(a) PROVE CountersMatchLedger'
  <2>1. IncrementSent(campaign) \in Campaign /\ IncrementFailed(campaign) \in Campaign
    BY <1>t, CampaignTypes
  <2>2. CASE RecordSent(a)
    BY <2>1, <2>2, <1>c, <1>3 DEF RecordSent
  <2>3. CASE RecordFailed(a)
    BY <2>1, <2>3, <1>c, <1>3 DEF RecordFailed
  <2> QED
    BY <1>4, <2>2, <2>3
<1>5. ASSUME NEW i \in Intent, ResolveOneSend(i) PROVE CountersMatchLedger'
  <2> DEFINE verdict == ClassifyReconcilableSend(row[i], i \in evidence)
  <2>1. \A k \in Intent \ {i} : row'[k].status = row[k].status
    BY <1>5, <1>t DEF ResolveOneSend, TypeOK
  <2>2. CASE verdict = "resolve_sent"
    <3>1. row[i].status \in Ambiguous
      BY <2>2 DEF ClassifyReconcilableSend, StaleDispatching, Ambiguous
    <3>2. row'[i].status = "sent"
      BY <1>5, <2>2, <3>1, <1>t, <1>r, LedgerStatuses DEF ResolveOneSend, TypeOK
    <3>3. campaign' = CountFor(i, BackfillSent(campaign), row')
      BY <1>5, <2>2 DEF ResolveOneSend
    <3>4. CASE i \notin CampaignIntent
      BY <2>1, <3>3, <3>4, <1>t, <1>q DEF CountFor
    <3>5. CASE i \in CampaignIntent
      <4>1. campaign' = TryCompleteCampaign(BackfillSent(campaign), AmbiguousCount(row'))
        BY <3>3, <3>5 DEF CountFor
      <4>2. BackfillSent(campaign) \in Campaign
        BY <1>t, CampaignTypes
      <4>3. /\ campaign'.sentCount = campaign.sentCount + 1
            /\ campaign'.failedCount = campaign.failedCount
            /\ campaign'.status = "sending" => campaign.status = "sending"
        BY <1>t, <4>1, <4>2, CounterStatements
      <4>4. campaign.failedCount = campaign.failedCount + 0
        BY <1>t, CounterStatements
      <4> QED
        BY <2>1, <3>1, <3>2, <3>5, <4>3, <4>4, <1>t, CountedStep DEF Ambiguous
    <3> QED
      BY <3>4, <3>5
  <2>3. CASE verdict # "resolve_sent"
    <3>1. /\ verdict = "sweep_to_reconciling" => row[i].status = "dispatching"
          /\ verdict = "resolve_unknown" => row[i].status = "reconciling"
      BY DEF ClassifyReconcilableSend, StaleDispatching
    <3>2. UNCHANGED campaign
      BY <1>5, <2>3 DEF ResolveOneSend
    <3>3. \/ row'[i].status = row[i].status
          \/ row[i].status \in {"dispatching", "reconciling"} /\ row'[i].status \in Ambiguous
      BY <1>5, <2>3, <3>1, <1>t, <1>r, LedgerStatuses DEF ResolveOneSend, TypeOK, Ambiguous
    <3> QED
      BY <2>1, <3>2, <3>3, <1>t, <1>q DEF Ambiguous
  <2> QED
    BY <2>2, <2>3
<1>6. CASE FanOutDone
  <2> DEFINE c == [campaign EXCEPT !.fanOutComplete = TRUE,
                                   !.sendableTotal = Cardinality(CampaignIntent)]
  <2>1. campaign' = TryCompleteCampaign(c, AmbiguousCount(row)) /\ UNCHANGED row
    BY <1>6 DEF FanOutDone
  <2>2. /\ c.sentCount = campaign.sentCount /\ c.failedCount = campaign.failedCount
        /\ c.status = campaign.status
    BY <1>t DEF Campaign
  <2>3. c \in Campaign
    <3>1. Cardinality(CampaignIntent) \in Nat
      BY DispatchAssumption, FS_Subset, FS_CardinalityType DEF DispatchAssumption
    <3> QED
      BY <1>t, <3>1 DEF Campaign
  <2> HIDE DEF c
  <2> QED
    BY <2>1, <2>2, <2>3, CounterStatements, UncountedStep
<1>7. CASE CancelCampaign
  <2>1. /\ UNCHANGED row /\ campaign'.status = "canceled"
        /\ campaign'.sentCount = campaign.sentCount /\ campaign'.failedCount = campaign.failedCount
    BY <1>7, <1>t DEF CancelCampaign, Campaign
  <2> QED
    BY <2>1, UncountedStep
<1>8. CASE Tick
  <2>1. \A k \in Intent : row'[k].status = row[k].status
    BY <1>8, <1>r, LedgerStatuses DEF Tick
  <2>2. UNCHANGED campaign
    BY <1>8 DEF Tick
  <2> QED
    BY <2>1, <2>2, <1>t, <1>q
<1>9. CASE UNCHANGED <<row, campaign>>
  BY <1>9, <1>q
<1>10. ASSUME NEW a \in Attempt, WorkerStep(a) PROVE CountersMatchLedger'
  BY <1>1, <1>2, <1>4, <1>9, <1>10
  DEF WorkerStep, Progress, PickUp, Settle, Crash, CheckCampaign, Call, Accept, Refuse, Throw
<1>11. ASSUME NEW i \in Intent, Stall(i) \/ ResolveOneSend(i) \/ Webhook(i) PROVE CountersMatchLedger'
  BY <1>5, <1>9, <1>11 DEF Stall, Webhook
<1>12. CASE ReconcilerTick \/ ReconcilerAbort \/ UNCHANGED vars
  BY <1>9, <1>12 DEF ReconcilerTick, ReconcilerAbort, vars
<1> QED
  BY <1>6, <1>7, <1>8, <1>10, <1>11, <1>12 DEF Next

\* While job locks hold, the sent and failed counters of the campaign are the
\* numbers of its sent and failed rows while it sends, and never exceed them.
THEOREM CountersMatchLedgerTheorem == ASSUME ~LockMayLapse PROVE Spec => []CountersMatchLedger
<1>1. Init => CountersMatchLedger
  <2> SUFFICES ASSUME Init PROVE CountersMatchLedger
    OBVIOUS
  <2>1. \A i \in CampaignIntent : row[i].status = "none"
    BY DispatchAssumption DEF Init, NoRow, DispatchAssumption
  <2>2. RowsWith("sent") = {} /\ RowsWith("failed") = {}
    BY <2>1 DEF RowsWith
  <2>3. Cardinality({}) = 0
    BY FS_EmptySet
  <2>4. campaign.sentCount = 0 /\ campaign.failedCount = 0
    BY DEF Init
  <2>5. CountersMatchLedger <=>
          /\ campaign.sentCount <= Cardinality(RowsWith("sent"))
          /\ campaign.failedCount <= Cardinality(RowsWith("failed"))
          /\ campaign.status = "sending" =>
               /\ campaign.sentCount = Cardinality(RowsWith("sent"))
               /\ campaign.failedCount = Cardinality(RowsWith("failed"))
    BY DEF CountersMatchLedger, RowsWith
  <2> QED
    BY <2>2, <2>3, <2>4, <2>5
<1>2. LockInv /\ CountersMatchLedger /\ [Next]_vars => CountersMatchLedger'
  BY CountersStep
<1> QED
  BY <1>1, <1>2, LockInvariant, PTL DEF Spec
=============================================================================

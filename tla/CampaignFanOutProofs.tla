------------------------ MODULE CampaignFanOutProofs ------------------------
(***************************************************************************)
(* The campaign's life, for any finite set of contacts, any segment that   *)
(* moves under the walks, any batch and page sizes and any bounds.         *)
(***************************************************************************)
EXTENDS CampaignFanOut, FiniteSetTheorems, WellFoundedInduction, TLAPS

\* A client never has a later version on screen than the row's, and what it
\* shows of the row's version is the row's content.
ViewFits ==
    /\ view.version <= draft.version
    /\ view.version = draft.version => view.content = draft.content

\* How far versions may have come in each status, under the bound on them.
VersionFits ==
    /\ campaign.status = "scheduled" => draft.version <= MaxVersion
    /\ campaign.status = "draft" => draft.version <= MaxVersion + 1
    /\ campaign.status \in {"sending", "sent"} => draft.version <= MaxVersion + 2

\* A kickoff job that waits has an attempt left.
AttemptsFit ==
    /\ kickoff.state = "none" => kickoff.made = 0
    /\ kickoff.state = "waiting" => kickoff.made < MaxAttempts

\* The page under way still holds somebody.
PageUnderWay == walk.pc = "recipients" => walk.todo # {}

\* There is one kickoff job; a finished fan-out has ended it for good.
KickoffFits ==
    /\ walk.pc # "idle" <=> kickoff.state = "active"
    /\ campaign.fanOutComplete => kickoff.state = "completed"

\* Only a send job writes a row that says more than excluded.
RowsFit == \A c \in Contact : row[c].status \notin {"none", "excluded"} => sendJob[c] # "none"

\* The persisted cursor: the snapshot holds nobody beyond it and, of those
\* that never left the segment, everybody up to it; a walk that has read an
\* empty batch has everybody.
SnapshotFits ==
    /\ Contact \ Drifter \subseteq segment
    /\ campaign.status # "deleted" =>
         /\ \A c \in recipients : c <= cursor
         /\ \A c \in Contact \ Drifter : c <= cursor => c \in recipients
         /\ walk.pc = "snapshot" => walk.after = cursor
         /\ walk.pc \in {"page", "recipients", "finish"} => Contact \ Drifter \subseteq recipients

Handled(c) == sendJob[c] # "none" \/ row[c].status = "excluded"

\* Whom the walk over the snapshot has behind it, and whom the page under way
\* still holds: nobody between the two is missing.
WalkFits ==
    campaign.status # "deleted" =>
      /\ walk.pc \in {"page", "recipients"} => \A c \in recipients : c <= walk.after => Handled(c)
      /\ walk.pc = "recipients" =>
           \A d \in walk.todo :
             walk.after < d /\ \A c \in recipients : walk.after < c /\ c <= d => c \in walk.todo
      /\ walk.pc = "finish" => \A c \in recipients : Handled(c)

TypeInv   == TypeOK /\ VersionFits /\ AttemptsFit /\ PageUnderWay
FanOutInv == KickoffFits /\ RowsFit /\ SnapshotFits /\ WalkFits /\ FanOutMissesNobody

-----------------------------------------------------------------------------
(* Operators                                                               *)

\* A nonempty set of natural numbers has a least element.
LEMMA LeastNat ==
    ASSUME NEW S \in SUBSET Nat, S # {}
    PROVE  \E i \in S : \A j \in S : i <= j
<1> DEFINE Less == OpToRel(<, Nat)
<1>1. \A i, j \in Nat : j < i => <<j, i>> \in Less
  BY DEF OpToRel
<1>2. \E i \in S : \A j \in S : <<j, i>> \notin Less
  BY WFMin, NatLessThanWellFounded
<1> HIDE DEF Less
<1>3. PICK i \in S : \A j \in S : <<j, i>> \notin Less
  BY <1>2
<1>4. \A j \in S : ~ (j < i)
  BY <1>1, <1>3
<1> QED
  BY <1>4

\* A nonempty finite set of natural numbers has a greatest element: the least
\* of its upper bounds is one of its members.
LEMMA GreatestNat ==
    ASSUME NEW S \in SUBSET Nat, IsFiniteSet(S), S # {}
    PROVE  \E i \in S : \A j \in S : j <= i
<1> DEFINE above(i) == {j \in S : i < j}
           sizes == {Cardinality(above(i)) : i \in S}
<1>1. \A i \in S : IsFiniteSet(above(i)) /\ Cardinality(above(i)) \in Nat
  BY FS_Subset, FS_CardinalityType
<1>2. PICK i \in S : \A j \in S : Cardinality(above(i)) <= Cardinality(above(j))
  <2>1. sizes \in SUBSET Nat /\ sizes # {}
    BY <1>1
  <2>2. \E n \in sizes : \A m \in sizes : n <= m
    BY <2>1, LeastNat
  <2> QED
    BY <2>2
<1>3. ASSUME NEW j \in S, i < j PROVE FALSE
  <2>0. i \in Nat /\ j \in Nat /\ \A k \in S : k \in Nat
    OBVIOUS
  <2>1. above(j) \in SUBSET above(i) /\ j \in above(i) /\ j \notin above(j)
    <3>1. \A k \in S : j < k => i < k
      BY <1>3, <2>0
    <3>2. ~ (j < j)
      BY <2>0
    <3> QED
      BY <1>3, <3>1, <3>2
  <2> HIDE DEF above
  <2>2. Cardinality(above(j)) <= Cardinality(above(i)) /\ Cardinality(above(j)) # Cardinality(above(i))
    BY <1>1, <2>1, FS_Subset
  <2> QED
    BY <1>1, <1>2, <2>2
<1> QED
  BY <1>3

\* Min and Max of the community modules, on sets of contacts.
LEMMA MinMaxOfContacts ==
    ASSUME NEW S \in SUBSET Contact, S # {}
    PROVE  /\ Min(S) \in S /\ \A c \in S : Min(S) <= c
           /\ Max(S) \in S /\ \A c \in S : c <= Max(S)
<1>1. S \in SUBSET Nat /\ IsFiniteSet(S)
  BY FanOutAssumption, FS_Subset DEF FanOutAssumption
<1>2. \E i \in S : \A j \in S : i <= j
  BY <1>1, LeastNat
<1>3. \E i \in S : \A j \in S : i >= j
  BY <1>1, GreatestNat
<1> QED
  BY <1>2, <1>3 DEF Min, Max

\* What a keyset page is: members beyond the cursor, none skipped, and empty
\* only if there are no more.
LEMMA PageIsNext ==
    ASSUME NEW S \in SUBSET Contact, NEW after \in Contact \cup {0}, NEW size \in Nat \ {0}
    PROVE  LET page == KeysetPage(S, after, size) IN
           /\ page \subseteq S /\ \A d \in page : after < d
           /\ \A c \in S, d \in page : after < c /\ c <= d => c \in page
           /\ page = {} => \A c \in S : c <= after
<1> DEFINE rest == {c \in S : c > after}
           below(c) == {d \in rest : d < c}
           page == KeysetPage(S, after, size)
<1>1. page = {c \in rest : Cardinality(below(c)) < size}
  BY DEF KeysetPage
<1>2. IsFiniteSet(S) /\ after \in Nat /\ S \subseteq Nat /\ rest \subseteq Nat
  <2>1. Contact \subseteq Nat /\ IsFiniteSet(Contact)
    BY FanOutAssumption DEF FanOutAssumption
  <2>2. S \in SUBSET Contact /\ after \in Nat /\ rest \subseteq S
    BY <2>1
  <2>3. IsFiniteSet(S)
    BY <2>1, <2>2, FS_Subset
  <2> QED
    BY <2>1, <2>2, <2>3
<1>3. \A c \in rest : IsFiniteSet(below(c)) /\ Cardinality(below(c)) \in Nat
  BY <1>2, FS_Subset, FS_CardinalityType
<1>4. page \subseteq S /\ \A d \in page : after < d
  BY <1>1, <1>2
<1>5. ASSUME NEW c \in S, NEW d \in page, after < c, c <= d PROVE c \in page
  <2>1. c \in rest /\ d \in rest /\ Cardinality(below(d)) < size
    BY <1>1, <1>2, <1>5
  <2>2. below(c) \in SUBSET below(d)
    BY <1>2, <1>5, <2>1
  <2>3. IsFiniteSet(below(d)) /\ Cardinality(below(c)) \in Nat /\ Cardinality(below(d)) \in Nat
    BY <1>3, <2>1
  <2> HIDE DEF below
  <2>4. Cardinality(below(c)) <= Cardinality(below(d))
    BY <2>2, <2>3, FS_Subset
  <2>5. Cardinality(below(c)) < size
    BY <2>1, <2>3, <2>4
  <2> QED
    BY <1>1, <2>1, <2>5
<1>6. ASSUME page = {}, NEW c \in S, ~(c <= after) PROVE FALSE
  <2>1. c \in rest
    BY <1>2, <1>6
  <2>2. PICK m \in rest : \A d \in rest : m <= d
    BY <1>2, <2>1, LeastNat
  <2>3. below(m) = {}
    BY <1>2, <2>2
  <2>4. Cardinality(below(m)) = 0
    BY <2>3, FS_EmptySet
  <2> QED
    BY <1>1, <1>6, <2>4
<1> QED
  BY <1>4, <1>5, <1>6

\* The ages of a row are typed whatever the windows are.
LEMMA Windows ==
    /\ 0 \in Age /\ NoAge \notin Age
  BY WindowsAssumption DEF WindowsAssumption, Age, AgeCap, NoAge

\* What the statements of the send worker and the reconciler make of a row.
LEMMA RowStatements ==
    ASSUME NEW r \in Row
    PROVE  /\ RecordExcluded(r) \in Row
           /\ RecordExcluded(r).status = IF r.status \in {"none", "excluded"} THEN "excluded" ELSE r.status
           /\ \A v \in {"resolve_sent", "resolve_unknown"} :
                /\ ResolveReconcilingSend(r, v) \in Row
                /\ r.status \in Ambiguous =>
                     ResolveReconcilingSend(r, v).status = IF v = "resolve_unknown" THEN "unknown" ELSE "sent"
           /\ \A s \in {"sent", "failed", "reconciling"} :
                /\ RecordSendResult(InsertDispatching, s) \in Row
                /\ RecordSendResult(InsertDispatching, s).status = s
<1>1. /\ RecordExcluded(r) \in Row
      /\ RecordExcluded(r).status = IF r.status \in {"none", "excluded"} THEN "excluded" ELSE r.status
  BY DEF RecordExcluded, Row, SendStatus
<1>2. ASSUME NEW v \in {"resolve_sent", "resolve_unknown"}
      PROVE  /\ ResolveReconcilingSend(r, v) \in Row
             /\ r.status \in Ambiguous =>
                  ResolveReconcilingSend(r, v).status = IF v = "resolve_unknown" THEN "unknown" ELSE "sent"
  BY DEF ResolveReconcilingSend, Row, SendStatus, Ambiguous, NoAge
<1>3. ASSUME NEW s \in {"sent", "failed", "reconciling"}
      PROVE  /\ RecordSendResult(InsertDispatching, s) \in Row
             /\ RecordSendResult(InsertDispatching, s).status = s
  BY Windows DEF RecordSendResult, InsertDispatching, Row, SendStatus, NoAge
<1> QED
  BY <1>1, <1>2, <1>3

\* What the statements on the campaign row make of it: only a campaign that
\* is sending is completed.
Counted(c, d) ==
    /\ d \in Campaign /\ d.fanOutComplete = c.fanOutComplete /\ d.sendableTotal = c.sendableTotal
    /\ d.status = c.status \/ (c.status = "sending" /\ d.status = "sent" /\ c.fanOutComplete)

LEMMA CampaignStatements ==
    ASSUME NEW c \in Campaign, NEW n \in Nat
    PROVE  /\ Counted(c, c) /\ Counted(c, TryCompleteCampaign(c, n))
           /\ Counted(c, TryCompleteCampaign(IncrementSent(c), n))
           /\ Counted(c, TryCompleteCampaign(IncrementFailed(c), n))
           /\ Counted(c, TryCompleteCampaign(BackfillSent(c), n))
<1>1. \A d \in Campaign : Counted(d, TryCompleteCampaign(d, n))
  BY DEF Counted, TryCompleteCampaign, Campaign, CampaignStatus
<1>2. /\ Counted(c, c)
      /\ IncrementSent(c) \in Campaign /\ Counted(c, IncrementSent(c)) /\ IncrementSent(c).status = c.status
      /\ IncrementFailed(c) \in Campaign /\ Counted(c, IncrementFailed(c)) /\ IncrementFailed(c).status = c.status
      /\ BackfillSent(c) \in Campaign /\ Counted(c, BackfillSent(c)) /\ BackfillSent(c).status = c.status
  BY DEF Counted, IncrementSent, IncrementFailed, BackfillSent, Campaign
<1> QED
  BY <1>1, <1>2 DEF Counted

LEMMA AmbiguousCountType == \A rs : AmbiguousCount(rs) \in Nat
<1> TAKE rs
<1>1. {c \in Contact : rs[c].status \in Ambiguous} \in SUBSET Contact /\ IsFiniteSet(Contact)
  BY FanOutAssumption DEF FanOutAssumption
<1> QED
  BY <1>1, FS_Subset, FS_CardinalityType DEF AmbiguousCount

-----------------------------------------------------------------------------
(* Types                                                                   *)

\* What an edit makes of a draft and of a status is typed again.
LEMMA RowUpdates ==
    /\ \A c \in Campaign, s \in CampaignStatus : [c EXCEPT !.status = s] \in Campaign
    /\ \A d \in Draft, n \in 0 .. MaxVersion + 3 :
         /\ [d EXCEPT !.version = n] \in Draft /\ [d EXCEPT !.version = n, !.due = FALSE] \in Draft
         /\ \A c \in Content, b \in BOOLEAN : [d EXCEPT !.version = n, !.content = c, !.complete = b] \in Draft
    /\ \A d \in Draft : [d EXCEPT !.due = TRUE] \in Draft
<1>1. \A c \in Campaign, s \in CampaignStatus : [c EXCEPT !.status = s] \in Campaign
  BY DEF Campaign
<1>2. ASSUME NEW d \in Draft, NEW n \in 0 .. MaxVersion + 3
      PROVE  /\ [d EXCEPT !.version = n] \in Draft /\ [d EXCEPT !.version = n, !.due = FALSE] \in Draft
             /\ \A c \in Content, b \in BOOLEAN : [d EXCEPT !.version = n, !.content = c, !.complete = b] \in Draft
  BY DEF Draft
<1>3. \A d \in Draft : [d EXCEPT !.due = TRUE] \in Draft
  BY DEF Draft
<1> QED
  BY <1>1, <1>2, <1>3

\* At first there is a draft that nobody has launched.
LEMMA TypeInit == Init => TypeInv
<1> SUFFICES ASSUME Init PROVE TypeInv
  OBVIOUS
<1>1. 0 \in 0 .. MaxVersion + 3 /\ 0 \in 0 .. MaxAttempts /\ MaxVersion \in Nat
  BY FanOutAssumption DEF FanOutAssumption
<1>2. campaign \in Campaign /\ draft \in Draft /\ view \in View /\ approved \in Content
  BY <1>1 DEF Init, Campaign, CampaignStatus, Draft, View
<1>3. row \in [Contact -> Row]
  BY Windows DEF Init, Row, NoRow, NoAge
<1>4. kickoff \in KickoffJob /\ walk \in Walk
  BY <1>1 DEF Init, KickoffJob, Walk, NoWalk
<1>5. VersionFits /\ AttemptsFit /\ PageUnderWay
  BY <1>1 DEF Init, VersionFits, AttemptsFit, PageUnderWay, NoWalk
<1> QED
  BY <1>1, <1>2, <1>3, <1>4, <1>5 DEF Init, TypeOK, TypeInv

\* The API's steps.
LEMMA ApiTypes ==
    /\ TypeInv
    /\ \/ Load \/ UpdateCampaign \/ LaunchCampaign \/ ScheduleCampaign \/ CancelCampaign
       \/ DeleteCampaign \/ PrepareCampaignTestSend \/ BecomeDue
    => TypeInv'
<1>1. MaxVersion \in Nat
  BY FanOutAssumption DEF FanOutAssumption
<1>2. TypeInv => /\ campaign \in Campaign /\ draft \in Draft /\ view \in View /\ approved \in Content
                /\ TypeOK /\ VersionFits /\ view.content \in Content
                /\ draft.version \in 0 .. MaxVersion + 3 /\ draft.content \in Content
  BY DEF TypeInv, TypeOK, Draft, View
<1> DEFINE people_same == UNCHANGED <<segment, optedOut, softDeleted, cursor, row, sendJob, candidate, kickoff, walk>>
           typed == /\ campaign' \in Campaign /\ draft' \in Draft /\ view' \in View /\ approved' \in Content
                    /\ VersionFits'
           others == people_same /\ recipients' \in {recipients, {}} /\ owed' \in {owed, TRUE}
<1>3. ASSUME TypeInv, draft' \in Draft, draft'.version = draft.version + 1,
             \/ campaign'.status = campaign.status /\ draft.version < MaxVersion
             \/ campaign'.status = "scheduled" /\ draft.version < MaxVersion
             \/ campaign'.status = "sending" /\ campaign.status = "draft"
             \/ campaign'.status = "draft" /\ campaign.status = "scheduled"
             \/ campaign'.status = "canceled" /\ campaign.status = "sending"
      PROVE  VersionFits'
  BY <1>1, <1>2, <1>3 DEF VersionFits
<1>4. TypeInv /\ Load => typed /\ others
  <2>1. TypeInv /\ Load => /\ UNCHANGED <<campaign, draft, approved>>
                          /\ view' = [version |-> draft.version, content |-> draft.content]
    BY DEF Load
  <2>2. TypeInv /\ Load => others
    BY DEF Load, people, ledger, snapshot, queue
  <2>3. TypeInv /\ Load => view' \in View
    BY <1>2, <2>1 DEF View
  <2>4. TypeInv /\ Load => VersionFits'
    BY <1>2, <2>1 DEF VersionFits
  <2> QED
    BY <1>2, <2>1, <2>2, <2>3, <2>4
<1>5. TypeInv /\ DeleteCampaign => typed /\ others
  <2> SUFFICES ASSUME TypeInv, DeleteCampaign PROVE typed /\ others
    OBVIOUS
  <2>0. campaign' = [campaign EXCEPT !.status = "deleted"]
    BY DEF DeleteCampaign
  <2>1. UNCHANGED <<draft, view, approved>> /\ recipients' = {} /\ owed' = owed
    BY DEF DeleteCampaign, api, queue
  <2>4. people_same
    BY DEF DeleteCampaign, people, ledger, queue
  <2>5. others
    BY <2>1, <2>4
  <2>2. campaign' \in Campaign
    BY <1>2, <2>0, RowUpdates DEF CampaignStatus
  <2>3. campaign'.status = "deleted"
    BY <1>2, <2>0 DEF Campaign
  <2> QED
    BY <1>2, <2>1, <2>2, <2>3, <2>5 DEF VersionFits
<1>6. TypeInv /\ UpdateCampaign => typed /\ others
  <2> SUFFICES ASSUME TypeInv, UpdateCampaign PROVE typed /\ others
    OBVIOUS
  <2>1. others /\ UNCHANGED <<campaign, view, approved>> /\ draft.version < MaxVersion
    BY DEF UpdateCampaign, people, ledger, snapshot, queue
  <2>2. PICK c \in Content, ok \in BOOLEAN :
               draft' = [draft EXCEPT !.version = @ + 1, !.content = c, !.complete = ok]
    BY DEF UpdateCampaign
  <2>3. draft.version + 1 \in 0 .. MaxVersion + 3
    BY <1>1, <1>2, <2>1
  <2>4. draft' \in Draft
    BY <1>2, <2>2, <2>3, RowUpdates
  <2>5. draft'.version = draft.version + 1
    BY <1>2, <2>2 DEF Draft
  <2> QED
    BY <1>2, <1>3, <2>1, <2>4, <2>5
<1>7. TypeInv /\ (LaunchCampaign \/ CancelCampaign) => typed /\ others
  <2> SUFFICES ASSUME TypeInv, LaunchCampaign \/ CancelCampaign PROVE typed /\ others
    OBVIOUS
  <2>1. others /\ view' = view /\ approved' \in Content
    BY <1>2 DEF LaunchCampaign, CancelCampaign, people, ledger, snapshot, queue
  <2>2. PICK s \in {"sending", "draft", "canceled"} :
             /\ campaign' = [campaign EXCEPT !.status = s]
             /\ \/ s = "sending" /\ campaign.status = "draft"
                \/ s = "draft" /\ campaign.status = "scheduled"
                \/ s = "canceled" /\ campaign.status = "sending"
    BY DEF LaunchCampaign, CancelCampaign
  <2>3. campaign' \in Campaign /\ campaign'.status = s
    BY <1>2, <2>2, RowUpdates DEF Campaign, CampaignStatus
  <2>4. draft.version + 1 \in 0 .. MaxVersion + 3
    BY <1>1, <1>2, <2>2 DEF VersionFits
  <2>5. \/ draft' = [draft EXCEPT !.version = draft.version + 1]
        \/ draft' = [draft EXCEPT !.version = draft.version + 1, !.due = FALSE]
    BY DEF LaunchCampaign, CancelCampaign
  <2>6. draft' \in Draft
    BY <1>2, <2>4, <2>5, RowUpdates
  <2>7. draft'.version = draft.version + 1
    BY <1>2, <2>5 DEF Draft
  <2> QED
    BY <1>2, <1>3, <2>1, <2>2, <2>3, <2>6, <2>7
<1>8. TypeInv /\ (ScheduleCampaign \/ PrepareCampaignTestSend) => typed /\ others
  <2> SUFFICES ASSUME TypeInv, ScheduleCampaign \/ PrepareCampaignTestSend PROVE typed /\ others
    OBVIOUS
  <2>1. others /\ view' = view /\ approved' \in Content /\ draft.version < MaxVersion
    BY <1>2 DEF ScheduleCampaign, PrepareCampaignTestSend, people, ledger, snapshot, queue
  <2>2. campaign' = campaign \/ campaign' = [campaign EXCEPT !.status = "scheduled"]
    BY DEF ScheduleCampaign, PrepareCampaignTestSend
  <2>3. campaign' \in Campaign /\ campaign'.status \in {campaign.status, "scheduled"}
    BY <1>2, <2>2, RowUpdates, ZenonT(40) DEF Campaign, CampaignStatus
  <2>4. draft.version + 1 \in 0 .. MaxVersion + 3
    BY <1>1, <1>2, <2>1
  <2>5. \/ draft' = [draft EXCEPT !.version = draft.version + 1]
        \/ draft' = [draft EXCEPT !.version = draft.version + 1, !.due = FALSE]
    BY DEF ScheduleCampaign, PrepareCampaignTestSend
  <2>6. draft' \in Draft
    BY <1>2, <2>4, <2>5, RowUpdates
  <2>7. draft'.version = draft.version + 1
    BY <1>2, <2>5 DEF Draft
  <2> QED
    BY <1>2, <1>3, <2>1, <2>3, <2>6, <2>7
<1>9. TypeInv /\ BecomeDue => typed /\ others
  <2> SUFFICES ASSUME TypeInv, BecomeDue PROVE typed /\ others
    OBVIOUS
  <2>1. others /\ UNCHANGED <<campaign, view, approved>> /\ draft' = [draft EXCEPT !.due = TRUE]
    BY DEF BecomeDue, people, ledger, snapshot, queue
  <2>2. draft' \in Draft
    BY <1>2, <2>1, RowUpdates
  <2>3. draft'.version = draft.version
    BY <1>2, <2>1 DEF Draft
  <2> QED
    BY <1>2, <2>1, <2>2, <2>3 DEF VersionFits
<1>10. TypeInv /\ typed /\ others => TypeInv'
  BY <1>2 DEF TypeInv, TypeOK, AttemptsFit, PageUnderWay
<1> QED
  BY <1>4, <1>5, <1>6, <1>7, <1>8, <1>9, <1>10

\* The scheduler's steps, and the workspace that goes and comes back.
LEMMA SchedulerTypes ==
    ASSUME TypeInv,
           \/ FindDueCampaignCandidates \/ TransitionToSending \/ AddKickoff \/ ProducerCrash
           \/ SoftDeleteWorkspace \/ RestoreWorkspace \/ \E c \in Contact : Drift(c) \/ Unsubscribe(c)
    PROVE  TypeInv'
<1>1. MaxVersion \in Nat /\ Drifter \subseteq Contact /\ Fickle \subseteq Contact /\ MaxAttempts \in Nat \ {0}
  BY FanOutAssumption DEF FanOutAssumption
<1>2. TypeOK /\ VersionFits /\ AttemptsFit /\ PageUnderWay
  BY DEF TypeInv
<1>3. CASE FindDueCampaignCandidates \/ ProducerCrash \/ SoftDeleteWorkspace
  BY <1>2, <1>3, ZenonT(40)
  DEF TypeInv, TypeOK, VersionFits, AttemptsFit, PageUnderWay, FindDueCampaignCandidates, ProducerCrash, SoftDeleteWorkspace,
      api, people, ledger, snapshot, queue
<1>4. CASE TransitionToSending \/ RestoreWorkspace
  <2>1. campaign' \in Campaign /\ VersionFits'
    BY <1>1, <1>2, <1>4
    DEF TypeOK, TransitionToSending, RestoreWorkspace, StillDue, Campaign, CampaignStatus, VersionFits, api, Draft
  <2> QED
    BY <1>2, <1>4, <2>1
    DEF TypeInv, TypeOK, AttemptsFit, PageUnderWay, TransitionToSending, RestoreWorkspace, StillDue,
        api, people, ledger, snapshot, queue
<1>5. CASE AddKickoff
  <2>1. kickoff' \in KickoffJob /\ AttemptsFit'
    BY <1>1, <1>2, <1>5 DEF TypeOK, AddKickoff, KickoffJob, AttemptsFit
  <2> QED
    BY <1>2, <1>5, <2>1
    DEF TypeInv, TypeOK, VersionFits, PageUnderWay, AddKickoff, api, people, ledger, snapshot
<1>6. ASSUME NEW c \in Contact, Drift(c) \/ Unsubscribe(c) PROVE TypeInv'
  BY <1>1, <1>2, <1>6
  DEF TypeInv, TypeOK, VersionFits, AttemptsFit, PageUnderWay, Drift, Unsubscribe, api, ledger, snapshot, queue
<1> QED
  BY <1>3, <1>4, <1>5, <1>6

\* What a step makes of a walk and of the kickoff job is typed again.
LEMMA WalkUpdates ==
    ASSUME NEW x \in Walk, NEW a \in Contact \cup {0}, NEW S \in SUBSET Contact, NEW T \in SUBSET Contact
    PROVE  /\ [x EXCEPT !.pc = "entered"] \in Walk
           /\ [x EXCEPT !.pc = "snapshot", !.after = a] \in Walk
           /\ [x EXCEPT !.pc = "page", !.after = a] \in Walk
           /\ [x EXCEPT !.after = a] \in Walk
           /\ [x EXCEPT !.pc = "finish"] \in Walk
           /\ [x EXCEPT !.pc = "recipients", !.todo = S, !.unsubscribed = T] \in Walk
           /\ [x EXCEPT !.todo = S, !.after = a, !.pc = "page"] \in Walk
           /\ [x EXCEPT !.todo = S, !.after = a] \in Walk
           /\ [x EXCEPT !.sendableTotal = @ + 1] \in Walk
<1>1. /\ [x EXCEPT !.pc = "entered"] \in Walk
      /\ [x EXCEPT !.pc = "finish"] \in Walk
      /\ [x EXCEPT !.sendableTotal = @ + 1] \in Walk
  BY DEF Walk
<1>2. /\ [x EXCEPT !.pc = "snapshot", !.after = a] \in Walk
      /\ [x EXCEPT !.pc = "page", !.after = a] \in Walk
      /\ [x EXCEPT !.after = a] \in Walk
  BY DEF Walk
<1>3. [x EXCEPT !.pc = "recipients", !.todo = S, !.unsubscribed = T] \in Walk
  BY DEF Walk
<1>4. /\ [x EXCEPT !.todo = S, !.after = a, !.pc = "page"] \in Walk
      /\ [x EXCEPT !.todo = S, !.after = a] \in Walk
  BY DEF Walk
<1> QED
  BY <1>1, <1>2, <1>3, <1>4

\* What the last transaction of the kickoff makes of the campaign row.
LEMMA FinishedCampaign ==
    ASSUME campaign \in Campaign, walk \in Walk, FinishKickoff
    PROVE  /\ campaign' \in Campaign
           /\ campaign'.status = campaign.status \/ (campaign.status = "sending" /\ campaign'.status = "sent")
           /\ campaign' = campaign \/ (campaign'.fanOutComplete /\ campaign.status # "deleted")
<1> DEFINE totals == [campaign EXCEPT !.sendableTotal = walk.sendableTotal, !.fanOutComplete = TRUE]
<1>1. totals \in Campaign /\ totals.status = campaign.status /\ totals.fanOutComplete
  BY DEF Campaign, Walk
<1>2. /\ [totals EXCEPT !.status = "sent"] \in Campaign
      /\ [totals EXCEPT !.status = "sent"].status = "sent" /\ [totals EXCEPT !.status = "sent"].fanOutComplete
  BY <1>1 DEF Campaign, CampaignStatus
<1>3. \/ campaign' = campaign
      \/ campaign.status = "sending" /\ campaign' = [totals EXCEPT !.status = "sent"]
      \/ campaign.status # "deleted" /\ campaign' = TryCompleteCampaign(totals, AmbiguousCount(row))
  BY DEF FinishKickoff
<1> HIDE DEF totals
<1>4. Counted(totals, TryCompleteCampaign(totals, AmbiguousCount(row)))
  BY <1>1, AmbiguousCountType, CampaignStatements
<1>5. CASE campaign' = campaign
  BY <1>5
<1>6. CASE campaign.status = "sending" /\ campaign' = [totals EXCEPT !.status = "sent"]
  BY <1>2, <1>6
<1>7. CASE campaign.status # "deleted" /\ campaign' = TryCompleteCampaign(totals, AmbiguousCount(row))
  BY <1>1, <1>4, <1>7 DEF Counted
<1> QED
  BY <1>3, <1>5, <1>6, <1>7

\* The kickoff job's steps.
LEMMA KickoffTypes ==
    TypeInv /\ (Kickoff \/ KickoffFails) => TypeInv'
<1>1. IsFiniteSet(Contact) /\ MaxAttempts \in Nat \ {0} /\ 0 \in 0 .. MaxAttempts
      /\ SnapshotBatchSize \in Nat \ {0} /\ BreakdownPageSize \in Nat \ {0} /\ Fickle \subseteq Contact
  BY FanOutAssumption DEF FanOutAssumption
<1>2. TypeInv => /\ TypeOK /\ VersionFits /\ AttemptsFit /\ PageUnderWay
                /\ campaign \in Campaign /\ kickoff \in KickoffJob /\ walk \in Walk
  BY DEF TypeInv, TypeOK
<1>3. NoWalk \in Walk
  BY DEF NoWalk, Walk
<1>4. \A k \in KickoffJob, s \in {"waiting", "completed", "failed"} : [k EXCEPT !.state = s] \in KickoffJob
  BY DEF KickoffJob
<1> DEFINE same == UNCHANGED <<draft, view, approved, segment, optedOut, softDeleted, candidate, owed>>
           typed == /\ campaign' \in Campaign /\ kickoff' \in KickoffJob /\ walk' \in Walk
                    /\ row' \in [Contact -> Row] /\ sendJob' \in [Contact -> {"none", "waiting", "done"}]
                    /\ recipients' \subseteq Contact /\ cursor' \in Contact \cup {0} /\ AttemptsFit'
                    /\ PageUnderWay'
                    /\ campaign'.status # campaign.status => campaign.status = "sending" /\ campaign'.status = "sent"
<1>6. TypeInv /\ KickoffStart => typed /\ same
  <2> SUFFICES ASSUME TypeInv, KickoffStart PROVE typed /\ same
    OBVIOUS
  <2>1. kickoff.made + 1 \in 0 .. MaxAttempts
    BY <1>1, <1>2 DEF KickoffStart, AttemptsFit, KickoffJob
  <2>2. kickoff' = [kickoff EXCEPT !.state = "active", !.made = kickoff.made + 1]
    BY DEF KickoffStart
  <2>3. kickoff' \in KickoffJob /\ AttemptsFit'
    BY <1>2, <2>1, <2>2 DEF KickoffJob, AttemptsFit
  <2>4. walk' \in Walk /\ PageUnderWay'
    BY <1>3, WalkUpdates DEF KickoffStart, PageUnderWay, NoWalk
  <2> QED
    BY <1>2, <2>3, <2>4 DEF TypeOK, KickoffStart, api, people, ledger, snapshot
<1>7. TypeInv /\ KickoffReturns => kickoff' \in KickoffJob /\ walk' \in Walk /\ AttemptsFit' /\ PageUnderWay'
  BY <1>2, <1>3, <1>4 DEF KickoffReturns, AttemptsFit, PageUnderWay, NoWalk, KickoffJob
<1>8. TypeInv /\ ReadState => typed /\ same
  <2> SUFFICES ASSUME TypeInv, ReadState PROVE typed /\ same
    OBVIOUS
  <2>1. KickoffReturns \/ (kickoff' = kickoff /\ walk' = [walk EXCEPT !.pc = "snapshot", !.after = cursor])
    BY DEF ReadState
  <2>2. cursor \in Contact \cup {0}
    BY <1>2 DEF TypeOK
  <2>4. /\ [walk EXCEPT !.pc = "snapshot", !.after = cursor] \in Walk
        /\ [walk EXCEPT !.pc = "snapshot", !.after = cursor].pc = "snapshot"
    <3>1. [walk EXCEPT !.pc = "snapshot", !.after = cursor] \in Walk
      BY <1>2, <2>2, WalkUpdates
    <3>2. [walk EXCEPT !.pc = "snapshot", !.after = cursor].pc = "snapshot"
      BY <1>2 DEF Walk
    <3> QED
      BY <3>1, <3>2
  <2>3. kickoff' \in KickoffJob /\ walk' \in Walk /\ AttemptsFit' /\ PageUnderWay'
    BY <1>2, <1>7, <2>1, <2>2, <2>4 DEF AttemptsFit, PageUnderWay
  <2> QED
    BY <1>2, <2>3 DEF TypeOK, ReadState, api, people, ledger, snapshot
<1>9. TypeInv /\ MaterializeBatch => typed /\ same
  <2> SUFFICES ASSUME TypeInv, MaterializeBatch PROVE typed /\ same
    OBVIOUS
  <2> DEFINE page == KeysetPage(segment, walk.after, SnapshotBatchSize)
             inserted == page \ recipients
             last == Last(inserted, walk.after)
  <2>1. walk.after \in Contact \cup {0} /\ segment \subseteq Contact /\ recipients \subseteq Contact
    BY <1>2 DEF TypeOK, Walk
  <2>2. page \subseteq segment
    BY <1>1, <2>1, PageIsNext
  <2>3. last \in Contact \cup {0}
    <3>1. inserted \in SUBSET Contact
      BY <2>1, <2>2
    <3> HIDE DEF inserted
    <3> QED
      BY <2>1, <3>1, MinMaxOfContacts DEF Last
  <2>4. /\ recipients' = recipients \cup inserted /\ cursor' = last
        /\ walk' = [walk EXCEPT !.pc = "page", !.after = 0] \/ walk' = [walk EXCEPT !.after = last]
    BY DEF MaterializeBatch
  <2>5. recipients' \subseteq Contact /\ cursor' \in Contact \cup {0}
    BY <2>1, <2>2, <2>3, <2>4
  <2> HIDE DEF last
  <2>6. walk' \in Walk
    BY <1>2, <2>3, <2>4, WalkUpdates, ZenonT(40)
  <2>7. UNCHANGED <<campaign, draft, view, approved, segment, optedOut, softDeleted, row, sendJob, candidate, owed, kickoff>>
    BY DEF MaterializeBatch, api, people, ledger, queue
  <2>8. row \in [Contact -> Row] /\ sendJob \in [Contact -> {"none", "waiting", "done"}]
    BY <1>2 DEF TypeOK
  <2>9. AttemptsFit'
    BY <1>2, <2>7 DEF AttemptsFit
  <2>10. PageUnderWay'
    BY <1>2, <2>4 DEF MaterializeBatch, PageUnderWay, Walk
  <2> QED
    BY <1>2, <2>5, <2>6, <2>7, <2>8, <2>9, <2>10
<1>10. TypeInv /\ ReadPage => typed /\ same
  <2> SUFFICES ASSUME TypeInv, ReadPage PROVE typed /\ same
    OBVIOUS
  <2> DEFINE page == KeysetPage(recipients, walk.after, BreakdownPageSize)
  <2>1. walk.after \in Contact \cup {0} /\ recipients \subseteq Contact /\ optedOut \subseteq Contact
    BY <1>1, <1>2 DEF TypeOK, Walk
  <2>2. page \in SUBSET Contact
    BY <1>1, <2>1, PageIsNext
  <2>3. KickoffReturns \/ (/\ kickoff' = kickoff
                           /\ \/ walk' = [walk EXCEPT !.pc = "finish"]
                              \/ /\ page # {}
                                 /\ walk' = [walk EXCEPT !.pc = "recipients", !.todo = page, !.unsubscribed = optedOut])
    BY DEF ReadPage
  <2> HIDE DEF page
  <2>4. /\ [walk EXCEPT !.pc = "finish"] \in Walk
        /\ [walk EXCEPT !.pc = "recipients", !.todo = page, !.unsubscribed = optedOut] \in Walk
    BY <1>2, <2>1, <2>2, WalkUpdates
  <2>5. kickoff' \in KickoffJob /\ walk' \in Walk /\ AttemptsFit' /\ PageUnderWay'
    <3>1. CASE KickoffReturns
      BY <1>7, <3>1
    <3>2. CASE kickoff' = kickoff /\ walk' \in Walk /\ PageUnderWay'
      BY <1>2, <3>2 DEF AttemptsFit
    <3>3. CASE walk' = [walk EXCEPT !.pc = "finish"] /\ kickoff' = kickoff
      <4>1. walk'.pc = "finish"
        BY <1>2, <3>3 DEF Walk
      <4> QED
        BY <2>4, <3>2, <3>3, <4>1 DEF PageUnderWay
    <3>4. CASE /\ page # {} /\ kickoff' = kickoff
               /\ walk' = [walk EXCEPT !.pc = "recipients", !.todo = page, !.unsubscribed = optedOut]
      <4>1. walk'.todo = page
        BY <1>2, <3>4 DEF Walk
      <4> QED
        BY <2>4, <3>2, <3>4, <4>1 DEF PageUnderWay
    <3> QED
      BY <2>3, <2>4, <3>1, <3>2, <3>3, <3>4
  <2>6. UNCHANGED <<campaign, draft, view, approved, segment, optedOut, softDeleted, row, sendJob, candidate, owed,
                    recipients, cursor>>
    BY DEF ReadPage, api, people, ledger, snapshot
  <2> QED
    BY <1>2, <2>5, <2>6 DEF TypeOK
<1>11. TypeInv /\ WalkRecipient => typed /\ same
  <2> SUFFICES ASSUME TypeInv, WalkRecipient PROVE typed /\ same
    OBVIOUS
  <2> DEFINE c == Min(walk.todo)
             rest == walk.todo \ {c}
             next == [walk EXCEPT !.todo = rest, !.after = c, !.pc = IF rest = {} THEN "page" ELSE @]
  <2>1. /\ row \in [Contact -> Row] /\ sendJob \in [Contact -> {"none", "waiting", "done"}]
        /\ recipients \subseteq Contact /\ cursor \in Contact \cup {0}
    BY <1>2 DEF TypeOK
  <2>2. walk.pc = "recipients" /\ walk.todo # {}
    BY <1>2 DEF WalkRecipient, PageUnderWay
  <2>3. c \in Contact /\ rest \in SUBSET Contact
    BY <1>2, <2>2, MinMaxOfContacts DEF Walk
  <2>4. \/ /\ sendJob' = [sendJob EXCEPT ![c] = IF @ = "none" THEN "waiting" ELSE @]
           /\ walk' = [next EXCEPT !.sendableTotal = @ + 1] /\ row' = row
        \/ /\ row' = [row EXCEPT ![c] = RecordExcluded(@)]
           /\ walk' = next /\ sendJob' = sendJob
    BY DEF WalkRecipient
  <2> HIDE DEF c
  <2>5. next \in Walk /\ (next.pc = "recipients" => next.todo # {})
    <3>1. next.pc = (IF rest = {} THEN "page" ELSE "recipients") /\ next.todo = rest
      BY <1>2, <2>2 DEF Walk
    <3>2. next = (IF rest = {} THEN [walk EXCEPT !.todo = rest, !.after = c, !.pc = "page"]
                  ELSE [walk EXCEPT !.todo = rest, !.after = c])
      BY <1>2, <2>2 DEF Walk
    <3>4. /\ [walk EXCEPT !.todo = rest, !.after = c, !.pc = "page"] \in Walk
          /\ [walk EXCEPT !.todo = rest, !.after = c] \in Walk
      BY <1>2, <2>3, WalkUpdates
    <3>3. next \in Walk
      BY <3>2, <3>4
    <3> QED
      BY <3>1, <3>3
  <2> HIDE DEF next
  <2>6. walk' \in Walk /\ PageUnderWay'
    <3>1. [next EXCEPT !.sendableTotal = @ + 1] \in Walk
      BY <2>3, <2>5, WalkUpdates
    <3>2. [next EXCEPT !.sendableTotal = @ + 1].pc = next.pc /\ [next EXCEPT !.sendableTotal = @ + 1].todo = next.todo
      BY <2>5 DEF Walk
    <3> QED
      BY <2>4, <2>5, <3>1, <3>2 DEF PageUnderWay
  <2>7. row' \in [Contact -> Row] /\ sendJob' \in [Contact -> {"none", "waiting", "done"}]
    <3>1. RecordExcluded(row[c]) \in Row
      BY <2>1, <2>3, RowStatements
    <3> QED
      BY <2>1, <2>3, <2>4, <3>1
  <2>8. UNCHANGED <<campaign, draft, view, approved, segment, optedOut, softDeleted, candidate, owed, kickoff,
                    recipients, cursor>>
    BY DEF WalkRecipient, api, people, snapshot, queue
  <2>9. AttemptsFit'
    BY <1>2, <2>8 DEF AttemptsFit
  <2> QED
    BY <1>2, <2>1, <2>6, <2>7, <2>8, <2>9
<1>12. TypeInv /\ FinishKickoff => typed /\ same
  <2> SUFFICES ASSUME TypeInv, FinishKickoff PROVE typed /\ same
    OBVIOUS
  <2>1. campaign' \in Campaign /\ (campaign'.status # campaign.status => campaign.status = "sending" /\ campaign'.status = "sent")
    BY <1>2, FinishedCampaign
  <2>2. kickoff' \in KickoffJob /\ walk' \in Walk /\ AttemptsFit' /\ PageUnderWay'
    BY <1>7 DEF FinishKickoff
  <2>3. UNCHANGED <<draft, view, approved, segment, optedOut, softDeleted, row, sendJob, candidate, owed,
                    recipients, cursor>>
    BY DEF FinishKickoff, api, people, ledger, snapshot
  <2> QED
    BY <1>2, <2>1, <2>2, <2>3 DEF TypeOK
<1>13. TypeInv /\ KickoffFails => typed /\ same
  <2> SUFFICES ASSUME TypeInv, KickoffFails PROVE typed /\ same
    OBVIOUS
  <2>1. \/ kickoff' = [kickoff EXCEPT !.state = "waiting"] /\ kickoff.made < MaxAttempts
        \/ kickoff' = [kickoff EXCEPT !.state = "failed"]
    BY DEF KickoffFails
  <2>2. kickoff' \in KickoffJob /\ AttemptsFit'
    <3>1. kickoff' \in KickoffJob
      BY <1>2, <1>4, <2>1
    <3>2. AttemptsFit'
      BY <1>2, <2>1 DEF AttemptsFit, KickoffJob
    <3> QED
      BY <3>1, <3>2
  <2>3. walk' \in Walk /\ PageUnderWay'
    BY <1>3 DEF KickoffFails, PageUnderWay, NoWalk
  <2>4. UNCHANGED <<campaign, draft, view, approved, segment, optedOut, softDeleted, row, sendJob, candidate, owed,
                    recipients, cursor>>
    BY DEF KickoffFails, api, people, ledger, snapshot
  <2> QED
    BY <1>2, <2>2, <2>3, <2>4 DEF TypeOK
<1>14. TypeInv /\ typed /\ same => TypeInv'
  <2> SUFFICES ASSUME TypeInv, typed, same PROVE TypeInv'
    OBVIOUS
  <2>1. VersionFits'
    BY <1>2 DEF VersionFits
  <2> QED
    BY <1>2, <2>1 DEF TypeInv, TypeOK
<1> QED
  BY <1>6, <1>8, <1>9, <1>10, <1>11, <1>12, <1>13, <1>14 DEF Kickoff

\* The send jobs and the reconciler.
LEMMA SendTypes ==
    ASSUME NEW c \in Contact, TypeInv,
           \/ \E result \in {"sent", "failed", "reconciling", "none"} : Dispatch(c, result)
           \/ \E verdict \in {"resolve_sent", "resolve_unknown"} : Resolve(c, verdict)
    PROVE  /\ TypeInv' /\ Counted(campaign, campaign')
           /\ UNCHANGED <<draft, view, approved, segment, optedOut, softDeleted, candidate, owed, kickoff, walk,
                          recipients, cursor>>
<1>1. /\ TypeOK /\ VersionFits /\ AttemptsFit /\ PageUnderWay
      /\ campaign \in Campaign /\ row \in [Contact -> Row] /\ sendJob \in [Contact -> {"none", "waiting", "done"}]
  BY DEF TypeInv, TypeOK
<1>2. row[c] \in Row
  BY <1>1
<1> DEFINE same == UNCHANGED <<draft, view, approved, segment, optedOut, softDeleted, candidate, owed, kickoff, walk,
                          recipients, cursor>>
           typed == /\ Counted(campaign, campaign') /\ row' \in [Contact -> Row]
                    /\ sendJob' \in [Contact -> {"none", "waiting", "done"}]
<1>3. ASSUME NEW result \in {"sent", "failed", "reconciling", "none"}, Dispatch(c, result) PROVE typed /\ same
  <2> DEFINE claimed == [row EXCEPT ![c] = RecordSendResult(InsertDispatching, result)]
             n == AmbiguousCount(claimed)
  <2>1. same /\ sendJob' = [sendJob EXCEPT ![c] = "done"]
    BY <1>3 DEF Dispatch, api, people, snapshot, queue
  <2>2. \/ row' = row /\ campaign' = campaign
        \/ row' = [row EXCEPT ![c] = RecordExcluded(@)] /\ campaign' = campaign
        \/ /\ result # "none" /\ row' = claimed
           /\ campaign' \in {campaign, TryCompleteCampaign(IncrementSent(campaign), n),
                             TryCompleteCampaign(IncrementFailed(campaign), n)}
    BY <1>3 DEF Dispatch
  <2>3. n \in Nat
    BY AmbiguousCountType
  <2> HIDE DEF n
  <2>4. Counted(campaign, campaign')
    BY <1>1, <2>2, <2>3, CampaignStatements
  <2>5. row' \in [Contact -> Row]
    <3>1. RecordExcluded(row[c]) \in Row /\ (result # "none" => RecordSendResult(InsertDispatching, result) \in Row)
      BY <1>2, RowStatements
    <3> QED
      BY <1>1, <2>2, <3>1
  <2> QED
    BY <1>1, <2>1, <2>4, <2>5
<1>4. ASSUME NEW verdict \in {"resolve_sent", "resolve_unknown"}, Resolve(c, verdict) PROVE typed /\ same
  <2> DEFINE resolved == [row EXCEPT ![c] = ResolveReconcilingSend(@, verdict)]
             n == AmbiguousCount(resolved)
  <2>1. same /\ sendJob' = sendJob /\ row' = resolved
    BY <1>4 DEF Resolve, api, people, snapshot, queue
  <2>2. campaign' \in {campaign, TryCompleteCampaign(BackfillSent(campaign), n)}
    BY <1>4 DEF Resolve
  <2>3. n \in Nat
    BY AmbiguousCountType
  <2> HIDE DEF n
  <2>4. Counted(campaign, campaign')
    BY <1>1, <2>2, <2>3, CampaignStatements
  <2>5. row' \in [Contact -> Row]
    <3>1. ResolveReconcilingSend(row[c], verdict) \in Row
      BY <1>2, RowStatements
    <3> QED
      BY <1>1, <2>1, <3>1
  <2> QED
    BY <1>1, <2>1, <2>4, <2>5
<1>5. typed /\ same
  BY <1>3, <1>4
<1>6. VersionFits'
  BY <1>1, <1>5 DEF VersionFits, Counted
<1>7. TypeOK' /\ AttemptsFit' /\ PageUnderWay'
  BY <1>1, <1>5 DEF TypeOK, AttemptsFit, PageUnderWay, Counted
<1> QED
  BY <1>5, <1>6, <1>7 DEF TypeInv

LEMMA TypeStep == TypeInv /\ [Next]_vars => TypeInv'
<1>1. TypeInv /\ UNCHANGED vars => TypeInv'
  BY DEF TypeInv, TypeOK, VersionFits, AttemptsFit, PageUnderWay, vars, api, people, ledger, snapshot, queue
<1>2. TypeInv /\ Next => TypeInv'
  BY ApiTypes, SchedulerTypes, KickoffTypes, SendTypes DEF Next
<1> QED
  BY <1>1, <1>2

\* Every variable keeps its type: versions stay within their bound, however the
\* transitions that raise them without looking at it follow one another, and no
\* attempt at the kickoff job is made beyond its last.
THEOREM TypeCorrect == Spec => []TypeOK
<1>1. TypeInv => TypeOK
  BY DEF TypeInv
<1> QED
  BY <1>1, TypeInit, TypeStep, PTL DEF Spec

-----------------------------------------------------------------------------
(* What is sent, and what is canceled                                      *)

\* The scheduler, the queues and the audience never touch what the marketer
\* wrote, and these are all the moves of the status they make.
LEMMA BackgroundMoves ==
    ASSUME TypeInv,
           \/ FindDueCampaignCandidates \/ TransitionToSending \/ AddKickoff \/ ProducerCrash
           \/ SoftDeleteWorkspace \/ RestoreWorkspace \/ (\E c \in Contact : Drift(c) \/ Unsubscribe(c))
           \/ Kickoff \/ KickoffFails
           \/ \E c \in Contact :
                \/ \E result \in {"sent", "failed", "reconciling", "none"} : Dispatch(c, result)
                \/ \E verdict \in {"resolve_sent", "resolve_unknown"} : Resolve(c, verdict)
    PROVE  /\ UNCHANGED <<draft, view, approved>>
           /\ \/ campaign'.status = campaign.status
              \/ campaign.status = "sending" /\ campaign'.status = "sent"
              \/ campaign.status = "scheduled" /\ campaign'.status \in {"draft", "sending"}
<1>1. campaign \in Campaign /\ walk \in Walk
  BY DEF TypeInv, TypeOK
<1>2. CASE \/ FindDueCampaignCandidates \/ AddKickoff \/ ProducerCrash
           \/ SoftDeleteWorkspace \/ (\E c \in Contact : Drift(c) \/ Unsubscribe(c))
  BY <1>2 DEF FindDueCampaignCandidates, AddKickoff, ProducerCrash, SoftDeleteWorkspace, Drift, Unsubscribe, api
<1>3. CASE TransitionToSending \/ RestoreWorkspace
  <2>1. campaign' \in {campaign, [campaign EXCEPT !.status = "sending"], [campaign EXCEPT !.status = "draft"]}
        /\ (campaign' # campaign => campaign.status = "scheduled")
    BY <1>3 DEF TransitionToSending, RestoreWorkspace, StillDue
  <2>2. UNCHANGED <<draft, view, approved>>
    BY <1>3 DEF TransitionToSending, RestoreWorkspace, api
  <2> QED
    BY <1>1, <2>1, <2>2 DEF Campaign
<1>4. CASE KickoffStart \/ ReadState \/ MaterializeBatch \/ ReadPage \/ WalkRecipient \/ KickoffFails
  BY <1>4 DEF KickoffStart, ReadState, MaterializeBatch, ReadPage, WalkRecipient, KickoffFails, api
<1>5. CASE FinishKickoff
  <2>1. UNCHANGED <<draft, view, approved>>
    BY <1>5 DEF FinishKickoff, api
  <2> QED
    BY <1>1, <1>5, <2>1, FinishedCampaign
<1>6. ASSUME NEW c \in Contact,
             \/ \E result \in {"sent", "failed", "reconciling", "none"} : Dispatch(c, result)
             \/ \E verdict \in {"resolve_sent", "resolve_unknown"} : Resolve(c, verdict)
      PROVE  /\ UNCHANGED <<draft, view, approved>>
             /\ \/ campaign'.status = campaign.status
                \/ campaign.status = "sending" /\ campaign'.status = "sent"
  <2>1. UNCHANGED <<draft, view, approved>> /\ Counted(campaign, campaign')
    BY <1>6, SendTypes
  <2> QED
    BY <2>1 DEF Counted
<1> QED
  BY <1>2, <1>3, <1>4, <1>5, <1>6 DEF Kickoff

ContentInv == ViewFits /\ ContentAsApproved

LEMMA ContentStep ==
    ASSUME TypeInv, ContentInv, [Next]_vars
    PROVE  ContentInv'
<1>1. /\ campaign \in Campaign /\ draft \in Draft /\ view \in View
      /\ view.version \in Nat /\ draft.version \in Nat
  <2>1. MaxVersion \in Nat
    BY FanOutAssumption DEF FanOutAssumption
  <2> QED
    BY <2>1 DEF TypeInv, TypeOK, Draft, View
<1>2. ViewFits /\ ContentAsApproved
  BY DEF ContentInv
<1>3. CASE UNCHANGED vars
  BY <1>2, <1>3 DEF ContentInv, ViewFits, ContentAsApproved, vars, api
<1>4. CASE Load
  BY <1>1, <1>2, <1>4 DEF Load, ContentInv, ViewFits, ContentAsApproved
<1>5. CASE UpdateCampaign
  <2>1. campaign' = campaign /\ campaign.status = "draft" /\ view' = view
    BY <1>5 DEF UpdateCampaign
  <2>2. draft'.version = draft.version + 1
    BY <1>1, <1>5 DEF UpdateCampaign, Draft
  <2> QED
    BY <1>1, <1>2, <2>1, <2>2 DEF ContentInv, ViewFits, ContentAsApproved
<1>6. CASE LaunchCampaign \/ ScheduleCampaign
  <2>1. view.version = draft.version /\ view' = view /\ approved' = view.content
    BY <1>6 DEF LaunchCampaign, ScheduleCampaign
  <2>2. draft'.version = draft.version + 1 /\ draft'.content = draft.content
    BY <1>1, <1>6 DEF LaunchCampaign, ScheduleCampaign, Draft
  <2> QED
    BY <1>1, <1>2, <2>1, <2>2 DEF ContentInv, ViewFits, ContentAsApproved
<1>7. CASE CancelCampaign
  <2>1. campaign.status \in {"scheduled", "sending"} /\ view' = view /\ approved' = approved
    BY <1>7 DEF CancelCampaign
  <2>2. draft'.version = draft.version + 1 /\ draft'.content = draft.content
    BY <1>1, <1>7 DEF CancelCampaign, Draft
  <2> QED
    BY <1>1, <1>2, <2>1, <2>2 DEF ContentInv, ViewFits, ContentAsApproved
<1>8. CASE DeleteCampaign
  <2>1. campaign'.status = "deleted" /\ UNCHANGED <<draft, view, approved>>
    BY <1>1, <1>8 DEF DeleteCampaign, Campaign, api
  <2> QED
    BY <1>2, <2>1 DEF ContentInv, ViewFits, ContentAsApproved
<1>9. CASE PrepareCampaignTestSend \/ BecomeDue
  <2>1. UNCHANGED <<campaign, view, approved>>
    BY <1>9 DEF PrepareCampaignTestSend, BecomeDue
  <2>2. CASE PrepareCampaignTestSend
    <3>1. draft'.version = draft.version + 1 /\ draft'.content = draft.content
      BY <1>1, <2>2 DEF PrepareCampaignTestSend, Draft
    <3> QED
      BY <1>1, <1>2, <2>1, <3>1 DEF ContentInv, ViewFits, ContentAsApproved
  <2>3. CASE BecomeDue
    <3>1. draft'.version = draft.version /\ draft'.content = draft.content
      BY <1>1, <2>3 DEF BecomeDue, Draft
    <3> QED
      BY <1>1, <1>2, <2>1, <3>1 DEF ContentInv, ViewFits, ContentAsApproved
  <2> QED
    BY <1>9, <2>2, <2>3
<1>10. ASSUME /\ UNCHANGED <<draft, view, approved>>
              /\ \/ campaign'.status = campaign.status
                 \/ campaign.status = "sending" /\ campaign'.status = "sent"
                 \/ campaign.status = "scheduled" /\ campaign'.status \in {"draft", "sending"}
       PROVE  ContentInv'
  BY <1>2, <1>10 DEF ContentInv, ViewFits, ContentAsApproved
<1> QED
  BY <1>3, <1>4, <1>5, <1>6, <1>7, <1>8, <1>9, <1>10, BackgroundMoves DEF Next

\* What is scheduled or sent is what the marketer who launched or scheduled it
\* saw: the version check of LaunchCampaign and ScheduleCampaign is enough,
\* because every change of the draft's content raises its version.
THEOREM ContentAsApprovedTheorem == Spec => []ContentAsApproved
<1>1. Init => ContentInv
  BY FanOutAssumption DEF Init, ContentInv, ViewFits, ContentAsApproved, FanOutAssumption
<1>2. ContentInv => ContentAsApproved
  BY DEF ContentInv
<1>3. TypeInv /\ ContentInv /\ [Next]_vars => ContentInv'
  BY ContentStep
<1> QED
  BY <1>1, <1>2, <1>3, TypeInit, TypeStep, PTL DEF Spec

\* A canceled campaign stays canceled until it is deleted: no step of the
\* kickoff, of a send job, of the reconciler or of a marketer starts it again.
THEOREM CancelIsFinalTheorem == Spec => CancelIsFinal
<1>1. ASSUME TypeInv, [Next]_vars, campaign.status = "canceled"
      PROVE  campaign'.status \in {"canceled", "deleted"}
  <2>1. CASE \/ Load \/ UpdateCampaign \/ LaunchCampaign \/ ScheduleCampaign \/ CancelCampaign
             \/ PrepareCampaignTestSend \/ BecomeDue \/ UNCHANGED vars
    BY <1>1, <2>1 DEF Load, UpdateCampaign, LaunchCampaign, ScheduleCampaign, CancelCampaign,
                      PrepareCampaignTestSend, BecomeDue, vars
  <2>2. CASE DeleteCampaign
    BY <1>1, <2>2 DEF DeleteCampaign, TypeInv, TypeOK, Campaign
  <2> QED
    BY <1>1, <2>1, <2>2, BackgroundMoves DEF Next
<1>2. TypeInv /\ [Next]_vars => [campaign.status = "canceled" => campaign'.status \in {"canceled", "deleted"}]_vars
  BY <1>1
<1> QED
  BY <1>2, TypeInit, TypeStep, PTL DEF Spec, CancelIsFinal

-----------------------------------------------------------------------------
(* Nobody is missed                                                        *)

\* The parts of the invariant that the ledger and the send jobs can disturb
\* grow: whoever was handled stays handled.
LEMMA LedgerGrows ==
    ASSUME FanOutInv, RowsFit', \A c \in Contact : Handled(c) => Handled(c)', recipients \subseteq Contact,
           UNCHANGED <<segment, recipients, cursor, kickoff, walk>>,
           campaign'.fanOutComplete = campaign.fanOutComplete,
           campaign'.status = "deleted" <=> campaign.status = "deleted"
    PROVE  FanOutInv'
<1>1. KickoffFits /\ SnapshotFits /\ WalkFits /\ FanOutMissesNobody
  BY DEF FanOutInv
<1>2. KickoffFits'
  BY <1>1 DEF KickoffFits
<1>3. SnapshotFits'
  BY <1>1 DEF SnapshotFits
<1>4. WalkFits'
  BY <1>1 DEF WalkFits
<1>5. FanOutMissesNobody'
  <2>1. \A c \in recipients : Handled(c) => Handled(c)'
    OBVIOUS
  <2>2. FanOutMissesNobody <=>
          (campaign.fanOutComplete /\ campaign.status # "deleted" =>
             Contact \ Drifter \subseteq recipients /\ \A c \in recipients : Handled(c))
    BY DEF FanOutMissesNobody, Handled
  <2>3. FanOutMissesNobody' <=>
          (campaign'.fanOutComplete /\ campaign'.status # "deleted" =>
             Contact \ Drifter \subseteq recipients /\ \A c \in recipients : Handled(c)')
    BY DEF FanOutMissesNobody, Handled
  <2> QED
    BY <1>1, <2>1, <2>2, <2>3
<1> QED
  BY <1>2, <1>3, <1>4, <1>5 DEF FanOutInv

\* A step that leaves the fan-out alone.
Quiet ==
    /\ UNCHANGED <<segment, recipients, cursor, kickoff, walk, row, sendJob>>
    /\ campaign'.fanOutComplete = campaign.fanOutComplete
    /\ campaign'.status = "deleted" <=> campaign.status = "deleted"

LEMMA QuietStep == TypeOK /\ FanOutInv /\ Quiet => FanOutInv'
<1> SUFFICES ASSUME TypeOK, FanOutInv, Quiet PROVE FanOutInv'
  OBVIOUS
<1>1. RowsFit' /\ \A c \in Contact : Handled(c) => Handled(c)'
  BY DEF FanOutInv, Quiet, RowsFit, Handled
<1> QED
  BY <1>1, LedgerGrows DEF TypeOK, Quiet

\* The marketer's steps, the scheduler's, and the audience's: only the
\* deletion of the campaign and the kickoff job's arrival say anything new.
LEMMA FanOutOutside ==
    ASSUME TypeOK, FanOutInv,
           \/ Load \/ UpdateCampaign \/ LaunchCampaign \/ ScheduleCampaign \/ CancelCampaign
           \/ DeleteCampaign \/ PrepareCampaignTestSend \/ BecomeDue
           \/ FindDueCampaignCandidates \/ TransitionToSending \/ AddKickoff \/ ProducerCrash
           \/ SoftDeleteWorkspace \/ RestoreWorkspace \/ \E c \in Contact : Drift(c) \/ Unsubscribe(c)
    PROVE  FanOutInv'
<1>1. campaign \in Campaign /\ kickoff \in KickoffJob /\ segment \subseteq Contact /\ recipients \subseteq Contact
  BY DEF TypeOK
<1>2. KickoffFits /\ RowsFit /\ SnapshotFits /\ WalkFits /\ FanOutMissesNobody
  BY DEF FanOutInv
<1>3. CASE Load \/ UpdateCampaign \/ PrepareCampaignTestSend \/ BecomeDue
  <2>1. Quiet
    BY <1>3 DEF Load, UpdateCampaign, PrepareCampaignTestSend, BecomeDue, Quiet, people, ledger, snapshot, queue
  <2> QED
    BY <2>1, QuietStep
<1>4. CASE LaunchCampaign \/ ScheduleCampaign \/ CancelCampaign \/ TransitionToSending \/ RestoreWorkspace
  <2>1. UNCHANGED <<segment, recipients, cursor, kickoff, walk, row, sendJob>>
    BY <1>4 DEF LaunchCampaign, ScheduleCampaign, CancelCampaign, TransitionToSending, RestoreWorkspace,
                people, ledger, snapshot, queue
  <2>2. \/ campaign' = campaign
        \/ /\ campaign.status # "deleted"
           /\ \E s \in {"sending", "scheduled", "draft", "canceled"} : campaign' = [campaign EXCEPT !.status = s]
    BY <1>4 DEF LaunchCampaign, ScheduleCampaign, CancelCampaign, TransitionToSending, RestoreWorkspace, StillDue
  <2>3. Quiet
    BY <1>1, <2>1, <2>2 DEF Quiet, Campaign
  <2> QED
    BY <2>3, QuietStep
<1>5. CASE FindDueCampaignCandidates \/ ProducerCrash \/ SoftDeleteWorkspace \/ \E c \in Contact : Unsubscribe(c)
  <2>1. Quiet
    BY <1>5 DEF FindDueCampaignCandidates, ProducerCrash, SoftDeleteWorkspace, Unsubscribe, Quiet,
                people, ledger, snapshot, queue
  <2> QED
    BY <2>1, QuietStep
<1>6. CASE DeleteCampaign
  <2>1. UNCHANGED <<segment, kickoff, walk, row, sendJob>>
    BY <1>6 DEF DeleteCampaign, people, ledger, queue
  <2>2. campaign'.status = "deleted" /\ campaign'.fanOutComplete = campaign.fanOutComplete
    BY <1>1, <1>6 DEF DeleteCampaign, Campaign
  <2> QED
    BY <1>2, <2>1, <2>2 DEF FanOutInv, KickoffFits, RowsFit, SnapshotFits, WalkFits, FanOutMissesNobody
<1>7. CASE AddKickoff
  <2>1. UNCHANGED <<campaign, segment, recipients, cursor, walk, row, sendJob>>
    BY <1>7 DEF AddKickoff, people, ledger, snapshot
  <2>2. KickoffFits'
    <3>1. kickoff' = kickoff \/ (kickoff.state = "none" /\ kickoff'.state = "waiting")
      BY <1>1, <1>7 DEF AddKickoff, KickoffJob
    <3> QED
      BY <1>2, <2>1, <3>1 DEF KickoffFits
  <2>3. RowsFit' /\ SnapshotFits' /\ FanOutMissesNobody'
    BY <1>2, <2>1 DEF RowsFit, SnapshotFits, FanOutMissesNobody
  <2>4. WalkFits'
    BY <1>2, <2>1 DEF WalkFits, Handled
  <2> QED
    BY <2>2, <2>3, <2>4 DEF FanOutInv
<1>8. ASSUME NEW c \in Contact, Drift(c) PROVE FanOutInv'
  <2>1. UNCHANGED <<campaign, kickoff, recipients, cursor, walk, row, sendJob>>
    BY <1>8 DEF Drift, ledger, snapshot, queue
  <2>2. Contact \ Drifter \subseteq segment'
    BY <1>2, <1>8 DEF Drift, SnapshotFits
  <2>3. SnapshotFits'
    BY <1>2, <2>1, <2>2 DEF SnapshotFits
  <2>4. KickoffFits' /\ RowsFit' /\ FanOutMissesNobody'
    BY <1>2, <2>1 DEF KickoffFits, RowsFit, FanOutMissesNobody
  <2>5. WalkFits'
    BY <1>2, <2>1 DEF WalkFits, Handled
  <2> QED
    BY <2>3, <2>4, <2>5 DEF FanOutInv
<1> QED
  BY <1>3, <1>4, <1>5, <1>6, <1>7, <1>8

\* The ends of an attempt.  While the job is active the fan-out is unfinished.
LEMMA FanOutAttempts ==
    ASSUME TypeOK, FanOutInv, KickoffStart \/ ReadState \/ KickoffFails
    PROVE  FanOutInv'
<1>1. /\ kickoff \in KickoffJob /\ walk \in Walk
      /\ KickoffFits /\ RowsFit /\ SnapshotFits /\ WalkFits /\ FanOutMissesNobody
  BY DEF TypeOK, FanOutInv
<1>2. UNCHANGED <<campaign, segment, recipients, cursor, row, sendJob>>
  BY DEF KickoffStart, ReadState, KickoffFails, people, ledger, snapshot
<1>3. ~campaign.fanOutComplete
  BY <1>1 DEF KickoffFits, KickoffStart, ReadState, KickoffFails
<1>4. \/ walk'.pc = "entered" /\ kickoff'.state = "active"
      \/ walk'.pc = "snapshot" /\ walk'.after = cursor /\ kickoff'.state = "active"
      \/ walk'.pc = "idle" /\ kickoff'.state # "active"
  <2>1. CASE KickoffStart
    BY <1>1, <2>1 DEF KickoffStart, KickoffJob, NoWalk
  <2>2. CASE ReadState
    <3>1. kickoff.state = "active"
      BY <1>1, <2>2 DEF ReadState, KickoffFits
    <3>2. \/ kickoff' = [kickoff EXCEPT !.state = "completed"] /\ walk' = NoWalk
          \/ walk' = [walk EXCEPT !.pc = "snapshot", !.after = cursor] /\ kickoff' = kickoff
      BY <2>2 DEF ReadState, KickoffReturns
    <3>3. CASE kickoff' = [kickoff EXCEPT !.state = "completed"] /\ walk' = NoWalk
      BY <1>1, <3>3 DEF KickoffJob, NoWalk
    <3>4. CASE walk' = [walk EXCEPT !.pc = "snapshot", !.after = cursor] /\ kickoff' = kickoff
      BY <1>1, <3>1, <3>4 DEF Walk
    <3> QED
      BY <3>2, <3>3, <3>4
  <2>3. CASE KickoffFails
    BY <1>1, <2>3 DEF KickoffFails, KickoffJob, NoWalk
  <2> QED
    BY <2>1, <2>2, <2>3
<1>5. KickoffFits' /\ RowsFit' /\ FanOutMissesNobody'
  BY <1>1, <1>2, <1>3, <1>4 DEF KickoffFits, RowsFit, FanOutMissesNobody
<1>6. SnapshotFits' /\ WalkFits'
  BY <1>1, <1>2, <1>4 DEF SnapshotFits, WalkFits
<1> QED
  BY <1>5, <1>6 DEF FanOutInv

\* A batch of the snapshot: the page lies beyond the cursor, hence beyond
\* everybody in the snapshot, and skips nobody who stayed in the segment.
LEMMA FanOutBatch ==
    ASSUME TypeOK, FanOutInv, MaterializeBatch
    PROVE  FanOutInv'
<1> DEFINE page == KeysetPage(segment, walk.after, SnapshotBatchSize)
           inserted == page \ recipients
           last == Last(inserted, walk.after)
<1>1. /\ walk \in Walk /\ segment \subseteq Contact /\ recipients \subseteq Contact /\ cursor \in Contact \cup {0}
      /\ KickoffFits /\ RowsFit /\ SnapshotFits /\ WalkFits
  BY DEF TypeOK, FanOutInv
<1>2. /\ walk.pc = "snapshot" /\ campaign.status # "deleted" /\ walk.after = cursor
      /\ \A c \in recipients : c <= cursor
      /\ \A c \in Contact \ Drifter : c <= cursor => c \in recipients
      /\ Contact \ Drifter \subseteq segment
  BY <1>1 DEF MaterializeBatch, SnapshotFits
<1>3. UNCHANGED <<campaign, segment, row, sendJob, kickoff>>
  BY DEF MaterializeBatch, people, ledger, queue
<1>4. ~campaign.fanOutComplete /\ kickoff.state = "active"
  BY <1>1, <1>2 DEF KickoffFits
<1>5. Contact \subseteq Nat /\ SnapshotBatchSize \in Nat \ {0} /\ \A c \in Contact : 0 < c
  BY FanOutAssumption DEF FanOutAssumption
<1>6. /\ page \subseteq segment /\ \A d \in page : cursor < d
      /\ \A c \in segment, d \in page : cursor < c /\ c <= d => c \in page
      /\ page = {} => \A c \in segment : c <= cursor
  BY <1>1, <1>2, <1>5, PageIsNext
<1> HIDE DEF page
<1>7. inserted = page
  <2>1. \A d \in page : d \in Nat /\ cursor \in Nat /\ cursor < d
    BY <1>1, <1>5, <1>6
  <2>2. \A d \in recipients : d <= cursor
    BY <1>2
  <2>3. \A d \in page : d \notin recipients
    BY <2>1, <2>2
  <2> QED
    BY <2>3
<1>8. /\ recipients' = recipients \cup page /\ cursor' = Last(page, cursor)
      /\ walk' = IF page = {} THEN [walk EXCEPT !.pc = "page", !.after = 0]
                 ELSE [walk EXCEPT !.after = Last(page, cursor)]
  BY <1>2, <1>7 DEF MaterializeBatch, page
<1>9. CASE page = {}
  <2>1. cursor' = cursor /\ recipients' = recipients /\ walk'.pc = "page" /\ walk'.after = 0
    BY <1>1, <1>8, <1>9 DEF Last, Walk
  <2>2. Contact \ Drifter \subseteq recipients
    BY <1>2, <1>6, <1>9
  <2>3. SnapshotFits'
    BY <1>2, <1>3, <2>1, <2>2 DEF SnapshotFits
  <2>4. WalkFits'
    BY <1>1, <1>5, <2>1 DEF WalkFits
  <2>5. KickoffFits' /\ RowsFit' /\ FanOutMissesNobody'
    BY <1>1, <1>3, <1>4, <2>1 DEF KickoffFits, RowsFit, FanOutMissesNobody
  <2> QED
    BY <2>3, <2>4, <2>5 DEF FanOutInv
<1>10. CASE page # {}
  <2>1. PICK m \in page : m = Last(page, cursor) /\ \A c \in page : c <= m
    BY <1>1, <1>6, <1>10, MinMaxOfContacts DEF Last
  <2>2. cursor' = m /\ walk'.pc = "snapshot" /\ walk'.after = m
    BY <1>1, <1>2, <1>8, <1>10, <2>1 DEF Walk
  <2>3. m \in Contact /\ cursor < m
    BY <1>1, <1>6
  <2>4. \A c \in recipients' : c <= m
    BY <1>1, <1>2, <1>5, <1>8, <2>1, <2>3
  <2>5. \A c \in Contact \ Drifter : c <= m => c \in recipients'
    <3> SUFFICES ASSUME NEW c \in Contact \ Drifter, c <= m PROVE c \in recipients'
      OBVIOUS
    <3>1. CASE c <= cursor
      BY <1>2, <1>8, <3>1
    <3>2. CASE cursor < c
      BY <1>2, <1>6, <1>8, <3>2
    <3> QED
      BY <1>1, <1>5, <3>1, <3>2
  <2>6. SnapshotFits'
    BY <1>2, <1>3, <2>2, <2>4, <2>5 DEF SnapshotFits
  <2>7. WalkFits'
    BY <2>2 DEF WalkFits
  <2>8. KickoffFits' /\ RowsFit' /\ FanOutMissesNobody'
    BY <1>1, <1>3, <1>4, <2>2 DEF KickoffFits, RowsFit, FanOutMissesNobody
  <2> QED
    BY <2>6, <2>7, <2>8 DEF FanOutInv
<1> QED
  BY <1>9, <1>10

\* A page of the snapshot: an empty one has the whole snapshot behind it.
LEMMA FanOutPage ==
    ASSUME TypeOK, FanOutInv, ReadPage
    PROVE  FanOutInv'
<1> DEFINE page == KeysetPage(recipients, walk.after, BreakdownPageSize)
<1>1. /\ walk \in Walk /\ recipients \subseteq Contact /\ walk.after \in Contact \cup {0} /\ kickoff \in KickoffJob
      /\ KickoffFits /\ RowsFit /\ SnapshotFits /\ WalkFits
  BY DEF TypeOK, FanOutInv, Walk
<1>2. UNCHANGED <<campaign, segment, recipients, cursor, row, sendJob>> /\ walk.pc = "page"
  BY DEF ReadPage, people, ledger, snapshot
<1>3. ~campaign.fanOutComplete /\ kickoff.state = "active"
  BY <1>1, <1>2 DEF KickoffFits
<1>4. BreakdownPageSize \in Nat \ {0}
  BY FanOutAssumption DEF FanOutAssumption
<1>5. /\ \A d \in page : walk.after < d
      /\ \A c \in recipients, d \in page : walk.after < c /\ c <= d => c \in page
      /\ page = {} => \A c \in recipients : c <= walk.after
  BY <1>1, <1>4, PageIsNext
<1>6. \/ walk' = NoWalk /\ kickoff' = [kickoff EXCEPT !.state = "completed"]
      \/ page = {} /\ walk' = [walk EXCEPT !.pc = "finish"] /\ kickoff' = kickoff
      \/ /\ walk' = [walk EXCEPT !.pc = "recipients", !.todo = page, !.unsubscribed = optedOut]
         /\ kickoff' = kickoff
  BY DEF ReadPage, KickoffReturns
<1> HIDE DEF page
<1>7. \/ walk'.pc = "idle" /\ kickoff'.state = "completed"
      \/ page = {} /\ walk'.pc = "finish" /\ kickoff'.state = "active"
      \/ walk'.pc = "recipients" /\ walk'.after = walk.after /\ walk'.todo = page /\ kickoff'.state = "active"
  <2>1. CASE walk' = NoWalk /\ kickoff' = [kickoff EXCEPT !.state = "completed"]
    BY <1>1, <2>1 DEF NoWalk, KickoffJob
  <2>2. CASE page = {} /\ walk' = [walk EXCEPT !.pc = "finish"] /\ kickoff' = kickoff
    BY <1>1, <1>3, <2>2 DEF Walk
  <2>3. CASE /\ walk' = [walk EXCEPT !.pc = "recipients", !.todo = page, !.unsubscribed = optedOut]
             /\ kickoff' = kickoff
    BY <1>1, <1>3, <2>3 DEF Walk
  <2> QED
    BY <1>6, <2>1, <2>2, <2>3
<1>8. KickoffFits' /\ RowsFit' /\ FanOutMissesNobody'
  BY <1>1, <1>2, <1>3, <1>7 DEF KickoffFits, RowsFit, FanOutMissesNobody
<1>9. SnapshotFits'
  BY <1>1, <1>2, <1>7 DEF SnapshotFits
<1>10. \A c \in Contact : Handled(c)' = Handled(c)
  BY <1>2 DEF Handled
<1>11. WalkFits'
  BY <1>1, <1>2, <1>5, <1>7, <1>10 DEF WalkFits
<1> QED
  BY <1>8, <1>9, <1>11 DEF FanOutInv

\* One recipient of the page: the least of those left, so the walk has
\* everybody up to it behind it.
LEMMA FanOutRecipient ==
    ASSUME TypeInv, FanOutInv, WalkRecipient
    PROVE  FanOutInv'
<1>1. /\ walk \in Walk /\ recipients \subseteq Contact /\ walk.after \in Contact \cup {0} /\ walk.todo \subseteq Contact
      /\ row \in [Contact -> Row] /\ sendJob \in [Contact -> {"none", "waiting", "done"}]
      /\ KickoffFits /\ RowsFit /\ SnapshotFits /\ WalkFits /\ PageUnderWay
  BY DEF TypeInv, TypeOK, FanOutInv, Walk
<1>2. UNCHANGED <<campaign, segment, recipients, cursor, kickoff>> /\ walk.pc = "recipients"
  BY DEF WalkRecipient, people, snapshot, queue
<1>3. ~campaign.fanOutComplete /\ kickoff.state = "active"
  BY <1>1, <1>2 DEF KickoffFits
<1>4. PICK c \in walk.todo : c = Min(walk.todo) /\ \A d \in walk.todo : c <= d
  BY <1>1, <1>2, MinMaxOfContacts DEF PageUnderWay
<1> DEFINE rest == walk.todo \ {c}
           next == [walk EXCEPT !.todo = rest, !.after = c, !.pc = IF rest = {} THEN "page" ELSE @]
<1>5. \/ /\ sendJob' = [sendJob EXCEPT ![c] = IF @ = "none" THEN "waiting" ELSE @]
         /\ walk' = [next EXCEPT !.sendableTotal = @ + 1] /\ row' = row
      \/ /\ row' = [row EXCEPT ![c] = RecordExcluded(@)]
         /\ walk' = next /\ sendJob' = sendJob
  BY <1>4 DEF WalkRecipient
<1>6. /\ walk'.pc = (IF rest = {} THEN "page" ELSE "recipients")
      /\ walk'.todo = rest /\ walk'.after = c
  BY <1>1, <1>2, <1>5 DEF Walk
<1>7. RowsFit' /\ Handled(c)' /\ \A d \in Contact : Handled(d) => Handled(d)'
  <2>1. RecordExcluded(row[c]).status = IF row[c].status \in {"none", "excluded"} THEN "excluded" ELSE row[c].status
    BY <1>1, RowStatements
  <2>2. c \in Contact /\ (row[c].status \notin {"none", "excluded"} => sendJob[c] # "none")
    BY <1>1 DEF RowsFit
  <2>3. CASE /\ sendJob' = [sendJob EXCEPT ![c] = IF @ = "none" THEN "waiting" ELSE @]
             /\ row' = row
    BY <1>1, <2>2, <2>3 DEF RowsFit, Handled
  <2>4. CASE row' = [row EXCEPT ![c] = RecordExcluded(@)] /\ sendJob' = sendJob
    BY <1>1, <2>1, <2>2, <2>4 DEF RowsFit, Handled
  <2> QED
    BY <1>5, <2>3, <2>4
<1>8. KickoffFits' /\ FanOutMissesNobody'
  BY <1>1, <1>2, <1>3, <1>6 DEF KickoffFits, FanOutMissesNobody
<1>9. SnapshotFits'
  BY <1>1, <1>2, <1>6 DEF SnapshotFits
<1>10. WalkFits'
  <2> SUFFICES ASSUME campaign.status # "deleted"
               PROVE  /\ \A d \in recipients : d <= c => Handled(d)'
                      /\ \A d \in rest : c < d /\ \A e \in recipients : c < e /\ e <= d => e \in rest
    BY <1>2, <1>6 DEF WalkFits
  <2>1. /\ \A d \in recipients : d <= walk.after => Handled(d)
        /\ \A d \in walk.todo :
             walk.after < d /\ \A e \in recipients : walk.after < e /\ e <= d => e \in walk.todo
    BY <1>1, <1>2 DEF WalkFits
  <2>2. walk.after \in Nat /\ c \in Nat /\ \A d \in Contact : d \in Nat
    <3>1. \A d \in Contact : d \in Nat
      BY FanOutAssumption DEF FanOutAssumption
    <3> QED
      BY <1>1, <3>1
  <2>3. ASSUME NEW d \in recipients, d <= c PROVE Handled(d)'
    <3>0. d \in Nat
      BY <1>1, <2>2
    <3>1. CASE d <= walk.after
      BY <1>1, <1>7, <2>1, <3>1
    <3>2. CASE walk.after < d
      <4>1. d \in walk.todo
        BY <2>1, <2>3, <3>2
      <4>2. d = c
        BY <1>4, <2>2, <2>3, <3>0, <4>1
      <4> QED
        BY <1>7, <4>2
    <3> QED
      BY <2>2, <3>0, <3>1, <3>2
  <2>4. ASSUME NEW d \in rest PROVE c < d /\ \A e \in recipients : c < e /\ e <= d => e \in rest
    <3>0. d \in Nat /\ c <= d /\ c # d /\ walk.after < c
      BY <1>1, <1>4, <2>1, <2>2
    <3>1. c < d
      BY <2>2, <3>0
    <3>2. ASSUME NEW e \in recipients, c < e, e <= d PROVE e \in rest
      <4>1. e \in Nat /\ walk.after < e /\ e # c
        BY <1>1, <2>2, <3>0, <3>2
      <4>2. e \in walk.todo
        BY <2>1, <3>2, <4>1
      <4> QED
        BY <4>1, <4>2
    <3> QED
      BY <3>1, <3>2
  <2> QED
    BY <2>3, <2>4
<1> QED
  BY <1>7, <1>8, <1>9, <1>10 DEF FanOutInv

\* The last transaction: the walk has the whole snapshot behind it, and the
\* snapshot has everybody.
LEMMA FanOutFinish ==
    ASSUME TypeOK, FanOutInv, FinishKickoff
    PROVE  FanOutInv'
<1>1. /\ campaign \in Campaign /\ walk \in Walk /\ kickoff \in KickoffJob /\ recipients \subseteq Contact
      /\ KickoffFits /\ RowsFit /\ SnapshotFits /\ WalkFits
  BY DEF TypeOK, FanOutInv
<1>2. UNCHANGED <<segment, recipients, cursor, row, sendJob>> /\ walk.pc = "finish"
  BY <1>1 DEF FinishKickoff, people, ledger, snapshot
<1>3. walk'.pc = "idle" /\ kickoff'.state = "completed"
  BY <1>1 DEF FinishKickoff, KickoffReturns, NoWalk, KickoffJob
<1>4. campaign'.status = "deleted" <=> campaign.status = "deleted"
  BY <1>1, FinishedCampaign
<1>5. campaign.status # "deleted" => Contact \ Drifter \subseteq recipients /\ \A c \in recipients : Handled(c)
  BY <1>1, <1>2 DEF SnapshotFits, WalkFits
<1>6. FanOutMissesNobody'
  BY <1>2, <1>4, <1>5 DEF FanOutMissesNobody, Handled
<1>7. KickoffFits' /\ RowsFit' /\ WalkFits'
  BY <1>1, <1>2, <1>3 DEF KickoffFits, RowsFit, WalkFits
<1>8. SnapshotFits'
  BY <1>1, <1>2, <1>3, <1>4 DEF SnapshotFits
<1> QED
  BY <1>6, <1>7, <1>8 DEF FanOutInv

\* A send job and the reconciler: what they write, a send job wrote before.
LEMMA FanOutSend ==
    ASSUME TypeInv, FanOutInv, NEW c \in Contact,
           \/ \E result \in {"sent", "failed", "reconciling", "none"} : Dispatch(c, result)
           \/ \E verdict \in {"resolve_sent", "resolve_unknown"} : Resolve(c, verdict)
    PROVE  FanOutInv'
<1>1. /\ row \in [Contact -> Row] /\ sendJob \in [Contact -> {"none", "waiting", "done"}] /\ recipients \subseteq Contact
      /\ RowsFit
  BY DEF TypeInv, TypeOK, FanOutInv
<1>2. Counted(campaign, campaign') /\ UNCHANGED <<segment, recipients, cursor, kickoff, walk>>
  BY SendTypes
<1>3. RowsFit' /\ \A d \in Contact : Handled(d) => Handled(d)'
  <2>1. ASSUME NEW result \in {"sent", "failed", "reconciling", "none"}, Dispatch(c, result)
        PROVE  RowsFit' /\ \A d \in Contact : Handled(d) => Handled(d)'
    <3>1. sendJob' = [sendJob EXCEPT ![c] = "done"] /\ \E r : row' = [row EXCEPT ![c] = r]
      <4>1. sendJob' = [sendJob EXCEPT ![c] = "done"]
        BY <2>1 DEF Dispatch
      <4>2. \/ row' = row
            \/ row' = [row EXCEPT ![c] = RecordExcluded(@)]
            \/ row' = [row EXCEPT ![c] = RecordSendResult(InsertDispatching, result)]
        BY <2>1 DEF Dispatch
      <4>3. row = [row EXCEPT ![c] = row[c]]
        BY <1>1
      <4> QED
        BY <4>1, <4>2, <4>3
    <3> QED
      BY <1>1, <3>1 DEF RowsFit, Handled
  <2>2. ASSUME NEW verdict \in {"resolve_sent", "resolve_unknown"}, Resolve(c, verdict)
        PROVE  RowsFit' /\ \A d \in Contact : Handled(d) => Handled(d)'
    <3>1. sendJob' = sendJob /\ row[c].status \in Ambiguous /\ \E r : row' = [row EXCEPT ![c] = r]
      BY <2>2 DEF Resolve, Ambiguous
    <3>2. sendJob[c] # "none"
      BY <1>1, <3>1 DEF RowsFit, Ambiguous
    <3> QED
      BY <1>1, <3>1, <3>2 DEF RowsFit, Handled
  <2> QED
    BY <2>1, <2>2
<1>4. campaign'.fanOutComplete = campaign.fanOutComplete /\ (campaign'.status = "deleted" <=> campaign.status = "deleted")
  BY <1>2 DEF Counted
<1> QED
  BY <1>1, <1>2, <1>3, <1>4, LedgerGrows

\* The walks keep their invariant.
LEMMA FanOutInvariant == Spec => []FanOutInv
<1>1. Init => FanOutInv
  <2> SUFFICES ASSUME Init PROVE FanOutInv
    OBVIOUS
  <2>1. /\ campaign.fanOutComplete = FALSE /\ walk.pc = "idle" /\ kickoff.state = "none"
        /\ recipients = {} /\ cursor = 0 /\ Contact \ Drifter \subseteq segment
        /\ \A c \in Contact : row[c].status = "none"
    BY DEF Init, NoWalk, NoRow
  <2>2. \A c \in Contact : c \in Nat /\ ~(c <= 0)
    BY FanOutAssumption DEF FanOutAssumption
  <2> QED
    BY <2>1, <2>2 DEF FanOutInv, KickoffFits, RowsFit, SnapshotFits, WalkFits, FanOutMissesNobody
<1>2. TypeInv /\ FanOutInv /\ [Next]_vars => FanOutInv'
  <2> SUFFICES ASSUME TypeInv, FanOutInv, [Next]_vars PROVE FanOutInv'
    OBVIOUS
  <2>1. TypeOK
    BY DEF TypeInv
  <2>2. CASE UNCHANGED vars
    <3>1. Quiet
      BY <2>2 DEF vars, people, ledger, snapshot, queue, Quiet
    <3> QED
      BY <2>1, <3>1, QuietStep
  <2> QED
    BY <2>1, <2>2, FanOutOutside, FanOutAttempts, FanOutBatch, FanOutPage, FanOutRecipient, FanOutFinish, FanOutSend
    DEF Next, Kickoff
<1> QED
  BY <1>1, <1>2, TypeInit, TypeStep, PTL DEF Spec

\* Once fan-out is complete nobody is missing, for any audience, any pages and
\* any number of crashed or repeated attempts: the persisted cursor is a bound
\* on the snapshot, and a keyset page skips nobody.
THEOREM FanOutMissesNobodyTheorem == Spec => []FanOutMissesNobody
<1>1. FanOutInv => FanOutMissesNobody
  BY DEF FanOutInv
<1> QED
  BY <1>1, FanOutInvariant, PTL

-----------------------------------------------------------------------------
(* How a campaign is stranded                                              *)

\* The kickoff job is owed once: by nobody before the campaign is sending, and
\* by nobody who is after it has been added.
JobOwed ==
    /\ campaign.status \in {"draft", "scheduled"} => ~owed /\ kickoff.state = "none"
    /\ owed => kickoff.state = "none"

KnownStranding ==
    \/ ProducerMayCrash /\ owed /\ kickoff.state = "none"
    \/ softDeleted /\ walk.pc = "entered"
    \/ kickoff.made = MaxAttempts /\ kickoff'.state = "failed"

Accounted == JobOwed' /\ (~Stranded /\ Stranded' => KnownStranding)

\* The API and the scheduler: who commits 'sending' owes the job, and stops
\* owing it by adding it or by dying.
LEMMA ProducersAccount ==
    ASSUME TypeInv, JobOwed,
           \/ LaunchCampaign \/ ScheduleCampaign \/ CancelCampaign \/ DeleteCampaign
           \/ TransitionToSending \/ AddKickoff \/ ProducerCrash \/ RestoreWorkspace
    PROVE  Accounted
<1>1. campaign \in Campaign /\ kickoff \in KickoffJob /\ owed \in BOOLEAN
  BY DEF TypeInv, TypeOK
<1>2. \A s \in CampaignStatus : /\ [campaign EXCEPT !.status = s].status = s
                               /\ [campaign EXCEPT !.status = s].fanOutComplete = campaign.fanOutComplete
  BY <1>1 DEF Campaign
<1>3. {"draft", "scheduled", "sending", "sent", "canceled", "deleted"} \subseteq CampaignStatus
  BY DEF CampaignStatus
<1>4. CASE LaunchCampaign \/ (TransitionToSending /\ StillDue)
  <2>1. /\ campaign.status \in {"draft", "scheduled"} /\ campaign' = [campaign EXCEPT !.status = "sending"]
        /\ owed' = TRUE /\ kickoff' = kickoff
    BY <1>4 DEF LaunchCampaign, TransitionToSending, StillDue
  <2>2. campaign'.status = "sending"
    BY <1>2, <1>3, <2>1
  <2> QED
    BY <2>1, <2>2 DEF JobOwed, Accounted, Stranded
<1>5. CASE ScheduleCampaign \/ CancelCampaign \/ DeleteCampaign \/ RestoreWorkspace
  <2>1. owed' = owed /\ kickoff' = kickoff
    BY <1>5 DEF ScheduleCampaign, CancelCampaign, DeleteCampaign, RestoreWorkspace, queue
  <2>2. \/ campaign' = campaign
        \/ campaign.status \in {"draft", "scheduled"} /\ campaign'.status \in {"draft", "scheduled"}
        \/ campaign'.status \in {"canceled", "deleted"}
    <3>1. CASE ScheduleCampaign
      BY <1>2, <1>3, <3>1 DEF ScheduleCampaign
    <3>2. CASE CancelCampaign
      <4>1. /\ campaign.status \in {"scheduled", "sending"}
            /\ campaign' = [campaign EXCEPT !.status = IF campaign.status = "scheduled" THEN "draft" ELSE "canceled"]
        BY <3>2 DEF CancelCampaign
      <4> QED
        BY <1>2, <1>3, <4>1
    <3>3. CASE DeleteCampaign
      BY <1>2, <1>3, <3>3 DEF DeleteCampaign
    <3>4. CASE RestoreWorkspace
      BY <1>2, <1>3, <3>4 DEF RestoreWorkspace, StillDue
    <3> QED
      BY <1>5, <3>1, <3>2, <3>3, <3>4
  <2> QED
    BY <2>1, <2>2 DEF JobOwed, Accounted, Stranded
<1>6. CASE TransitionToSending /\ ~StillDue
  BY <1>6 DEF TransitionToSending, JobOwed, Accounted, Stranded
<1>7. CASE AddKickoff
  <2>1. owed /\ owed' = FALSE /\ campaign' = campaign /\ kickoff' = [kickoff EXCEPT !.state = "waiting"]
    BY <1>7 DEF AddKickoff, JobOwed
  <2>2. kickoff'.state = "waiting"
    BY <1>1, <2>1 DEF KickoffJob
  <2> QED
    BY <2>1, <2>2 DEF JobOwed, Accounted, Stranded
<1>8. CASE ProducerCrash
  BY <1>8 DEF ProducerCrash, JobOwed, Accounted, Stranded, KnownStranding
<1> QED
  BY <1>4, <1>5, <1>6, <1>7, <1>8

\* The kickoff job ends with the campaign fanned out or off, or as one knows.
LEMMA KickoffAccounts ==
    ASSUME TypeInv, KickoffFits, JobOwed,
           KickoffStart \/ ReadState \/ ReadPage \/ FinishKickoff \/ KickoffFails
    PROVE  Accounted
<1>1. campaign \in Campaign /\ kickoff \in KickoffJob /\ walk \in Walk
  BY DEF TypeInv, TypeOK
<1>2. owed' = owed /\ ~owed /\ campaign.status \notin {"draft", "scheduled"}
  <2>1. owed' = owed /\ kickoff.state # "none"
    BY DEF KickoffStart, ReadState, ReadPage, FinishKickoff, KickoffFails, KickoffFits
  <2> QED
    BY <2>1 DEF JobOwed
<1>3. campaign'.status \notin {"draft", "scheduled"}
  <2>1. CASE FinishKickoff
    BY <1>1, <1>2, <2>1, FinishedCampaign
  <2>2. CASE KickoffStart \/ ReadState \/ ReadPage \/ KickoffFails
    BY <1>2, <2>2 DEF KickoffStart, ReadState, ReadPage, KickoffFails
  <2> QED
    BY <2>1, <2>2
<1>4. JobOwed'
  BY <1>2, <1>3 DEF JobOwed
<1>5. ASSUME Stranded' PROVE KnownStranding
  <2>1. campaign'.status = "sending" /\ ~campaign'.fanOutComplete /\ kickoff'.state \notin {"waiting", "active"}
    BY <1>5 DEF Stranded
  <2>2. CASE KickoffStart
    <3>1. kickoff'.state = "active"
      BY <1>1, <2>2 DEF KickoffStart, KickoffJob
    <3> QED
      BY <2>1, <3>1
  <2>3. CASE ReadState \/ ReadPage
    <3>1. campaign' = campaign /\ (kickoff' = kickoff => kickoff'.state = "active")
      BY <2>3 DEF ReadState, ReadPage, KickoffFits
    <3> QED
      BY <2>1, <2>3, <3>1 DEF ReadState, ReadPage, KnownStranding
  <2>4. CASE FinishKickoff
    <3> DEFINE totals == [campaign EXCEPT !.sendableTotal = walk.sendableTotal, !.fanOutComplete = TRUE]
    <3>1. /\ totals \in Campaign /\ totals.fanOutComplete
          /\ [totals EXCEPT !.status = "sent"].fanOutComplete
      BY <1>1 DEF Campaign, Walk
    <3>2. \/ campaign.status # "sending" /\ campaign' = campaign
          \/ campaign' = [totals EXCEPT !.status = "sent"]
          \/ campaign' = TryCompleteCampaign(totals, AmbiguousCount(row))
      BY <2>4 DEF FinishKickoff
    <3> HIDE DEF totals
    <3>3. TryCompleteCampaign(totals, AmbiguousCount(row)).fanOutComplete
      BY <3>1, AmbiguousCountType, CampaignStatements DEF Counted
    <3> QED
      BY <2>1, <3>1, <3>2, <3>3
  <2>5. CASE KickoffFails
    <3>1. kickoff'.state = IF kickoff.made < MaxAttempts THEN "waiting" ELSE "failed"
      BY <1>1, <2>5 DEF KickoffFails, KickoffJob
    <3>2. kickoff.made \in 0 .. MaxAttempts /\ MaxAttempts \in Nat
      BY <1>1, FanOutAssumption DEF KickoffJob, FanOutAssumption
    <3>3. ~(kickoff.made < MaxAttempts) => kickoff.made = MaxAttempts
      BY <3>2
    <3> QED
      BY <2>1, <3>1, <3>3 DEF KnownStranding
  <2> QED
    BY <2>2, <2>3, <2>4, <2>5
<1> QED
  BY <1>4, <1>5 DEF Accounted

\* Whatever order the API, the scheduler, the kickoff job and the send jobs
\* come in, a campaign that is sending keeps somebody who will fan it out,
\* unless the process that owes the kickoff job dies, the job meets the
\* workspace soft-deleted, or its last attempt fails.
THEOREM StrandedOnlyAsKnownTheorem == Spec => StrandedOnlyAsKnown
<1>1. Init => JobOwed
  BY DEF Init, JobOwed
<1>2. ASSUME TypeInv, FanOutInv, JobOwed, [Next]_vars PROVE Accounted
  <2>1. KickoffFits
    BY <1>2 DEF FanOutInv
  <2>2. ASSUME UNCHANGED <<owed, kickoff>>, Counted(campaign, campaign') PROVE Accounted
    BY <1>2, <2>2 DEF Counted, JobOwed, Accounted, Stranded
  <2>3. ASSUME UNCHANGED <<owed, kickoff, campaign>> PROVE Accounted
    BY <1>2, <2>3 DEF JobOwed, Accounted, Stranded
  <2>4. CASE \/ Load \/ UpdateCampaign \/ PrepareCampaignTestSend \/ BecomeDue \/ FindDueCampaignCandidates
             \/ SoftDeleteWorkspace \/ (\E c \in Contact : Drift(c) \/ Unsubscribe(c))
             \/ MaterializeBatch \/ WalkRecipient \/ UNCHANGED vars
    BY <2>3, <2>4 DEF Load, UpdateCampaign, PrepareCampaignTestSend, BecomeDue, FindDueCampaignCandidates,
         SoftDeleteWorkspace, Drift, Unsubscribe, MaterializeBatch, WalkRecipient, vars, queue
  <2>5. ASSUME NEW c \in Contact,
               \/ \E result \in {"sent", "failed", "reconciling", "none"} : Dispatch(c, result)
               \/ \E verdict \in {"resolve_sent", "resolve_unknown"} : Resolve(c, verdict)
        PROVE  Accounted
    <3>1. Counted(campaign, campaign')
      BY <1>2, <2>5, SendTypes
    <3>2. UNCHANGED <<owed, kickoff>>
      BY <2>5 DEF Dispatch, Resolve, queue
    <3> QED
      BY <2>2, <3>1, <3>2
  <2> QED
    BY <1>2, <2>1, <2>4, <2>5, ProducersAccount, KickoffAccounts DEF Next, Kickoff
<1>3. TypeInv /\ FanOutInv /\ JobOwed /\ [Next]_vars =>
        /\ JobOwed'
        /\ [~Stranded /\ Stranded' =>
              \/ ProducerMayCrash /\ owed /\ kickoff.state = "none"
              \/ softDeleted /\ walk.pc = "entered"
              \/ kickoff.made = MaxAttempts /\ kickoff'.state = "failed"]_vars
  BY <1>2 DEF Accounted, KnownStranding
<1> QED
  BY <1>1, <1>3, TypeInit, TypeStep, FanOutInvariant, PTL DEF Spec, StrandedOnlyAsKnown

-----------------------------------------------------------------------------
(* Nobody is left when the campaign is completed                           *)

\* The gate does not change its mind between two walks, since no contact opts
\* out and a send does not count against the next, or there is one walk only.
GateStands == (Fickle = {} /\ ~OneSendReachesCap) \/ MaxFaults = 0

Queued      == {c \in Contact : sendJob[c] # "none"}
QueuedTo(a) == {c \in Contact : c <= a /\ sendJob[c] # "none"}
Finished    == {c \in Contact : row[c].status \in {"sent", "failed"}}

\* Send jobs are of recipients, and so are the contacts of the page under way.
JobsFit ==
    /\ kickoff.state = "active" => kickoff.made > 0
    /\ walk.unsubscribed \subseteq Fickle
    /\ campaign.status # "deleted" =>
         /\ Queued \subseteq recipients
         /\ walk.pc = "recipients" => walk.todo \subseteq recipients

\* If no attempt fails, the walk finds nobody queued who lies before it.
FirstWalk ==
    MaxFaults = 0 /\ campaign.status # "deleted" =>
      /\ kickoff.state \in {"none", "waiting"} \/ walk.pc \in {"entered", "snapshot"} => Queued = {}
      /\ walk.pc \in {"page", "recipients"} => \A c \in Contact : walk.after < c => sendJob[c] = "none"

\* The counters count no row twice, and the total misses no send job: neither
\* the walk's, of those it has behind it, nor the campaign's.
TotalsFit ==
    /\ campaign.sentCount + campaign.failedCount <= Cardinality(Finished)
    /\ campaign.status # "deleted" =>
         /\ walk.pc \in {"page", "recipients"} => Cardinality(QueuedTo(walk.after)) <= walk.sendableTotal
         /\ walk.pc = "finish" => Cardinality(Queued) <= walk.sendableTotal
         /\ campaign.fanOutComplete => Cardinality(Queued) <= campaign.sendableTotal
    /\ campaign.status = "sent" => campaign.fanOutComplete

CompletionInv == JobsFit /\ FirstWalk /\ TotalsFit /\ CompletedMeansSettled

\* Sets of contacts are finite and their sizes follow inclusion.
LEMMA Sizes ==
    /\ \A S \in SUBSET Contact : IsFiniteSet(S) /\ Cardinality(S) \in Nat
    /\ \A S, T \in SUBSET Contact : S \subseteq T => Cardinality(S) <= Cardinality(T)
    /\ \A S \in SUBSET Contact, c \in Contact :
         Cardinality(S \cup {c}) = IF c \in S THEN Cardinality(S) ELSE Cardinality(S) + 1
<1>1. IsFiniteSet(Contact)
  BY FanOutAssumption DEF FanOutAssumption
<1>2. \A S \in SUBSET Contact : IsFiniteSet(S) /\ Cardinality(S) \in Nat
  BY <1>1, FS_Subset, FS_CardinalityType
<1>3. ASSUME NEW S \in SUBSET Contact, NEW T \in SUBSET Contact, S \subseteq T
      PROVE  Cardinality(S) <= Cardinality(T)
  BY <1>2, <1>3, FS_Subset
<1>4. ASSUME NEW S \in SUBSET Contact, NEW c \in Contact
      PROVE  Cardinality(S \cup {c}) = IF c \in S THEN Cardinality(S) ELSE Cardinality(S) + 1
  BY <1>2, FS_AddElement
<1> QED
  BY <1>2, <1>3, <1>4

\* If the campaign's results are as many as its send jobs, every send job has one.
LEMMA EverybodySettled ==
    ASSUME NEW rs \in [Contact -> Row], NEW js, NEW results \in Nat, NEW total \in Nat,
           \A c \in Contact : rs[c].status \notin {"none", "excluded"} => js[c] # "none",
           results <= Cardinality({c \in Contact : rs[c].status \in {"sent", "failed"}}),
           Cardinality({c \in Contact : js[c] # "none"}) <= total,
           results + AmbiguousCount(rs) >= total
    PROVE  \A c \in Contact : js[c] # "none" => rs[c].status \in {"sent", "failed"} \cup Ambiguous
<1> DEFINE F == {c \in Contact : rs[c].status \in {"sent", "failed"}}
           A == {c \in Contact : rs[c].status \in Ambiguous}
           Q == {c \in Contact : js[c] # "none"}
<1>1. F \in SUBSET Contact /\ A \in SUBSET Contact /\ Q \in SUBSET Contact
  OBVIOUS
<1>2. F \cap A = {} /\ F \cup A \subseteq Q
  BY DEF Ambiguous
<1>3. AmbiguousCount(rs) = Cardinality(A)
  BY DEF AmbiguousCount
<1>4. results <= Cardinality(F) /\ Cardinality(Q) <= total /\ results + Cardinality(A) >= total
  BY <1>3
<1>5. SUFFICES Q \subseteq F \cup A
  OBVIOUS
<1> HIDE DEF F, A, Q
<1>6. /\ IsFiniteSet(F) /\ IsFiniteSet(A) /\ IsFiniteSet(Q)
      /\ Cardinality(F) \in Nat /\ Cardinality(A) \in Nat /\ Cardinality(Q) \in Nat
  BY <1>1, Sizes
<1>7. Cardinality(F \cup A) = Cardinality(F) + Cardinality(A)
  <2>1. Cardinality(F \cap A) = 0
    BY <1>2, FS_EmptySet
  <2>2. Cardinality(F \cup A) = Cardinality(F) + Cardinality(A) - Cardinality(F \cap A)
    BY <1>6, FS_Union
  <2> QED
    BY <1>6, <2>1, <2>2
<1>8. Cardinality(F \cup A) <= Cardinality(Q)
  BY <1>2, <1>6, FS_Subset
<1>9. Cardinality(F \cup A) = Cardinality(Q)
  BY <1>4, <1>6, <1>7, <1>8
<1> QED
  BY <1>2, <1>6, <1>9, FS_Subset

\* What the statements on the campaign row do to its numbers, and when they
\* complete it.
Completed(c, d, results, n) ==
    /\ d.sendableTotal = c.sendableTotal /\ d.fanOutComplete = c.fanOutComplete
    /\ d.sentCount + d.failedCount = results
    /\ d.status = c.status \/ (c.status = "sending" /\ d.status = "sent" /\ c.fanOutComplete
                               /\ results + n >= c.sendableTotal)

LEMMA CompletionStatements ==
    ASSUME NEW c \in Campaign, NEW n \in Nat
    PROVE  /\ Completed(c, TryCompleteCampaign(c, n), c.sentCount + c.failedCount, n)
           /\ c.status = "sending" =>
                /\ Completed(c, TryCompleteCampaign(IncrementSent(c), n), c.sentCount + c.failedCount + 1, n)
                /\ Completed(c, TryCompleteCampaign(IncrementFailed(c), n), c.sentCount + c.failedCount + 1, n)
           /\ Completed(c, TryCompleteCampaign(BackfillSent(c), n), c.sentCount + c.failedCount + 1, n)
<1> DEFINE Same(d, e) == /\ d \in Campaign /\ e.status = d.status /\ e.fanOutComplete = d.fanOutComplete
                         /\ e.sendableTotal = d.sendableTotal
<1>1. ASSUME NEW d \in Campaign
      PROVE  Completed(d, TryCompleteCampaign(d, n), d.sentCount + d.failedCount, n)
  BY DEF Completed, TryCompleteCampaign, Campaign, CampaignStatus
<1>2. c.status = "sending" =>
        /\ IncrementSent(c) \in Campaign /\ Same(c, IncrementSent(c))
        /\ IncrementSent(c).sentCount + IncrementSent(c).failedCount = c.sentCount + c.failedCount + 1
        /\ IncrementFailed(c) \in Campaign /\ Same(c, IncrementFailed(c))
        /\ IncrementFailed(c).sentCount + IncrementFailed(c).failedCount = c.sentCount + c.failedCount + 1
  BY DEF IncrementSent, IncrementFailed, Campaign
<1>3. /\ BackfillSent(c) \in Campaign /\ Same(c, BackfillSent(c))
      /\ BackfillSent(c).sentCount + BackfillSent(c).failedCount = c.sentCount + c.failedCount + 1
  BY DEF BackfillSent, Campaign
<1>4. ASSUME c.status = "sending"
      PROVE  /\ Completed(c, TryCompleteCampaign(IncrementSent(c), n), c.sentCount + c.failedCount + 1, n)
             /\ Completed(c, TryCompleteCampaign(IncrementFailed(c), n), c.sentCount + c.failedCount + 1, n)
  <2>1. Completed(IncrementSent(c), TryCompleteCampaign(IncrementSent(c), n), c.sentCount + c.failedCount + 1, n)
    BY <1>1, <1>2, <1>4
  <2>2. Completed(IncrementFailed(c), TryCompleteCampaign(IncrementFailed(c), n), c.sentCount + c.failedCount + 1, n)
    BY <1>1, <1>2, <1>4
  <2> QED
    BY <1>2, <1>4, <2>1, <2>2 DEF Completed
<1>5. Completed(c, TryCompleteCampaign(BackfillSent(c), n), c.sentCount + c.failedCount + 1, n)
  <2>1. Completed(BackfillSent(c), TryCompleteCampaign(BackfillSent(c), n), c.sentCount + c.failedCount + 1, n)
    BY <1>1, <1>3
  <2> QED
    BY <1>3, <2>1 DEF Completed
<1> QED
  BY <1>1, <1>4, <1>5

\* A step that leaves jobs, ledger, walk and numbers alone.
Idle ==
    /\ UNCHANGED <<recipients, kickoff, walk, row, sendJob>>
    /\ campaign'.sentCount = campaign.sentCount /\ campaign'.failedCount = campaign.failedCount
    /\ campaign'.sendableTotal = campaign.sendableTotal /\ campaign'.fanOutComplete = campaign.fanOutComplete
    /\ campaign'.status = "deleted" <=> campaign.status = "deleted"
    /\ campaign'.status = "sent" => campaign.status = "sent"

LEMMA IdleStep == CompletionInv /\ Idle => CompletionInv'
<1> SUFFICES ASSUME CompletionInv, Idle PROVE CompletionInv'
  OBVIOUS
<1>1. Queued' = Queued /\ Finished' = Finished /\ QueuedTo(walk.after)' = QueuedTo(walk.after)
  BY DEF Idle, Queued, QueuedTo, Finished
<1>2. JobsFit' /\ FirstWalk'
  BY <1>1 DEF CompletionInv, Idle, JobsFit, FirstWalk
<1>3. TotalsFit'
  BY <1>1 DEF CompletionInv, Idle, TotalsFit
<1>4. CompletedMeansSettled'
  BY DEF CompletionInv, Idle, CompletedMeansSettled
<1> QED
  BY <1>2, <1>3, <1>4 DEF CompletionInv

\* The marketer, the scheduler and the audience.
LEMMA CompletionOutside ==
    ASSUME TypeOK, CompletionInv,
           \/ Load \/ UpdateCampaign \/ LaunchCampaign \/ ScheduleCampaign \/ CancelCampaign
           \/ DeleteCampaign \/ PrepareCampaignTestSend \/ BecomeDue
           \/ FindDueCampaignCandidates \/ TransitionToSending \/ AddKickoff \/ ProducerCrash
           \/ SoftDeleteWorkspace \/ RestoreWorkspace \/ \E c \in Contact : Drift(c) \/ Unsubscribe(c)
    PROVE  CompletionInv'
<1>1. campaign \in Campaign /\ kickoff \in KickoffJob
  BY DEF TypeOK
<1>2. JobsFit /\ FirstWalk /\ TotalsFit /\ CompletedMeansSettled
  BY DEF CompletionInv
<1>3. CASE Load \/ UpdateCampaign \/ PrepareCampaignTestSend \/ BecomeDue
  <2>1. UNCHANGED <<campaign, recipients, kickoff, walk, row, sendJob>>
    BY <1>3, ZenonT(40) DEF Load, UpdateCampaign, PrepareCampaignTestSend, BecomeDue, people, ledger, snapshot, queue
  <2>2. Idle
    BY <2>1 DEF Idle
  <2> QED
    BY <2>2, IdleStep
<1>4. CASE LaunchCampaign \/ ScheduleCampaign \/ CancelCampaign \/ TransitionToSending \/ RestoreWorkspace
  <2>1. UNCHANGED <<recipients, kickoff, walk, row, sendJob>>
    BY <1>4 DEF LaunchCampaign, ScheduleCampaign, CancelCampaign, TransitionToSending, RestoreWorkspace,
                people, ledger, snapshot, queue
  <2>2. \/ campaign' = campaign
        \/ /\ campaign.status # "deleted"
           /\ \E s \in {"sending", "scheduled", "draft", "canceled"} : campaign' = [campaign EXCEPT !.status = s]
    BY <1>4 DEF LaunchCampaign, ScheduleCampaign, CancelCampaign, TransitionToSending, RestoreWorkspace, StillDue
  <2>3. Idle
    BY <1>1, <2>1, <2>2 DEF Idle, Campaign
  <2> QED
    BY <2>3, IdleStep
<1>5. CASE \/ FindDueCampaignCandidates \/ ProducerCrash \/ SoftDeleteWorkspace
           \/ \E c \in Contact : Drift(c) \/ Unsubscribe(c)
  <2>1. UNCHANGED <<campaign, recipients, kickoff, walk, row, sendJob>>
    BY <1>5 DEF FindDueCampaignCandidates, ProducerCrash, SoftDeleteWorkspace, Drift, Unsubscribe,
                ledger, snapshot, queue
  <2>2. Idle
    BY <2>1 DEF Idle
  <2> QED
    BY <2>2, IdleStep
<1>6. CASE DeleteCampaign
  <2>1. UNCHANGED <<kickoff, walk, row, sendJob>>
    BY <1>6 DEF DeleteCampaign, people, ledger, queue
  <2>2. campaign'.status = "deleted" /\ campaign'.sentCount = campaign.sentCount
        /\ campaign'.failedCount = campaign.failedCount
    BY <1>1, <1>6 DEF DeleteCampaign, Campaign
  <2>3. Finished' = Finished
    BY <2>1 DEF Finished
  <2>4. JobsFit' /\ FirstWalk' /\ CompletedMeansSettled'
    BY <1>2, <2>1, <2>2 DEF JobsFit, FirstWalk, CompletedMeansSettled
  <2>5. TotalsFit'
    BY <1>2, <2>2, <2>3 DEF TotalsFit
  <2> QED
    BY <2>4, <2>5 DEF CompletionInv
<1>7. CASE AddKickoff
  <2>1. UNCHANGED <<campaign, recipients, walk, row, sendJob>>
    BY <1>7 DEF AddKickoff, people, ledger, snapshot
  <2>2. kickoff' = kickoff \/ (kickoff.state = "none" /\ kickoff'.state = "waiting")
    BY <1>1, <1>7 DEF AddKickoff, KickoffJob
  <2>3. Queued' = Queued /\ Finished' = Finished /\ QueuedTo(walk.after)' = QueuedTo(walk.after)
    BY <2>1 DEF Queued, QueuedTo, Finished
  <2>4. JobsFit' /\ FirstWalk'
    BY <1>2, <2>1, <2>2, <2>3 DEF JobsFit, FirstWalk
  <2>5. TotalsFit' /\ CompletedMeansSettled'
    BY <1>2, <2>1, <2>3 DEF TotalsFit, CompletedMeansSettled
  <2> QED
    BY <2>4, <2>5 DEF CompletionInv
<1> QED
  BY <1>3, <1>4, <1>5, <1>6, <1>7

\* A step of the kickoff that leaves jobs, ledger and campaign alone.
LEMMA WalkOnly ==
    ASSUME CompletionInv, UNCHANGED <<campaign, row, sendJob>>,
           campaign.status = "sent" => recipients' = recipients,
           recipients \subseteq recipients', JobsFit', FirstWalk',
           campaign.status # "deleted" =>
             /\ walk'.pc \in {"page", "recipients"} => Cardinality(QueuedTo(walk'.after)) <= walk'.sendableTotal
             /\ walk'.pc = "finish" => Cardinality(Queued) <= walk'.sendableTotal
    PROVE  CompletionInv'
<1>1. JobsFit /\ FirstWalk /\ TotalsFit /\ CompletedMeansSettled
  BY DEF CompletionInv
<1>2. Queued' = Queued /\ Finished' = Finished
  BY DEF Queued, Finished
<1>3. QueuedTo(walk.after)' = QueuedTo(walk'.after)
  BY DEF QueuedTo
<1>4. TotalsFit'
  BY <1>1, <1>2, <1>3 DEF TotalsFit
<1>5. CompletedMeansSettled'
  BY <1>1 DEF CompletedMeansSettled
<1> QED
  BY <1>4, <1>5 DEF CompletionInv

\* An attempt begins, reads the campaign, and fails: without failures allowed,
\* only after the campaign was deleted.
LEMMA CompletionAttempts ==
    ASSUME TypeOK, FanOutInv, CompletionInv, KickoffStart \/ ReadState \/ KickoffFails
    PROVE  CompletionInv'
<1>1. kickoff \in KickoffJob /\ walk \in Walk /\ JobsFit /\ FirstWalk /\ KickoffFits /\ MaxFaults \in Nat
  BY FanOutAssumption DEF TypeOK, FanOutInv, CompletionInv, FanOutAssumption
<1>2. UNCHANGED <<campaign, recipients, row, sendJob>>
  BY DEF KickoffStart, ReadState, KickoffFails, people, ledger, snapshot
<1>3. Queued' = Queued
  BY <1>2 DEF Queued
<1>4. NoWalk.pc = "idle" /\ NoWalk.unsubscribed = {}
  BY DEF NoWalk
<1>5. JobsFit' /\ FirstWalk' /\ walk'.pc \in {"idle", "entered", "snapshot"}
  <2>1. CASE KickoffStart
    <3>1. /\ kickoff.state = "waiting" /\ kickoff'.state = "active" /\ kickoff'.made > 0
          /\ walk'.pc = "entered" /\ walk'.unsubscribed = {}
      BY <1>1, <2>1 DEF KickoffStart, KickoffJob, NoWalk
    <3> QED
      BY <1>1, <1>2, <1>3, <3>1 DEF JobsFit, FirstWalk
  <2>2. CASE ReadState
    <3>1. \/ kickoff' = [kickoff EXCEPT !.state = "completed"] /\ walk' = NoWalk
          \/ walk' = [walk EXCEPT !.pc = "snapshot", !.after = cursor] /\ kickoff' = kickoff
      BY <2>2 DEF ReadState, KickoffReturns
    <3>2. walk.pc = "entered"
      BY <2>2 DEF ReadState
    <3>3. CASE kickoff' = [kickoff EXCEPT !.state = "completed"] /\ walk' = NoWalk
      <4>1. kickoff'.state = "completed"
        BY <1>1, <3>3 DEF KickoffJob
      <4> QED
        BY <1>1, <1>2, <1>3, <1>4, <3>3, <4>1 DEF JobsFit, FirstWalk
    <3>4. CASE walk' = [walk EXCEPT !.pc = "snapshot", !.after = cursor] /\ kickoff' = kickoff
      <4>1. walk'.pc = "snapshot" /\ walk'.unsubscribed = walk.unsubscribed
        BY <1>1, <3>4 DEF Walk
      <4> QED
        BY <1>1, <1>2, <1>3, <3>2, <3>4, <4>1 DEF JobsFit, FirstWalk
    <3> QED
      BY <3>1, <3>3, <3>4
  <2>3. CASE KickoffFails
    <3>1. kickoff.state = "active" /\ kickoff'.state \in {"waiting", "failed"} /\ walk' = NoWalk
      BY <1>1, <2>3 DEF KickoffFails, KickoffFits, KickoffJob
    <3>2. MaxFaults = 0 => campaign.status = "deleted"
      <4>1. kickoff.made \in Nat /\ kickoff.made > 0
        BY <1>1, <3>1 DEF JobsFit, KickoffJob
      <4> QED
        BY <2>3, <4>1 DEF KickoffFails
    <3> QED
      BY <1>1, <1>2, <1>3, <1>4, <3>1, <3>2 DEF JobsFit, FirstWalk
  <2> QED
    BY <2>1, <2>2, <2>3
<1> QED
  BY <1>2, <1>5, WalkOnly

\* A batch of the snapshot; the walk over it begins with nobody behind it.
LEMMA CompletionBatch ==
    ASSUME TypeOK, FanOutInv, CompletionInv, MaterializeBatch
    PROVE  CompletionInv'
<1>1. walk \in Walk /\ JobsFit /\ FirstWalk /\ KickoffFits /\ TotalsFit
  BY DEF TypeOK, FanOutInv, CompletionInv
<1>2. UNCHANGED <<campaign, row, sendJob, kickoff>> /\ walk.pc = "snapshot" /\ recipients \subseteq recipients'
  BY DEF MaterializeBatch, people, ledger, queue
<1>3. kickoff.state = "active" /\ campaign.status # "sent"
  BY <1>1, <1>2 DEF KickoffFits, TotalsFit
<1>4. Queued' = Queued
  BY <1>2 DEF Queued
<1>5. walk'.unsubscribed = walk.unsubscribed /\ walk'.sendableTotal = walk.sendableTotal
      /\ (walk'.pc = "snapshot" \/ (walk'.pc = "page" /\ walk'.after = 0))
  BY <1>1, <1>2 DEF MaterializeBatch, Walk
<1>6. QueuedTo(0) = {}
  <2>1. \A c \in Contact : ~(c <= 0)
    BY FanOutAssumption DEF FanOutAssumption
  <2> QED
    BY <2>1 DEF QueuedTo
<1>7. Cardinality(QueuedTo(0)) <= walk.sendableTotal
  BY <1>1, <1>6, FS_EmptySet DEF Walk
<1>8. JobsFit'
  BY <1>1, <1>2, <1>4, <1>5 DEF JobsFit
<1>9. FirstWalk'
  <2>1. MaxFaults = 0 /\ campaign.status # "deleted" => Queued = {}
    BY <1>1, <1>2 DEF FirstWalk
  <2>2. Queued = {} => \A c \in Contact : sendJob[c] = "none"
    BY DEF Queued
  <2> QED
    BY <1>2, <1>3, <1>4, <1>5, <2>1, <2>2 DEF FirstWalk
<1> QED
  BY <1>2, <1>3, <1>5, <1>7, <1>8, <1>9, WalkOnly

\* A page; after an empty one nobody queued lies before the walk.
LEMMA CompletionPage ==
    ASSUME TypeOK, FanOutInv, CompletionInv, ReadPage
    PROVE  CompletionInv'
<1> DEFINE page == KeysetPage(recipients, walk.after, BreakdownPageSize)
<1>1. /\ walk \in Walk /\ recipients \subseteq Contact /\ walk.after \in Contact \cup {0} /\ kickoff \in KickoffJob
      /\ optedOut \subseteq Fickle /\ JobsFit /\ FirstWalk /\ KickoffFits /\ TotalsFit
  BY DEF TypeOK, FanOutInv, CompletionInv, Walk
<1>2. UNCHANGED <<campaign, recipients, row, sendJob>> /\ walk.pc = "page"
  BY DEF ReadPage, people, ledger, snapshot
<1>3. kickoff.state = "active"
  BY <1>1, <1>2 DEF KickoffFits
<1>4. BreakdownPageSize \in Nat \ {0}
  BY FanOutAssumption DEF FanOutAssumption
<1>5. page \subseteq recipients /\ (page = {} => \A c \in recipients : c <= walk.after)
  BY <1>1, <1>4, PageIsNext
<1>6. \/ walk' = NoWalk /\ kickoff' = [kickoff EXCEPT !.state = "completed"]
      \/ page = {} /\ walk' = [walk EXCEPT !.pc = "finish"] /\ kickoff' = kickoff
      \/ /\ walk' = [walk EXCEPT !.pc = "recipients", !.todo = page, !.unsubscribed = optedOut]
         /\ kickoff' = kickoff
  BY DEF ReadPage, KickoffReturns
<1> HIDE DEF page
<1>7. Queued' = Queued
  BY <1>2 DEF Queued
<1>8. CASE walk' = NoWalk /\ kickoff' = [kickoff EXCEPT !.state = "completed"]
  <2>1. walk'.pc = "idle" /\ walk'.unsubscribed = {} /\ kickoff'.state = "completed"
    BY <1>1, <1>8 DEF NoWalk, KickoffJob
  <2>2. JobsFit' /\ FirstWalk'
    BY <1>1, <1>2, <1>7, <2>1 DEF JobsFit, FirstWalk
  <2> QED
    BY <1>2, <2>1, <2>2, WalkOnly
<1>9. CASE page = {} /\ walk' = [walk EXCEPT !.pc = "finish"] /\ kickoff' = kickoff
  <2>1. walk'.pc = "finish" /\ walk'.unsubscribed = walk.unsubscribed /\ walk'.sendableTotal = walk.sendableTotal
    BY <1>1, <1>9 DEF Walk
  <2>2. JobsFit' /\ FirstWalk'
    BY <1>1, <1>2, <1>3, <1>7, <1>9, <2>1 DEF JobsFit, FirstWalk
  <2>3. campaign.status # "deleted" => Queued \subseteq QueuedTo(walk.after)
    BY <1>1, <1>5, <1>9 DEF JobsFit, Queued, QueuedTo
  <2>4. campaign.status # "deleted" => Cardinality(Queued) <= walk.sendableTotal
    <3>1. Queued \in SUBSET Contact /\ QueuedTo(walk.after) \in SUBSET Contact
      BY DEF Queued, QueuedTo
    <3>2. Cardinality(Queued) \in Nat /\ Cardinality(QueuedTo(walk.after)) \in Nat /\ walk.sendableTotal \in Nat
      BY <1>1, <3>1, Sizes DEF Walk
    <3>3. campaign.status # "deleted" => Cardinality(Queued) <= Cardinality(QueuedTo(walk.after))
      BY <2>3, <3>1, Sizes
    <3>4. campaign.status # "deleted" => Cardinality(QueuedTo(walk.after)) <= walk.sendableTotal
      BY <1>1, <1>2 DEF TotalsFit
    <3> QED
      BY <3>2, <3>3, <3>4
  <2> QED
    BY <1>2, <2>1, <2>2, <2>4, WalkOnly
<1>10. CASE /\ walk' = [walk EXCEPT !.pc = "recipients", !.todo = page, !.unsubscribed = optedOut]
            /\ kickoff' = kickoff
  <2>1. /\ walk'.pc = "recipients" /\ walk'.unsubscribed = optedOut /\ walk'.sendableTotal = walk.sendableTotal
        /\ walk'.todo = page /\ walk'.after = walk.after
    BY <1>1, <1>10 DEF Walk
  <2>2. JobsFit' /\ FirstWalk'
    BY <1>1, <1>2, <1>3, <1>5, <1>7, <1>10, <2>1 DEF JobsFit, FirstWalk
  <2>3. campaign.status # "deleted" => Cardinality(QueuedTo(walk.after)) <= walk.sendableTotal
    BY <1>1, <1>2 DEF TotalsFit
  <2> QED
    BY <1>2, <2>1, <2>2, <2>3, WalkOnly
<1> QED
  BY <1>6, <1>8, <1>9, <1>10

\* A recipient is queued, and the walk's total goes up with the jobs it has
\* behind it; or it is excluded, which under GateStands happens to nobody who
\* is queued already.
LEMMA CompletionRecipient ==
    ASSUME GateStands, TypeInv, FanOutInv, CompletionInv, WalkRecipient
    PROVE  CompletionInv'
<1>1. /\ walk \in Walk /\ walk.after \in Contact \cup {0} /\ walk.todo \subseteq Contact /\ walk.sendableTotal \in Nat
      /\ row \in [Contact -> Row] /\ sendJob \in [Contact -> {"none", "waiting", "done"}]
      /\ KickoffFits /\ RowsFit /\ WalkFits /\ PageUnderWay /\ JobsFit /\ FirstWalk /\ TotalsFit
  BY DEF TypeInv, TypeOK, FanOutInv, CompletionInv, Walk
<1>2. UNCHANGED <<campaign, recipients, kickoff>> /\ walk.pc = "recipients"
  BY DEF WalkRecipient, people, snapshot, queue
<1>3. ~campaign.fanOutComplete /\ kickoff.state = "active" /\ campaign.status # "sent"
  BY <1>1, <1>2 DEF KickoffFits, TotalsFit
<1>4. PICK c \in walk.todo : c = Min(walk.todo) /\ \A d \in walk.todo : c <= d
  BY <1>1, <1>2, MinMaxOfContacts DEF PageUnderWay
<1>5. c \in Contact /\ \A d \in Contact : d \in Nat
  BY <1>1, FanOutAssumption DEF FanOutAssumption
<1>6. campaign.status # "deleted" =>
        /\ c \in recipients /\ walk.after < c /\ Queued \subseteq recipients
        /\ \A d \in recipients : walk.after < d /\ d < c => FALSE
        /\ Cardinality(QueuedTo(walk.after)) <= walk.sendableTotal
  <2> SUFFICES ASSUME campaign.status # "deleted"
               PROVE  /\ c \in recipients /\ walk.after < c /\ Queued \subseteq recipients
                      /\ \A d \in recipients : walk.after < d /\ d < c => FALSE
                      /\ Cardinality(QueuedTo(walk.after)) <= walk.sendableTotal
    OBVIOUS
  <2>1. c \in recipients /\ Queued \subseteq recipients
    BY <1>1, <1>2, <1>4 DEF JobsFit
  <2>2. /\ walk.after < c
        /\ \A d \in recipients : walk.after < d /\ d <= c => d \in walk.todo
    BY <1>1, <1>2, <1>4 DEF WalkFits
  <2>3. ASSUME NEW d \in recipients, walk.after < d, d < c PROVE FALSE
    <3>1. recipients \subseteq Contact
      BY DEF TypeInv, TypeOK
    <3>2. d \in Nat /\ c \in Nat
      BY <1>5, <3>1
    <3>3. c <= d
      BY <1>4, <2>2, <2>3, <3>2
    <3> QED
      BY <2>3, <3>2, <3>3
  <2> QED
    BY <1>1, <1>2, <2>1, <2>2, <2>3 DEF TotalsFit
<1> DEFINE rest == walk.todo \ {c}
           next == [walk EXCEPT !.todo = rest, !.after = c, !.pc = IF rest = {} THEN "page" ELSE @]
<1>7. \/ /\ sendJob' = [sendJob EXCEPT ![c] = IF @ = "none" THEN "waiting" ELSE @]
         /\ walk' = [next EXCEPT !.sendableTotal = @ + 1] /\ row' = row
      \/ /\ ~PreSendGate(c, walk.unsubscribed) /\ row' = [row EXCEPT ![c] = RecordExcluded(@)]
         /\ walk' = next /\ sendJob' = sendJob
  BY <1>4 DEF WalkRecipient
<1>8. /\ walk'.pc \in {"page", "recipients"} /\ walk'.todo = rest /\ walk'.after = c
      /\ walk'.unsubscribed = walk.unsubscribed
      /\ \/ walk'.sendableTotal = walk.sendableTotal + 1
         \/ ~PreSendGate(c, walk.unsubscribed) /\ sendJob' = sendJob /\ walk'.sendableTotal = walk.sendableTotal
  <2> DEFINE pc == IF rest = {} THEN "page" ELSE walk.pc
  <2>0. next = [walk EXCEPT !.todo = rest, !.after = c, !.pc = pc] /\ pc \in {"page", "recipients"}
    BY <1>2
  <2> HIDE DEF next, pc
  <2>1. /\ next \in Walk
        /\ next.pc \in {"page", "recipients"} /\ next.todo = rest /\ next.after = c
        /\ next.unsubscribed = walk.unsubscribed /\ next.sendableTotal = walk.sendableTotal
    BY <1>1, <1>5, <2>0 DEF Walk
  <2>2. CASE walk' = [next EXCEPT !.sendableTotal = @ + 1]
    BY <2>1, <2>2 DEF Walk
  <2>3. CASE /\ ~PreSendGate(c, walk.unsubscribed) /\ row' = [row EXCEPT ![c] = RecordExcluded(@)]
             /\ walk' = next /\ sendJob' = sendJob
    BY <2>1, <2>3
  <2> QED
    BY <1>7, <2>2, <2>3
<1>9. Finished' = Finished
  <2>1. RecordExcluded(row[c]).status = IF row[c].status \in {"none", "excluded"} THEN "excluded" ELSE row[c].status
    BY <1>1, <1>5, RowStatements
  <2>2. \A d \in Contact : row'[d].status \in {"sent", "failed"} <=> row[d].status \in {"sent", "failed"}
    BY <1>1, <1>5, <1>7, <2>1
  <2> QED
    BY <2>2 DEF Finished
<1>10. JobsFit'
  <2>1. campaign.status # "deleted" => Queued' \subseteq recipients
    <3>1. \A d \in Contact : sendJob'[d] # "none" => sendJob[d] # "none" \/ d = c
      BY <1>1, <1>5, <1>7
    <3> QED
      BY <1>6, <3>1 DEF Queued
  <2>2. campaign.status # "deleted" => walk.todo \subseteq recipients
    BY <1>1, <1>2 DEF JobsFit
  <2> QED
    BY <1>1, <1>2, <1>8, <2>1, <2>2 DEF JobsFit
<1>11. FirstWalk'
  <2>1. MaxFaults = 0 /\ campaign.status # "deleted" => \A d \in Contact : c < d => sendJob'[d] = "none"
    <3> SUFFICES ASSUME MaxFaults = 0, campaign.status # "deleted", NEW d \in Contact, c < d
                 PROVE  sendJob'[d] = "none"
      OBVIOUS
    <3>1. walk.after \in Nat /\ c \in Nat /\ d \in Nat /\ walk.after < c
      BY <1>1, <1>5, <1>6
    <3>2. walk.after < d /\ d # c
      BY <3>1
    <3>3. sendJob[d] = "none"
      BY <1>1, <1>2, <3>2 DEF FirstWalk
    <3> QED
      BY <1>1, <1>5, <1>7, <3>2, <3>3
  <2> QED
    BY <1>2, <1>3, <1>8, <2>1 DEF FirstWalk
<1>12. campaign.status # "deleted" => Cardinality(QueuedTo(c)') <= walk'.sendableTotal
  <2> SUFFICES ASSUME campaign.status # "deleted" PROVE Cardinality(QueuedTo(c)') <= walk'.sendableTotal
    OBVIOUS
  <2> DEFINE before == QueuedTo(walk.after)
             behind == {d \in Contact : d <= c /\ sendJob'[d] # "none"}
  <2>1. QueuedTo(c)' = behind
    BY DEF QueuedTo
  <2>2. before \in SUBSET Contact /\ behind \in SUBSET Contact /\ before \cup {c} \in SUBSET Contact
    BY <1>5 DEF QueuedTo
  <2>3. ASSUME NEW d \in behind, d # c PROVE d \in before
    <3>1. d \in Nat /\ c \in Nat /\ walk.after \in Nat /\ d \in Contact /\ d <= c
      BY <1>1, <1>5
    <3>2. sendJob[d] # "none"
      BY <1>1, <1>5, <1>7, <2>3
    <3>3. d \in recipients
      BY <1>6, <3>1, <3>2 DEF Queued
    <3>4. d <= walk.after
      BY <1>6, <2>3, <3>1, <3>3
    <3> QED
      BY <3>1, <3>2, <3>4 DEF QueuedTo
  <2> HIDE DEF before, behind
  <2>4. Cardinality(before) \in Nat /\ Cardinality(behind) \in Nat /\ Cardinality(before \cup {c}) \in Nat
    BY <2>2, Sizes
  <2>5. Cardinality(before) <= walk.sendableTotal
    BY <1>6 DEF before
  <2>6. CASE walk'.sendableTotal = walk.sendableTotal + 1
    <3>1. Cardinality(behind) <= Cardinality(before \cup {c})
      <4>1. behind \subseteq before \cup {c}
        BY <2>3
      <4> QED
        BY <2>2, <4>1, Sizes
    <3>2. Cardinality(before \cup {c}) <= Cardinality(before) + 1
      BY <1>5, <2>2, <2>4, Sizes
    <3> QED
      BY <1>1, <1>8, <2>1, <2>4, <2>5, <2>6, <3>1, <3>2
  <2>7. CASE ~PreSendGate(c, walk.unsubscribed) /\ sendJob' = sendJob /\ walk'.sendableTotal = walk.sendableTotal
    <3>1. sendJob[c] = "none"
      <4>1. walk.unsubscribed \subseteq Fickle
        BY <1>1 DEF JobsFit
      <4>2. MaxFaults = 0
        BY <2>7, <4>1 DEF GateStands, PreSendGate
      <4> QED
        BY <1>1, <1>2, <1>5, <1>6, <4>2 DEF FirstWalk
    <3>2. behind \subseteq before
      BY <2>3, <2>7, <3>1 DEF behind
    <3>3. Cardinality(behind) <= Cardinality(before)
      BY <2>2, <3>2, Sizes
    <3> QED
      BY <1>1, <1>8, <2>1, <2>4, <2>5, <2>7, <3>3
  <2> QED
    BY <1>8, <2>6, <2>7
<1>13. TotalsFit'
  BY <1>1, <1>2, <1>3, <1>8, <1>9, <1>12 DEF TotalsFit
<1>14. CompletedMeansSettled'
  BY <1>2, <1>3 DEF CompletedMeansSettled
<1> QED
  BY <1>10, <1>11, <1>13, <1>14 DEF CompletionInv

\* The last transaction: what the walk counted becomes the campaign's total,
\* and the results are compared with it.
LEMMA CompletionFinish ==
    ASSUME TypeOK, FanOutInv, FanOutInv', CompletionInv, FinishKickoff
    PROVE  CompletionInv'
<1> DEFINE totals == [campaign EXCEPT !.sendableTotal = walk.sendableTotal, !.fanOutComplete = TRUE]
           results == campaign.sentCount + campaign.failedCount
<1>1. /\ campaign \in Campaign /\ walk \in Walk /\ kickoff \in KickoffJob /\ recipients \subseteq Contact
      /\ row \in [Contact -> Row] /\ results \in Nat /\ walk.sendableTotal \in Nat
      /\ KickoffFits /\ RowsFit /\ JobsFit /\ TotalsFit /\ FanOutMissesNobody'
  BY DEF TypeOK, FanOutInv, CompletionInv, Campaign, Walk
<1>2. UNCHANGED <<recipients, row, sendJob>> /\ walk.pc = "finish"
  BY DEF FinishKickoff, people, ledger, snapshot
<1>3. walk'.pc = "idle" /\ walk'.unsubscribed = {} /\ kickoff'.state = "completed"
  BY <1>1 DEF FinishKickoff, KickoffReturns, NoWalk, KickoffJob
<1>4. Queued' = Queued /\ Finished' = Finished
  BY <1>2 DEF Queued, Finished
<1>5. /\ totals \in Campaign /\ totals.status = campaign.status /\ totals.fanOutComplete
      /\ totals.sendableTotal = walk.sendableTotal
      /\ totals.sentCount = campaign.sentCount /\ totals.failedCount = campaign.failedCount
  BY <1>1 DEF Campaign
<1>6. /\ [totals EXCEPT !.status = "sent"].status = "sent"
      /\ [totals EXCEPT !.status = "sent"].fanOutComplete
      /\ [totals EXCEPT !.status = "sent"].sendableTotal = walk.sendableTotal
      /\ [totals EXCEPT !.status = "sent"].sentCount = campaign.sentCount
      /\ [totals EXCEPT !.status = "sent"].failedCount = campaign.failedCount
  BY <1>5 DEF Campaign
<1>7. \/ campaign' = campaign
      \/ walk.sendableTotal = 0 /\ campaign.status = "sending" /\ campaign' = [totals EXCEPT !.status = "sent"]
      \/ campaign.status # "deleted" /\ campaign' = TryCompleteCampaign(totals, AmbiguousCount(row))
  BY DEF FinishKickoff
<1> HIDE DEF totals
<1>8. AmbiguousCount(row) \in Nat
  BY AmbiguousCountType
<1>9. Completed(totals, TryCompleteCampaign(totals, AmbiguousCount(row)), results, AmbiguousCount(row))
  BY <1>5, <1>8, CompletionStatements
<1> HIDE DEF results
<1>10. \/ campaign' = campaign
       \/ /\ campaign.status # "deleted" /\ campaign'.fanOutComplete /\ campaign'.sendableTotal = walk.sendableTotal
          /\ campaign'.sentCount + campaign'.failedCount = results
          /\ \/ campaign'.status = campaign.status
             \/ campaign'.status = "sent" /\ results + AmbiguousCount(row) >= walk.sendableTotal
  <2>1. CASE walk.sendableTotal = 0 /\ campaign.status = "sending" /\ campaign' = [totals EXCEPT !.status = "sent"]
    BY <1>1, <1>6, <1>8, <2>1 DEF results
  <2>2. CASE campaign.status # "deleted" /\ campaign' = TryCompleteCampaign(totals, AmbiguousCount(row))
    BY <1>5, <1>9, <2>2 DEF Completed
  <2> QED
    BY <1>7, <2>1, <2>2
<1>11. campaign.status # "deleted" => Cardinality(Queued) <= walk.sendableTotal
  BY <1>1, <1>2 DEF TotalsFit
<1>12. results <= Cardinality(Finished)
  BY <1>1 DEF TotalsFit, results
<1>13. JobsFit' /\ FirstWalk'
  BY <1>1, <1>2, <1>3, <1>4, <1>10 DEF JobsFit, FirstWalk
<1>14. TotalsFit'
  <2>1. CASE campaign' = campaign
    BY <1>1, <1>3, <1>4, <2>1 DEF TotalsFit
  <2>2. CASE /\ campaign.status # "deleted" /\ campaign'.fanOutComplete
             /\ campaign'.sendableTotal = walk.sendableTotal
             /\ campaign'.sentCount + campaign'.failedCount = results
    BY <1>3, <1>4, <1>11, <1>12, <2>2 DEF TotalsFit
  <2> QED
    BY <1>10, <2>1, <2>2
<1>15. campaign.status # "sent"
  BY <1>1, <1>2 DEF KickoffFits, TotalsFit
<1>16. ASSUME campaign'.status = "sent", NEW c \in recipients
       PROVE  row[c].status \in {"sent", "failed", "excluded"} \cup Ambiguous
  <2>1. /\ campaign.status # "deleted" /\ campaign'.fanOutComplete
        /\ results + AmbiguousCount(row) >= walk.sendableTotal
    BY <1>10, <1>15, <1>16
  <2>2. \A d \in Contact : sendJob[d] # "none" => row[d].status \in {"sent", "failed"} \cup Ambiguous
    <3>1. \A d \in Contact : row[d].status \notin {"none", "excluded"} => sendJob[d] # "none"
      BY <1>1 DEF RowsFit
    <3>2. results <= Cardinality({d \in Contact : row[d].status \in {"sent", "failed"}})
      BY <1>12 DEF Finished
    <3>3. Cardinality({d \in Contact : sendJob[d] # "none"}) <= walk.sendableTotal
      BY <1>11, <2>1 DEF Queued
    <3>4. results \in Nat
      BY <1>1
    <3> QED
      BY <1>1, <2>1, <3>1, <3>2, <3>3, <3>4, EverybodySettled
  <2>3. sendJob[c] # "none" \/ row[c].status = "excluded"
    BY <1>1, <1>2, <1>16, <2>1 DEF FanOutMissesNobody
  <2> QED
    BY <1>1, <2>2, <2>3
<1>17. CompletedMeansSettled'
  BY <1>2, <1>16 DEF CompletedMeansSettled
<1> QED
  BY <1>13, <1>14, <1>17 DEF CompletionInv

\* What a send job or the reconciler writes: a row comes into sent or failed at
\* most once, where it is counted, and once settled stays so.
LEMMA SendResults ==
    ASSUME TypeInv, NEW c \in Contact,
           \/ \E result \in {"sent", "failed", "reconciling", "none"} : Dispatch(c, result)
           \/ \E verdict \in {"resolve_sent", "resolve_unknown"} : Resolve(c, verdict)
    PROVE  /\ \A d \in Contact : sendJob'[d] = "none" <=> sendJob[d] = "none"
           /\ \A d \in Contact : d # c => row'[d] = row[d]
           /\ row[c].status \in {"sent", "failed"} => row'[c].status = row[c].status
           /\ row[c].status \in {"excluded"} \cup Ambiguous =>
                campaign.status = "sending" \/ row'[c].status \in {"sent", "excluded"} \cup Ambiguous
           /\ \/ campaign' = campaign
              \/ /\ Completed(campaign, campaign', campaign.sentCount + campaign.failedCount + 1, AmbiguousCount(row'))
                 /\ row[c].status \notin {"sent", "failed"} /\ row'[c].status \in {"sent", "failed"}
<1>1. /\ campaign \in Campaign /\ row \in [Contact -> Row] /\ row[c] \in Row
      /\ sendJob \in [Contact -> {"none", "waiting", "done"}]
  BY DEF TypeInv, TypeOK
<1>2. AmbiguousCount(row') \in Nat
  BY AmbiguousCountType
<1>3. RecordExcluded(row[c]).status = IF row[c].status \in {"none", "excluded"} THEN "excluded" ELSE row[c].status
  BY <1>1, RowStatements
<1> DEFINE n == AmbiguousCount(row')
           goal == /\ \A d \in Contact : sendJob'[d] = "none" <=> sendJob[d] = "none"
                   /\ \A d \in Contact : d # c => row'[d] = row[d]
                   /\ row[c].status \in {"sent", "failed"} => row'[c].status = row[c].status
                   /\ row[c].status \in {"excluded"} \cup Ambiguous =>
                        campaign.status = "sending" \/ row'[c].status \in {"sent", "excluded"} \cup Ambiguous
                   /\ \/ campaign' = campaign
                      \/ /\ Completed(campaign, campaign', campaign.sentCount + campaign.failedCount + 1, n)
                         /\ row[c].status \notin {"sent", "failed"} /\ row'[c].status \in {"sent", "failed"}
<1>4. ASSUME NEW result \in {"sent", "failed", "reconciling", "none"}, Dispatch(c, result) PROVE goal
  <2>1. sendJob[c] = "waiting" /\ sendJob' = [sendJob EXCEPT ![c] = "done"]
    BY <1>4 DEF Dispatch
  <2>2. \A d \in Contact : sendJob'[d] = "none" <=> sendJob[d] = "none"
    BY <1>1, <2>1
  <2>3. CASE row' = row /\ campaign' = campaign
    BY <2>2, <2>3 DEF Ambiguous
  <2>4. CASE row' = [row EXCEPT ![c] = RecordExcluded(@)] /\ campaign' = campaign
    BY <1>1, <1>3, <2>2, <2>4 DEF Ambiguous
  <2>5. CASE /\ campaign.status = "sending" /\ result # "none" /\ row[c].status = "none"
             /\ row' = [row EXCEPT ![c] = RecordSendResult(InsertDispatching, result)]
             /\ campaign' = CASE result = "sent" -> TryCompleteCampaign(IncrementSent(campaign), n)
                              [] result = "failed" -> TryCompleteCampaign(IncrementFailed(campaign), n)
                              [] OTHER -> campaign
    <3>1. row'[c].status = result /\ \A d \in Contact : d # c => row'[d] = row[d]
      BY <1>1, <2>5, RowStatements
    <3>2. \/ campaign' = campaign
          \/ /\ Completed(campaign, campaign', campaign.sentCount + campaign.failedCount + 1, n)
             /\ result \in {"sent", "failed"}
      BY <1>1, <1>2, <2>5, CompletionStatements
    <3> HIDE DEF n
    <3> QED
      BY <2>2, <2>5, <3>1, <3>2 DEF Ambiguous
  <2> QED
    BY <1>4, <2>3, <2>4, <2>5 DEF Dispatch
<1>5. ASSUME NEW verdict \in {"resolve_sent", "resolve_unknown"}, Resolve(c, verdict) PROVE goal
  <2>1. /\ row[c].status \in Ambiguous /\ sendJob' = sendJob
        /\ row' = [row EXCEPT ![c] = ResolveReconcilingSend(@, verdict)]
        /\ \/ campaign' = campaign
           \/ verdict = "resolve_sent" /\ campaign' = TryCompleteCampaign(BackfillSent(campaign), n)
    BY <1>5 DEF Resolve, Ambiguous
  <2>2. row'[c].status = IF verdict = "resolve_unknown" THEN "unknown" ELSE "sent"
    BY <1>1, <2>1, RowStatements
  <2>3. \A d \in Contact : d # c => row'[d] = row[d]
    BY <1>1, <2>1
  <2>4. \/ campaign' = campaign
        \/ /\ verdict = "resolve_sent"
           /\ Completed(campaign, campaign', campaign.sentCount + campaign.failedCount + 1, n)
    BY <1>1, <1>2, <2>1, CompletionStatements
  <2> HIDE DEF n
  <2> QED
    BY <2>1, <2>2, <2>3, <2>4 DEF Ambiguous
<1> QED
  BY <1>4, <1>5

\* A send job or a resolution, also the one that completes the campaign.
LEMMA CompletionSend ==
    ASSUME TypeInv, TypeInv', FanOutInv, FanOutInv', CompletionInv, NEW c \in Contact,
           \/ \E result \in {"sent", "failed", "reconciling", "none"} : Dispatch(c, result)
           \/ \E verdict \in {"resolve_sent", "resolve_unknown"} : Resolve(c, verdict)
    PROVE  CompletionInv'
<1> DEFINE results == campaign.sentCount + campaign.failedCount
           n == AmbiguousCount(row')
<1>1. /\ campaign \in Campaign /\ recipients \subseteq Contact /\ results \in Nat
      /\ row' \in [Contact -> Row] /\ RowsFit' /\ FanOutMissesNobody'
      /\ JobsFit /\ FirstWalk /\ TotalsFit /\ CompletedMeansSettled
  BY DEF TypeInv, TypeOK, FanOutInv, CompletionInv, Campaign
<1>2. Counted(campaign, campaign') /\ UNCHANGED <<recipients, kickoff, walk>>
  BY SendTypes
<1>3. /\ \A d \in Contact : sendJob'[d] = "none" <=> sendJob[d] = "none"
      /\ \A d \in Contact : d # c => row'[d] = row[d]
      /\ row[c].status \in {"sent", "failed"} => row'[c].status = row[c].status
      /\ row[c].status \in {"excluded"} \cup Ambiguous =>
           campaign.status = "sending" \/ row'[c].status \in {"sent", "excluded"} \cup Ambiguous
      /\ \/ campaign' = campaign
         \/ /\ Completed(campaign, campaign', results + 1, n)
            /\ row[c].status \notin {"sent", "failed"} /\ row'[c].status \in {"sent", "failed"}
  BY SendResults
<1>4. Queued' = Queued /\ QueuedTo(walk.after)' = QueuedTo(walk.after)
  BY <1>2, <1>3 DEF Queued, QueuedTo
<1>5. campaign'.status = "deleted" <=> campaign.status = "deleted"
  BY <1>2 DEF Counted
<1>6. JobsFit' /\ FirstWalk'
  <2>1. JobsFit'
    BY <1>1, <1>2, <1>4, <1>5 DEF JobsFit
  <2>2. FirstWalk'
    BY <1>1, <1>2, <1>3, <1>4, <1>5 DEF FirstWalk
  <2> QED
    BY <2>1, <2>2
<1>7. campaign'.sentCount + campaign'.failedCount <= Cardinality(Finished')
  <2>1. Finished \in SUBSET Contact /\ Finished' \in SUBSET Contact
    BY DEF Finished
  <2>2. Cardinality(Finished) \in Nat /\ Cardinality(Finished') \in Nat /\ results <= Cardinality(Finished)
    BY <1>1, <2>1, Sizes DEF TotalsFit
  <2>3. CASE campaign' = campaign
    <3>1. Finished \subseteq Finished'
      BY <1>3 DEF Finished
    <3>2. Cardinality(Finished) <= Cardinality(Finished')
      BY <2>1, <3>1, Sizes
    <3> QED
      BY <1>1, <2>2, <2>3, <3>2
  <2>4. CASE /\ Completed(campaign, campaign', results + 1, n)
             /\ row[c].status \notin {"sent", "failed"} /\ row'[c].status \in {"sent", "failed"}
    <3>1. Finished' = Finished \cup {c} /\ c \notin Finished
      BY <1>3, <2>4 DEF Finished
    <3>2. Cardinality(Finished') = Cardinality(Finished) + 1
      BY <2>1, <3>1, Sizes
    <3>3. campaign'.sentCount + campaign'.failedCount = results + 1
      BY <2>4 DEF Completed
    <3> QED
      BY <1>1, <2>2, <3>2, <3>3
  <2> QED
    BY <1>3, <2>3, <2>4
<1>8. TotalsFit'
  BY <1>1, <1>2, <1>4, <1>5, <1>7 DEF TotalsFit, Counted
<1>9. ASSUME campaign'.status = "sent", NEW d \in recipients
      PROVE  row'[d].status \in {"sent", "failed", "excluded"} \cup Ambiguous
  <2>1. CASE campaign.status = "sent"
    <3>1. row[d].status \in {"sent", "failed", "excluded"} \cup Ambiguous /\ d \in Contact
      BY <1>1, <2>1 DEF CompletedMeansSettled
    <3> QED
      BY <1>3, <2>1, <3>1
  <2>2. CASE campaign.status # "sent"
    <3>1. /\ campaign.status = "sending" /\ campaign.fanOutComplete /\ results + 1 + n >= campaign.sendableTotal
          /\ campaign'.sentCount + campaign'.failedCount = results + 1 /\ campaign'.fanOutComplete
      BY <1>3, <1>9, <2>2 DEF Completed
    <3>2. \A e \in Contact : sendJob'[e] # "none" => row'[e].status \in {"sent", "failed"} \cup Ambiguous
      <4>1. \A e \in Contact : row'[e].status \notin {"none", "excluded"} => sendJob'[e] # "none"
        BY <1>1 DEF RowsFit
      <4>2. results + 1 <= Cardinality({e \in Contact : row'[e].status \in {"sent", "failed"}})
        BY <1>7, <3>1 DEF Finished
      <4>3. Cardinality({e \in Contact : sendJob'[e] # "none"}) <= campaign.sendableTotal
        BY <1>1, <1>4, <3>1 DEF Queued, TotalsFit
      <4>4. results + 1 \in Nat /\ campaign.sendableTotal \in Nat
        BY <1>1 DEF Campaign
      <4> QED
        BY <1>1, <3>1, <4>1, <4>2, <4>3, <4>4, EverybodySettled
    <3>3. sendJob'[d] # "none" \/ row'[d].status = "excluded"
      BY <1>1, <1>2, <1>9, <3>1 DEF FanOutMissesNobody
    <3> QED
      BY <1>1, <3>2, <3>3
  <2> QED
    BY <2>1, <2>2
<1>10. CompletedMeansSettled'
  BY <1>2, <1>9 DEF CompletedMeansSettled
<1> QED
  BY <1>6, <1>8, <1>10 DEF CompletionInv

\* A draft has no send jobs and no results.
LEMMA CompletionInit == Init => CompletionInv
<1> SUFFICES ASSUME Init PROVE CompletionInv
  OBVIOUS
<1>1. /\ campaign.status = "draft" /\ campaign.fanOutComplete = FALSE
      /\ campaign.sentCount = 0 /\ campaign.failedCount = 0
      /\ walk.pc = "idle" /\ walk.unsubscribed = {} /\ kickoff.state = "none"
      /\ \A c \in Contact : sendJob[c] = "none"
  BY DEF Init, NoWalk
<1>2. Queued = {}
  BY <1>1 DEF Queued
<1>3. JobsFit /\ FirstWalk /\ CompletedMeansSettled
  BY <1>1, <1>2 DEF JobsFit, FirstWalk, CompletedMeansSettled
<1>4. TotalsFit
  <2>1. Cardinality(Finished) \in Nat
    BY Sizes DEF Finished
  <2> QED
    BY <1>1, <2>1 DEF TotalsFit
<1> QED
  BY <1>3, <1>4 DEF CompletionInv

\* A completed campaign leaves nobody of its snapshot queued, wherever the
\* kickoff is repeated, the workspace deleted and restored, and the reconciler
\* at work: unless a redelivered walk finds that the gate has changed its mind
\* about a recipient it has counted before (tryCompleteCampaign).
THEOREM CompletedMeansSettledTheorem == ASSUME GateStands PROVE Spec => []CompletedMeansSettled
<1>1. TypeInv /\ TypeInv' /\ FanOutInv /\ FanOutInv' /\ CompletionInv /\ [Next]_vars => CompletionInv'
  <2> SUFFICES ASSUME TypeInv, TypeInv', FanOutInv, FanOutInv', CompletionInv, [Next]_vars
               PROVE  CompletionInv'
    OBVIOUS
  <2>1. TypeOK
    BY DEF TypeInv
  <2>2. CASE UNCHANGED vars
    <3>1. Idle
      BY <2>2 DEF vars, ledger, snapshot, queue, Idle
    <3> QED
      BY <3>1, IdleStep
  <2> QED
    BY <2>1, <2>2, CompletionOutside, CompletionAttempts, CompletionBatch, CompletionPage, CompletionRecipient,
       CompletionFinish, CompletionSend DEF Next, Kickoff
<1>2. CompletionInv => CompletedMeansSettled
  BY DEF CompletionInv
<1> QED
  BY <1>1, <1>2, CompletionInit, FanOutInvariant, TypeInit, TypeStep, PTL DEF Spec
=============================================================================

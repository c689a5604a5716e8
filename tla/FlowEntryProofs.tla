--------------------------- MODULE FlowEntryProofs --------------------------
(***************************************************************************)
(* Who comes into a flow, for any contacts, page size, re-entry modes,     *)
(* bounds and interleaving of checks, sweep, enrolment and publication.    *)
(***************************************************************************)
EXTENDS FlowEntry, FiniteSetTheorems, WellFoundedInduction, TLAPS

\* The flow keeps its trigger segment.  With a second one, a sweep that read
\* the first deletes marks that publishing the second has just made.
OneSegment == \A g, h \in Segment : g = h

\* A sweep under way has a segment, and at a page, somebody on it.
SweepFits ==
    /\ sweep.phase \in {"draining", "walking", "page"} => sweep.segment \in Segment
    /\ sweep.phase = "page" => sweep.page # {}

\* Before the first publish nothing is under way and nobody has entered.
Untouched ==
    flow.status = "draft" =>
      /\ check = NoCheck /\ sweep.phase = "none" /\ enrol.phase = "none"
      /\ settled = {} /\ \A c \in Contact : runs[c].entries = 0

\* The settled members are marked as considered for as long as they stay, and
\* neither an open check nor a page that was read is about to enter one.
SettledInv ==
    /\ settled \subseteq seen /\ settled \subseteq Members
    /\ flow.type = "event" => settled = {}
    /\ check.contact \notin settled
    /\ sweep.phase = "page" => sweep.page \cap settled \subseteq sweep.known
    /\ \A c \in settled : runs[c].entries = 0

\* A first enrolment has considered, up to the persisted cursor, whoever has
\* stayed since it was asked for.
EnrolInv ==
    /\ staying \subseteq Members
    /\ enrol.phase = "walking" => enrol.cursor = flow.cursor
    /\ enrol.first => \A c \in staying : c <= flow.cursor => c \in seen
    /\ EnrolmentMissesNobody

TypeInv  == TypeOK /\ SweepFits
EntryInv == TypeInv /\ Untouched /\ SettledInv /\ EnrolInv

-----------------------------------------------------------------------------
(* Operators                                                               *)

\* A nonempty set of natural numbers has a least element.
LEMMA LeastNat ==
    ASSUME NEW S \in SUBSET Nat, S # {}
    PROVE  \E i \in S : \A j \in S : i <= j
<1> DEFINE Less == OpToRel(<, Nat)
<1>1. \A i, j \in Nat : j < i => <<j, i>> \in Less
  BY DEF OpToRel
<1>2. \E i \in S : \A j \in S : <<j, i>> \notin Less
  BY WFMin, NatLessThanWellFounded
<1> HIDE DEF Less
<1>3. PICK i \in S : \A j \in S : <<j, i>> \notin Less
  BY <1>2
<1>4. \A j \in S : ~ (j < i)
  BY <1>1, <1>3
<1> QED
  BY <1>4

\* Every nonempty set of contacts has a last one.
LEMMA LastOfContacts ==
    ASSUME NEW cs \in SUBSET Contact, cs # {}
    PROVE  LastOf(cs) \in cs /\ \A c \in cs : c <= LastOf(cs)
<1> DEFINE back == {NumContacts - c : c \in cs}
<1>1. NumContacts \in Nat /\ \A c \in cs : c \in Nat /\ c <= NumContacts
  BY FlowEntryAssumption DEF FlowEntryAssumption, Contact
<1>2. back \in SUBSET Nat /\ back # {}
  BY <1>1
<1>3. PICK b \in back : \A x \in back : b <= x
  BY <1>2, LeastNat
<1>4. PICK m \in cs : b = NumContacts - m
  BY <1>3
<1>5. \A c \in cs : NumContacts - m <= NumContacts - c
  BY <1>3, <1>4
<1>6. \A c \in cs : c <= m
  BY <1>1, <1>5
<1> QED
  BY <1>6 DEF LastOf

\* A page leaves out nobody between the cursor and its last contact, and is
\* empty only if there is nobody after the cursor.
LEMMA PageIsNext ==
    ASSUME NEW cs \in SUBSET Contact, NEW after \in 0 .. NumContacts
    PROVE  LET page == PageAfter(cs, after) IN
           /\ page \subseteq cs
           /\ \A c \in cs, d \in page : after < c /\ c <= d => c \in page
           /\ page = {} => \A c \in cs : c <= after
<1> DEFINE rest == {c \in cs : c > after}
           below(c) == {x \in rest : x < c}
           page == PageAfter(cs, after)
<1>1. page = {c \in rest : Cardinality(below(c)) < PageSize}
  BY DEF PageAfter
<1>2. IsFiniteSet(rest) /\ rest \subseteq Nat /\ cs \subseteq Nat /\ after \in Nat /\ PageSize \in Nat \ {0}
  <2>1. NumContacts \in Nat /\ IsFiniteSet(Contact) /\ PageSize \in Nat \ {0}
    BY FlowEntryAssumption, FS_Interval DEF FlowEntryAssumption, Contact
  <2>2. rest \in SUBSET Contact
    OBVIOUS
  <2>3. IsFiniteSet(rest)
    BY <2>1, <2>2, FS_Subset
  <2>4. Contact \subseteq Nat
    BY DEF Contact
  <2>5. rest \subseteq Nat /\ cs \subseteq Nat
    BY <2>4
  <2> QED
    BY <2>1, <2>3, <2>5
<1>3. \A c \in rest : IsFiniteSet(below(c)) /\ Cardinality(below(c)) \in Nat
  BY <1>2, FS_Subset, FS_CardinalityType
<1>5. ASSUME NEW c \in cs, NEW d \in page, after < c, c <= d PROVE c \in page
  <2>1. c \in rest /\ d \in rest /\ Cardinality(below(d)) < PageSize
    BY <1>1, <1>2, <1>5
  <2>2. below(c) \in SUBSET below(d)
    BY <1>2, <1>5, <2>1
  <2>3. IsFiniteSet(below(d)) /\ Cardinality(below(c)) \in Nat /\ Cardinality(below(d)) \in Nat
    BY <1>3, <2>1
  <2> HIDE DEF below
  <2>4. Cardinality(below(c)) <= Cardinality(below(d))
    BY <2>2, <2>3, FS_Subset
  <2>5. Cardinality(below(c)) < PageSize
    BY <1>2, <2>1, <2>3, <2>4
  <2> QED
    BY <1>1, <2>1, <2>5
<1>6. ASSUME page = {}, NEW c \in cs, ~(c <= after) PROVE FALSE
  <2>1. c \in rest
    BY <1>2, <1>6
  <2>2. PICK m \in rest : \A d \in rest : m <= d
    BY <1>2, <2>1, LeastNat
  <2>3. below(m) = {}
    BY <1>2, <2>2
  <2>4. Cardinality(below(m)) = 0
    BY <2>3, FS_EmptySet
  <2> QED
    BY <1>1, <1>2, <1>6, <2>4
<1>7. page \subseteq cs
  BY <1>1
<1> QED
  BY <1>5, <1>6, <1>7

\* What canEnterFlow answers is a verdict.
LEMMA CanEnterType ==
    ASSUME TypeOK, NEW c \in Contact
    PROVE  CanEnter(c) \subseteq BOOLEAN
<1>1. flow.reentry \in {"every_time", "once_ever", "once_per_n_days"}
  BY FlowEntryAssumption DEF TypeOK, FlowRow, FlowEntryAssumption
<1>2. runs[c].active = 0 \/ runs[c].active > 0
  BY DEF TypeOK, RunCount
<1>3. runs[c].entries = 0 \/ runs[c].entries > 0
  BY FlowEntryAssumption DEF TypeOK, RunCount, FlowEntryAssumption
<1> QED
  BY <1>1, <1>2, <1>3 DEF CanEnter

\* An inserted run leaves well typed counts, and nobody else's are touched.
LEMMA InsertRunsEffect ==
    ASSUME TypeOK, NEW cs \in SUBSET Contact, InsertRuns(cs)
    PROVE  /\ runs' \in [Contact -> RunCount]
           /\ \A c \in Contact \ cs : runs'[c] = runs[c]
<1>1. \A c \in Contact : Counted(c) \in 0 .. MaxEntries
  <2> SUFFICES ASSUME NEW c \in Contact PROVE Counted(c) \in 0 .. MaxEntries
    OBVIOUS
  <2>1. runs[c].entries \in 0 .. MaxEntries /\ MaxEntries \in Nat
    BY FlowEntryAssumption DEF TypeOK, RunCount, FlowEntryAssumption
  <2> QED
    BY <2>1 DEF Counted
<1>2. \A c \in Contact : Inserted(c) \in RunCount
  BY <1>1 DEF Inserted, TypeOK, RunCount
<1> QED
  BY <1>2 DEF InsertRuns, TypeOK

\* The same of a transaction that asks before it inserts.
LEMMA EnterEffect ==
    ASSUME TypeOK, NEW cs \in SUBSET Contact, Enter(cs)
    PROVE  /\ runs' \in [Contact -> RunCount]
           /\ \A c \in Contact \ cs : runs'[c] = runs[c]
<1>1. PICK let \in [cs -> BOOLEAN] : InsertRuns({c \in cs : let[c]})
  BY DEF Enter
<1>2. {c \in cs : let[c]} \in SUBSET Contact /\ {c \in cs : let[c]} \subseteq cs
  OBVIOUS
<1> QED
  BY <1>1, <1>2, InsertRunsEffect

-----------------------------------------------------------------------------
(* Type correctness                                                        *)

\* The initial state is well typed, and nothing is under way.
LEMMA EntryInit == Init => EntryInv
<1> SUFFICES ASSUME Init PROVE EntryInv
  OBVIOUS
<1> USE FlowEntryAssumption DEF FlowEntryAssumption, Init
<1>1. flow \in FlowRow /\ flow.status = "draft" /\ flow.cursor = 0
  BY DEF FlowRow
<1>2. sweep \in SweepJob /\ sweep.phase = "none"
  <2>1. sweep = NoSweep /\ 0 \in 0 .. NumContacts
    OBVIOUS
  <2>2. NoSweep \in SweepJob /\ NoSweep.phase = "none"
    BY <2>1 DEF NoSweep, SweepJob
  <2> QED
    BY <2>1, <2>2
<1>3. enrol \in EnrolJob /\ enrol.phase = "none" /\ ~enrol.first
  BY DEF NoEnrol, EnrolJob
<1>4. check \in CheckTxn
  BY DEF NoCheck, CheckTxn
<1>5. runs \in [Contact -> RunCount] /\ \A c \in Contact : runs[c].entries = 0
  BY DEF RunCount
<1> QED
  BY <1>1, <1>2, <1>3, <1>4, <1>5
  DEF EntryInv, TypeInv, TypeOK, SweepFits, Untouched, SettledInv, EnrolInv, EnrolmentMissesNobody, Members

\* The last contact of a page is a contact the cursor can stand at.
LEMMA LastIsContact ==
    ASSUME NEW cs \in SUBSET Contact, cs # {}
    PROVE  LastOf(cs) \in 0 .. NumContacts
<1>1. LastOf(cs) \in 1 .. NumContacts
  BY LastOfContacts DEF Contact
<1> QED
  BY <1>1, FlowEntryAssumption DEF FlowEntryAssumption

\* Checks, runs and calls keep the state well typed.
LEMMA TypeChecks ==
    ASSUME TypeInv,
           \/ CommitCheck \/ LoseCheck \/ PauseOrResume
           \/ \E c \in Contact : BeginCheck(c) \/ ReceiveEvent(c) \/ RunEnds(c)
           \/ \E c \in Contact, g \in Segment : ContactChanges(c, g)
           \/ \E g \in Segment, enrolling \in BOOLEAN : PublishFlow(g, enrolling)
    PROVE  TypeInv'
<1>t. TypeOK /\ SweepFits
  BY DEF TypeInv
<1>b. /\ Change => changes' \in 0 .. MaxChanges
      /\ Fault => faults' \in 0 .. MaxFaults
  BY <1>t, FlowEntryAssumption DEF TypeOK, Change, Fault, FlowEntryAssumption
<1>1. ASSUME NEW c \in Contact, BeginCheck(c) PROVE TypeInv'
  <2>1. CanEnter(c) \subseteq BOOLEAN /\ c \in 0 .. NumContacts
    BY <1>t, CanEnterType DEF Contact
  <2>2. check' = NoCheck \/ check' \in [contact : {c}, enter : CanEnter(c), mark : {flow.type = "segment"}]
    BY <1>1 DEF BeginCheck
  <2>3. (flow.type = "segment") \in BOOLEAN /\ NoCheck \in CheckTxn
    BY FlowEntryAssumption DEF NoCheck, CheckTxn, FlowEntryAssumption
  <2>4. check' \in CheckTxn /\ (check' # NoCheck => check'.contact \in Contact)
    BY <2>1, <2>2, <2>3 DEF CheckTxn
  <2>5. checks' \subseteq Contact
    BY <1>1, <1>t DEF BeginCheck, TypeOK
  <2> QED
    BY <1>1, <1>t, <2>4, <2>5 DEF BeginCheck, TypeInv, TypeOK, SweepFits, history
<1>2. CASE CommitCheck
  <2>1. check.contact \in Contact
    BY <1>2, <1>t DEF CommitCheck, TypeOK
  <2>2. PICK cs \in SUBSET Contact : InsertRuns(cs)
    BY <1>2, <2>1 DEF CommitCheck
  <2>3. runs' \in [Contact -> RunCount]
    BY <1>t, <2>2, InsertRunsEffect
  <2>4. NoCheck \in CheckTxn
    BY FlowEntryAssumption DEF NoCheck, CheckTxn, FlowEntryAssumption
  <2>5. seen' \subseteq Contact
    BY <1>2, <1>t, <2>1 DEF CommitCheck, TypeOK
  <2> QED
    BY <1>2, <1>t, <2>3, <2>4, <2>5 DEF CommitCheck, TypeInv, TypeOK, SweepFits, history
<1>3. CASE LoseCheck
  <2>1. NoCheck \in CheckTxn
    BY FlowEntryAssumption DEF NoCheck, CheckTxn, FlowEntryAssumption
  <2> QED
    BY <1>3, <1>t, <1>b, <2>1 DEF LoseCheck, TypeInv, TypeOK, SweepFits, history
<1>4. CASE PauseOrResume
  <2>1. flow' \in FlowRow
    BY <1>4, <1>t DEF PauseOrResume, TypeOK, FlowRow
  <2> QED
    BY <1>4, <1>t, <1>b, <2>1 DEF PauseOrResume, TypeInv, TypeOK, SweepFits, history
<1>5. ASSUME NEW c \in Contact, ReceiveEvent(c) PROVE TypeInv'
  BY <1>5, <1>t, <1>b DEF ReceiveEvent, TypeInv, TypeOK, SweepFits, history
<1>6. ASSUME NEW c \in Contact, RunEnds(c) PROVE TypeInv'
  <2>1. runs[c] \in RunCount /\ runs[c].active = 1
    BY <1>6, <1>t DEF RunEnds, TypeOK, RunCount
  <2>2. [runs[c] EXCEPT !.active = @ - 1] \in RunCount
    BY <2>1 DEF RunCount
  <2>3. runs' = [runs EXCEPT ![c] = [runs[c] EXCEPT !.active = @ - 1]]
    BY <1>6 DEF RunEnds
  <2>4. runs' \in [Contact -> RunCount]
    BY <1>t, <2>2, <2>3 DEF TypeOK
  <2> QED
    BY <1>6, <1>t, <2>4 DEF RunEnds, TypeInv, TypeOK, SweepFits, history
<1>7. ASSUME NEW c \in Contact, NEW g \in Segment, ContactChanges(c, g) PROVE TypeInv'
  <2>1. members' \in [Segment -> SUBSET Contact]
    BY <1>7, <1>t DEF ContactChanges, TypeOK
  <2>2. settled' \subseteq Contact /\ staying' \subseteq Contact /\ checks' \subseteq Contact
    BY <1>7, <1>t DEF ContactChanges, TypeOK
  <2> QED
    BY <1>7, <1>t, <1>b, <2>1, <2>2 DEF ContactChanges, TypeInv, TypeOK, SweepFits
<1>8. ASSUME NEW g \in Segment, NEW enrolling \in BOOLEAN, PublishFlow(g, enrolling) PROVE TypeInv'
  <2>1. flow' \in FlowRow
    BY <1>8, <1>t DEF PublishFlow, TypeOK, FlowRow
  <2>2. members[g] \subseteq Contact
    BY <1>t DEF TypeOK
  <2>3. seen' \subseteq Contact /\ settled' \subseteq Contact /\ staying' \subseteq Contact
    BY <1>8, <1>t, <2>2 DEF PublishFlow, Seeded, TypeOK
  <2>4. enrol' \in EnrolJob
    <3> DEFINE first == flow.cursor = 0
    <3>1. \/ enrol' = [phase |-> "queued", cursor |-> 0, first |-> first]
          \/ enrol' = enrol
      BY <1>8 DEF PublishFlow
    <3>2. 0 \in 0 .. NumContacts /\ first \in BOOLEAN
      BY FlowEntryAssumption DEF FlowEntryAssumption
    <3> HIDE DEF first
    <3>3. [phase |-> "queued", cursor |-> 0, first |-> first] \in EnrolJob
      BY <3>2 DEF EnrolJob
    <3> QED
      BY <1>t, <3>1, <3>3 DEF TypeOK
  <2>5. changes' \in 0 .. MaxChanges
    BY <1>8, <1>t, <1>b DEF PublishFlow, TypeOK
  <2> QED
    BY <1>8, <1>t, <2>1, <2>3, <2>4, <2>5 DEF PublishFlow, TypeInv, TypeOK, SweepFits
<1> QED
  BY <1>1, <1>2, <1>3, <1>4, <1>5, <1>6, <1>7, <1>8

\* The jobs of the flow, sweep and enrolment, keep the state well typed.
LEMMA TypeJobs ==
    ASSUME TypeInv,
           \/ SweepTick \/ BeginSweep \/ DeleteStaleSnapshotBatch \/ LoadSweepCheckpoint
           \/ BeginPage \/ CommitPage \/ SweepFails \/ FailedSweepExpires
           \/ BeginEnrol \/ EnrollBatch \/ EnrolFails
    PROVE  TypeInv'
<1>t. TypeOK /\ SweepFits
  BY DEF TypeInv
<1>f. Fault => faults' \in 0 .. MaxFaults
  BY <1>t, FlowEntryAssumption DEF TypeOK, Fault, FlowEntryAssumption
<1>n. NoSweep \in SweepJob /\ NoSweep.phase = "none"
  BY FlowEntryAssumption DEF NoSweep, SweepJob, FlowEntryAssumption
<1>0. ASSUME UNCHANGED <<flow, members, seen, checks, runs, check, checkpoint, enrol, settled, staying, changes>>,
             faults' \in 0 .. MaxFaults, sweep' \in SweepJob, SweepFits'
      PROVE  TypeInv'
  BY <1>0, <1>t DEF TypeInv, TypeOK
<1>1. CASE SweepTick \/ FailedSweepExpires \/ SweepFails
  <2>1. \A ph \in {"queued", "failed"} : [NoSweep EXCEPT !.phase = ph] \in SweepJob
                                           /\ [NoSweep EXCEPT !.phase = ph].phase = ph
    BY <1>n DEF SweepJob
  <2>2. sweep' \in SweepJob /\ sweep'.phase \in {"none", "queued", "failed"}
    BY <1>1, <1>n, <2>1 DEF SweepTick, FailedSweepExpires, SweepFails
  <2>3. SweepFits'
    BY <2>2 DEF SweepFits
  <2>4. faults' \in 0 .. MaxFaults
    BY <1>1, <1>t, <1>f DEF SweepTick, FailedSweepExpires, SweepFails, TypeOK
  <2> QED
    BY <1>0, <1>1, <2>2, <2>3, <2>4 DEF SweepTick, FailedSweepExpires, SweepFails, history
<1>2. CASE BeginSweep
  <2>1. sweep' \in SweepJob /\ SweepFits'
    <3>1. CASE LiveSegmentFlow
      <4>1. sweep' = [NoSweep EXCEPT !.phase = "draining", !.segment = flow.segment]
        BY <1>2, <3>1 DEF BeginSweep
      <4>2. flow.segment \in Segment
        BY <1>t DEF TypeOK, FlowRow
      <4> QED
        BY <1>n, <4>1, <4>2 DEF SweepJob, SweepFits
    <3>2. CASE ~LiveSegmentFlow
      BY <1>2, <1>n, <3>2 DEF BeginSweep, SweepFits
    <3> QED
      BY <3>1, <3>2
  <2> QED
    BY <1>0, <1>2, <1>t, <2>1 DEF BeginSweep, history, TypeOK
<1>3. CASE DeleteStaleSnapshotBatch
  <2>1. seen' \subseteq Contact
    BY <1>3, <1>t DEF DeleteStaleSnapshotBatch, TypeOK
  <2> QED
    BY <1>3, <1>t, <2>1 DEF DeleteStaleSnapshotBatch, history, TypeInv, TypeOK, SweepFits
<1>4. CASE LoadSweepCheckpoint
  <2>1. sweep' \in SweepJob /\ SweepFits'
    BY <1>4, <1>t DEF LoadSweepCheckpoint, TypeOK, SweepJob, SweepFits
  <2> QED
    BY <1>0, <1>4, <1>t, <2>1 DEF LoadSweepCheckpoint, history, TypeOK
<1>5. CASE BeginPage
  <2> DEFINE page == PageAfter(members[sweep.segment], sweep.cursor)
  <2>1. sweep \in SweepJob /\ sweep.segment \in Segment /\ sweep.cursor \in 0 .. NumContacts
    BY <1>5, <1>t DEF BeginPage, SweepFits, TypeOK, SweepJob
  <2>2. members[sweep.segment] \in SUBSET Contact
    BY <1>t, <2>1 DEF TypeOK
  <2>3. page \in SUBSET Contact
    BY <2>1, <2>2, PageIsNext
  <2>4. \/ page = {} /\ sweep' = NoSweep /\ checkpoint' = 0
        \/ /\ page # {} /\ checkpoint' = checkpoint
           /\ sweep' = [sweep EXCEPT !.phase = "page", !.page = page, !.known = page \cap seen]
    BY <1>5 DEF BeginPage
  <2> HIDE DEF page
  <2>5. page # {} =>
          LET new == [sweep EXCEPT !.phase = "page", !.page = page, !.known = page \cap seen]
          IN  new \in SweepJob /\ new.page = page /\ new.segment = sweep.segment
    BY <2>1, <2>3 DEF SweepJob
  <2>6. sweep' \in SweepJob /\ SweepFits'
    BY <1>n, <2>1, <2>4, <2>5 DEF SweepFits
  <2>7. checkpoint' \in 0 .. NumContacts
    BY <1>t, <2>4, FlowEntryAssumption DEF TypeOK, FlowEntryAssumption
  <2> QED
    BY <1>5, <1>t, <2>6, <2>7 DEF BeginPage, history, TypeInv, TypeOK
<1>6. CASE CommitPage
  <2>1. sweep \in SweepJob /\ sweep.page \in SUBSET Contact /\ sweep.page # {} /\ sweep.segment \in Segment
    BY <1>6, <1>t DEF CommitPage, SweepFits, TypeOK, SweepJob
  <2>2. LastOf(sweep.page) \in 0 .. NumContacts
    BY <2>1, LastIsContact
  <2>3. sweep.page \ sweep.known \in SUBSET Contact /\ Enter(sweep.page \ sweep.known)
    BY <1>6, <2>1 DEF CommitPage
  <2>4. runs' \in [Contact -> RunCount]
    BY <1>t, <2>3, EnterEffect
  <2>5. \/ sweep' = NoSweep
        \/ sweep' = [sweep EXCEPT !.phase = "walking", !.cursor = LastOf(sweep.page), !.page = {}, !.known = {}]
    BY <1>6 DEF CommitPage
  <2>6. LET new == [sweep EXCEPT !.phase = "walking", !.cursor = LastOf(sweep.page), !.page = {}, !.known = {}]
        IN  new \in SweepJob /\ new.phase = "walking" /\ new.segment = sweep.segment
    BY <2>1, <2>2 DEF SweepJob
  <2>7. sweep' \in SweepJob /\ SweepFits'
    BY <1>n, <2>1, <2>5, <2>6 DEF SweepFits
  <2>8. seen' \subseteq Contact /\ checkpoint' \in 0 .. NumContacts
    BY <1>6, <1>t, <2>1, <2>2 DEF CommitPage, Checkpointed, TypeOK
  <2> QED
    BY <1>6, <1>t, <2>4, <2>7, <2>8 DEF CommitPage, history, TypeInv, TypeOK
<1>7. CASE BeginEnrol \/ EnrolFails
  <2>1. enrol' \in EnrolJob
    BY <1>7, <1>t DEF BeginEnrol, EnrolFails, TypeOK, EnrolJob, FlowRow
  <2>2. faults' \in 0 .. MaxFaults
    BY <1>7, <1>t, <1>f DEF BeginEnrol, EnrolFails, TypeOK
  <2> QED
    BY <1>7, <1>t, <2>1, <2>2 DEF BeginEnrol, EnrolFails, history, TypeInv, TypeOK, SweepFits
<1>8. CASE EnrollBatch
  <2> DEFINE page == PageAfter(Members, enrol.cursor)
             last == CursorAfter(page, enrol.cursor)
  <2>1. Members \in SUBSET Contact /\ enrol.cursor \in 0 .. NumContacts
    BY <1>t DEF TypeOK, Members, FlowRow, EnrolJob
  <2>2. page \in SUBSET Contact
    BY <2>1, PageIsNext
  <2>3. last \in 0 .. NumContacts
    BY <2>1, <2>2, LastIsContact DEF CursorAfter
  <2>4. /\ Enter(page \ seen) /\ seen' = seen \cup page /\ flow' = [flow EXCEPT !.cursor = last]
        /\ enrol' = [enrol EXCEPT !.cursor = last, !.phase = IF page = {} THEN "done" ELSE @]
    BY <1>8 DEF EnrollBatch
  <2> HIDE DEF page, last
  <2>5. runs' \in [Contact -> RunCount]
    BY <1>t, <2>2, <2>4, EnterEffect
  <2>6. flow' \in FlowRow /\ enrol' \in EnrolJob /\ seen' \subseteq Contact
    BY <1>t, <2>2, <2>3, <2>4 DEF TypeOK, FlowRow, EnrolJob
  <2> QED
    BY <1>8, <1>t, <2>5, <2>6 DEF EnrollBatch, history, TypeInv, TypeOK, SweepFits
<1> QED
  BY <1>1, <1>2, <1>3, <1>4, <1>5, <1>6, <1>7, <1>8

\* Every action keeps the state well typed.
LEMMA TypeStep == TypeInv /\ [Next]_vars => TypeInv'
<1> SUFFICES ASSUME TypeInv, [Next]_vars PROVE TypeInv'
  OBVIOUS
<1>1. CASE UNCHANGED vars
  BY <1>1 DEF vars, TypeInv, TypeOK, SweepFits
<1> QED
  BY <1>1, TypeChecks, TypeJobs DEF Next

\* Every reachable state is well typed: cursors and pages stay among the
\* contacts, a contact has at most one active run, and a sweep under way has
\* its segment.
THEOREM TypeCorrect == Spec => []TypeOK
<1>1. Init => TypeInv
  BY EntryInit DEF EntryInv
<1>2. TypeInv /\ [Next]_vars => TypeInv'
  BY TypeStep
<1>3. TypeInv => TypeOK
  BY DEF TypeInv
<1> QED
  BY <1>1, <1>2, <1>3, PTL DEF Spec

-----------------------------------------------------------------------------
(* The settled members and the enrolment                                   *)

\* A step that takes no mark away, enters none of the settled, and leaves the
\* flow, the history and the enrolment as they are preserves what is claimed
\* of them, if the check and the page it leaves behind do.
LEMMA MarkingStep ==
    ASSUME EntryInv, TypeInv',
           UNCHANGED <<flow, members, enrol, settled, staying>>, seen \subseteq seen',
           \A c \in settled : runs'[c].entries = runs[c].entries,
           check'.contact \notin settled, sweep'.phase = "page" => sweep'.page \cap settled \subseteq sweep'.known
    PROVE  SettledInv' /\ EnrolInv'
<1>1. SettledInv'
  <2>1. Members' = Members
    BY DEF Members
  <2> QED
    BY <2>1 DEF EntryInv, SettledInv
<1>2. EnrolInv'
  <2>1. Members' = Members
    BY DEF Members
  <2> QED
    BY <2>1 DEF EntryInv, EnrolInv, EnrolmentMissesNobody
<1> QED
  BY <1>1, <1>2

\* Checks do not enter a settled member, and begin only once the flow is live.
LEMMA EntryChecks ==
    ASSUME EntryInv, TypeInv',
           CommitCheck \/ LoseCheck \/ \E c \in Contact : BeginCheck(c) \/ ReceiveEvent(c)
    PROVE  EntryInv'
<1>t. TypeOK /\ Untouched /\ SettledInv /\ EnrolInv
  BY DEF EntryInv, TypeInv
<1>n. NoCheck.contact \notin Contact
  BY FlowEntryAssumption DEF NoCheck, Contact, FlowEntryAssumption
<1>s. settled \subseteq Contact
  BY <1>t DEF TypeOK
<1>1. ASSUME NEW c \in Contact, BeginCheck(c) PROVE EntryInv'
  <2>1. check' = NoCheck \/ /\ check' \in [contact : {c}, enter : CanEnter(c), mark : {flow.type = "segment"}]
                            /\ IF flow.type = "event" THEN flow.status = "live"
                               ELSE LiveSegmentFlow /\ c \notin seen
    BY <1>1 DEF BeginCheck
  <2>2. check'.contact \notin settled
    <3>1. CASE check' = NoCheck
      BY <3>1, <1>n, <1>s
    <3>2. CASE check' # NoCheck
      <4>1. check'.contact = c
        BY <2>1, <3>2
      <4>2. c \notin settled
        BY <2>1, <3>2, <1>t DEF SettledInv
      <4> QED
        BY <4>1, <4>2
    <3> QED
      BY <3>1, <3>2
  <2>3. UNCHANGED <<flow, members, seen, runs, sweep, enrol, settled, staying>>
    BY <1>1 DEF BeginCheck, history
  <2>4. SettledInv' /\ EnrolInv'
    BY <1>t, <2>2, <2>3, MarkingStep DEF SettledInv
  <2>5. Untouched'
    <3> SUFFICES ASSUME flow.status = "draft" PROVE check' = NoCheck
      BY <1>t, <2>3 DEF Untouched
    <3> QED
      BY <2>1 DEF LiveSegmentFlow
  <2> QED
    BY <2>4, <2>5 DEF EntryInv
<1>2. CASE CommitCheck
  <2>1. /\ UNCHANGED <<flow, members, sweep, enrol, settled, staying>> /\ seen \subseteq seen'
        /\ check # NoCheck /\ check' = NoCheck
    BY <1>2 DEF CommitCheck, history
  <2>2. check.contact \in Contact /\ check.contact \notin settled
    BY <2>1, <1>t DEF TypeOK, SettledInv
  <2>3. PICK cs \in SUBSET {check.contact} : InsertRuns(cs)
    BY <1>2 DEF CommitCheck
  <2>4. \A c \in settled : runs'[c] = runs[c]
    <3>1. cs \in SUBSET Contact
      BY <2>2, <2>3
    <3>2. \A c \in Contact \ cs : runs'[c] = runs[c]
      BY <3>1, <1>t, <2>3, InsertRunsEffect
    <3> QED
      BY <3>2, <1>s, <2>2, <2>3
  <2>5. SettledInv' /\ EnrolInv'
    BY <1>t, <1>n, <1>s, <2>1, <2>4, MarkingStep DEF SettledInv
  <2>6. Untouched'
    BY <1>t, <2>1 DEF Untouched
  <2> QED
    BY <2>5, <2>6 DEF EntryInv
<1>3. CASE LoseCheck
  <2>1. UNCHANGED <<flow, members, seen, runs, sweep, enrol, settled, staying>> /\ check' = NoCheck
    BY <1>3 DEF LoseCheck, history
  <2>2. SettledInv' /\ EnrolInv'
    BY <1>t, <1>n, <1>s, <2>1, MarkingStep DEF SettledInv
  <2> QED
    BY <1>t, <2>1, <2>2 DEF EntryInv, Untouched
<1>4. ASSUME NEW c \in Contact, ReceiveEvent(c) PROVE EntryInv'
  <2>1. UNCHANGED <<flow, members, seen, runs, check, sweep, enrol, settled, staying>>
    BY <1>4 DEF ReceiveEvent, history
  <2>2. SettledInv' /\ EnrolInv'
    BY <1>t, <2>1, MarkingStep DEF SettledInv
  <2> QED
    BY <1>t, <2>1, <2>2 DEF EntryInv, Untouched
<1> QED
  BY <1>1, <1>2, <1>3, <1>4

\* The sweep marks whom it passes over, and takes no mark away from a member.
LEMMA EntrySweep ==
    ASSUME OneSegment, EntryInv, TypeInv',
           \/ SweepTick \/ BeginSweep \/ DeleteStaleSnapshotBatch \/ LoadSweepCheckpoint
           \/ BeginPage \/ CommitPage \/ SweepFails \/ FailedSweepExpires
    PROVE  EntryInv'
<1>t. TypeOK /\ SweepFits /\ Untouched /\ SettledInv /\ EnrolInv
  BY DEF EntryInv, TypeInv
<1>s. settled \subseteq Contact
  BY <1>t DEF TypeOK
<1>u. flow.status = "draft" => sweep.phase = "none"
  BY <1>t DEF Untouched
<1>n. NoSweep \in SweepJob /\ NoSweep.phase = "none"
  BY FlowEntryAssumption DEF NoSweep, SweepJob, Contact
<1>j. sweep \in SweepJob
  BY <1>t DEF TypeOK
<1>1. CASE SweepTick \/ BeginSweep \/ LoadSweepCheckpoint \/ SweepFails \/ FailedSweepExpires
  <2>1. UNCHANGED <<flow, members, seen, runs, check, enrol, settled, staying>>
    BY <1>1 DEF SweepTick, BeginSweep, LoadSweepCheckpoint, SweepFails, FailedSweepExpires, history
  <2>2. sweep'.phase # "page"
    <3>1. CASE SweepTick
      <4>1. sweep' = [NoSweep EXCEPT !.phase = "queued"]
        BY <3>1 DEF SweepTick
      <4> QED
        BY <4>1, <1>n DEF SweepJob
    <3>2. CASE BeginSweep
      <4>1. sweep' = NoSweep \/ sweep' = [NoSweep EXCEPT !.phase = "draining", !.segment = flow.segment]
        BY <3>2 DEF BeginSweep
      <4> QED
        BY <4>1, <1>n DEF SweepJob
    <3>3. CASE LoadSweepCheckpoint
      <4>1. sweep' = [sweep EXCEPT !.phase = "walking", !.cursor = checkpoint]
        BY <3>3 DEF LoadSweepCheckpoint
      <4> QED
        BY <4>1, <1>j DEF SweepJob
    <3>4. CASE SweepFails
      <4>1. sweep' = NoSweep \/ sweep' = [NoSweep EXCEPT !.phase = "failed"]
        BY <3>4 DEF SweepFails
      <4> QED
        BY <4>1, <1>n DEF SweepJob
    <3>5. CASE FailedSweepExpires
      BY <3>5, <1>n DEF FailedSweepExpires
    <3> QED
      BY <1>1, <3>1, <3>2, <3>3, <3>4, <3>5
  <2>3. SettledInv' /\ EnrolInv'
    BY <1>t, <2>1, <2>2, MarkingStep DEF SettledInv
  <2>4. flow.status # "draft"
    BY <1>1, <1>u DEF SweepTick, BeginSweep, LoadSweepCheckpoint, SweepFails, FailedSweepExpires, LiveSegmentFlow
  <2> QED
    BY <2>1, <2>3, <2>4 DEF EntryInv, Untouched
<1>2. CASE DeleteStaleSnapshotBatch
  <2>1. UNCHANGED <<flow, members, runs, check, sweep, enrol, settled, staying>> /\ sweep.phase = "draining"
    BY <1>2 DEF DeleteStaleSnapshotBatch, history
  <2>2. PICK batch \in SUBSET (seen \ members[sweep.segment]) : seen' = seen \ batch
    BY <1>2 DEF DeleteStaleSnapshotBatch
  <2>3. members[sweep.segment] = Members
    BY <1>t, <2>1 DEF SweepFits, TypeOK, FlowRow, OneSegment, Members
  <2>4. \A c \in Members : c \in seen => c \in seen'
    BY <2>2, <2>3
  <2>5. Members' = Members
    BY <2>1 DEF Members
  <2>6. SettledInv'
    BY <1>t, <2>1, <2>4, <2>5 DEF SettledInv
  <2>7. EnrolInv'
    BY <1>t, <2>1, <2>4, <2>5 DEF EnrolInv, EnrolmentMissesNobody
  <2> QED
    BY <1>t, <2>1, <2>6, <2>7 DEF EntryInv, Untouched
<1>3. CASE BeginPage
  <2>1. UNCHANGED <<flow, members, seen, runs, check, enrol, settled, staying>> /\ sweep.phase = "walking"
    BY <1>3 DEF BeginPage, history
  <2>2. sweep'.phase = "page" => sweep'.page \cap seen \subseteq sweep'.known
    <3> DEFINE page == PageAfter(members[sweep.segment], sweep.cursor)
    <3>1. \/ sweep' = NoSweep
          \/ sweep' = [sweep EXCEPT !.phase = "page", !.page = page, !.known = page \cap seen]
      BY <1>3 DEF BeginPage
    <3> HIDE DEF page
    <3>2. CASE sweep' = NoSweep
      BY <3>2, <1>n
    <3>3. CASE sweep' = [sweep EXCEPT !.phase = "page", !.page = page, !.known = page \cap seen]
      <4>1. sweep'.page = page /\ sweep'.known = page \cap seen
        BY <3>3, <1>j DEF SweepJob
      <4> QED
        BY <4>1
    <3> QED
      BY <3>1, <3>2, <3>3
  <2>3. sweep'.phase = "page" => sweep'.page \cap settled \subseteq sweep'.known
    BY <1>t, <2>2 DEF SettledInv
  <2>4. SettledInv' /\ EnrolInv'
    BY <1>t, <2>1, <2>3, MarkingStep DEF SettledInv
  <2> QED
    BY <1>u, <2>1, <2>4 DEF EntryInv, Untouched
<1>4. CASE CommitPage
  <2>1. /\ UNCHANGED <<flow, members, check, enrol, settled, staying>> /\ seen \subseteq seen'
        /\ sweep.phase = "page" /\ Enter(sweep.page \ sweep.known)
    BY <1>4 DEF CommitPage, history
  <2>2. sweep'.phase # "page"
    <3>1. \/ sweep' = NoSweep
          \/ sweep' = [sweep EXCEPT !.phase = "walking", !.cursor = LastOf(sweep.page), !.page = {}, !.known = {}]
      BY <1>4 DEF CommitPage
    <3>2. CASE sweep' = NoSweep
      BY <3>2, <1>n
    <3>3. CASE sweep' = [sweep EXCEPT !.phase = "walking", !.cursor = LastOf(sweep.page), !.page = {}, !.known = {}]
      BY <3>3, <1>j DEF SweepJob
    <3> QED
      BY <3>1, <3>2, <3>3
  <2>3. \A c \in settled : runs'[c] = runs[c]
    <3>1. sweep.page \ sweep.known \in SUBSET Contact
      BY <1>t DEF TypeOK, SweepJob
    <3>2. \A c \in Contact \ (sweep.page \ sweep.known) : runs'[c] = runs[c]
      BY <1>t, <2>1, <3>1, EnterEffect
    <3>3. \A c \in settled : c \notin sweep.page \ sweep.known
      BY <1>t, <2>1 DEF SettledInv
    <3> QED
      BY <1>s, <3>2, <3>3
  <2>4. SettledInv' /\ EnrolInv'
    BY <1>t, <2>1, <2>2, <2>3, MarkingStep DEF SettledInv
  <2> QED
    BY <1>u, <2>1, <2>4 DEF EntryInv, Untouched
<1> QED
  BY <1>1, <1>2, <1>3, <1>4

\* The enrolment enters nobody who is marked, and leaves nobody behind.
LEMMA EntryEnrolment ==
    ASSUME EntryInv, TypeInv', BeginEnrol \/ EnrollBatch \/ EnrolFails
    PROVE  EntryInv'
<1>t. TypeOK /\ SweepFits /\ Untouched /\ SettledInv /\ EnrolInv
  BY DEF EntryInv, TypeInv
<1>s. settled \subseteq Contact /\ staying \subseteq Contact /\ enrol \in EnrolJob /\ flow \in FlowRow
  BY <1>t DEF TypeOK
<1>u. flow.status # "draft"
  BY <1>t DEF Untouched, BeginEnrol, EnrollBatch, EnrolFails
<1>1. CASE BeginEnrol \/ EnrolFails
  <2>1. UNCHANGED <<flow, members, seen, runs, check, sweep, settled, staying>>
    BY <1>1 DEF BeginEnrol, EnrolFails, history
  <2>2. /\ enrol'.first = enrol.first /\ enrol'.phase \in {"queued", "walking"}
        /\ enrol'.phase = "walking" => enrol'.cursor = flow.cursor
    BY <1>1, <1>s DEF BeginEnrol, EnrolFails, EnrolJob
  <2>3. Members' = Members
    BY <2>1 DEF Members
  <2>4. SettledInv'
    BY <1>t, <2>1, <2>3 DEF SettledInv
  <2>5. EnrolInv'
    BY <1>t, <2>1, <2>2, <2>3 DEF EnrolInv, EnrolmentMissesNobody
  <2> QED
    BY <1>u, <2>1, <2>4, <2>5 DEF EntryInv, Untouched
<1>2. CASE EnrollBatch
  <2> DEFINE page == PageAfter(Members, enrol.cursor)
             last == CursorAfter(page, enrol.cursor)
  <2>1. /\ enrol.phase = "walking" /\ Enter(page \ seen) /\ seen' = seen \cup page
        /\ flow' = [flow EXCEPT !.cursor = last]
        /\ enrol' = [enrol EXCEPT !.cursor = last, !.phase = IF page = {} THEN "done" ELSE @]
        /\ UNCHANGED <<members, check, sweep, settled, staying>>
    BY <1>2 DEF EnrollBatch, history
  <2>2. Members \in SUBSET Contact /\ enrol.cursor \in 0 .. NumContacts
    BY <1>t DEF TypeOK, Members, FlowRow, EnrolJob
  <2>3. /\ page \in SUBSET Contact
        /\ \A c \in Members, d \in page : enrol.cursor < c /\ c <= d => c \in page
        /\ page = {} => \A c \in Members : c <= enrol.cursor
    BY <2>2, PageIsNext
  <2>4. /\ page = {} => last = enrol.cursor
        /\ page # {} => last \in page
    BY <2>3, LastOfContacts DEF CursorAfter
  <2> HIDE DEF page, last
  <2>5. \A c \in settled : runs'[c] = runs[c]
    <3>1. \A c \in Contact \ (page \ seen) : runs'[c] = runs[c]
      BY <1>t, <2>1, <2>3, EnterEffect
    <3>2. \A c \in settled : c \in seen
      BY <1>t DEF SettledInv
    <3> QED
      BY <1>s, <3>1, <3>2
  <2>6. /\ flow'.status = flow.status /\ flow'.type = flow.type /\ flow'.segment = flow.segment
        /\ flow'.cursor = last
    BY <1>s, <2>1 DEF FlowRow
  <2>7. /\ enrol'.first = enrol.first /\ enrol'.cursor = last
        /\ enrol'.phase = IF page = {} THEN "done" ELSE "walking"
    BY <1>s, <2>1 DEF EnrolJob
  <2>8. Members' = Members
    BY <2>1, <2>6 DEF Members
  <2>9. SettledInv'
    BY <1>t, <2>1, <2>5, <2>6, <2>8 DEF SettledInv
  <2>10. ASSUME enrol.first, NEW c \in staying, c <= last PROVE c \in seen'
    <3>1. c \in Nat /\ enrol.cursor \in Nat /\ c \in Members
      BY <1>s, <1>t, <2>2 DEF EnrolInv, Contact
    <3>2. CASE c <= enrol.cursor
      BY <1>t, <2>1, <2>10, <3>2 DEF EnrolInv
    <3>3. CASE ~(c <= enrol.cursor)
      <4>1. enrol.cursor < c
        BY <3>1, <3>3
      <4>2. page # {}
        BY <2>3, <3>1, <3>3
      <4> QED
        BY <2>1, <2>3, <2>4, <2>10, <3>1, <4>1, <4>2
    <3> QED
      BY <3>2, <3>3
  <2>11. ASSUME enrol.first, page = {} PROVE staying \subseteq seen'
    <3>1. \A c \in staying : c <= last
      BY <1>t, <2>3, <2>4, <2>11 DEF EnrolInv
    <3> QED
      BY <3>1, <2>10, <2>11
  <2>12. EnrolmentMissesNobody'
    BY <2>1, <2>7, <2>11 DEF EnrolmentMissesNobody
  <2>13. EnrolInv'
    BY <1>t, <2>1, <2>6, <2>7, <2>8, <2>10, <2>12 DEF EnrolInv
  <2>14. Untouched'
    BY <1>u, <2>6 DEF Untouched
  <2> QED
    BY <2>9, <2>13, <2>14 DEF EntryInv
<1> QED
  BY <1>1, <1>2

\* Publishing marks the members it settles; afterwards none is added to them.
LEMMA EntryPublish ==
    ASSUME EntryInv, TypeInv', NEW g \in Segment, NEW enrolling \in BOOLEAN, PublishFlow(g, enrolling)
    PROVE  EntryInv'
<1>t. TypeOK /\ Untouched /\ SettledInv /\ EnrolInv
  BY DEF EntryInv, TypeInv
<1>s. settled \subseteq Contact /\ staying \subseteq Contact /\ enrol \in EnrolJob /\ flow \in FlowRow
      /\ members[g] \subseteq Contact
  BY <1>t DEF TypeOK
<1>1. /\ flow'.status # "draft" /\ flow'.type = flow.type /\ flow'.segment = g /\ flow'.cursor = flow.cursor
      /\ flow.type \in {"segment", "event"}
  BY <1>s DEF PublishFlow, FlowRow
<1>2. UNCHANGED <<members, runs, check, sweep>> /\ seen \subseteq seen' /\ Members' = members[g]
  BY <1>1 DEF PublishFlow, Seeded, Members
<1>3. SettledInv'
  <2>1. CASE flow.status = "draft" /\ flow.type = "segment" /\ ~enrolling
    <3>1. settled' = members[g] /\ members[g] \subseteq seen'
      BY <2>1 DEF PublishFlow, Seeded
    <3>2. check = NoCheck /\ sweep.phase = "none" /\ \A c \in Contact : runs[c].entries = 0
      BY <1>t, <2>1 DEF Untouched
    <3>3. NoCheck.contact \notin Contact
      BY FlowEntryAssumption DEF NoCheck, Contact, FlowEntryAssumption
    <3> QED
      BY <1>1, <1>2, <1>s, <2>1, <3>1, <3>2, <3>3 DEF SettledInv
  <2>2. CASE ~(flow.status = "draft" /\ flow.type = "segment" /\ ~enrolling)
    <3>1. settled' = settled \cap members[g]
      BY <2>2 DEF PublishFlow
    <3> QED
      BY <1>1, <1>2, <1>t, <3>1 DEF SettledInv
  <2> QED
    BY <2>1, <2>2
<1>4. EnrolInv'
  <2>1. CASE flow.type = "segment" /\ enrolling
    <3>1. /\ enrol' = [phase |-> "queued", cursor |-> 0, first |-> flow.cursor = 0]
          /\ staying' = members[g]
      BY <2>1 DEF PublishFlow
    <3>2. enrol'.phase = "queued" /\ (enrol'.first => flow.cursor = 0)
      BY <3>1
    <3>3. \A c \in staying' : ~(c <= 0)
      BY <1>s, <3>1 DEF Contact
    <3> QED
      BY <1>1, <1>2, <3>1, <3>2, <3>3 DEF EnrolInv, EnrolmentMissesNobody
  <2>2. CASE ~(flow.type = "segment" /\ enrolling)
    <3>1. enrol' = enrol /\ staying' = staying \cap members[g]
      BY <2>2 DEF PublishFlow
    <3> QED
      BY <1>1, <1>2, <1>t, <3>1 DEF EnrolInv, EnrolmentMissesNobody
  <2> QED
    BY <2>1, <2>2
<1> QED
  BY <1>1, <1>3, <1>4 DEF EntryInv, Untouched

\* What happens to contacts, runs and a paused flow leaves both claims alone.
LEMMA EntrySurroundings ==
    ASSUME OneSegment, EntryInv, TypeInv',
           \/ PauseOrResume \/ \E c \in Contact : RunEnds(c)
           \/ \E c \in Contact, g \in Segment : ContactChanges(c, g)
    PROVE  EntryInv'
<1>t. TypeOK /\ Untouched /\ SettledInv /\ EnrolInv
  BY DEF EntryInv, TypeInv
<1>s. settled \subseteq Contact /\ flow \in FlowRow
  BY <1>t DEF TypeOK
<1>1. CASE PauseOrResume
  <2>1. UNCHANGED <<members, seen, runs, check, sweep, enrol, settled, staying>>
    BY <1>1 DEF PauseOrResume, history
  <2>2. /\ flow'.type = flow.type /\ flow'.segment = flow.segment /\ flow'.cursor = flow.cursor
        /\ flow'.status # "draft"
    BY <1>1, <1>s DEF PauseOrResume, FlowRow
  <2>3. Members' = Members
    BY <2>1, <2>2 DEF Members
  <2>4. SettledInv'
    BY <1>t, <2>1, <2>2, <2>3 DEF SettledInv
  <2>5. EnrolInv'
    BY <1>t, <2>1, <2>2, <2>3 DEF EnrolInv, EnrolmentMissesNobody
  <2> QED
    BY <2>2, <2>4, <2>5 DEF EntryInv, Untouched
<1>2. ASSUME NEW c \in Contact, RunEnds(c) PROVE EntryInv'
  <2>1. UNCHANGED <<flow, members, seen, check, sweep, enrol, settled, staying>>
    BY <1>2 DEF RunEnds, history
  <2>2. \A d \in Contact : runs'[d].entries = runs[d].entries
    BY <1>2, <1>t DEF RunEnds, TypeOK, RunCount
  <2>3. SettledInv' /\ EnrolInv'
    BY <1>t, <1>s, <2>1, <2>2, MarkingStep DEF SettledInv
  <2>4. Untouched'
    BY <1>t, <2>1, <2>2 DEF Untouched
  <2> QED
    BY <2>3, <2>4 DEF EntryInv
<1>3. ASSUME NEW c \in Contact, NEW g \in Segment, ContactChanges(c, g) PROVE EntryInv'
  <2>1. g = flow.segment
    BY <1>s DEF OneSegment, FlowRow
  <2>2. /\ UNCHANGED <<flow, seen, runs, check, sweep, enrol>>
        /\ settled' = settled \ {c} /\ staying' = staying \ {c}
    BY <1>3, <2>1 DEF ContactChanges
  <2>3. Members' \in {Members \ {c}, Members \cup {c}}
    BY <1>3, <1>t, <2>1, <2>2 DEF ContactChanges, Members, TypeOK
  <2>4. SettledInv'
    BY <1>t, <2>2, <2>3 DEF SettledInv
  <2>5. EnrolInv'
    BY <1>t, <2>2, <2>3 DEF EnrolInv, EnrolmentMissesNobody
  <2>6. Untouched'
    BY <1>t, <2>2 DEF Untouched
  <2> QED
    BY <2>4, <2>5, <2>6 DEF EntryInv
<1> QED
  BY <1>1, <1>2, <1>3

\* With one trigger segment every action preserves the invariant.
LEMMA EntryStep == ASSUME OneSegment PROVE EntryInv /\ [Next]_vars => EntryInv'
<1> SUFFICES ASSUME EntryInv, [Next]_vars PROVE EntryInv'
  OBVIOUS
<1>t. TypeInv'
  BY TypeStep DEF EntryInv
<1>1. CASE UNCHANGED vars
  BY <1>1, <1>t DEF vars, EntryInv, Untouched, SettledInv, EnrolInv, EnrolmentMissesNobody, Members
<1> QED
  BY <1>1, <1>t, EntryChecks, EntrySweep, EntryEnrolment, EntryPublish, EntrySurroundings DEF Next

\* So it holds in every reachable state.
LEMMA EntryInvariant == ASSUME OneSegment PROVE Spec => []EntryInv
<1>1. Init => EntryInv
  BY EntryInit
<1>2. EntryInv /\ [Next]_vars => EntryInv'
  BY EntryStep
<1> QED
  BY <1>1, <1>2, PTL DEF Spec

\* Members that publishing settled are not entered for as long as they stay in
\* the trigger segment, unless the flow is given another one.
THEOREM SettledMembersStayOutTheorem == ASSUME OneSegment PROVE Spec => []SettledMembersStayOut
<1>1. EntryInv => SettledMembersStayOut
  BY DEF EntryInv, SettledInv, SettledMembersStayOut
<1> QED
  BY <1>1, EntryInvariant, PTL

\* A first enrolment that has come to its end passed over nobody who was a
\* member all along, whatever the size of its batches and wherever it failed.
THEOREM EnrolmentMissesNobodyTheorem == ASSUME OneSegment PROVE Spec => []EnrolmentMissesNobody
<1>1. EntryInv => EnrolmentMissesNobody
  BY DEF EntryInv, EnrolInv
<1> QED
  BY <1>1, EntryInvariant, PTL
=============================================================================

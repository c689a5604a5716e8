------------------------------ MODULE FlowEntry -----------------------------
(***************************************************************************)
(* How contacts come into a flow: the trigger check after an event, the    *)
(* sweep that looks for new members of the trigger segment, the one-time   *)
(* enrolment of its present members, and the snapshot of members already   *)
(* considered, which publishing seeds.                                     *)
(*                                                                         *)
(* A trigger check decides from what it reads and inserts later, in the    *)
(* same transaction; a page of the sweep reads the snapshot first and      *)
(* enters its contacts at the end.  What a run does once it is entered is  *)
(* the subject of FlowRuns: here it just ends.                             *)
(***************************************************************************)
EXTENDS Naturals, FiniteSets

CONSTANTS
    NumContacts,    \* contacts are numbered in the order of their ids
    Segment,        \* segments a flow may be triggered by
    ReentryModes,   \* the re-entry modes of the flows to consider
    PageSize,       \* SWEEP_PAGE_SIZE and ENROLL_BATCH_SIZE
    MaxEntries,     \* bound: entries of a contact are counted up to it
    MaxChanges,     \* bound: edits of contacts and flow, and events
    MaxFaults       \* bound: failed and cut off jobs

ASSUME FlowEntryAssumption ==
    /\ ReentryModes \subseteq {"every_time", "once_ever", "once_per_n_days"}
    /\ NumContacts \in Nat /\ PageSize \in Nat \ {0}
    /\ MaxEntries \in Nat /\ MaxChanges \in Nat /\ MaxFaults \in Nat

Contact == 1 .. NumContacts

VARIABLES
    flow,       \* the row of flows
    members,    \* the contacts in each segment
    seen,       \* flow_segment_membership_snapshot
    runs,       \* per contact: active runs, and entries ever
    checks,     \* jobs of the trigger evaluator: contacts that had an event
    check,      \* the open transaction of a trigger check
    checkpoint, \* flow_segment_sweep_checkpoint
    sweep,      \* the sweep job of the flow
    enrol,      \* the enrolment job of the flow
    settled,    \* history: members since a publish that was not to enrol them
    staying,    \* history: members since a publish that was to enrol them
    changes, faults

vars == <<flow, members, seen, runs, checks, check, checkpoint, sweep, enrol,
          settled, staying, changes, faults>>

history == <<settled, staying>>

NoCheck == [contact |-> 0, enter |-> FALSE, mark |-> FALSE]
NoSweep == [phase |-> "none", segment |-> "", cursor |-> 0, page |-> {}, known |-> {}]
NoEnrol == [phase |-> "none", cursor |-> 0, first |-> FALSE]

FlowRow  == [status : {"draft", "live", "paused"}, type : {"segment", "event"},
             reentry : ReentryModes, segment : Segment, cursor : 0 .. NumContacts]
CheckTxn == [contact : 0 .. NumContacts, enter : BOOLEAN, mark : BOOLEAN]
SweepJob == [phase : {"none", "queued", "draining", "walking", "page", "failed"},
             segment : Segment \cup {""}, cursor : 0 .. NumContacts,
             page : SUBSET Contact, known : SUBSET Contact]
EnrolJob == [phase : {"none", "queued", "walking", "done"}, cursor : 0 .. NumContacts, first : BOOLEAN]
RunCount == [active : 0 .. 1, entries : 0 .. MaxEntries]

TypeOK ==
    /\ flow \in FlowRow /\ members \in [Segment -> SUBSET Contact]
    /\ seen \subseteq Contact /\ checks \subseteq Contact
    /\ settled \subseteq Contact /\ staying \subseteq Contact
    /\ runs \in [Contact -> RunCount]
    /\ check \in CheckTxn /\ (check # NoCheck => check.contact \in Contact)
    /\ checkpoint \in 0 .. NumContacts /\ sweep \in SweepJob /\ enrol \in EnrolJob
    /\ changes \in 0 .. MaxChanges /\ faults \in 0 .. MaxFaults

Init ==
    /\ \E type \in {"segment", "event"}, mode \in ReentryModes, g \in Segment :
         flow = [status |-> "draft", type |-> type, reentry |-> mode, segment |-> g, cursor |-> 0]
    /\ members \in [Segment -> SUBSET Contact]
    /\ seen = {}
    /\ runs = [c \in Contact |-> [active |-> 0, entries |-> 0]]
    /\ checks = {} /\ check = NoCheck
    /\ checkpoint = 0 /\ sweep = NoSweep /\ enrol = NoEnrol
    /\ settled = {} /\ staying = {}
    /\ changes = 0 /\ faults = 0

Members == members[flow.segment]
LiveSegmentFlow == flow.status = "live" /\ flow.type = "segment"

Change == changes < MaxChanges /\ changes' = changes + 1
Fault  == faults < MaxFaults /\ faults' = faults + 1

-----------------------------------------------------------------------------
\* What canEnterFlow may answer: the window of once_per_n_days may have passed
\* or not.
CanEnter(c) ==
    CASE runs[c].active > 0 -> {FALSE}
      [] runs[c].active = 0 /\ runs[c].entries = 0 -> {TRUE}
      [] runs[c].active = 0 /\ runs[c].entries > 0 ->
           CASE flow.reentry = "every_time"      -> {TRUE}
             [] flow.reentry = "once_ever"       -> {FALSE}
             [] flow.reentry = "once_per_n_days" -> BOOLEAN

Counted(c) == IF runs[c].entries < MaxEntries THEN runs[c].entries + 1 ELSE MaxEntries

\* The insert of a run: a conflict on the index of active runs does nothing.
Inserted(c) == IF runs[c].active > 0 THEN runs[c]
               ELSE [active |-> 1, entries |-> Counted(c)]

InsertRuns(cs) == runs' = [c \in Contact |-> IF c \in cs THEN Inserted(c) ELSE runs[c]]

\* Insert runs for the contacts of a transaction that may enter.
Enter(cs) ==
    \E let \in [cs -> BOOLEAN] :
      /\ \A c \in cs : let[c] \in CanEnter(c)
      /\ InsertRuns({c \in cs : let[c]})

\* Mutant: the page starts two after the cursor.
PageSkipsOne(cs, after) ==
    LET rest == {c \in cs : c > after + 1}
    IN  {c \in rest : Cardinality({x \in rest : x < c}) < PageSize}

\* The first page of contacts after a cursor, by id.
PageAfter(cs, after) ==
    LET rest == {c \in cs : c > after}
    IN  {c \in rest : Cardinality({x \in rest : x < c}) < PageSize}

LastOf(cs) == CHOOSE c \in cs : \A x \in cs : x <= c

\* processFlowTriggerCheck up to its insert: an event flow is entered on the
\* event; for a segment flow the contact must be a new member.
BeginCheck(c) ==
    /\ c \in checks /\ check = NoCheck
    /\ checks' = checks \ {c}
    /\ LET asked == IF flow.type = "event" THEN flow.status = "live"
                    ELSE LiveSegmentFlow /\ c \notin seen /\ c \in Members
       IN  check' \in IF ~asked THEN {NoCheck}
                      ELSE [contact : {c}, enter : CanEnter(c), mark : {flow.type = "segment"}]
    /\ UNCHANGED <<flow, members, seen, runs, checkpoint, sweep, enrol, history, changes, faults>>

\* Its insert, its mark and its commit.
CommitCheck ==
    /\ check # NoCheck
    /\ InsertRuns(IF check.enter THEN {check.contact} ELSE {})
    /\ seen' = IF check.mark THEN seen \cup {check.contact} ELSE seen
    /\ check' = NoCheck
    /\ UNCHANGED <<flow, members, checks, checkpoint, sweep, enrol, history, changes, faults>>

\* A check that fails for good, or is lost.
LoseCheck ==
    /\ check # NoCheck /\ Fault
    /\ check' = NoCheck
    /\ UNCHANGED <<flow, members, seen, runs, checks, checkpoint, sweep, enrol, history, changes>>

-----------------------------------------------------------------------------
\* runFlowSegmentSweepTick: the job id is the flow's, so a job that waits, runs
\* or is kept as failed keeps a second one out.
SweepTick ==
    /\ LiveSegmentFlow /\ sweep.phase = "none"
    /\ sweep' = [NoSweep EXCEPT !.phase = "queued"]
    /\ UNCHANGED <<flow, members, seen, runs, checks, check, checkpoint, enrol, history, changes, faults>>

\* loadFlowForSweep: the job keeps the segment it read to its end.
BeginSweep ==
    /\ sweep.phase = "queued"
    /\ sweep' = IF LiveSegmentFlow THEN [NoSweep EXCEPT !.phase = "draining", !.segment = flow.segment]
                ELSE NoSweep
    /\ UNCHANGED <<flow, members, seen, runs, checks, check, checkpoint, enrol, history, changes, faults>>

\* deleteStaleSnapshotBatch: marks of contacts that are not in the segment the
\* job read go, in batches of any order.
DeleteStaleSnapshotBatch ==
    /\ sweep.phase = "draining"
    /\ \E batch \in SUBSET (seen \ members[sweep.segment]) :
         /\ batch # {} /\ seen' = seen \ batch
    /\ UNCHANGED <<flow, members, runs, checks, check, checkpoint, sweep, enrol, history, changes, faults>>

\* Nothing stale is left, or the budget is spent; then loadSweepCheckpoint.
LoadSweepCheckpoint ==
    /\ sweep.phase = "draining"
    /\ seen \subseteq members[sweep.segment]
    /\ sweep' = [sweep EXCEPT !.phase = "walking", !.cursor = checkpoint]
    /\ UNCHANGED <<flow, members, seen, runs, checks, check, checkpoint, enrol, history, changes, faults>>

\* sweepOneFlowPage reads a page of members and which of them were considered.
\* An empty page resets the checkpoint and ends the walk.
BeginPage ==
    /\ sweep.phase = "walking"
    /\ LET page == PageAfter(members[sweep.segment], sweep.cursor)
       IN  IF page = {}
           THEN sweep' = NoSweep /\ checkpoint' = 0
           ELSE /\ sweep' = [sweep EXCEPT !.phase = "page", !.page = page, !.known = page \cap seen]
                /\ UNCHANGED checkpoint
    /\ UNCHANGED <<flow, members, seen, runs, checks, check, enrol, history, changes, faults>>

\* Mutant: the checkpoint is written only when the walk is over.
CheckpointUnmoved(last) == checkpoint

\* advanceSweepCheckpoint
Checkpointed(last) == last

\* The contacts of the page that are new go through enterSegmentTriggeredFlow.
\* The job may stop after the page, when its budget is spent.
CommitPage ==
    /\ sweep.phase = "page"
    /\ Enter(sweep.page \ sweep.known)
    /\ seen' = seen \cup (sweep.page \ sweep.known)
    /\ checkpoint' = Checkpointed(LastOf(sweep.page))
    /\ sweep' \in {NoSweep, [sweep EXCEPT !.phase = "walking", !.cursor = LastOf(sweep.page),
                                          !.page = {}, !.known = {}]}
    /\ UNCHANGED <<flow, members, checks, check, enrol, history, changes, faults>>

\* The job is cut off by its budget while it drains, or fails on its last
\* attempt and is then kept as failed.
SweepFails ==
    /\ sweep.phase \in {"draining", "walking", "page"} /\ Fault
    /\ \/ sweep' = [NoSweep EXCEPT !.phase = "failed"]
       \/ sweep.phase = "draining" /\ sweep' = NoSweep
    /\ UNCHANGED <<flow, members, seen, runs, checks, check, checkpoint, enrol, history, changes>>

\* removeOnFail after a day.
FailedSweepExpires ==
    /\ sweep.phase = "failed"
    /\ sweep' = NoSweep
    /\ UNCHANGED <<flow, members, seen, runs, checks, check, checkpoint, enrol, history, changes, faults>>

-----------------------------------------------------------------------------
\* processFlowEnrollExisting reads the persisted cursor.
BeginEnrol ==
    /\ enrol.phase = "queued"
    /\ enrol' = [enrol EXCEPT !.phase = "walking", !.cursor = flow.cursor]
    /\ UNCHANGED <<flow, members, seen, runs, checks, check, checkpoint, sweep, history, changes, faults>>

\* The cursor after a batch.
CursorAfter(page, cursor) == IF page = {} THEN cursor ELSE LastOf(page)

\* enrollBatch, whatever the status of the flow; an empty batch is the last.
EnrollBatch ==
    /\ enrol.phase = "walking"
    /\ LET page == PageAfter(Members, enrol.cursor)
           last == CursorAfter(page, enrol.cursor)
       IN  /\ Enter(page \ seen)
           /\ seen' = seen \cup page
           /\ flow' = [flow EXCEPT !.cursor = last]
           /\ enrol' = [enrol EXCEPT !.cursor = last, !.phase = IF page = {} THEN "done" ELSE @]
    /\ UNCHANGED <<members, checks, check, checkpoint, sweep, history, changes, faults>>

\* The job fails between two batches and is delivered again.
EnrolFails ==
    /\ enrol.phase = "walking" /\ Fault
    /\ enrol' = [enrol EXCEPT !.phase = "queued"]
    /\ UNCHANGED <<flow, members, seen, runs, checks, check, checkpoint, sweep, history, changes>>

-----------------------------------------------------------------------------
\* Mutant: the snapshot is left to a job after the publish.
SeededLater(g, enrolling) == seen

\* seedMembershipSnapshotAtomic, unless the members are to be enrolled.
Seeded(g, enrolling) == IF flow.type = "segment" /\ ~enrolling THEN seen \cup members[g] ELSE seen

\* publishFlow of a draft or of changes to a published flow, and the route's
\* enrolment job.  Bound: one enrolment at a time.
PublishFlow(g, enrolling) ==
    /\ IF flow.status = "draft" THEN UNCHANGED changes ELSE Change
    /\ enrolling => enrol.phase \in {"none", "done"}
    /\ flow' = [flow EXCEPT !.status = IF @ = "paused" THEN "paused" ELSE "live", !.segment = g]
    /\ seen' = Seeded(g, enrolling)
    /\ settled' = IF flow.status = "draft" /\ flow.type = "segment" /\ ~enrolling THEN members[g]
                  ELSE settled \cap members[g]
    /\ IF flow.type = "segment" /\ enrolling
       THEN /\ enrol' = [phase |-> "queued", cursor |-> 0, first |-> flow.cursor = 0]
            /\ staying' = members[g]
       ELSE enrol' = enrol /\ staying' = staying \cap members[g]
    /\ UNCHANGED <<members, runs, checks, check, checkpoint, sweep, faults>>

PauseOrResume ==
    /\ flow.status # "draft" /\ Change
    /\ flow' = [flow EXCEPT !.status = IF @ = "live" THEN "paused" ELSE "live"]
    /\ UNCHANGED <<members, seen, runs, checks, check, checkpoint, sweep, enrol, history, faults>>

\* A contact joins or leaves a segment, by an event, which queues a check, or
\* by an edit or the passing of time, which does not.
ContactChanges(c, g) ==
    /\ Change
    /\ members' = [members EXCEPT ![g] = IF c \in @ THEN @ \ {c} ELSE @ \cup {c}]
    /\ settled' = IF g = flow.segment THEN settled \ {c} ELSE settled
    /\ staying' = IF g = flow.segment THEN staying \ {c} ELSE staying
    /\ checks' \in {checks, checks \cup {c}}
    /\ UNCHANGED <<flow, seen, runs, check, checkpoint, sweep, enrol, faults>>

ReceiveEvent(c) ==
    /\ Change
    /\ checks' = checks \cup {c}
    /\ UNCHANGED <<flow, members, seen, runs, check, checkpoint, sweep, enrol, history, faults>>

RunEnds(c) ==
    /\ runs[c].active > 0
    /\ runs' = [runs EXCEPT ![c].active = @ - 1]
    /\ UNCHANGED <<flow, members, seen, checks, check, checkpoint, sweep, enrol, history, changes, faults>>

Next ==
    \/ (\E c \in Contact : BeginCheck(c) \/ ReceiveEvent(c) \/ RunEnds(c))
    \/ CommitCheck \/ LoseCheck
    \/ SweepTick \/ BeginSweep \/ DeleteStaleSnapshotBatch \/ LoadSweepCheckpoint
    \/ BeginPage \/ CommitPage \/ SweepFails \/ FailedSweepExpires
    \/ BeginEnrol \/ EnrollBatch \/ EnrolFails
    \/ (\E g \in Segment, enrolling \in BOOLEAN : PublishFlow(g, enrolling))
    \/ PauseOrResume \/ (\E c \in Contact, g \in Segment : ContactChanges(c, g))

Spec == Init /\ [][Next]_vars

\* The discovery keeps ticking, the sweep job runs on, and a failed one expires.
FairSpec ==
    /\ Spec
    /\ WF_vars(SweepTick) /\ WF_vars(BeginSweep) /\ WF_vars(DeleteStaleSnapshotBatch)
    /\ WF_vars(LoadSweepCheckpoint) /\ WF_vars(BeginPage) /\ WF_vars(CommitPage)
    /\ WF_vars(FailedSweepExpires)

-----------------------------------------------------------------------------
\* Publishing without enrolment keeps the members of that moment out for as
\* long as they stay in the trigger segment: no later sweep, check, failed job
\* or second publish lets them in.
SettledMembersStayOut ==
    flow.type = "segment" => \A c \in settled : runs[c].entries = 0

\* A first enrolment that has come to its end, with batches in between that
\* failed, passed over nobody who was a member all along.
EnrolmentMissesNobody ==
    enrol.phase = "done" /\ enrol.first => staying \subseteq seen

\* A new member of a live flow's segment is considered in the end, however
\* small the pages of the sweep are and wherever its budget cuts it off.
NewMembersAreConsidered ==
    \A c \in Contact :
      LiveSegmentFlow /\ c \in Members /\ c \notin seen
        ~> c \in seen \/ c \notin Members \/ ~LiveSegmentFlow
=============================================================================

------------------------------ MODULE FlowRuns ------------------------------
(***************************************************************************)
(* The runs of one flow: the advance worker that walks a run through its   *)
(* pinned version, the nudges that wake it, the reconciliation that nudges *)
(* again, the mails it queues, and the API calls on the flow while runs    *)
(* are under way.                                                          *)
(*                                                                         *)
(* An advance holds the lock of its run's row from BeginAdvance to its     *)
(* commit or rollback.  The queues are not part of the transaction: what   *)
(* it enqueues is there at once and stays when it rolls back.              *)
(***************************************************************************)
EXTENDS FlowGraph

CONSTANTS
    Run,            \* ids of runs, all of one contact
    Definitions,    \* what the editor may save
    Delay,          \* the delay of every delay node
    DayTicks,       \* the clock counts the instants of a day, over and over
    QuietTimes,     \* instants inside the quiet hours
    MaxSteps,       \* MAX_STEPS_PER_RUN
    MaxVersions,    \* bound: versions of the flow
    MaxCalls,       \* bound: API calls after the first publish
    MaxFaults       \* bound: rollbacks, redeliveries and lost jobs

\* What flowDefinitionSchema lets through: nodes of the five types, and edges
\* between ids of which it does not ask that there be such nodes.
Definition ==
    [type   : UNION {[S -> NodeType] : S \in SUBSET Node},
     edges  : Seq([source : Node, target : Node, handle : Handle]),
     filled : SUBSET Node]

ASSUME FlowRunsAssumption ==
    /\ Definitions \subseteq Definition /\ NoNode \notin Node /\ IsFiniteSet(Node)
    /\ DayTicks \in Nat \ {0} /\ Delay \in Nat /\ QuietTimes \subseteq 0 .. DayTicks - 1
    /\ \E t \in 0 .. DayTicks - 1 : t \notin QuietTimes
    /\ MaxSteps \in Nat /\ MaxVersions \in Nat \ {0} /\ MaxCalls \in Nat /\ MaxFaults \in Nat

VARIABLES
    flow,       \* the row of flows
    versions,   \* flow_versions, by version number
    runs,       \* flow_runs
    steps,      \* flow_run_steps, in order
    txn,        \* the open advance of a run, if any
    nudges,     \* jobs of the advance queue: run, and ticks until it is due
    mailJobs,   \* jobs of the triggered mail queue, by run and node
    mails,      \* how often a run's node was mailed
    inSegment,  \* the contact is in the segment the branches ask about
    waited,     \* history: ticks since a run's last step, up to Delay
    now, calls, faults

vars == <<flow, versions, runs, steps, txn, nudges, mailJobs, mails, inSegment,
          waited, now, calls, faults>>

bounds == <<calls, faults>>

RunStatus == {"absent", "waiting", "completed", "exited", "ejected"}
Absent == [status |-> "absent", version |-> 0, node |-> NoNode, wake |-> 0, reason |-> ""]
Idle   == [open |-> FALSE]

Active(r) == runs[r].status = "waiting"

Outcomes == {"deferred_quiet_hours", "enqueued", "waiting", "branched_yes", "branched_no",
             "exit_condition_satisfied", "completed"}
Reasons  == {"", "reached_exit", "step_budget_exceeded", "exit_condition", "ejected"}

Flow    == [status : {"draft", "live", "paused", "deleted"},
            live : 0 .. MaxVersions, draft : 0 .. MaxVersions, quiet : BOOLEAN, exitIn : BOOLEAN]
RunRow  == [status : RunStatus, version : 0 .. MaxVersions, node : Node \cup {NoNode},
            wake : 0 .. Delay + DayTicks, reason : Reasons]
Step    == [node : Node, outcome : Outcomes]
Job     == [run : Run, in : 0 .. Delay + DayTicks]
Advanced == [row : RunRow, step : Outcomes \cup {""}, nudges : SUBSET Job, mails : SUBSET (Run \X Node)]
OpenTxn == [open : {TRUE}, job : Job, out : Advanced, age : 0 .. Delay]

TypeOK ==
    /\ flow \in Flow
    /\ versions \in Seq(Definition) /\ Len(versions) <= MaxVersions
    /\ runs \in [Run -> RunRow] /\ \A r \in Run : Active(r) => runs[r].node \in Node
    /\ steps \in [Run -> Seq(Step)] /\ \A r \in Run : Len(steps[r]) <= MaxSteps
    /\ txn \in [Run -> OpenTxn \cup {Idle}]
    /\ nudges \subseteq Job /\ mailJobs \subseteq Run \X Node
    /\ mails \in [Run -> [Node -> Nat]]
    /\ inSegment \in BOOLEAN /\ waited \in [Run -> 0 .. Delay]
    /\ now \in 0 .. DayTicks - 1 /\ calls \in 0 .. MaxCalls /\ faults \in 0 .. MaxFaults

Init ==
    /\ flow = [status |-> "draft", live |-> 0, draft |-> 1, quiet |-> FALSE, exitIn |-> FALSE]
    /\ versions = <<EmptyDefinition>>
    /\ runs = [r \in Run |-> Absent]
    /\ steps = [r \in Run |-> <<>>]
    /\ txn = [r \in Run |-> Idle]
    /\ nudges = {} /\ mailJobs = {}
    /\ mails = [r \in Run |-> [n \in Node |-> 0]]
    /\ inSegment = FALSE /\ waited = [r \in Run |-> 0]
    /\ now = 0 /\ calls = 0 /\ faults = 0

-----------------------------------------------------------------------------
\* enqueueFlowRunAdvance, with its delay.
Nudge(r, delay) == {[run |-> r, in |-> delay]}

\* A contact enters the live version.  The nudge is enqueued inside the
\* transaction that inserts the run: a worker may have taken it, and found no
\* run, before the commit.
EnterFlow(r) ==
    /\ runs[r].status = "absent" /\ flow.status = "live"
    /\ \A x \in Run : ~Active(x)
    /\ runs' = [runs EXCEPT ![r] =
         [status |-> "waiting", version |-> flow.live,
          node |-> EntryNodeId(versions[flow.live]), wake |-> 0, reason |-> ""]]
    /\ nudges' \in {nudges, nudges \cup Nudge(r, 0)}
    /\ UNCHANGED <<flow, versions, steps, txn, mailJobs, mails, inSegment, waited, now, bounds>>

\* Mutant: the walk follows the version that is live now.
LiveDefinition(r) == versions[flow.live]

\* loadPinnedDefinition
PinnedDefinition(r) == versions[runs[r].version]

\* Mutant: a nudge advances its run whatever the wake time says.
WokenByAnyNudge(r) == Active(r) /\ flow.status # "paused"

\* The early returns of processFlowRunAdvance: active, due, and not paused.
Woken(r) == Active(r) /\ runs[r].wake = 0 /\ flow.status # "paused"

\* nextQuietWindowEnd: ticks until the quiet hours that now is in are over.
QuietEnd == CHOOSE k \in 1 .. DayTicks :
              /\ (now + k) % DayTicks \notin QuietTimes
              /\ \A i \in 0 .. k - 1 : (now + i) % DayTicks \in QuietTimes

\* evaluateExitConditions, with one condition on the segment.
ExitSatisfied == flow.exitIn /\ inSegment

\* What an advance leaves: the row, the step it appends, and what it enqueued.
Outcome(row, step, jobs, mail) == [row |-> row, step |-> step, nudges |-> jobs, mails |-> mail]

Ended(r, status, reason) == [runs[r] EXCEPT !.status = status, !.reason = reason]

\* The run moves to the next node, or completes when there is none.
MovedTo(r, next, wake) ==
    IF next = NoNode THEN Ended(r, "completed", "reached_exit")
    ELSE [runs[r] EXCEPT !.node = next, !.wake = wake]

NudgeIfMoved(r, next) == IF next = NoNode THEN {} ELSE Nudge(r, 0)

SendNode(r, def) ==
    LET next == ResolveNextNodeId(def, runs[r].node)
    IN  IF flow.quiet /\ now \in QuietTimes
        THEN Outcome([runs[r] EXCEPT !.wake = QuietEnd], "deferred_quiet_hours", Nudge(r, QuietEnd), {})
        ELSE Outcome(MovedTo(r, next, 0), "enqueued", NudgeIfMoved(r, next), {<<r, runs[r].node>>})

DelayNode(r, def) ==
    Outcome(MovedTo(r, ResolveNextNodeId(def, runs[r].node), Delay), "waiting",
            Nudge(r, Delay), {})

BranchNode(r, def) ==
    LET next == ResolveBranchNextNodeId(def, runs[r].node, IF inSegment THEN "yes" ELSE "no")
    IN  Outcome(MovedTo(r, next, 0), IF inSegment THEN "branched_yes" ELSE "branched_no",
                NudgeIfMoved(r, next), {})

\* The advance does not throw: the version has the node the run stands at, and
\* the worker has a handler for it.  The step budget and, for a node that is
\* there, the exit conditions are looked at before.
Handled(r) ==
    LET def == PinnedDefinition(r)
    IN  /\ runs[r].node # NoNode
        /\ \/ Len(steps[r]) >= MaxSteps
           \/ /\ runs[r].node \in Nodes(def)
              /\ ExitSatisfied \/ def.type[runs[r].node] # "trigger"

\* The handler of the node the run stands at.
HandleNode(r, def) ==
    LET type == def.type[runs[r].node]
    IN  CASE type = "send"   -> SendNode(r, def)
          [] type = "delay"  -> DelayNode(r, def)
          [] type = "branch" -> BranchNode(r, def)
          [] type = "exit"   -> Outcome(Ended(r, "completed", "reached_exit"), "completed", {}, {})

\* processFlowRunAdvance, past its early returns.
Advance(r) ==
    IF Len(steps[r]) >= MaxSteps THEN Outcome(Ended(r, "exited", "step_budget_exceeded"), "", {}, {})
    ELSE IF ExitSatisfied THEN Outcome(Ended(r, "exited", "exit_condition"), "exit_condition_satisfied", {}, {})
    ELSE HandleNode(r, PinnedDefinition(r))

\* A worker takes a due nudge and locks its run.
BeginAdvance(j) ==
    /\ j \in nudges /\ j.in = 0
    /\ ~txn[j.run].open /\ Woken(j.run) /\ Handled(j.run)
    /\ LET out == Advance(j.run)
       IN  /\ txn' = [txn EXCEPT ![j.run] = [open |-> TRUE, job |-> j, out |-> out, age |-> 0]]
           /\ nudges' = (nudges \ {j}) \cup out.nudges
           /\ mailJobs' = mailJobs \cup out.mails
    /\ UNCHANGED <<flow, versions, runs, steps, mails, inSegment, waited, now, bounds>>

\* A worker takes a due nudge and finds the run gone, locked, ended, not yet
\* due or frozen, and the job completes; or it throws, on its last attempt.
StaleNudge(j) ==
    /\ j \in nudges /\ j.in = 0
    /\ txn[j.run].open \/ ~Woken(j.run) \/ ~Handled(j.run)
    /\ nudges' = nudges \ {j}
    /\ UNCHANGED <<flow, versions, runs, steps, txn, mailJobs, mails, inSegment, waited, now, bounds>>

\* The commit.  A worker that dies before it acknowledges the job leaves it to
\* be delivered again.
CommitAdvance(r) ==
    /\ txn[r].open
    /\ runs' = [runs EXCEPT ![r] = txn[r].out.row]
    /\ steps' = IF txn[r].out.step = "" THEN steps
                ELSE [steps EXCEPT ![r] = Append(@, [node |-> runs[r].node, outcome |-> txn[r].out.step])]
    /\ txn' = [txn EXCEPT ![r] = Idle]
    /\ waited' = [waited EXCEPT ![r] = txn[r].age]
    /\ \/ UNCHANGED <<nudges, faults>>
       \/ /\ faults < MaxFaults /\ faults' = faults + 1
          /\ nudges' = nudges \cup {txn[r].job}
    /\ UNCHANGED <<flow, versions, mailJobs, mails, inSegment, now, calls>>

\* The transaction fails; the job is retried, or was on its last attempt.
RollbackAdvance(r) ==
    /\ txn[r].open /\ faults < MaxFaults
    /\ txn' = [txn EXCEPT ![r] = Idle]
    /\ nudges' \in {nudges, nudges \cup {txn[r].job}}
    /\ faults' = faults + 1
    /\ UNCHANGED <<flow, versions, runs, steps, mailJobs, mails, inSegment, waited, now, calls>>

\* Mutant: the scan looks for runs left in the advancing state.
DueIfAdvancing(r) == runs[r].status = "advancing" /\ flow.status # "paused"

\* findDueFlowRunCandidates and transitionAndNudge of one run.
DueForNudge(r) == Active(r) /\ runs[r].wake = 0 /\ flow.status # "paused"

Reconcile(r) ==
    /\ DueForNudge(r) /\ ~txn[r].open
    /\ nudges' = nudges \cup Nudge(r, 0)
    /\ UNCHANGED <<flow, versions, runs, steps, txn, mailJobs, mails, inSegment, waited, now, bounds>>

-----------------------------------------------------------------------------
\* Mutant: the job mails without asking the ledger.
ClaimsAgain(r, n) == TRUE

\* claimFlowSend: the ledger has one row for a run and node, and a second claim
\* is skipped.
ClaimsFlowSend(r, n) == mails[r][n] = 0

\* The mail queue delivers a job; the mail itself is SendDispatch's subject.  A
\* redelivery, or an id the queue has forgotten, brings the same job back.  The
\* job of a run that was deleted with its flow fails.
DeliverMail(r, n) ==
    /\ <<r, n>> \in mailJobs
    /\ mails' = IF runs[r].status # "absent" /\ ClaimsFlowSend(r, n)
                THEN [mails EXCEPT ![r][n] = @ + 1] ELSE mails
    /\ \/ mailJobs' = mailJobs \ {<<r, n>>} /\ UNCHANGED faults
       \/ faults < MaxFaults /\ faults' = faults + 1 /\ UNCHANGED mailJobs
    /\ UNCHANGED <<flow, versions, runs, steps, txn, nudges, inSegment, waited, now, calls>>

\* A job is lost: Redis restarts, or the process dies before it enqueues.
LoseNudge(j) ==
    /\ j \in nudges /\ faults < MaxFaults
    /\ nudges' = nudges \ {j}
    /\ faults' = faults + 1
    /\ UNCHANGED <<flow, versions, runs, steps, txn, mailJobs, mails, inSegment, waited, now, calls>>

-----------------------------------------------------------------------------
Call == calls < MaxCalls /\ calls' = calls + 1

\* updateFlowDraft: a flow without a draft gets one, and the settings that are
\* not part of the definition change at once.
UpdateFlowDraft(def, quiet, exitIn) ==
    /\ IF flow.live = 0 THEN calls' = calls ELSE Call
    /\ flow.status # "deleted"
    /\ IF flow.draft # 0
       THEN versions' = [versions EXCEPT ![flow.draft] = def]
       ELSE Len(versions) < MaxVersions /\ versions' = Append(versions, def)
    /\ flow' = [flow EXCEPT !.draft = IF flow.draft # 0 THEN flow.draft ELSE Len(versions) + 1,
                            !.quiet = quiet, !.exitIn = exitIn]
    /\ UNCHANGED <<runs, steps, txn, nudges, mailJobs, mails, inSegment, waited, now, faults>>

\* The row publishing leaves: a paused flow stays paused.
Published == [flow EXCEPT !.live = flow.draft, !.draft = 0,
                          !.status = IF @ = "paused" THEN "paused" ELSE "live"]

PublishFlow ==
    /\ flow.draft # 0 /\ flow.status # "deleted"
    /\ Valid(versions[flow.draft])
    /\ flow' = Published
    /\ UNCHANGED <<versions, runs, steps, txn, nudges, mailJobs, mails, inSegment, waited, now, bounds>>

PauseFlow ==
    /\ Call /\ flow.status = "live"
    /\ flow' = [flow EXCEPT !.status = "paused"]
    /\ UNCHANGED <<versions, runs, steps, txn, nudges, mailJobs, mails, inSegment, waited, now, faults>>

ResumeFlow ==
    /\ flow.status = "paused"
    /\ flow' = [flow EXCEPT !.status = "live"]
    /\ UNCHANGED <<versions, runs, steps, txn, nudges, mailJobs, mails, inSegment, waited, now, bounds>>

\* The update of ejectRuns waits for the lock of the row and then looks at the
\* status again.
Ejectable(r) == Active(r) /\ ~txn[r].open

EjectRun(r) ==
    /\ Call /\ Ejectable(r)
    /\ runs' = [runs EXCEPT ![r] = Ended(r, "ejected", "ejected")]
    /\ UNCHANGED <<flow, versions, steps, txn, nudges, mailJobs, mails, inSegment, waited, now, faults>>

\* deleteFlow of a paused flow without active runs, or of a draft that was
\* never published; runs and steps go with it.
DeleteFlow ==
    /\ Call
    /\ \/ flow.status = "draft" /\ flow.live = 0
       \/ flow.status = "paused" /\ \A r \in Run : ~Active(r) /\ ~txn[r].open
    /\ flow' = [flow EXCEPT !.status = "deleted", !.live = 0, !.draft = 0]
    /\ versions' = <<>>
    /\ runs' = [r \in Run |-> Absent] /\ steps' = [r \in Run |-> <<>>]
    /\ UNCHANGED <<txn, nudges, mailJobs, mails, inSegment, waited, now, faults>>

\* The contact's data changes, and with it its place in the segment.
ContactChanges ==
    /\ Call
    /\ inSegment' = ~inSegment
    /\ UNCHANGED <<flow, versions, runs, steps, txn, nudges, mailJobs, mails, waited, now, faults>>

Less(n) == IF n = 0 THEN 0 ELSE n - 1
More(n) == IF n < Delay THEN n + 1 ELSE n
Later(row) == [row EXCEPT !.wake = Less(@)]

\* Workers so late that the quiet hours begin again on a run that is due.
LateForQuietHours ==
    flow.quiet /\ (now + 1) % DayTicks \in QuietTimes /\ \E r \in Run : Woken(r)

\* Time passes for the clock, the wake times and the delayed jobs.  Being late
\* for the quiet hours is a fault: past the bound, the clock waits at their edge.
Tick ==
    /\ IF LateForQuietHours /\ faults = MaxFaults THEN now' = now ELSE now' = (now + 1) % DayTicks
    /\ faults' = IF LateForQuietHours /\ faults < MaxFaults THEN faults + 1 ELSE faults
    /\ runs' = [r \in Run |-> Later(runs[r])]
    /\ nudges' = {[j EXCEPT !.in = Less(@)] : j \in nudges}
    /\ txn' = [r \in Run |-> IF txn[r].open
                             THEN [txn[r] EXCEPT !.age = More(@), !.out.row = Later(@)]
                             ELSE Idle]
    /\ waited' = [r \in Run |-> IF Active(r) THEN More(waited[r]) ELSE waited[r]]
    /\ UNCHANGED <<flow, versions, steps, mailJobs, mails, inSegment, calls>>

Next ==
    \/ \E r \in Run : EnterFlow(r) \/ CommitAdvance(r) \/ RollbackAdvance(r)
                      \/ Reconcile(r) \/ EjectRun(r)
    \/ \E j \in nudges : BeginAdvance(j) \/ StaleNudge(j) \/ LoseNudge(j)
    \/ \E r \in Run, n \in Node : DeliverMail(r, n)
    \/ \E def \in Definitions, quiet, exitIn \in BOOLEAN : UpdateFlowDraft(def, quiet, exitIn)
    \/ PublishFlow \/ PauseFlow \/ ResumeFlow \/ DeleteFlow \/ ContactChanges \/ Tick

Spec == Init /\ [][Next]_vars

\* Workers take due jobs and finish what they began, the reconciliation keeps
\* ticking, and time passes.
FairSpec ==
    /\ Spec
    /\ WF_vars(Tick)
    /\ \A r \in Run : /\ WF_vars(CommitAdvance(r)) /\ WF_vars(Reconcile(r))
                      /\ WF_vars(\E j \in nudges : j.run = r /\ BeginAdvance(j))
-----------------------------------------------------------------------------
\* Where a step of that outcome leads in a definition.
LeadsTo(def, step) ==
    CASE step.outcome = "deferred_quiet_hours" -> step.node
      [] step.outcome \in {"enqueued", "waiting"} -> ResolveNextNodeId(def, step.node)
      [] step.outcome = "branched_yes" -> ResolveBranchNextNodeId(def, step.node, "yes")
      [] step.outcome = "branched_no"  -> ResolveBranchNextNodeId(def, step.node, "no")
      [] OTHER -> NoNode

\* The steps of a run, to the node it stands at, are one walk through the
\* version it entered: publishing a new version, a nudge too many or a job
\* delivered twice neither skips a node nor takes one twice.
StepsFollowVersion ==
    \A r \in Run : runs[r].status # "absent" =>
      LET def  == versions[runs[r].version]
          walk == [i \in 1 .. Len(steps[r]) + 1 |->
                     IF i <= Len(steps[r]) THEN steps[r][i].node ELSE runs[r].node]
      IN  /\ walk[1] = EntryNodeId(def)
          /\ \A i \in DOMAIN steps[r] :
               i < Len(steps[r]) \/ Active(r) => walk[i + 1] = LeadsTo(def, steps[r][i])

\* A delay is served in full: whatever nudges arrive in between, the advance
\* after a delay node begins no sooner than Delay after it.
DelaysAreServed ==
    [][\A r \in Run :
         /\ ~txn[r].open /\ txn'[r].open
         /\ steps[r] # <<>> /\ steps[r][Len(steps[r])].outcome = "waiting"
         => waited[r] >= Delay]_vars

\* What goes out is what the run has walked over, once each: however often the
\* job is queued, delivered, or enqueued again by an advance that was rolled
\* back, every mail belongs to the node the run stands at or to a step it took.
NodeMailsOnce ==
    \A r \in Run, n \in Node : mails[r][n] > 0 /\ runs[r].status # "absent" =>
      /\ mails[r][n] = 1
      /\ \/ n = runs[r].node
         \/ \E i \in DOMAIN steps[r] : steps[r][i] = [node |-> n, outcome |-> "enqueued"]

\* What publishing accepts has no way round in circles: a run comes back to a
\* node only by waiting there for the quiet hours to end, in any version, at any
\* number of steps.
WalksInNoCircle ==
    \A r \in Run : \A i, j \in DOMAIN steps[r] :
      i < j /\ steps[r][i].node = steps[r][j].node =>
        \A k \in i .. j - 1 : steps[r][k].outcome = "deferred_quiet_hours"

\* An active run does not stay active, unless its flow is paused: lost nudges,
\* nudges taken too early and rolled back advances are made up for.
RunsEnd == \A r \in Run : Active(r) ~> (~Active(r) \/ flow.status = "paused")
=============================================================================

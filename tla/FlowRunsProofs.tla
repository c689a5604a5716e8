--------------------------- MODULE FlowRunsProofs ---------------------------
(***************************************************************************)
(* The runs of a flow, for any set of runs, any definitions the schema     *)
(* lets through, any delay and quiet hours and any bounds.                 *)
(***************************************************************************)
EXTENDS FlowRuns, FiniteSetTheorems, SequenceTheorems, WellFoundedInduction, TLAPS

Present(r) == runs[r].status # "absent"

\* A published flow has a live version that validation accepted; the draft is
\* another one.
FlowFits ==
    /\ flow.live <= Len(versions) /\ flow.draft <= Len(versions)
    /\ flow.live # 0 => flow.live # flow.draft /\ Valid(versions[flow.live])
    /\ flow.status \in {"live", "paused"} => flow.live # 0
    /\ flow.status = "deleted" => flow.live = 0 /\ flow.draft = 0

\* The version a run is pinned to is there and is never the one being edited; a
\* run that is not there has no steps.
RunsFit ==
    \A r \in Run :
        IF Present(r)
        THEN /\ flow.status \in {"live", "paused"}
             /\ runs[r].version \in 1 .. Len(versions) /\ runs[r].version # flow.draft
        ELSE Len(steps[r]) = 0

\* What an open advance of r is about to commit: the row of a run that goes on
\* stands where the step leads, one that ends stays where it is, and a send
\* node is left by mailing only.
Advances(r, t) ==
    LET node == runs[r].node
        def  == PinnedDefinition(r)
    IN  /\ Active(r) /\ t.out.row.version = runs[r].version
        /\ t.out.row.status \in {"waiting", "completed", "exited"}
        /\ IF t.out.row.status = "waiting"
           THEN /\ t.out.step # "" /\ t.out.row.node \in Node
                /\ t.out.row.node = LeadsTo(def, [node |-> node, outcome |-> t.out.step])
           ELSE t.out.row.node = node
        /\ t.out.step # "" => Len(steps[r]) < MaxSteps
        /\ def.type[node] = "send" => t.out.row.node = node \/ t.out.step = "enqueued"
        /\ t.out.row.status = "waiting" /\ t.out.step = "waiting" => t.out.row.wake + t.age >= Delay

TxnsFit == \A r \in Run : txn[r].open => Advances(r, txn[r])

\* The steps of a run, place by place.
Follows(r) ==
    LET def == PinnedDefinition(r)
        len == Len(steps[r])
    IN  /\ IF len = 0 THEN runs[r].node = EntryNodeId(def) ELSE steps[r][1].node = EntryNodeId(def)
        /\ \A i \in 1 .. len : i < len => steps[r][i + 1].node = LeadsTo(def, steps[r][i])
        /\ Active(r) /\ len > 0 => runs[r].node = LeadsTo(def, steps[r][len])

StepsFit == \A r \in Run : Present(r) => Follows(r)

Mailed(r, n) == <<r, n>> \in mailJobs \/ mails[r][n] > 0

Walked(r, n) == \E i \in 1 .. Len(steps[r]) : steps[r][i] = [node |-> n, outcome |-> "enqueued"]

\* A mail that was queued belongs to a step the run took or to the send node
\* it stands at.
MailsFit ==
    \A r \in Run, n \in Node :
        /\ mails[r][n] <= 1
        /\ Mailed(r, n) =>
             IF Present(r) THEN Walked(r, n) \/ (n = runs[r].node /\ PinnedDefinition(r).type[n] = "send")
             ELSE flow.status = "deleted"

\* What is left of a delay and the time since it began make up the delay.
DelaysFit ==
    \A r \in Run : Active(r) /\ Len(steps[r]) > 0 =>
        (steps[r][Len(steps[r])].outcome = "waiting" => runs[r].wake + waited[r] >= Delay)

FlowInv == TypeOK /\ FlowFits /\ RunsFit /\ TxnsFit /\ StepsFit /\ MailsFit /\ DelaysFit

-----------------------------------------------------------------------------
(* Operators                                                               *)

\* A nonempty set of natural numbers has a least element.
LEMMA LeastNat ==
    ASSUME NEW S \in SUBSET Nat, S # {}
    PROVE  \E i \in S : \A j \in S : i <= j
<1> DEFINE Less2 == OpToRel(<, Nat)
<1>1. \A i, j \in Nat : j < i => <<j, i>> \in Less2
  BY DEF OpToRel
<1>2. \E i \in S : \A j \in S : <<j, i>> \notin Less2
  BY WFMin, NatLessThanWellFounded
<1> HIDE DEF Less2
<1>3. PICK i \in S : \A j \in S : <<j, i>> \notin Less2
  BY <1>2
<1>4. \A j \in S : ~ (j < i)
  BY <1>1, <1>3
<1> QED
  BY <1>4

\* An instant less than a day later, on a clock that starts again every day.
LEMMA ClockStartsAgain ==
    ASSUME NEW d \in Nat \ {0}, NEW a \in Nat
    PROVE  a < d => a % d = a
  OBVIOUS

LEMMA ClockStartsAgain2 ==
    ASSUME NEW d \in Nat \ {0}, NEW a \in Nat
    PROVE  d <= a /\ a < d + d => a % d = a - d
  OBVIOUS

LEMMA DefinitionParts ==
    ASSUME NEW def \in Definition
    PROVE  /\ Nodes(def) \subseteq Node
           /\ def.edges \in Seq([source : Node, target : Node, handle : Handle])
  BY DEF Definition, Nodes

LEMMA EmptyIsDefinition == EmptyDefinition \in Definition
<1>1. [n \in {} |-> ""] \in [{} -> NodeType]
  OBVIOUS
<1>2. [n \in {} |-> ""] \in UNION {[S -> NodeType] : S \in SUBSET Node}
  BY <1>1
<1>3. <<>> \in Seq([source : Node, target : Node, handle : Handle])
  OBVIOUS
<1> QED
  BY <1>2, <1>3 DEF EmptyDefinition, Definition

\* The first edge that fits leads to a node id; without one there is no node.
LEMMA FirstTargetType ==
    ASSUME NEW def \in Definition, NEW fits \in SUBSET DOMAIN def.edges
    PROVE  /\ FirstTarget(def, fits) \in Node \cup {NoNode}
           /\ fits # {} => FirstTarget(def, fits) \in Node
<1>1. CASE fits = {}
  BY <1>1 DEF FirstTarget
<1>2. CASE fits # {}
  <2>1. fits \in SUBSET Nat
    BY DefinitionParts
  <2>2. \E i \in fits : \A j \in fits : i <= j
    BY <1>2, <2>1, LeastNat
  <2>3. PICK i \in fits : FirstTarget(def, fits) = def.edges[i].target
    BY <1>2, <2>2 DEF FirstTarget
  <2>4. def.edges[i] \in [source : Node, target : Node, handle : Handle]
    <3>1. i \in DOMAIN def.edges /\ def.edges \in Seq([source : Node, target : Node, handle : Handle])
      BY DefinitionParts
    <3> QED
      BY <3>1, ElementOfSeq, LenProperties
  <2> QED
    BY <2>3, <2>4
<1> QED
  BY <1>1, <1>2

LEMMA NextTypes ==
    ASSUME NEW def \in Definition, NEW n
    PROVE  /\ ResolveNextNodeId(def, n) \in Node \cup {NoNode}
           /\ \A h : ResolveBranchNextNodeId(def, n, h) \in Node \cup {NoNode}
           /\ Outgoing(def, n) # {} => ResolveNextNodeId(def, n) \in Node
<1>1. \A h : {i \in DOMAIN def.edges : def.edges[i].source = n /\ def.edges[i].handle = h} \in SUBSET DOMAIN def.edges
  OBVIOUS
<1>2. \A h : ResolveBranchNextNodeId(def, n, h) \in Node \cup {NoNode}
  BY <1>1, FirstTargetType DEF ResolveBranchNextNodeId
<1>3. Outgoing(def, n) # {} => {i \in DOMAIN def.edges : def.edges[i].source = n} # {}
  BY DEF Outgoing, EdgesOf
<1> QED
  BY <1>2, <1>3, FirstTargetType DEF ResolveNextNodeId

\* A definition that validation accepts has a node to start at.
LEMMA EntryType ==
    ASSUME NEW def \in Definition, Valid(def)
    PROVE  EntryNodeId(def) \in Node
<1>1. TriggerNodes(def) # {}
  BY FS_EmptySet DEF Valid
<1>2. (CHOOSE n \in TriggerNodes(def) : TRUE) \in TriggerNodes(def)
  BY <1>1
<1> QED
  BY <1>2, NextTypes DEF Valid, EntryNodeId

\* The quiet hours end within a day.
LEMMA QuietEndType ==
    ASSUME now \in 0 .. DayTicks - 1, now \in QuietTimes
    PROVE  QuietEnd \in 1 .. DayTicks
<1>1. DayTicks \in Nat \ {0}
  BY FlowRunsAssumption DEF FlowRunsAssumption
<1>2. PICK t \in 0 .. DayTicks - 1 : t \notin QuietTimes
  BY FlowRunsAssumption DEF FlowRunsAssumption
<1> DEFINE awake == {k \in 1 .. DayTicks : (now + k) % DayTicks \notin QuietTimes}
<1>3. awake # {}
  <2>1. CASE now < t
    <3>1. (now + (t - now)) % DayTicks = t /\ t - now \in 1 .. DayTicks
      BY <1>1, <2>1, ClockStartsAgain
    <3> QED
      BY <1>2, <3>1
  <2>2. CASE t <= now
    <3>1. t + DayTicks - now \in 1 .. DayTicks /\ now + (t + DayTicks - now) = t + DayTicks
      BY <1>1, <1>2, <2>2
    <3>2. (t + DayTicks) % DayTicks = t
      <4>1. t + DayTicks \in Nat /\ DayTicks <= t + DayTicks /\ t + DayTicks < DayTicks + DayTicks
            /\ (t + DayTicks) - DayTicks = t
        BY <1>1, <1>2
      <4> HIDE <2>2
      <4> QED
        BY <1>1, <4>1, ClockStartsAgain2
    <3> QED
      BY <1>2, <3>1, <3>2
  <2> QED
    BY <1>1, <1>2, <2>1, <2>2
<1>4. PICK k \in awake : \A j \in awake : k <= j
  <2>1. awake \in SUBSET Nat
    OBVIOUS
  <2> HIDE DEF awake
  <2> QED
    BY <1>3, <2>1, LeastNat
<1>5. \A i \in 0 .. k - 1 : (now + i) % DayTicks \in QuietTimes
  <2> SUFFICES ASSUME NEW i \in 0 .. k - 1 PROVE (now + i) % DayTicks \in QuietTimes
    OBVIOUS
  <2>1. CASE i = 0
    BY <1>1, <2>1, ClockStartsAgain
  <2>2. CASE i # 0
    <3>1. i \in 1 .. DayTicks /\ ~(k <= i)
      BY <1>1, <2>2
    <3> QED
      BY <1>4, <3>1
  <2> QED
    BY <2>1, <2>2
<1> QED
  BY <1>4, <1>5 DEF QuietEnd

-----------------------------------------------------------------------------
(* What an advance does                                                    *)

LEMMA Bounds ==
    /\ DayTicks \in Nat \ {0} /\ Delay \in Nat /\ MaxSteps \in Nat /\ MaxVersions \in Nat \ {0}
    /\ MaxCalls \in Nat /\ MaxFaults \in Nat /\ Definitions \subseteq Definition /\ NoNode \notin Node
  BY FlowRunsAssumption DEF FlowRunsAssumption

\* A row that is ended, put off or moved.
LEMMA EndedRow ==
    ASSUME NEW r \in Run, runs[r] \in RunRow, NEW s \in RunStatus, NEW reason \in Reasons
    PROVE  /\ Ended(r, s, reason) \in RunRow /\ Ended(r, s, reason).status = s
           /\ Ended(r, s, reason).version = runs[r].version /\ Ended(r, s, reason).node = runs[r].node
  BY DEF Ended, RunRow

LEMMA DeferredRow ==
    ASSUME NEW r \in Run, runs[r] \in RunRow, Active(r), NEW wake \in 0 .. Delay + DayTicks,
           NEW row, row = [runs[r] EXCEPT !.wake = wake]
    PROVE  /\ row \in RunRow /\ row.status = "waiting" /\ row.version = runs[r].version
           /\ row.node = runs[r].node
  BY DEF RunRow, Active

\* An outcome is typed, and fit to be committed.
Fit(r, out) ==
    /\ out \in Advanced
    /\ \A j \in Job : Advances(r, [open |-> TRUE, job |-> j, out |-> out, age |-> 0])
    /\ \A m \in out.mails : m = <<r, runs[r].node>> /\ PinnedDefinition(r).type[runs[r].node] = "send"

\* A run that leaves its node by a step that leads to next.
LEMMA MovedFits ==
    ASSUME TypeOK, NEW r \in Run, Active(r), Len(steps[r]) < MaxSteps,
           NEW next \in Node \cup {NoNode}, NEW wake \in 0 .. Delay + DayTicks,
           NEW step \in Outcomes, NEW jobs \in SUBSET Job, NEW sent \in SUBSET {<<r, runs[r].node>>},
           next = LeadsTo(PinnedDefinition(r), [node |-> runs[r].node, outcome |-> step]),
           PinnedDefinition(r).type[runs[r].node] = "send" => step = "enqueued",
           sent # {} => PinnedDefinition(r).type[runs[r].node] = "send",
           step = "waiting" => wake >= Delay
    PROVE  Fit(r, Outcome(MovedTo(r, next, wake), step, jobs, sent))
<1> DEFINE row == MovedTo(r, next, wake)
           out == Outcome(row, step, jobs, sent)
<1>1. runs[r] \in RunRow /\ runs[r].node \in Node /\ NoNode \notin Node
  BY Bounds DEF TypeOK
<1>2. /\ row \in RunRow /\ row.version = runs[r].version /\ row.status \in {"waiting", "completed"}
      /\ row.status = "waiting" => row.node = next /\ row.node \in Node /\ row.wake = wake
      /\ row.status = "completed" => row.node = runs[r].node
  <2>1. CASE next = NoNode
    <3>1. row = Ended(r, "completed", "reached_exit")
      BY <2>1 DEF MovedTo
    <3>2. "completed" \in RunStatus /\ "reached_exit" \in Reasons
      BY DEF RunStatus, Reasons
    <3> HIDE DEF row
    <3> QED
      BY <1>1, <3>1, <3>2, EndedRow
  <2>2. CASE next \in Node
    <3>1. row = [runs[r] EXCEPT !.node = next, !.wake = wake]
      BY <1>1, <2>2 DEF MovedTo
    <3> HIDE DEF row
    <3>2. /\ row \in RunRow /\ row.status = "waiting" /\ row.version = runs[r].version
          /\ row.node = next /\ row.wake = wake
      BY <1>1, <2>2, <3>1 DEF RunRow, Active
    <3> QED
      BY <2>2, <3>2
  <2> QED
    BY <2>1, <2>2
<1> HIDE DEF row
<1>3. out.row = row /\ out.step = step /\ out.nudges = jobs /\ out.mails = sent
  BY DEF Outcome
<1>4. out \in Advanced
  <2>1. sent \in SUBSET (Run \X Node)
    BY <1>1
  <2> QED
    BY <1>2, <2>1 DEF Outcome, Advanced
<1>5. step # "" /\ (step = "waiting" => wake + 0 >= Delay)
  <2>1. step # ""
    BY DEF Outcomes
  <2>2. Delay \in Nat /\ DayTicks \in Nat
    BY Bounds
  <2>3. wake + 0 = wake
    BY <2>2
  <2> QED
    BY <2>1, <2>3, Zenon
<1>6. ASSUME NEW j \in Job PROVE Advances(r, [open |-> TRUE, job |-> j, out |-> out, age |-> 0])
  <2> HIDE DEF out
  <2> QED
    BY <1>2, <1>3, <1>5 DEF Advances
<1>7. \A m \in out.mails : m = <<r, runs[r].node>> /\ PinnedDefinition(r).type[runs[r].node] = "send"
  BY <1>3
<1> QED
  BY <1>4, <1>6, <1>7 DEF Fit, row

\* A run that ends where it stands.
LEMMA EndedFits ==
    ASSUME TypeOK, NEW r \in Run, Active(r), NEW s \in {"completed", "exited"}, NEW reason \in Reasons,
           NEW step \in Outcomes \cup {""}, step # "" => Len(steps[r]) < MaxSteps
    PROVE  Fit(r, Outcome(Ended(r, s, reason), step, {}, {}))
<1> DEFINE row == Ended(r, s, reason)
           out == Outcome(row, step, {}, {})
<1>1. runs[r] \in RunRow
  BY DEF TypeOK
<1>2. row \in RunRow /\ row.version = runs[r].version /\ row.status = s /\ row.node = runs[r].node
  <2>1. s \in RunStatus
    BY DEF RunStatus
  <2> QED
    BY <1>1, <2>1, EndedRow
<1> HIDE DEF row
<1>3. out.row = row /\ out.step = step /\ out.nudges = {} /\ out.mails = {}
  BY DEF Outcome
<1>4. out \in Advanced
  BY <1>2 DEF Outcome, Advanced
<1>5. ASSUME NEW j \in Job PROVE Advances(r, [open |-> TRUE, job |-> j, out |-> out, age |-> 0])
  <2> HIDE DEF out
  <2> QED
    BY <1>2, <1>3 DEF Advances
<1>6. \A m \in out.mails : m = <<r, runs[r].node>> /\ PinnedDefinition(r).type[runs[r].node] = "send"
  BY <1>3
<1> QED
  BY <1>4, <1>5, <1>6 DEF Fit, row

\* A send node in the quiet hours.
LEMMA DeferredFits ==
    ASSUME TypeOK, NEW r \in Run, Active(r), Len(steps[r]) < MaxSteps, NEW wake \in 0 .. Delay + DayTicks,
           NEW jobs \in SUBSET Job
    PROVE  Fit(r, Outcome([runs[r] EXCEPT !.wake = wake], "deferred_quiet_hours", jobs, {}))
<1> DEFINE row == [runs[r] EXCEPT !.wake = wake]
           out == Outcome(row, "deferred_quiet_hours", jobs, {})
<1>1. runs[r] \in RunRow /\ runs[r].node \in Node
  BY DEF TypeOK
<1>2. row \in RunRow /\ row.version = runs[r].version /\ row.status = "waiting" /\ row.node = runs[r].node
  BY <1>1, DeferredRow
<1> HIDE DEF row
<1>3. out.row = row /\ out.step = "deferred_quiet_hours" /\ out.mails = {}
  BY DEF Outcome
<1>4. out \in Advanced
  BY <1>2 DEF Outcome, Advanced, Outcomes
<1>5. ASSUME NEW j \in Job PROVE Advances(r, [open |-> TRUE, job |-> j, out |-> out, age |-> 0])
  <2>1. LeadsTo(PinnedDefinition(r), [node |-> runs[r].node, outcome |-> "deferred_quiet_hours"]) = runs[r].node
    BY DEF LeadsTo
  <2> HIDE DEF out
  <2> QED
    BY <1>1, <1>2, <1>3, <2>1 DEF Advances
<1>6. \A m \in out.mails : m = <<r, runs[r].node>> /\ PinnedDefinition(r).type[runs[r].node] = "send"
  BY <1>3
<1> QED
  BY <1>4, <1>5, <1>6 DEF Fit, row

LEMMA AdvanceFits ==
    ASSUME TypeOK, RunsFit, NEW r \in Run, Woken(r), Handled(r)
    PROVE  Fit(r, Advance(r))
<1> DEFINE def == PinnedDefinition(r)
           node == runs[r].node
           type == def.type[node]
           out == Advance(r)
<1>1. Active(r) /\ runs[r] \in RunRow /\ node \in Node /\ def \in Definition
  <2>1. Active(r)
    BY DEF Woken
  <2>2. runs[r].version \in 1 .. Len(versions)
    BY <2>1 DEF RunsFit, Present, Active
  <2>3. def \in Definition
    BY <2>2, ElementOfSeq DEF TypeOK, PinnedDefinition
  <2> QED
    BY <2>1, <2>3 DEF TypeOK
<1>2. Len(steps[r]) \in Nat /\ MaxSteps \in Nat
  BY Bounds, LenProperties DEF TypeOK
<1>3. \A d \in 0 .. Delay + DayTicks : Nudge(r, d) \in SUBSET Job
  BY DEF Nudge, Job
<1>4. 0 \in 0 .. Delay + DayTicks /\ Delay \in 0 .. Delay + DayTicks /\ Delay >= Delay
  BY Bounds
<1>5. CASE Len(steps[r]) >= MaxSteps
  <2>1. out = Outcome(Ended(r, "exited", "step_budget_exceeded"), "", {}, {})
    BY <1>2, <1>5 DEF Advance
  <2> QED
    BY <1>1, <2>1, EndedFits DEF Reasons
<1>6. CASE Len(steps[r]) < MaxSteps /\ ExitSatisfied
  <2>0. ~(Len(steps[r]) >= MaxSteps)
    BY <1>2, <1>6
  <2>1. out = Outcome(Ended(r, "exited", "exit_condition"), "exit_condition_satisfied", {}, {})
    BY <1>6, <2>0 DEF Advance
  <2> QED
    BY <1>1, <1>6, <2>1, EndedFits DEF Reasons, Outcomes
<1>7. CASE Len(steps[r]) < MaxSteps /\ ~ExitSatisfied
  <2>1. type \in {"send", "delay", "branch", "exit"}
    <3>1. node \in Nodes(def) /\ type # "trigger"
      BY <1>2, <1>7 DEF Handled
    <3>2. def.type[node] \in NodeType
      BY <1>1, <3>1 DEF Definition, Nodes
    <3> QED
      BY <3>1, <3>2 DEF NodeType
  <2>8. ~(Len(steps[r]) >= MaxSteps)
    BY <1>2, <1>7
  <2>0. out = HandleNode(r, def)
    BY <1>7, <2>8 DEF Advance
  <2>2. /\ type = "send" => out = SendNode(r, def)
        /\ type = "delay" => out = DelayNode(r, def)
        /\ type = "branch" => out = BranchNode(r, def)
        /\ type = "exit" => out = Outcome(Ended(r, "completed", "reached_exit"), "completed", {}, {})
    BY <2>0 DEF HandleNode
  <2>3. CASE type = "send" /\ flow.quiet /\ now \in QuietTimes
    <3>1. QuietEnd \in 0 .. Delay + DayTicks
      BY <2>3, QuietEndType, Bounds DEF TypeOK
    <3>2. out = Outcome([runs[r] EXCEPT !.wake = QuietEnd], "deferred_quiet_hours", Nudge(r, QuietEnd), {})
      BY <2>2, <2>3 DEF SendNode
    <3> QED
      BY <1>1, <1>3, <1>7, <3>1, <3>2, DeferredFits
  <2>4. CASE type = "send" /\ ~(flow.quiet /\ now \in QuietTimes)
    <3> DEFINE next == ResolveNextNodeId(def, node)
    <3>1. next \in Node \cup {NoNode} /\ next = LeadsTo(def, [node |-> node, outcome |-> "enqueued"])
      BY <1>1, NextTypes DEF LeadsTo
    <3>2. out = Outcome(MovedTo(r, next, 0), "enqueued", NudgeIfMoved(r, next), {<<r, node>>})
      BY <2>2, <2>4 DEF SendNode
    <3>3. NudgeIfMoved(r, next) \in SUBSET Job
      BY <1>3, <1>4 DEF NudgeIfMoved
    <3> QED
      BY <1>1, <1>4, <1>7, <2>4, <3>1, <3>2, <3>3, MovedFits, ZenonT(40) DEF Outcomes
  <2>5. CASE type = "delay"
    <3> DEFINE next == ResolveNextNodeId(def, node)
    <3>1. next \in Node \cup {NoNode} /\ next = LeadsTo(def, [node |-> node, outcome |-> "waiting"])
      BY <1>1, NextTypes DEF LeadsTo
    <3>2. out = Outcome(MovedTo(r, next, Delay), "waiting", Nudge(r, Delay), {})
      BY <2>2, <2>5 DEF DelayNode
    <3> QED
      BY <1>1, <1>3, <1>4, <1>7, <2>5, <3>1, <3>2, MovedFits DEF Outcomes
  <2>6. CASE type = "branch"
    <3> DEFINE next == ResolveBranchNextNodeId(def, node, IF inSegment THEN "yes" ELSE "no")
               step == IF inSegment THEN "branched_yes" ELSE "branched_no"
    <3>1. next \in Node \cup {NoNode} /\ next = LeadsTo(def, [node |-> node, outcome |-> step])
      BY <1>1, NextTypes DEF LeadsTo
    <3>2. out = Outcome(MovedTo(r, next, 0), step, NudgeIfMoved(r, next), {})
      BY <2>2, <2>6 DEF BranchNode
    <3>3. NudgeIfMoved(r, next) \in SUBSET Job
      BY <1>3, <1>4 DEF NudgeIfMoved
    <3>4. step \in Outcomes /\ step # "waiting"
      BY DEF Outcomes
    <3> QED
      BY <1>1, <1>4, <1>7, <2>6, <3>1, <3>2, <3>3, <3>4, MovedFits
  <2>7. CASE type = "exit"
    BY <1>1, <1>7, <2>2, <2>7, EndedFits DEF Outcomes, Reasons
  <2> QED
    BY <2>1, <2>3, <2>4, <2>5, <2>6, <2>7
<1> QED
  BY <1>2, <1>5, <1>6, <1>7

-----------------------------------------------------------------------------
(* The steps                                                               *)

\* Steps that leave the runs, their steps and their versions alone.
LEMMA RunsStay ==
    ASSUME FlowInv, UNCHANGED <<runs, steps, txn, mailJobs, mails, waited>>,
           \A r \in Run : Present(r) => PinnedDefinition(r)' = PinnedDefinition(r),
           flow.status = "deleted" => flow'.status = "deleted"
    PROVE  TxnsFit' /\ StepsFit' /\ MailsFit' /\ DelaysFit'
<1>1. TxnsFit /\ StepsFit /\ MailsFit /\ DelaysFit
  BY DEF FlowInv
<1>2. \A r \in Run : Active(r) => Present(r)
  BY DEF Active, Present
<1>3. TxnsFit'
  <2> SUFFICES ASSUME NEW r \in Run, txn[r].open PROVE Advances(r, txn[r])'
    BY DEF TxnsFit
  <2>1. Advances(r, txn[r]) /\ PinnedDefinition(r)' = PinnedDefinition(r)
    BY <1>1, <1>2 DEF TxnsFit, Advances
  <2> QED
    BY <2>1 DEF Advances, Active
<1>4. StepsFit'
  <2> SUFFICES ASSUME NEW r \in Run, Present(r) PROVE Follows(r)'
    BY DEF StepsFit, Present
  <2>1. Follows(r) /\ PinnedDefinition(r)' = PinnedDefinition(r)
    BY <1>1 DEF StepsFit
  <2> QED
    BY <2>1 DEF Follows, Active
<1>5. MailsFit'
  BY <1>1 DEF MailsFit, Mailed, Walked, Present
<1>6. DelaysFit'
  BY <1>1 DEF DelaysFit, Active
<1> QED
  BY <1>3, <1>4, <1>5, <1>6

\* A nudge that is dropped, lost or sent again, the contact's data, and nothing
\* at all.
LEMMA QueueSteps ==
    ASSUME FlowInv,
           \/ \E j \in nudges : StaleNudge(j) \/ LoseNudge(j)
           \/ \E r \in Run : Reconcile(r)
           \/ ContactChanges \/ UNCHANGED vars
    PROVE  FlowInv'
<1>1. UNCHANGED <<flow, versions, runs, steps, txn, mailJobs, mails, waited, now>>
  BY DEF StaleNudge, LoseNudge, Reconcile, ContactChanges, vars
<1>2. FlowFits' /\ RunsFit'
  BY <1>1 DEF FlowInv, FlowFits, RunsFit, Present
<1>3. TxnsFit' /\ StepsFit' /\ MailsFit' /\ DelaysFit'
  BY <1>1, RunsStay DEF PinnedDefinition
<1>4. TypeOK'
  <2>1. TypeOK
    BY DEF FlowInv
  <2>2. nudges' \subseteq Job
    <3>1. \A r \in Run : Nudge(r, 0) \subseteq Job
      BY Bounds DEF Nudge, Job
    <3> QED
      BY <2>1, <3>1 DEF TypeOK, StaleNudge, LoseNudge, Reconcile, ContactChanges, vars
  <2>3. calls' \in 0 .. MaxCalls /\ faults' \in 0 .. MaxFaults /\ inSegment' \in BOOLEAN
    <3>1. /\ calls \in 0 .. MaxCalls /\ faults \in 0 .. MaxFaults /\ inSegment \in BOOLEAN
          /\ MaxCalls \in Nat /\ MaxFaults \in Nat
      BY <2>1, Bounds DEF TypeOK
    <3>2. calls' = calls \/ (calls < MaxCalls /\ calls' = calls + 1)
      BY DEF StaleNudge, LoseNudge, Reconcile, ContactChanges, vars, Call, bounds
    <3>3. faults' = faults \/ (faults < MaxFaults /\ faults' = faults + 1)
      BY DEF StaleNudge, LoseNudge, Reconcile, ContactChanges, vars, bounds
    <3>4. inSegment' = inSegment \/ inSegment' = ~inSegment
      BY DEF StaleNudge, LoseNudge, Reconcile, ContactChanges, vars
    <3>5. calls' \in 0 .. MaxCalls
      BY <3>1, <3>2
    <3>6. faults' \in 0 .. MaxFaults
      BY <3>1, <3>3
    <3>7. inSegment' \in BOOLEAN
      BY <3>1, <3>4
    <3> QED
      BY <3>5, <3>6, <3>7
  <2> QED
    BY <1>1, <2>1, <2>2, <2>3 DEF TypeOK, Active
<1> QED
  BY <1>2, <1>3, <1>4 DEF FlowInv

\* Editing touches the draft only, publishing makes it the live version.
LEMMA FlowSteps ==
    ASSUME FlowInv,
           \/ \E def \in Definitions, quiet, exitIn \in BOOLEAN : UpdateFlowDraft(def, quiet, exitIn)
           \/ PublishFlow \/ PauseFlow \/ ResumeFlow
    PROVE  FlowInv'
<1>1. TypeOK /\ FlowFits /\ RunsFit /\ flow \in Flow /\ versions \in Seq(Definition) /\ Len(versions) <= MaxVersions
      /\ Len(versions) \in Nat
  BY LenProperties DEF FlowInv, TypeOK
<1>2. UNCHANGED <<runs, steps, txn, nudges, mailJobs, mails, waited, inSegment, now, faults>>
  BY DEF UpdateFlowDraft, PublishFlow, PauseFlow, ResumeFlow, bounds
<1>3. calls' \in 0 .. MaxCalls
  <2>1. calls \in 0 .. MaxCalls /\ MaxCalls \in Nat
    BY <1>1, Bounds DEF TypeOK
  <2>2. calls' = calls \/ (calls < MaxCalls /\ calls' = calls + 1)
    BY DEF UpdateFlowDraft, PublishFlow, PauseFlow, ResumeFlow, bounds, Call
  <2> QED
    BY <2>1, <2>2
<1> DEFINE typed == flow' \in Flow /\ versions' \in Seq(Definition) /\ Len(versions') <= MaxVersions
           kept == \A r \in Run : Present(r) => PinnedDefinition(r)' = PinnedDefinition(r)
<1>4. ASSUME NEW def \in Definitions, NEW quiet \in BOOLEAN, NEW exitIn \in BOOLEAN,
             UpdateFlowDraft(def, quiet, exitIn)
      PROVE  typed /\ FlowFits' /\ RunsFit' /\ kept /\ (flow.status = "deleted" => flow'.status = "deleted")
  <2>1. def \in Definition /\ flow.draft \in Nat /\ flow.live \in Nat /\ MaxVersions \in Nat
    BY <1>1, Bounds DEF Flow
  <2>2. flow.status # "deleted"
    BY <1>4 DEF UpdateFlowDraft
  <2>3. CASE flow.draft # 0
    <3>1. /\ versions' = [versions EXCEPT ![flow.draft] = def]
          /\ flow' = [flow EXCEPT !.draft = flow.draft, !.quiet = quiet, !.exitIn = exitIn]
      BY <1>4, <2>3 DEF UpdateFlowDraft
    <3>2. flow.draft \in 1 .. Len(versions)
      BY <1>1, <2>1, <2>3 DEF FlowFits
    <3>3. versions' \in Seq(Definition) /\ Len(versions') = Len(versions)
          /\ \A i \in 1 .. Len(versions) : i # flow.draft => versions'[i] = versions[i]
      BY <1>1, <2>1, <3>1, <3>2, ExceptSeq
    <3>4. flow' \in Flow /\ flow'.status = flow.status /\ flow'.live = flow.live /\ flow'.draft = flow.draft
      BY <1>1, <3>1 DEF Flow
    <3>5. FlowFits'
      <4>1. flow.live # 0 => flow.live # flow.draft /\ flow.live \in 1 .. Len(versions)
        BY <1>1, <2>1 DEF FlowFits
      <4> QED
        BY <1>1, <3>3, <3>4, <4>1 DEF FlowFits
    <3>6. RunsFit'
      BY <1>1, <1>2, <3>3, <3>4 DEF RunsFit, Present
    <3>7. kept
      BY <1>1, <1>2, <3>3 DEF RunsFit, PinnedDefinition
    <3> QED
      BY <1>1, <2>2, <3>3, <3>4, <3>5, <3>6, <3>7
  <2>4. CASE flow.draft = 0
    <3>1. /\ versions' = Append(versions, def) /\ Len(versions) < MaxVersions
          /\ flow' = [flow EXCEPT !.draft = Len(versions) + 1, !.quiet = quiet, !.exitIn = exitIn]
      BY <1>4, <2>4 DEF UpdateFlowDraft
    <3>2. versions' \in Seq(Definition) /\ Len(versions') = Len(versions) + 1
          /\ \A i \in 1 .. Len(versions) : versions'[i] = versions[i]
      BY <1>1, <2>1, <3>1, AppendProperties
    <3>3. flow' \in Flow /\ flow'.status = flow.status /\ flow'.live = flow.live /\ flow'.draft = Len(versions) + 1
      <4>1. Len(versions) + 1 \in 0 .. MaxVersions
        BY <1>1, <2>1, <3>1
      <4> QED
        BY <1>1, <3>1, <4>1 DEF Flow
    <3>4. FlowFits'
      <4>1. flow.live # 0 => flow.live \in 1 .. Len(versions)
        BY <1>1, <2>1 DEF FlowFits
      <4> QED
        BY <1>1, <2>1, <2>2, <3>2, <3>3, <4>1 DEF FlowFits
    <3>5. RunsFit'
      BY <1>1, <1>2, <3>2, <3>3 DEF RunsFit, Present
    <3>6. kept
      BY <1>1, <1>2, <3>2 DEF RunsFit, PinnedDefinition
    <3>7. Len(versions') <= MaxVersions
      BY <1>1, <2>1, <3>1, <3>2
    <3> QED
      BY <2>2, <3>2, <3>3, <3>4, <3>5, <3>6, <3>7
  <2> QED
    BY <2>3, <2>4
<1>5. ASSUME PublishFlow \/ PauseFlow \/ ResumeFlow
      PROVE  typed /\ FlowFits' /\ RunsFit' /\ kept /\ (flow.status = "deleted" => flow'.status = "deleted")
  <2>1. versions' = versions /\ flow.live \in Nat /\ flow.draft \in Nat /\ MaxVersions \in Nat /\ 0 \in 0 .. MaxVersions
    BY <1>1, <1>5, Bounds DEF PublishFlow, PauseFlow, ResumeFlow, Flow
  <2>2. kept
    BY <1>2, <2>1 DEF PinnedDefinition
  <2>3. CASE PublishFlow
    <3>1. /\ flow' \in Flow /\ flow'.live = flow.draft /\ flow'.draft = 0 /\ flow'.status \in {"live", "paused"}
          /\ flow.draft # 0 /\ flow.status # "deleted" /\ Valid(versions[flow.draft])
      BY <1>1, <2>1, <2>3 DEF PublishFlow, Published, Flow
    <3>2. FlowFits'
      BY <1>1, <2>1, <3>1 DEF FlowFits
    <3>3. RunsFit'
      BY <1>1, <1>2, <2>1, <3>1 DEF RunsFit, Present
    <3> QED
      BY <1>1, <2>1, <2>2, <3>1, <3>2, <3>3
  <2>4. CASE PauseFlow \/ ResumeFlow
    <3>1. /\ flow' \in Flow /\ flow'.live = flow.live /\ flow'.draft = flow.draft
          /\ flow.status \in {"live", "paused"} /\ flow'.status \in {"live", "paused"}
      BY <1>1, <2>4 DEF PauseFlow, ResumeFlow, Flow
    <3>2. FlowFits'
      BY <1>1, <2>1, <3>1 DEF FlowFits
    <3>3. RunsFit'
      BY <1>1, <1>2, <2>1, <3>1 DEF RunsFit, Present
    <3> QED
      BY <1>1, <2>1, <2>2, <3>1, <3>2, <3>3
  <2> QED
    BY <1>5, <2>3, <2>4
<1>6. typed /\ FlowFits' /\ RunsFit' /\ kept /\ (flow.status = "deleted" => flow'.status = "deleted")
  BY <1>4, <1>5
<1>7. TxnsFit' /\ StepsFit' /\ MailsFit' /\ DelaysFit'
  BY <1>2, <1>6, RunsStay
<1>8. TypeOK'
  BY <1>1, <1>2, <1>3, <1>6 DEF TypeOK, Active
<1> QED
  BY <1>6, <1>7, <1>8 DEF FlowInv

\* A contact that enters stands at the live version's entry, with nothing
\* behind it.
LEMMA EnterFlowStep ==
    ASSUME FlowInv, NEW r \in Run, EnterFlow(r)
    PROVE  FlowInv'
<1> DEFINE row == [status |-> "waiting", version |-> flow.live,
                   node |-> EntryNodeId(versions[flow.live]), wake |-> 0, reason |-> ""]
<1>1. TypeOK /\ FlowFits /\ RunsFit /\ TxnsFit /\ StepsFit /\ MailsFit /\ DelaysFit
  BY DEF FlowInv
<1>2. UNCHANGED <<flow, versions, steps, txn, mailJobs, mails, inSegment, waited, now, calls, faults>>
  BY DEF EnterFlow, bounds
<1>3. runs \in [Run -> RunRow] /\ runs' = [runs EXCEPT ![r] = row] /\ ~Present(r) /\ flow.status = "live"
  BY <1>1 DEF EnterFlow, TypeOK, Present
<1>4. /\ flow.live \in 1 .. Len(versions) /\ flow.live \in 0 .. MaxVersions /\ flow.live # flow.draft
      /\ EntryNodeId(versions[flow.live]) \in Node
  <2>1. /\ flow.live # 0 /\ Valid(versions[flow.live]) /\ flow.live \in 0 .. MaxVersions
        /\ flow.live # flow.draft /\ flow.live <= Len(versions)
    BY <1>1, <1>3 DEF FlowFits, TypeOK, Flow
  <2>2. flow.live \in 1 .. Len(versions)
    BY <2>1, Bounds, LenProperties
  <2>3. versions[flow.live] \in Definition
    BY <1>1, <2>2, ElementOfSeq DEF TypeOK
  <2> QED
    BY <2>1, <2>2, <2>3, EntryType
<1>5. /\ row \in RunRow /\ row.status = "waiting" /\ row.version = flow.live
      /\ row.node = EntryNodeId(versions[flow.live]) /\ row.node \in Node /\ row.wake = 0
  <2>1. 0 \in 0 .. Delay + DayTicks
    BY Bounds
  <2> QED
    BY <1>4, <2>1 DEF RunRow, RunStatus, Reasons
<1> HIDE DEF row
<1>6. runs' \in [Run -> RunRow] /\ runs'[r] = row /\ \A x \in Run : x # r => runs'[x] = runs[x]
  BY <1>3, <1>5
<1>7. steps[r] \in Seq(Step) /\ Len(steps[r]) = 0 /\ ~txn[r].open
  BY <1>1, <1>3 DEF TypeOK, RunsFit, TxnsFit, Advances, Active, Present
<1>8. TypeOK'
  <2>1. \A x \in Run : Active(x)' => runs'[x].node \in Node
    BY <1>1, <1>5, <1>6 DEF TypeOK, Active
  <2>2. nudges' \subseteq Job
    <3>1. Nudge(r, 0) \subseteq Job
      BY Bounds DEF Nudge, Job
    <3> QED
      BY <1>1, <3>1 DEF TypeOK, EnterFlow
  <2> QED
    BY <1>1, <1>2, <1>6, <2>1, <2>2 DEF TypeOK
<1>9. FlowFits'
  BY <1>1, <1>2 DEF FlowFits
<1>10. RunsFit'
  <2> SUFFICES ASSUME NEW x \in Run
               PROVE  IF Present(x)'
                      THEN /\ flow.status \in {"live", "paused"}
                           /\ runs'[x].version \in 1 .. Len(versions) /\ runs'[x].version # flow.draft
                      ELSE Len(steps[x]) = 0
    BY <1>2 DEF RunsFit
  <2>1. CASE x = r
    BY <1>3, <1>4, <1>5, <1>6, <2>1 DEF Present
  <2>2. CASE x # r
    BY <1>1, <1>6, <2>2 DEF RunsFit, Present
  <2> QED
    BY <2>1, <2>2
<1>11. TxnsFit'
  <2> SUFFICES ASSUME NEW x \in Run, txn[x].open PROVE Advances(x, txn[x])'
    BY <1>2 DEF TxnsFit
  <2>1. x # r /\ Advances(x, txn[x])
    BY <1>1, <1>7 DEF TxnsFit
  <2> QED
    BY <1>2, <1>6, <2>1 DEF Advances, Active, PinnedDefinition
<1>12. StepsFit'
  <2> SUFFICES ASSUME NEW x \in Run, Present(x)' PROVE Follows(x)'
    BY DEF StepsFit
  <2>1. CASE x = r
    BY <1>2, <1>5, <1>6, <1>7, <2>1 DEF Follows, PinnedDefinition
  <2>2. CASE x # r
    BY <1>1, <1>2, <1>6, <2>2 DEF StepsFit, Present, Follows, PinnedDefinition, Active
  <2> QED
    BY <2>1, <2>2
<1>13. MailsFit'
  <2> SUFFICES ASSUME NEW x \in Run, NEW n \in Node
               PROVE  /\ mails[x][n] <= 1
                      /\ Mailed(x, n)' => IF Present(x)'
                           THEN Walked(x, n)' \/ (n = runs'[x].node /\ PinnedDefinition(x)'.type[n] = "send")
                           ELSE flow.status = "deleted"
    BY <1>2 DEF MailsFit
  <2>1. Mailed(x, n)' <=> Mailed(x, n)
    BY <1>2 DEF Mailed
  <2>2. CASE x = r
    BY <1>1, <1>3, <2>1, <2>2 DEF MailsFit
  <2>3. CASE x # r
    <3>1. Present(x)' = Present(x) /\ Walked(x, n)' = Walked(x, n) /\ runs'[x] = runs[x]
          /\ PinnedDefinition(x)' = PinnedDefinition(x)
      BY <1>2, <1>6, <2>3 DEF Present, Walked, PinnedDefinition
    <3> QED
      BY <1>1, <2>1, <3>1 DEF MailsFit
  <2> QED
    BY <2>2, <2>3
<1>14. DelaysFit'
  <2> SUFFICES ASSUME NEW x \in Run, Active(x)', Len(steps[x]) > 0, steps[x][Len(steps[x])].outcome = "waiting"
               PROVE  runs'[x].wake + waited[x] >= Delay
    BY <1>2 DEF DelaysFit
  <2>1. x # r
    BY <1>7
  <2> QED
    BY <1>1, <1>2, <1>6, <2>1 DEF DelaysFit, Active
<1> QED
  BY <1>8, <1>9, <1>10, <1>11, <1>12, <1>13, <1>14 DEF FlowInv

\* A run that is ejected stops where it is.
LEMMA EjectRunStep ==
    ASSUME FlowInv, NEW r \in Run, EjectRun(r)
    PROVE  FlowInv'
<1>1. TypeOK /\ FlowFits /\ RunsFit /\ TxnsFit /\ StepsFit /\ MailsFit /\ DelaysFit
  BY DEF FlowInv
<1>2. UNCHANGED <<flow, versions, steps, txn, nudges, mailJobs, mails, inSegment, waited, now, faults>>
  BY DEF EjectRun
<1>3. /\ runs \in [Run -> RunRow] /\ runs[r] \in RunRow /\ Active(r) /\ ~txn[r].open
      /\ runs' = [runs EXCEPT ![r] = Ended(r, "ejected", "ejected")]
  BY <1>1 DEF EjectRun, Ejectable, TypeOK
<1>4. /\ runs' \in [Run -> RunRow] /\ runs'[r].status = "ejected" /\ runs'[r].version = runs[r].version
      /\ runs'[r].node = runs[r].node /\ \A x \in Run : x # r => runs'[x] = runs[x]
  <2>1. "ejected" \in RunStatus /\ "ejected" \in Reasons
    BY DEF RunStatus, Reasons
  <2>2. /\ Ended(r, "ejected", "ejected") \in RunRow /\ Ended(r, "ejected", "ejected").status = "ejected"
        /\ Ended(r, "ejected", "ejected").version = runs[r].version
        /\ Ended(r, "ejected", "ejected").node = runs[r].node
    BY <1>3, <2>1, EndedRow
  <2> QED
    BY <1>3, <2>2
<1>5. \A x \in Run : /\ runs'[x].version = runs[x].version /\ runs'[x].node = runs[x].node
                     /\ PinnedDefinition(x)' = PinnedDefinition(x) /\ (Present(x)' <=> Present(x))
                     /\ Active(x)' => Active(x) /\ runs'[x] = runs[x]
  <2> SUFFICES ASSUME NEW x \in Run
               PROVE  /\ runs'[x].version = runs[x].version /\ runs'[x].node = runs[x].node
                      /\ Present(x)' <=> Present(x)
                      /\ Active(x)' => Active(x) /\ runs'[x] = runs[x]
    BY <1>2 DEF PinnedDefinition
  <2>1. CASE x = r
    BY <1>3, <1>4, <2>1 DEF Present, Active
  <2>2. CASE x # r
    BY <1>4, <2>2 DEF Present, Active
  <2> QED
    BY <2>1, <2>2
<1>6. TypeOK'
  <2>1. calls' \in 0 .. MaxCalls
    <3>1. calls \in 0 .. MaxCalls /\ MaxCalls \in Nat /\ calls < MaxCalls /\ calls' = calls + 1
      BY <1>1, Bounds DEF TypeOK, EjectRun, Call
    <3> QED
      BY <3>1
  <2>2. \A x \in Run : Active(x)' => runs'[x].node \in Node
    BY <1>1, <1>5 DEF TypeOK
  <2> QED
    BY <1>1, <1>2, <1>4, <2>1, <2>2 DEF TypeOK
<1>7. FlowFits' /\ RunsFit'
  BY <1>1, <1>2, <1>5 DEF FlowFits, RunsFit
<1>8. TxnsFit'
  <2> SUFFICES ASSUME NEW x \in Run, txn[x].open PROVE Advances(x, txn[x])'
    BY <1>2 DEF TxnsFit
  <2>1. x # r /\ Advances(x, txn[x])
    BY <1>1, <1>3 DEF TxnsFit
  <2> QED
    BY <1>2, <1>4, <2>1 DEF Advances, Active, PinnedDefinition
<1>9. StepsFit'
  <2> SUFFICES ASSUME NEW x \in Run, Present(x)' PROVE Follows(x)'
    BY DEF StepsFit
  <2>1. Follows(x)
    BY <1>1, <1>5 DEF StepsFit
  <2> QED
    BY <1>2, <1>5, <2>1 DEF Follows
<1>10. MailsFit'
  <2> SUFFICES ASSUME NEW x \in Run, NEW n \in Node
               PROVE  /\ mails[x][n] <= 1
                      /\ Mailed(x, n)' => IF Present(x)'
                           THEN Walked(x, n)' \/ (n = runs'[x].node /\ PinnedDefinition(x)'.type[n] = "send")
                           ELSE flow.status = "deleted"
    BY <1>2 DEF MailsFit
  <2>1. (Mailed(x, n)' <=> Mailed(x, n)) /\ (Walked(x, n)' <=> Walked(x, n))
    BY <1>2 DEF Mailed, Walked
  <2> QED
    BY <1>1, <1>5, <2>1 DEF MailsFit
<1>11. DelaysFit'
  BY <1>1, <1>2, <1>5 DEF DelaysFit
<1> QED
  BY <1>6, <1>7, <1>8, <1>9, <1>10, <1>11 DEF FlowInv

\* An advance that fails leaves its run as it was.
LEMMA RollbackStep ==
    ASSUME FlowInv, NEW r \in Run, RollbackAdvance(r)
    PROVE  FlowInv'
<1>1. TypeOK /\ FlowFits /\ RunsFit /\ TxnsFit /\ StepsFit /\ MailsFit /\ DelaysFit
  BY DEF FlowInv
<1>2. UNCHANGED <<flow, versions, runs, steps, mailJobs, mails, inSegment, waited, now, calls>>
  BY DEF RollbackAdvance
<1>3. txn' = [txn EXCEPT ![r] = Idle] /\ txn[r].open
  BY DEF RollbackAdvance
<1>4. /\ txn' \in [Run -> OpenTxn \cup {Idle}] /\ ~txn'[r].open
      /\ \A x \in Run : x # r => txn'[x] = txn[x]
  BY <1>1, <1>3 DEF TypeOK, Idle
<1>5. TypeOK'
  <2>1. txn[r] \in OpenTxn
    <3>1. txn[r] # Idle
      BY <1>3 DEF Idle
    <3> QED
      BY <1>1, <3>1 DEF TypeOK
  <2>2. nudges' \subseteq Job
    <3>1. txn[r].job \in Job
      BY <2>1 DEF OpenTxn
    <3> QED
      BY <1>1, <3>1 DEF TypeOK, RollbackAdvance
  <2>3. faults' \in 0 .. MaxFaults
    <3>1. faults \in 0 .. MaxFaults /\ MaxFaults \in Nat /\ faults < MaxFaults /\ faults' = faults + 1
      BY <1>1, Bounds DEF TypeOK, RollbackAdvance
    <3> QED
      BY <3>1
  <2> QED
    BY <1>1, <1>2, <1>4, <2>2, <2>3 DEF TypeOK, Active
<1>6. FlowFits' /\ RunsFit' /\ StepsFit' /\ MailsFit' /\ DelaysFit'
  <2>1. FlowFits' /\ RunsFit'
    BY <1>1, <1>2 DEF FlowFits, RunsFit, Present
  <2>2. StepsFit'
    BY <1>1, <1>2 DEF StepsFit, Follows, Present, Active, PinnedDefinition
  <2>3. MailsFit'
    BY <1>1, <1>2 DEF MailsFit, Mailed, Walked, Present, PinnedDefinition
  <2>4. DelaysFit'
    BY <1>1, <1>2 DEF DelaysFit, Active
  <2> QED
    BY <2>1, <2>2, <2>3, <2>4
<1>7. TxnsFit'
  <2> SUFFICES ASSUME NEW x \in Run, txn'[x].open PROVE Advances(x, txn[x])'
    BY DEF TxnsFit
  <2>1. txn'[x] = txn[x] /\ Advances(x, txn[x])
    BY <1>1, <1>4 DEF TxnsFit
  <2> QED
    BY <1>2, <2>1 DEF Advances, Active, PinnedDefinition
<1> QED
  BY <1>5, <1>6, <1>7 DEF FlowInv

\* The ledger lets a run's node be mailed once.
LEMMA DeliverMailStep ==
    ASSUME FlowInv, NEW r \in Run, NEW n \in Node, DeliverMail(r, n)
    PROVE  FlowInv'
<1>1. TypeOK /\ FlowFits /\ RunsFit /\ TxnsFit /\ StepsFit /\ MailsFit /\ DelaysFit
  BY DEF FlowInv
<1>2. UNCHANGED <<flow, versions, runs, steps, txn, nudges, inSegment, waited, now, calls>>
  BY DEF DeliverMail
<1>3. /\ <<r, n>> \in mailJobs /\ mailJobs' \subseteq mailJobs
      /\ mails' = mails \/ (mails[r][n] = 0 /\ mails' = [mails EXCEPT ![r][n] = @ + 1])
  BY DEF DeliverMail, ClaimsFlowSend
<1>4. mails \in [Run -> [Node -> Nat]]
  BY <1>1 DEF TypeOK
<1>5. /\ mails' \in [Run -> [Node -> Nat]]
      /\ \A x \in Run, m \in Node : mails'[x][m] = mails[x][m]
           \/ (x = r /\ m = n /\ mails'[x][m] = 1)
  <2>1. CASE mails' = mails
    BY <1>4, <2>1
  <2>2. CASE mails[r][n] = 0 /\ mails' = [mails EXCEPT ![r][n] = @ + 1]
    <3>1. mails' = [mails EXCEPT ![r] = [mails[r] EXCEPT ![n] = 1]]
      BY <1>4, <2>2
    <3>2. [mails[r] EXCEPT ![n] = 1] \in [Node -> Nat]
      BY <1>4
    <3> QED
      BY <1>4, <3>1, <3>2
  <2> QED
    BY <1>3, <2>1, <2>2
<1>6. TypeOK'
  <2>1. faults' \in 0 .. MaxFaults
    <3>1. faults \in 0 .. MaxFaults /\ MaxFaults \in Nat
          /\ (faults' = faults \/ (faults < MaxFaults /\ faults' = faults + 1))
      BY <1>1, Bounds DEF TypeOK, DeliverMail
    <3> QED
      BY <3>1
  <2> QED
    BY <1>1, <1>2, <1>3, <1>5, <2>1 DEF TypeOK, Active
<1>7. FlowFits' /\ RunsFit' /\ TxnsFit' /\ StepsFit' /\ DelaysFit'
  <2>1. FlowFits' /\ RunsFit'
    BY <1>1, <1>2 DEF FlowFits, RunsFit, Present
  <2>2. TxnsFit'
    BY <1>1, <1>2 DEF TxnsFit, Advances, Active, PinnedDefinition
  <2>3. StepsFit'
    BY <1>1, <1>2 DEF StepsFit, Follows, Present, Active, PinnedDefinition
  <2>4. DelaysFit'
    BY <1>1, <1>2 DEF DelaysFit, Active
  <2> QED
    BY <2>1, <2>2, <2>3, <2>4
<1>8. MailsFit'
  <2> SUFFICES ASSUME NEW x \in Run, NEW m \in Node
               PROVE  mails'[x][m] <= 1 /\ (Mailed(x, m)' => Mailed(x, m))
    BY <1>1, <1>2 DEF MailsFit, Walked, Present, PinnedDefinition
  <2>1. mails[x][m] <= 1
    BY <1>1 DEF MailsFit
  <2>2. CASE mails'[x][m] = mails[x][m]
    BY <1>3, <2>1, <2>2 DEF Mailed
  <2>3. CASE x = r /\ m = n /\ mails'[x][m] = 1
    BY <1>3, <2>3 DEF Mailed
  <2> QED
    BY <1>5, <2>2, <2>3
<1> QED
  BY <1>6, <1>7, <1>8 DEF FlowInv

\* A flow is deleted when no run is active, and takes its runs with it.
LEMMA DeleteFlowStep ==
    ASSUME FlowInv, DeleteFlow
    PROVE  FlowInv'
<1>1. TypeOK /\ FlowFits /\ RunsFit /\ TxnsFit /\ StepsFit /\ MailsFit /\ DelaysFit
  BY DEF FlowInv
<1>2. UNCHANGED <<txn, nudges, mailJobs, mails, inSegment, waited, now, faults>>
  BY DEF DeleteFlow
<1>3. /\ flow \in Flow /\ flow' = [flow EXCEPT !.status = "deleted", !.live = 0, !.draft = 0]
      /\ versions' = <<>> /\ runs' = [r \in Run |-> Absent] /\ steps' = [r \in Run |-> <<>>]
  BY <1>1 DEF DeleteFlow, TypeOK
<1>4. \A r \in Run : ~txn[r].open
  BY <1>1 DEF DeleteFlow, RunsFit, TxnsFit, Advances, Active, Present
<1>5. flow' \in Flow /\ flow'.status = "deleted" /\ flow'.live = 0 /\ flow'.draft = 0
  <2>1. 0 \in 0 .. MaxVersions
    BY Bounds
  <2> QED
    BY <1>3, <2>1 DEF Flow
<1>6. \A r \in Run : /\ runs'[r] = Absent /\ runs'[r].status = "absent" /\ ~Present(r)' /\ ~Active(r)'
                     /\ steps'[r] = <<>>
  BY <1>3 DEF Absent, Present, Active
<1>7. TypeOK'
  <2>1. Absent \in RunRow
    <3>1. 0 \in 0 .. Delay + DayTicks /\ 0 \in 0 .. MaxVersions
      BY Bounds
    <3> QED
      BY <3>1 DEF Absent, RunRow, RunStatus, Reasons
  <2>2. runs' \in [Run -> RunRow]
    BY <1>3, <2>1
  <2>3. /\ versions' \in Seq(Definition) /\ Len(versions') <= MaxVersions
        /\ steps' \in [Run -> Seq(Step)] /\ \A r \in Run : Len(steps'[r]) <= MaxSteps
    BY <1>3, <1>6, Bounds
  <2>4. calls' \in 0 .. MaxCalls
    <3>1. calls \in 0 .. MaxCalls /\ MaxCalls \in Nat /\ calls < MaxCalls /\ calls' = calls + 1
      BY <1>1, Bounds DEF TypeOK, DeleteFlow, Call
    <3> QED
      BY <3>1
  <2> QED
    BY <1>1, <1>2, <1>5, <1>6, <2>2, <2>3, <2>4 DEF TypeOK
<1>8. FlowFits'
  <2>1. Len(versions') = 0
    BY <1>3
  <2> QED
    BY <1>5, <2>1 DEF FlowFits
<1>9. RunsFit' /\ StepsFit' /\ DelaysFit' /\ TxnsFit'
  BY <1>2, <1>4, <1>6 DEF RunsFit, StepsFit, DelaysFit, TxnsFit
<1>10. MailsFit'
  BY <1>1, <1>2, <1>5, <1>6 DEF MailsFit
<1> QED
  BY <1>5, <1>7, <1>8, <1>9, <1>10 DEF FlowInv

LEMMA LessAndMore ==
    ASSUME NEW wake \in Nat, NEW age \in 0 .. Delay
    PROVE  /\ Less(wake) \in Nat /\ Less(wake) <= wake
           /\ More(age) \in 0 .. Delay
           /\ wake + age >= Delay => Less(wake) + More(age) >= Delay
<1>1. Delay \in Nat /\ age \in Nat
  BY Bounds
<1>2. Less(wake) \in Nat /\ Less(wake) <= wake /\ wake <= Less(wake) + 1
  BY DEF Less
<1>3. More(age) \in 0 .. Delay /\ age <= More(age) /\ (age < Delay => More(age) = age + 1) /\ (age = Delay => More(age) = Delay)
  BY <1>1 DEF More
<1> HIDE DEF Less, More
<1>4. age < Delay \/ age = Delay
  BY <1>1
<1> QED
  BY <1>1, <1>2, <1>3, <1>4

LEMMA LaterRow ==
    ASSUME NEW row \in RunRow
    PROVE  /\ Later(row) \in RunRow /\ Later(row).status = row.status /\ Later(row).version = row.version
           /\ Later(row).node = row.node /\ Later(row).wake = Less(row.wake)
<1>1. row.wake \in 0 .. Delay + DayTicks /\ Delay \in Nat /\ DayTicks \in Nat
  BY Bounds DEF RunRow
<1>2. Less(row.wake) \in 0 .. Delay + DayTicks
  BY <1>1 DEF Less
<1> QED
  BY <1>2 DEF Later, RunRow

\* As time passes, what is left of a delay shrinks by what is added to the time
\* since it began.
LEMMA TickStep ==
    ASSUME FlowInv, Tick
    PROVE  FlowInv'
<1>1. TypeOK /\ FlowFits /\ RunsFit /\ TxnsFit /\ StepsFit /\ MailsFit /\ DelaysFit
  BY DEF FlowInv
<1>2. UNCHANGED <<flow, versions, steps, mailJobs, mails, inSegment, calls>>
  BY DEF Tick
<1>3. /\ runs' = [r \in Run |-> Later(runs[r])]
      /\ nudges' = {[j EXCEPT !.in = Less(@)] : j \in nudges}
      /\ txn' = [r \in Run |-> IF txn[r].open
                               THEN [txn[r] EXCEPT !.age = More(@), !.out.row = Later(@)]
                               ELSE Idle]
      /\ waited' = [r \in Run |-> IF Active(r) THEN More(waited[r]) ELSE waited[r]]
  BY DEF Tick
<1>4. \A r \in Run : /\ runs'[r] = Later(runs[r]) /\ runs'[r] \in RunRow /\ runs[r] \in RunRow
                     /\ runs'[r].status = runs[r].status /\ runs'[r].version = runs[r].version
                     /\ runs'[r].node = runs[r].node /\ runs'[r].wake = Less(runs[r].wake)
  BY <1>1, <1>3, LaterRow DEF TypeOK
<1>5. \A r \in Run : /\ Present(r)' <=> Present(r)
                     /\ Active(r)' <=> Active(r)
                     /\ PinnedDefinition(r)' = PinnedDefinition(r)
  BY <1>2, <1>4 DEF Present, Active, PinnedDefinition
<1>6. ASSUME NEW r \in Run, txn[r].open
      PROVE  /\ txn[r] \in OpenTxn /\ txn'[r] \in OpenTxn
             /\ txn'[r].age = More(txn[r].age) /\ txn'[r].out.step = txn[r].out.step
             /\ txn'[r].out.row = Later(txn[r].out.row)
  <2>1. txn[r] \in OpenTxn
    <3>1. txn[r] # Idle
      BY <1>6 DEF Idle
    <3> QED
      BY <1>1, <3>1 DEF TypeOK
  <2>2. PICK t : t = txn[r]
    OBVIOUS
  <2>3. t \in OpenTxn /\ t.out \in Advanced /\ t.out.row \in RunRow /\ t.age \in 0 .. Delay
    BY <2>1, <2>2 DEF OpenTxn, Advanced
  <2>4. PICK row : row = Later(t.out.row)
    OBVIOUS
  <2>5. row \in RunRow
    BY <2>3, <2>4, LaterRow
  <2>6. PICK age : age = More(t.age)
    OBVIOUS
  <2>7. age \in 0 .. Delay
    BY <2>3, <2>6, LessAndMore
  <2>8. txn'[r] = [t EXCEPT !.age = age, !.out.row = row]
    BY <1>3, <1>6, <2>2, <2>4, <2>6
  <2>9. PICK out : out = [t.out EXCEPT !.row = row]
    OBVIOUS
  <2>10. out \in Advanced /\ out.row = row /\ out.step = t.out.step
    BY <2>3, <2>5, <2>9 DEF Advanced
  <2>11. txn'[r] = [t EXCEPT !.age = age, !.out = out]
    BY <2>8, <2>9
  <2>12. txn'[r] \in OpenTxn /\ txn'[r].age = age /\ txn'[r].out = out
    BY <2>3, <2>7, <2>10, <2>11 DEF OpenTxn
  <2> QED
    BY <2>1, <2>2, <2>4, <2>6, <2>10, <2>12
<1>7. TypeOK'
  <2>1. now' \in 0 .. DayTicks - 1
    <3>1. now \in 0 .. DayTicks - 1 /\ DayTicks \in Nat \ {0}
      BY <1>1, Bounds DEF TypeOK
    <3>2. now' = now \/ now' = (now + 1) % DayTicks
      BY DEF Tick
    <3> QED
      BY <3>1, <3>2
  <2>2. faults' \in 0 .. MaxFaults
    <3>1. faults \in 0 .. MaxFaults /\ MaxFaults \in Nat
          /\ (faults' = faults \/ (faults < MaxFaults /\ faults' = faults + 1))
      BY <1>1, Bounds DEF TypeOK, Tick
    <3> QED
      BY <3>1
  <2>3. nudges' \subseteq Job
    <3> SUFFICES ASSUME NEW j \in nudges PROVE [j EXCEPT !.in = Less(@)] \in Job
      BY <1>3
    <3>1. j \in Job
      BY <1>1 DEF TypeOK
    <3>2. j.in \in 0 .. Delay + DayTicks /\ Delay \in Nat /\ DayTicks \in Nat
      BY <3>1, Bounds DEF Job
    <3>3. Less(j.in) \in 0 .. Delay + DayTicks
      BY <3>2 DEF Less
    <3> QED
      BY <3>1, <3>3 DEF Job
  <2>4. runs' \in [Run -> RunRow]
    BY <1>3, <1>4
  <2>5. txn' \in [Run -> OpenTxn \cup {Idle}]
    <3>1. \A r \in Run : txn'[r] \in OpenTxn \cup {Idle}
      BY <1>3, <1>6
    <3> QED
      BY <1>3, <3>1
  <2>6. waited' \in [Run -> 0 .. Delay]
    <3>1. \A r \in Run : More(waited[r]) \in 0 .. Delay /\ waited[r] \in 0 .. Delay
      BY <1>1, LessAndMore, Bounds DEF TypeOK
    <3> QED
      BY <1>3, <3>1
  <2> QED
    BY <1>1, <1>2, <1>4, <1>5, <2>1, <2>2, <2>3, <2>4, <2>5, <2>6 DEF TypeOK
<1>8. FlowFits' /\ RunsFit'
  BY <1>1, <1>2, <1>4, <1>5 DEF FlowFits, RunsFit
<1>9. TxnsFit'
  <2> SUFFICES ASSUME NEW r \in Run, txn'[r].open PROVE Advances(r, txn[r])'
    BY DEF TxnsFit
  <2>1. txn[r].open
    BY <1>3 DEF Idle
  <2>t. PICK t : t = txn[r]
    OBVIOUS
  <2>u. PICK u : u = txn'[r]
    OBVIOUS
  <2>2. Advances(r, t)
    BY <1>1, <2>1, <2>t DEF TxnsFit
  <2>3. t \in OpenTxn /\ u.age = More(t.age) /\ u.out.step = t.out.step /\ u.out.row = Later(t.out.row)
    BY <1>6, <2>1, <2>t, <2>u
  <2>4. t.out.row \in RunRow /\ t.age \in 0 .. Delay
    BY <2>3 DEF OpenTxn, Advanced
  <2>5. /\ u.out.row.status = t.out.row.status /\ u.out.row.version = t.out.row.version
        /\ u.out.row.node = t.out.row.node /\ u.out.row.wake = Less(t.out.row.wake)
    BY <2>3, <2>4, LaterRow
  <2>6. t.out.row.wake + t.age >= Delay => u.out.row.wake + u.age >= Delay
    <3>1. t.out.row.wake \in Nat
      BY <2>4, Bounds DEF RunRow
    <3> QED
      BY <2>3, <2>4, <2>5, <3>1, LessAndMore
  <2>7. /\ Active(r)' /\ PinnedDefinition(r)' = PinnedDefinition(r) /\ runs'[r].node = runs[r].node
        /\ runs'[r].version = runs[r].version /\ steps' = steps
    BY <1>2, <1>4, <1>5, <2>2 DEF Advances
  <2>8. Advances(r, u)'
    BY <2>2, <2>3, <2>5, <2>6, <2>7 DEF Advances
  <2> QED
    BY <2>8, <2>u
<1>10. StepsFit'
  <2> SUFFICES ASSUME NEW r \in Run, Present(r)' PROVE Follows(r)'
    BY DEF StepsFit
  <2>1. Follows(r)
    BY <1>1, <1>5 DEF StepsFit
  <2> QED
    BY <1>2, <1>4, <1>5, <2>1 DEF Follows
<1>11. MailsFit'
  <2> SUFFICES ASSUME NEW x \in Run, NEW n \in Node
               PROVE  /\ mails[x][n] <= 1
                      /\ Mailed(x, n)' => IF Present(x)'
                           THEN Walked(x, n)' \/ (n = runs'[x].node /\ PinnedDefinition(x)'.type[n] = "send")
                           ELSE flow.status = "deleted"
    BY <1>2 DEF MailsFit
  <2>1. (Mailed(x, n)' <=> Mailed(x, n)) /\ (Walked(x, n)' <=> Walked(x, n))
    BY <1>2 DEF Mailed, Walked
  <2> QED
    BY <1>1, <1>4, <1>5, <2>1 DEF MailsFit
<1>12. DelaysFit'
  <2> SUFFICES ASSUME NEW r \in Run, Active(r)', Len(steps[r]) > 0, steps[r][Len(steps[r])].outcome = "waiting"
               PROVE  runs'[r].wake + waited'[r] >= Delay
    BY <1>2 DEF DelaysFit
  <2>1. Active(r) /\ runs[r].wake + waited[r] >= Delay
    BY <1>1, <1>5 DEF DelaysFit
  <2>2. runs'[r].wake = Less(runs[r].wake) /\ waited'[r] = More(waited[r])
    BY <1>3, <1>4, <2>1
  <2>3. runs[r].wake \in Nat /\ waited[r] \in 0 .. Delay
    BY <1>1, <1>4, Bounds DEF TypeOK, RunRow
  <2> QED
    BY <2>1, <2>2, <2>3, LessAndMore
<1> QED
  BY <1>7, <1>8, <1>9, <1>10, <1>11, <1>12 DEF FlowInv

\* An advance begins with an outcome that is fit to be committed.
LEMMA BeginAdvanceStep ==
    ASSUME FlowInv, NEW j \in nudges, BeginAdvance(j)
    PROVE  FlowInv'
<1> DEFINE r == j.run
           out == Advance(r)
           t == [open |-> TRUE, job |-> j, out |-> out, age |-> 0]
<1>1. TypeOK /\ FlowFits /\ RunsFit /\ TxnsFit /\ StepsFit /\ MailsFit /\ DelaysFit
  BY DEF FlowInv
<1>2. UNCHANGED <<flow, versions, runs, steps, mails, inSegment, waited, now, calls, faults>>
  BY DEF BeginAdvance, bounds
<1>3. j \in Job /\ r \in Run
  BY <1>1 DEF TypeOK, Job
<1>4. /\ Woken(r) /\ Handled(r) /\ Active(r) /\ Present(r)
      /\ txn' = [txn EXCEPT ![r] = t]
      /\ nudges' = (nudges \ {j}) \cup out.nudges
      /\ mailJobs' = mailJobs \cup out.mails
  BY DEF BeginAdvance, Woken, Active, Present
<1>5. Fit(r, out)
  BY <1>1, <1>3, <1>4, AdvanceFits
<1> HIDE DEF out
<1>6. /\ out \in Advanced /\ Advances(r, t)
      /\ \A m \in out.mails : m = <<r, runs[r].node>> /\ PinnedDefinition(r).type[runs[r].node] = "send"
  BY <1>3, <1>5 DEF Fit
<1>7. t \in OpenTxn
  <2>1. 0 \in 0 .. Delay
    BY Bounds
  <2> QED
    BY <1>3, <1>6, <2>1 DEF OpenTxn
<1> HIDE DEF t, r
<1>8. txn' \in [Run -> OpenTxn \cup {Idle}] /\ txn'[r] = t /\ \A x \in Run : x # r => txn'[x] = txn[x]
  BY <1>1, <1>3, <1>4, <1>7 DEF TypeOK
<1>9. TypeOK'
  <2>1. nudges' \subseteq Job /\ mailJobs' \subseteq Run \X Node
    <3>1. out.nudges \subseteq Job /\ out.mails \subseteq Run \X Node
      BY <1>6 DEF Advanced
    <3> QED
      BY <1>1, <1>4, <3>1 DEF TypeOK
  <2> QED
    BY <1>1, <1>2, <1>8, <2>1 DEF TypeOK, Active
<1>10. FlowFits' /\ RunsFit' /\ StepsFit' /\ DelaysFit'
  <2>1. FlowFits' /\ RunsFit'
    BY <1>1, <1>2 DEF FlowFits, RunsFit, Present
  <2>2. StepsFit'
    BY <1>1, <1>2 DEF StepsFit, Follows, Present, Active, PinnedDefinition
  <2>3. DelaysFit'
    BY <1>1, <1>2 DEF DelaysFit, Active
  <2> QED
    BY <2>1, <2>2, <2>3
<1>11. TxnsFit'
  <2> SUFFICES ASSUME NEW x \in Run, txn'[x].open PROVE Advances(x, txn[x])'
    BY DEF TxnsFit
  <2>1. Advances(x, txn'[x])
    BY <1>1, <1>6, <1>8 DEF TxnsFit
  <2> QED
    BY <1>2, <2>1 DEF Advances, Active, PinnedDefinition
<1>12. MailsFit'
  <2> SUFFICES ASSUME NEW x \in Run, NEW n \in Node, Mailed(x, n)'
               PROVE  IF Present(x)
                      THEN Walked(x, n) \/ (n = runs[x].node /\ PinnedDefinition(x).type[n] = "send")
                      ELSE flow.status = "deleted"
    BY <1>1, <1>2 DEF MailsFit, Walked, Present, PinnedDefinition
  <2>1. CASE Mailed(x, n)
    BY <1>1, <2>1 DEF MailsFit
  <2>2. CASE <<x, n>> \in out.mails
    <3>1. x = r /\ n = runs[r].node /\ PinnedDefinition(r).type[runs[r].node] = "send"
      BY <1>6, <2>2
    <3> QED
      BY <1>4, <3>1
  <2> QED
    BY <1>2, <1>4, <2>1, <2>2 DEF Mailed
<1> QED
  BY <1>9, <1>10, <1>11, <1>12 DEF FlowInv

\* A commit moves its run to where the step it appends leads, or ends it.
LEMMA CommitAdvanceStep ==
    ASSUME FlowInv, NEW r \in Run, CommitAdvance(r)
    PROVE  FlowInv'
<1>1. TypeOK /\ FlowFits /\ RunsFit /\ TxnsFit /\ StepsFit /\ MailsFit /\ DelaysFit
  BY DEF FlowInv
<1>2. UNCHANGED <<flow, versions, mailJobs, mails, inSegment, now, calls>>
  BY DEF CommitAdvance
<1>t. PICK t : t = txn[r]
  OBVIOUS
<1>s. PICK step : step = [node |-> runs[r].node, outcome |-> t.out.step]
  OBVIOUS
<1>3. /\ t.open /\ runs' = [runs EXCEPT ![r] = t.out.row]
      /\ t.out.step = "" => steps' = steps
      /\ t.out.step # "" => steps' = [steps EXCEPT ![r] = Append(@, step)]
      /\ txn' = [txn EXCEPT ![r] = Idle]
      /\ waited' = [waited EXCEPT ![r] = t.age]
  BY <1>t, <1>s DEF CommitAdvance
<1>4. t \in OpenTxn /\ t.out \in Advanced /\ t.out.row \in RunRow /\ t.age \in 0 .. Delay /\ t.job \in Job
      /\ t.out.step \in Outcomes \cup {""}
  <2>1. t \in OpenTxn
    <3>0. txn[r].open
      BY DEF CommitAdvance
    <3>1. txn[r] # Idle
      BY <3>0 DEF Idle
    <3> QED
      BY <1>1, <1>t, <3>1 DEF TypeOK
  <2> QED
    BY <2>1 DEF OpenTxn, Advanced
<1>5. Advances(r, t)
  BY <1>1, <1>3, <1>t DEF TxnsFit
<1>6. /\ Active(r) /\ Present(r) /\ t.out.row.version = runs[r].version
      /\ t.out.row.status \in {"waiting", "completed", "exited"}
      /\ runs[r].node \in Node /\ runs[r] \in RunRow
  BY <1>1, <1>5 DEF Advances, Active, Present, TypeOK
<1>7. /\ runs' \in [Run -> RunRow] /\ runs'[r] = t.out.row
      /\ \A x \in Run : x # r => runs'[x] = runs[x]
  BY <1>1, <1>3, <1>4 DEF TypeOK
<1>8. /\ Present(r)' /\ runs'[r].version = runs[r].version
      /\ PinnedDefinition(r)' = PinnedDefinition(r)
      /\ runs'[r].node \in Node
      /\ Active(r)' <=> t.out.row.status = "waiting"
  <2>1. t.out.row.node \in Node
    BY <1>5, <1>6 DEF Advances
  <2> QED
    BY <1>2, <1>6, <1>7, <2>1 DEF Present, PinnedDefinition, Active
<1>9. steps \in [Run -> Seq(Step)] /\ steps[r] \in Seq(Step) /\ Len(steps[r]) \in Nat /\ Len(steps[r]) <= MaxSteps
  BY <1>1, LenProperties DEF TypeOK
<1>10. ASSUME t.out.step # ""
       PROVE  /\ step \in Step /\ step.node = runs[r].node /\ step.outcome = t.out.step
              /\ steps'[r] = Append(steps[r], step) /\ steps'[r] \in Seq(Step)
              /\ Len(steps'[r]) = Len(steps[r]) + 1 /\ steps'[r][Len(steps[r]) + 1] = step
              /\ \A i \in 1 .. Len(steps[r]) : steps'[r][i] = steps[r][i]
              /\ Len(steps'[r]) <= MaxSteps
  <2>1. step \in Step /\ step.node = runs[r].node /\ step.outcome = t.out.step
    BY <1>4, <1>6, <1>10, <1>s DEF Step
  <2>2. steps'[r] = Append(steps[r], step)
    BY <1>3, <1>9, <1>10
  <2>3. /\ steps'[r] \in Seq(Step) /\ Len(steps'[r]) = Len(steps[r]) + 1
        /\ steps'[r][Len(steps[r]) + 1] = step
        /\ \A i \in 1 .. Len(steps[r]) : steps'[r][i] = steps[r][i]
    BY <1>9, <2>1, <2>2, AppendProperties
  <2>4. Len(steps[r]) < MaxSteps
    BY <1>5, <1>10 DEF Advances
  <2>5. Len(steps'[r]) <= MaxSteps
    BY <1>9, <2>3, <2>4, Bounds
  <2> QED
    BY <2>1, <2>2, <2>3, <2>5
<1>11. \A x \in Run : x # r => /\ runs'[x] = runs[x] /\ steps'[x] = steps[x] /\ txn'[x] = txn[x]
                               /\ waited'[x] = waited[x]
                               /\ (Present(x)' <=> Present(x)) /\ (Active(x)' <=> Active(x))
                               /\ PinnedDefinition(x)' = PinnedDefinition(x)
  <2> SUFFICES ASSUME NEW x \in Run, x # r
               PROVE  /\ runs'[x] = runs[x] /\ steps'[x] = steps[x] /\ txn'[x] = txn[x]
                      /\ waited'[x] = waited[x]
    BY <1>2 DEF Present, Active, PinnedDefinition
  <2>1. steps'[x] = steps[x]
    BY <1>3, <1>9
  <2> QED
    BY <1>1, <1>3, <1>7, <2>1 DEF TypeOK
<1>12. TypeOK'
  <2>1. steps' \in [Run -> Seq(Step)] /\ \A x \in Run : Len(steps'[x]) <= MaxSteps
    <3>1. CASE t.out.step = ""
      BY <1>1, <1>3, <3>1 DEF TypeOK
    <3>2. CASE t.out.step # ""
      <4>1. steps' \in [Run -> Seq(Step)]
        BY <1>3, <1>9, <1>10, <3>2
      <4>2. \A x \in Run : Len(steps'[x]) <= MaxSteps
        BY <1>1, <1>10, <1>11, <3>2 DEF TypeOK
      <4> QED
        BY <4>1, <4>2
    <3> QED
      BY <3>1, <3>2
  <2>2. \A x \in Run : Active(x)' => runs'[x].node \in Node
    BY <1>1, <1>8, <1>11 DEF TypeOK
  <2>3. txn' \in [Run -> OpenTxn \cup {Idle}] /\ waited' \in [Run -> 0 .. Delay]
    BY <1>1, <1>3, <1>4 DEF TypeOK
  <2>4. nudges' \subseteq Job
    BY <1>1, <1>4, <1>t DEF TypeOK, CommitAdvance
  <2>5. faults' \in 0 .. MaxFaults
    <3>1. faults \in 0 .. MaxFaults /\ MaxFaults \in Nat
          /\ (faults' = faults \/ (faults < MaxFaults /\ faults' = faults + 1))
      BY <1>1, Bounds DEF TypeOK, CommitAdvance
    <3> QED
      BY <3>1
  <2> QED
    BY <1>1, <1>2, <1>7, <2>1, <2>2, <2>3, <2>4, <2>5 DEF TypeOK
<1>13. FlowFits'
  BY <1>1, <1>2 DEF FlowFits
<1>14. RunsFit'
  <2> SUFFICES ASSUME NEW x \in Run
               PROVE  IF Present(x)'
                      THEN /\ flow.status \in {"live", "paused"}
                           /\ runs'[x].version \in 1 .. Len(versions) /\ runs'[x].version # flow.draft
                      ELSE Len(steps'[x]) = 0
    BY <1>2 DEF RunsFit
  <2>1. CASE x = r
    BY <1>1, <1>6, <1>8, <2>1 DEF RunsFit
  <2>2. CASE x # r
    BY <1>1, <1>11, <2>2 DEF RunsFit
  <2> QED
    BY <2>1, <2>2
<1>15. TxnsFit'
  <2> SUFFICES ASSUME NEW x \in Run, txn'[x].open PROVE Advances(x, txn[x])'
    BY DEF TxnsFit
  <2>1. x # r
    BY <1>1, <1>3 DEF TypeOK, Idle
  <2>2. Advances(x, txn[x]) /\ txn'[x] = txn[x]
    BY <1>1, <1>11, <2>1 DEF TxnsFit
  <2> QED
    BY <1>11, <2>1, <2>2 DEF Advances
<1>16. StepsFit'
  <2> SUFFICES ASSUME NEW x \in Run, Present(x)' PROVE Follows(x)'
    BY DEF StepsFit
  <2>1. CASE x # r
    <3>1. Follows(x)
      BY <1>1, <1>11, <2>1 DEF StepsFit
    <3> QED
      BY <1>11, <2>1, <3>1 DEF Follows
  <2>2. CASE x = r
    <3> DEFINE def == PinnedDefinition(r)
               len == Len(steps[r])
    <3>1. Follows(r)
      BY <1>1, <1>6 DEF StepsFit
    <3>2. CASE t.out.step = ""
      <4>1. ~Active(r)' /\ runs'[r].node = runs[r].node /\ steps' = steps
        BY <1>3, <1>5, <1>7, <1>8, <3>2 DEF Advances
      <4> QED
        BY <1>8, <2>2, <3>1, <4>1 DEF Follows
    <3>3. CASE t.out.step # ""
      <4>1. /\ steps'[r][len + 1] = step /\ Len(steps'[r]) = len + 1
            /\ step.node = runs[r].node /\ step = [node |-> runs[r].node, outcome |-> t.out.step]
            /\ \A i \in 1 .. len : steps'[r][i] = steps[r][i]
        BY <1>10, <1>s, <3>3
      <4>2. Active(r)' => runs'[r].node = LeadsTo(def, step)
        BY <1>5, <1>7, <1>8, <4>1 DEF Advances
      <4>3. steps'[r][1].node = EntryNodeId(def)
        <5>1. CASE len = 0
          BY <3>1, <4>1, <5>1 DEF Follows
        <5>2. CASE len # 0
          <6>1. 1 \in 1 .. len
            BY <1>9, <5>2
          <6> QED
            BY <3>1, <4>1, <5>2, <6>1 DEF Follows
        <5> QED
          BY <5>1, <5>2
      <4>4. ASSUME NEW i \in 1 .. len + 1, i < len + 1
            PROVE  steps'[r][i + 1].node = LeadsTo(def, steps'[r][i])
        <5>1. i \in 1 .. len /\ (i = len \/ (i < len /\ i + 1 \in 1 .. len))
          BY <1>9, <4>4
        <5>2. CASE i = len
          <6>1. len > 0
            BY <1>9, <5>1
          <6>2. runs[r].node = LeadsTo(def, steps[r][len])
            BY <1>6, <3>1, <6>1 DEF Follows
          <6> QED
            BY <4>1, <5>1, <5>2, <6>2
        <5>3. CASE i < len
          <6>1. steps[r][i + 1].node = LeadsTo(def, steps[r][i]) /\ i + 1 \in 1 .. len
            BY <1>9, <3>1, <5>1, <5>3 DEF Follows
          <6> QED
            BY <4>1, <5>1, <6>1
        <5> QED
          BY <5>1, <5>2, <5>3
      <4>5. len + 1 # 0
        BY <1>9
      <4> QED
        BY <1>8, <2>2, <4>1, <4>2, <4>3, <4>4, <4>5 DEF Follows
    <3> QED
      BY <3>2, <3>3
  <2> QED
    BY <2>1, <2>2
<1>17. MailsFit'
  <2> SUFFICES ASSUME NEW x \in Run, NEW n \in Node
               PROVE  /\ mails[x][n] <= 1
                      /\ Mailed(x, n)' => IF Present(x)'
                           THEN Walked(x, n)' \/ (n = runs'[x].node /\ PinnedDefinition(x)'.type[n] = "send")
                           ELSE flow.status = "deleted"
    BY <1>2 DEF MailsFit
  <2>1. (Mailed(x, n)' <=> Mailed(x, n)) /\ mails[x][n] <= 1
    BY <1>1, <1>2 DEF Mailed, MailsFit
  <2>2. CASE x # r
    <3>1. Walked(x, n)' <=> Walked(x, n)
      BY <1>11, <2>2 DEF Walked
    <3> QED
      BY <1>1, <1>11, <2>1, <2>2, <3>1 DEF MailsFit
  <2>3. CASE x = r
    <3> SUFFICES ASSUME Mailed(r, n)
                 PROVE  Walked(r, n)' \/ (n = runs'[r].node /\ PinnedDefinition(r).type[n] = "send")
      BY <1>8, <2>1, <2>3
    <3>1. Walked(r, n) \/ (n = runs[r].node /\ PinnedDefinition(r).type[n] = "send")
      BY <1>1, <1>6 DEF MailsFit
    <3>2. CASE Walked(r, n)
      <4>1. PICK i \in 1 .. Len(steps[r]) : steps[r][i] = [node |-> n, outcome |-> "enqueued"]
        BY <3>2 DEF Walked
      <4>2. i \in 1 .. Len(steps'[r]) /\ steps'[r][i] = steps[r][i]
        <5>1. CASE t.out.step = ""
          BY <1>3, <4>1, <5>1
        <5>2. CASE t.out.step # ""
          <6>1. Len(steps'[r]) = Len(steps[r]) + 1 /\ steps'[r][i] = steps[r][i]
            BY <1>10, <4>1, <5>2
          <6>2. i \in 1 .. Len(steps[r]) + 1
            BY <1>9
          <6> QED
            BY <6>1, <6>2
        <5> QED
          BY <5>1, <5>2
      <4> QED
        BY <4>1, <4>2 DEF Walked
    <3>3. CASE n = runs[r].node /\ PinnedDefinition(r).type[n] = "send"
      <4>1. CASE t.out.row.node = runs[r].node
        BY <1>7, <3>3, <4>1
      <4>2. CASE t.out.step = "enqueued"
        <5>1. steps'[r][Len(steps[r]) + 1] = [node |-> n, outcome |-> "enqueued"]
          BY <1>10, <1>s, <3>3, <4>2
        <5>2. Len(steps[r]) + 1 \in 1 .. Len(steps'[r])
          BY <1>9, <1>10, <4>2
        <5> QED
          BY <5>1, <5>2 DEF Walked
      <4> QED
        BY <1>5, <3>3, <4>1, <4>2 DEF Advances
    <3> QED
      BY <3>1, <3>2, <3>3
  <2> QED
    BY <2>2, <2>3
<1>18. DelaysFit'
  <2> SUFFICES ASSUME NEW x \in Run, Active(x)', Len(steps'[x]) > 0,
                      steps'[x][Len(steps'[x])].outcome = "waiting"
               PROVE  runs'[x].wake + waited'[x] >= Delay
    BY DEF DelaysFit
  <2>1. CASE x # r
    BY <1>1, <1>11, <2>1 DEF DelaysFit
  <2>2. CASE x = r
    <3>1. t.out.row.status = "waiting" /\ t.out.step # ""
      BY <1>5, <1>8, <2>2 DEF Advances
    <3>2. t.out.step = "waiting"
      BY <1>10, <2>2, <3>1
    <3>3. t.out.row.wake + t.age >= Delay
      BY <1>5, <3>1, <3>2 DEF Advances
    <3>4. runs'[r].wake = t.out.row.wake /\ waited'[r] = t.age
      BY <1>1, <1>3, <1>7 DEF TypeOK
    <3> QED
      BY <2>2, <3>3, <3>4
  <2> QED
    BY <2>1, <2>2
<1> QED
  BY <1>12, <1>13, <1>14, <1>15, <1>16, <1>17, <1>18 DEF FlowInv

-----------------------------------------------------------------------------
(* The invariant and what follows from it                                  *)

LEMMA FlowInvInit == Init => FlowInv
<1> SUFFICES ASSUME Init PROVE FlowInv
  OBVIOUS
<1>1. /\ flow = [status |-> "draft", live |-> 0, draft |-> 1, quiet |-> FALSE, exitIn |-> FALSE]
      /\ versions = <<EmptyDefinition>>
      /\ runs = [r \in Run |-> Absent] /\ steps = [r \in Run |-> <<>>]
      /\ txn = [r \in Run |-> Idle] /\ nudges = {} /\ mailJobs = {}
      /\ mails = [r \in Run |-> [n \in Node |-> 0]]
      /\ inSegment = FALSE /\ waited = [r \in Run |-> 0] /\ now = 0 /\ calls = 0 /\ faults = 0
  BY DEF Init
<1>2. \A r \in Run : /\ runs[r].status = "absent" /\ ~Present(r) /\ ~Active(r)
                     /\ steps[r] = <<>> /\ Len(steps[r]) = 0 /\ ~txn[r].open
                     /\ \A n \in Node : mails[r][n] = 0
  BY <1>1 DEF Absent, Present, Active, Idle
<1>3. TypeOK
  <2>1. 0 \in 0 .. MaxVersions /\ 1 \in 0 .. MaxVersions /\ 1 <= MaxVersions /\ 0 \in 0 .. Delay + DayTicks
        /\ 0 \in 0 .. Delay /\ 0 \in 0 .. DayTicks - 1 /\ 0 \in 0 .. MaxCalls /\ 0 \in 0 .. MaxFaults
        /\ 0 <= MaxSteps
    BY Bounds
  <2>2. flow \in Flow
    BY <1>1, <2>1 DEF Flow
  <2>3. versions \in Seq(Definition) /\ Len(versions) = 1
    BY <1>1, EmptyIsDefinition
  <2>4. Absent \in RunRow
    BY <2>1 DEF Absent, RunRow, RunStatus, Reasons
  <2>5. runs \in [Run -> RunRow]
    BY <1>1, <2>4
  <2>6. steps \in [Run -> Seq(Step)]
    BY <1>1
  <2>7. mails \in [Run -> [Node -> Nat]]
    BY <1>1
  <2>8. waited \in [Run -> 0 .. Delay]
    BY <1>1, <2>1
  <2> QED
    BY <1>1, <1>2, <2>1, <2>2, <2>3, <2>5, <2>6, <2>7, <2>8 DEF TypeOK
<1>4. FlowFits
  <2>1. Len(versions) = 1
    BY <1>1
  <2> QED
    BY <1>1, <2>1 DEF FlowFits
<1>5. RunsFit /\ TxnsFit /\ StepsFit /\ DelaysFit
  BY <1>2 DEF RunsFit, TxnsFit, StepsFit, DelaysFit
<1>6. MailsFit
  BY <1>1, <1>2 DEF MailsFit, Mailed
<1> QED
  BY <1>3, <1>4, <1>5, <1>6 DEF FlowInv

LEMMA FlowInvStep == FlowInv /\ [Next]_vars => FlowInv'
<1> SUFFICES ASSUME FlowInv, [Next]_vars PROVE FlowInv'
  OBVIOUS
<1>1. ASSUME NEW r \in Run, EnterFlow(r) PROVE FlowInv'
  BY <1>1, EnterFlowStep
<1>2. ASSUME NEW r \in Run, CommitAdvance(r) PROVE FlowInv'
  BY <1>2, CommitAdvanceStep
<1>3. ASSUME NEW r \in Run, RollbackAdvance(r) PROVE FlowInv'
  BY <1>3, RollbackStep
<1>4. ASSUME NEW r \in Run, EjectRun(r) PROVE FlowInv'
  BY <1>4, EjectRunStep
<1>5. ASSUME NEW j \in nudges, BeginAdvance(j) PROVE FlowInv'
  BY <1>5, BeginAdvanceStep
<1>6. ASSUME NEW r \in Run, NEW n \in Node, DeliverMail(r, n) PROVE FlowInv'
  BY <1>6, DeliverMailStep
<1>7. CASE \/ \E j \in nudges : StaleNudge(j) \/ LoseNudge(j)
           \/ \E r \in Run : Reconcile(r)
           \/ ContactChanges \/ UNCHANGED vars
  BY <1>7, QueueSteps
<1>8. CASE \/ \E def \in Definitions, quiet, exitIn \in BOOLEAN : UpdateFlowDraft(def, quiet, exitIn)
           \/ PublishFlow \/ PauseFlow \/ ResumeFlow
  BY <1>8, FlowSteps
<1>9. CASE DeleteFlow
  BY <1>9, DeleteFlowStep
<1>10. CASE Tick
  BY <1>10, TickStep
<1> QED
  BY <1>1, <1>2, <1>3, <1>4, <1>5, <1>6, <1>7, <1>8, <1>9, <1>10 DEF Next

LEMMA FlowInvariant == Spec => []FlowInv
<1> QED
  BY FlowInvInit, FlowInvStep, PTL DEF Spec

\* Every row, step, job and open transaction stays in its type, the walk within
\* its budget of steps and the clock within its day.
THEOREM TypeCorrect == Spec => []TypeOK
<1>1. FlowInv => TypeOK
  BY DEF FlowInv
<1> QED
  BY <1>1, FlowInvariant, PTL

\* The steps of a run are one walk through the version it entered, however the
\* flow is edited, published and paused meanwhile and whatever becomes of the
\* nudges (processFlowRunAdvance under the lock of the run's row).
THEOREM StepsFollowVersionTheorem == Spec => []StepsFollowVersion
<1>1. FlowInv => StepsFollowVersion
  <2> SUFFICES ASSUME FlowInv, NEW r \in Run, Present(r)
               PROVE  LET def  == versions[runs[r].version]
                          walk == [i \in 1 .. Len(steps[r]) + 1 |->
                                     IF i <= Len(steps[r]) THEN steps[r][i].node ELSE runs[r].node]
                      IN  /\ walk[1] = EntryNodeId(def)
                          /\ \A i \in DOMAIN steps[r] :
                               i < Len(steps[r]) \/ Active(r) => walk[i + 1] = LeadsTo(def, steps[r][i])
    BY DEF StepsFollowVersion, Present
  <2> DEFINE def  == versions[runs[r].version]
             len  == Len(steps[r])
             walk == [i \in 1 .. len + 1 |-> IF i <= len THEN steps[r][i].node ELSE runs[r].node]
  <2>1. steps[r] \in Seq(Step) /\ len \in Nat /\ DOMAIN steps[r] = 1 .. len
    BY LenProperties DEF FlowInv, TypeOK
  <2>2. Follows(r) /\ def = PinnedDefinition(r)
    BY DEF FlowInv, StepsFit, PinnedDefinition
  <2>3. walk[1] = EntryNodeId(def)
    <3>1. 1 \in 1 .. len + 1 /\ (1 <= len <=> len # 0)
      BY <2>1
    <3>2. walk[1] = IF 1 <= len THEN steps[r][1].node ELSE runs[r].node
      BY <3>1
    <3> HIDE DEF walk, def
    <3> QED
      BY <2>2, <3>1, <3>2 DEF Follows
  <2>4. ASSUME NEW i \in 1 .. len, i < len \/ Active(r)
        PROVE  walk[i + 1] = LeadsTo(def, steps[r][i])
    <3>1. i + 1 \in 1 .. len + 1 /\ (i + 1 <= len <=> i < len) /\ (~(i < len) => i = len /\ len > 0)
      BY <2>1
    <3>2. walk[i + 1] = IF i + 1 <= len THEN steps[r][i + 1].node ELSE runs[r].node
      BY <3>1
    <3> HIDE DEF walk, def
    <3>3. CASE i < len
      BY <2>2, <3>1, <3>2, <3>3 DEF Follows
    <3>4. CASE ~(i < len)
      BY <2>2, <2>4, <3>1, <3>2, <3>4 DEF Follows
    <3> QED
      BY <3>3, <3>4
  <2> QED
    BY <2>1, <2>3, <2>4
<1> QED
  BY <1>1, FlowInvariant, PTL

\* Every mail of a run is the only one of its node, and belongs to a step the
\* run took or to the node it stands at, however often its job is enqueued and
\* delivered (claimFlowSend, and the mail enqueued before the commit).
THEOREM NodeMailsOnceTheorem == Spec => []NodeMailsOnce
<1>1. FlowInv => NodeMailsOnce
  <2> SUFFICES ASSUME FlowInv, NEW r \in Run, NEW n \in Node, mails[r][n] > 0, Present(r)
               PROVE  /\ mails[r][n] = 1
                      /\ \/ n = runs[r].node
                         \/ \E i \in DOMAIN steps[r] : steps[r][i] = [node |-> n, outcome |-> "enqueued"]
    BY DEF NodeMailsOnce, Present
  <2>1. mails[r][n] \in Nat /\ mails[r][n] <= 1
    BY DEF FlowInv, TypeOK, MailsFit
  <2>2. mails[r][n] = 1
    BY <2>1
  <2>3. Walked(r, n) \/ n = runs[r].node
    BY DEF FlowInv, MailsFit, Mailed
  <2>4. DOMAIN steps[r] = 1 .. Len(steps[r])
    BY LenProperties DEF FlowInv, TypeOK
  <2> QED
    BY <2>2, <2>3, <2>4 DEF Walked
<1> QED
  BY <1>1, FlowInvariant, PTL

\* No advance begins before the delay that its run's last step began is over,
\* whatever nudges arrive, are lost or come twice (the wake time that
\* processFlowRunAdvance asks for, and waitMs of handleDelayNode).
THEOREM DelaysAreServedTheorem == Spec => DelaysAreServed
<1> DEFINE Served == \A r \in Run :
             /\ ~txn[r].open /\ txn'[r].open
             /\ steps[r] # <<>> /\ steps[r][Len(steps[r])].outcome = "waiting"
             => waited[r] >= Delay
<1>1. FlowInv /\ [Next]_vars => Served
  <2> SUFFICES ASSUME FlowInv, [Next]_vars, NEW r \in Run, ~txn[r].open, txn'[r].open,
                      steps[r] # <<>>, steps[r][Len(steps[r])].outcome = "waiting"
               PROVE  waited[r] >= Delay
    OBVIOUS
  <2>1. txn \in [Run -> OpenTxn \cup {Idle}] /\ steps[r] \in Seq(Step) /\ runs[r] \in RunRow
        /\ waited[r] \in 0 .. Delay
    BY DEF FlowInv, TypeOK
  <2>2. Woken(r)
    <3>1. CASE UNCHANGED txn
      BY <3>1
    <3>2. ASSUME NEW j \in nudges, BeginAdvance(j) PROVE Woken(r)
      <4>1. Woken(j.run) /\ \A x \in Run : x # j.run => txn'[x] = txn[x]
        BY <2>1, <3>2 DEF BeginAdvance
      <4> QED
        BY <4>1
    <3>3. ASSUME NEW x \in Run, CommitAdvance(x) \/ RollbackAdvance(x) PROVE FALSE
      <4>1. txn' = [txn EXCEPT ![x] = Idle]
        BY <3>3 DEF CommitAdvance, RollbackAdvance
      <4> QED
        BY <2>1, <4>1 DEF Idle
    <3>4. CASE Tick
      BY <3>4 DEF Tick, Idle
    <3> QED
      BY <3>1, <3>2, <3>3, <3>4
      DEF Next, vars, EnterFlow, Reconcile, EjectRun, StaleNudge, LoseNudge, DeliverMail, UpdateFlowDraft,
          PublishFlow, PauseFlow, ResumeFlow, DeleteFlow, ContactChanges
  <2>3. Active(r) /\ runs[r].wake = 0
    BY <2>2 DEF Woken
  <2>4. Len(steps[r]) > 0
    BY <2>1, EmptySeq, LenProperties
  <2>5. 0 + waited[r] >= Delay
    BY <2>3, <2>4 DEF FlowInv, DelaysFit
  <2>6. waited[r] \in Nat /\ Delay \in Nat
    BY <2>1, Bounds
  <2> QED
    BY <2>5, <2>6
<1>2. Spec => [][Served]_vars
  BY <1>1, FlowInvariant, PTL DEF Spec
<1> QED
  BY <1>2 DEF DelaysAreServed

-----------------------------------------------------------------------------
(* The budget of steps: what validation accepts has no cycle.              *)

\* The targets of the edges and their sources are node ids.
LEMMA EdgeNodes ==
    ASSUME NEW def \in Definition, NEW e \in EdgesOf(def)
    PROVE  e.source \in Node /\ e.target \in Node
<1>1. PICK i \in DOMAIN def.edges : e = def.edges[i]
  BY DEF EdgesOf
<1>2. def.edges[i] \in [source : Node, target : Node, handle : Handle]
  BY DefinitionParts, ElementOfSeq, LenProperties
<1>. QED  BY <1>1, <1>2

\* What a node leads to contains the node and is left by no edge.
LEMMA ReachableIsClosed ==
    ASSUME NEW def \in Definition, NEW n \in Node
    PROVE  /\ n \in CollectReachable(def, n)
           /\ CollectReachable(def, n) \subseteq Node
           /\ \A e \in EdgesOf(def) : e.source \in CollectReachable(def, n) => e.target \in CollectReachable(def, n)
  BY EdgeNodes DEF CollectReachable, Closure

\* It is the least such set.
LEMMA ReachableIsLeast ==
    ASSUME NEW def \in Definition, NEW n \in Node, NEW S \in SUBSET Node, n \in S,
           \A e \in EdgesOf(def) : e.source \in S => e.target \in S
    PROVE  CollectReachable(def, n) \subseteq S
  BY DEF CollectReachable, Closure

\* What is reached from a node that is reached is reached.
LEMMA ReachableIsTransitive ==
    ASSUME NEW def \in Definition, NEW m \in Node, NEW n \in CollectReachable(def, m)
    PROVE  CollectReachable(def, n) \subseteq CollectReachable(def, m)
  BY ReachableIsClosed, ReachableIsLeast

\* The first edge that fits is one of those that fit.
LEMMA FirstTargetEdge ==
    ASSUME NEW def \in Definition, NEW fits \in SUBSET DOMAIN def.edges, fits # {}
    PROVE  \E i \in fits : FirstTarget(def, fits) = def.edges[i].target
<1>1. fits \in SUBSET Nat
  BY DefinitionParts
<1>2. \E i \in fits : \A j \in fits : i <= j
  BY <1>1, LeastNat
<1>. QED  BY <1>2 DEF FirstTarget

\* A step that is not a deferral takes an edge of the definition, or is the last.
LEMMA StepTakesEdge ==
    ASSUME NEW def \in Definition, NEW step \in Step, step.outcome # "deferred_quiet_hours",
           LeadsTo(def, step) \in Node
    PROVE  \E e \in Outgoing(def, step.node) : e.target = LeadsTo(def, step)
<1>1. NoNode \notin Node
  BY Bounds
<1> DEFINE all == {i \in DOMAIN def.edges : def.edges[i].source = step.node}
           side(h) == {i \in DOMAIN def.edges : def.edges[i].source = step.node /\ def.edges[i].handle = h}
<1>2. \/ LeadsTo(def, step) = FirstTarget(def, all)
      \/ LeadsTo(def, step) = FirstTarget(def, side("yes"))
      \/ LeadsTo(def, step) = FirstTarget(def, side("no"))
  BY <1>1 DEF LeadsTo, ResolveNextNodeId, ResolveBranchNextNodeId
<1>3. PICK fits \in SUBSET all : LeadsTo(def, step) = FirstTarget(def, fits)
  BY <1>2
<1>4. fits # {}
  BY <1>1, <1>3 DEF FirstTarget
<1>5. PICK i \in fits : FirstTarget(def, fits) = def.edges[i].target
  BY <1>4, FirstTargetEdge
<1>6. def.edges[i] \in Outgoing(def, step.node)
  BY <1>5 DEF Outgoing, EdgesOf
<1>. QED  BY <1>3, <1>5, <1>6

\* A walk of steps along a definition.
IsWalk(def, walk) ==
    /\ walk \in Seq(Step)
    /\ Len(walk) > 0 => walk[1].node = EntryNodeId(def)
    /\ \A i \in 1 .. Len(walk) : i < Len(walk) => walk[i + 1].node = LeadsTo(def, walk[i])

\* Every place of a walk is reached from the earlier ones, and from the trigger.
LEMMA WalkReaches ==
    ASSUME NEW def \in Definition, NEW walk, IsWalk(def, walk),
           NEW i \in 1 .. Len(walk), NEW m \in Node, walk[i].node \in CollectReachable(def, m)
    PROVE  \A j \in i .. Len(walk) : walk[j].node \in CollectReachable(def, m)
<1>1. walk \in Seq(Step) /\ Len(walk) \in Nat /\ \A j \in 1 .. Len(walk) : walk[j] \in Step /\ walk[j].node \in Node
  <2>1. walk \in Seq(Step) /\ Len(walk) \in Nat
    BY LenProperties DEF IsWalk
  <2>2. \A j \in 1 .. Len(walk) : walk[j] \in Step
    BY <2>1, ElementOfSeq
  <2>. QED  BY <2>1, <2>2 DEF Step
<1> DEFINE bad == {j \in i .. Len(walk) : walk[j].node \notin CollectReachable(def, m)}
<1> SUFFICES ASSUME bad # {} PROVE FALSE
  OBVIOUS
<1>2. bad \in SUBSET Nat
  BY <1>1
<1>3. PICK j \in bad : \A k \in bad : j <= k
  BY <1>2, LeastNat
<1>4. j \in i .. Len(walk) /\ j # i /\ walk[j].node \notin CollectReachable(def, m)
  BY <1>3
<1>5. /\ j - 1 \in i .. Len(walk) /\ j - 1 \in 1 .. Len(walk) /\ j - 1 < Len(walk) /\ (j - 1) + 1 = j
      /\ j \in 1 .. Len(walk) /\ ~(j <= j - 1)
  BY <1>1, <1>4
<1>6. walk[j - 1].node \in CollectReachable(def, m)
  BY <1>3, <1>5
<1>7. walk[j].node = LeadsTo(def, walk[j - 1]) /\ walk[j].node \in Node
  BY <1>1, <1>5 DEF IsWalk
<1>8. CASE walk[j - 1].outcome = "deferred_quiet_hours"
  BY <1>4, <1>6, <1>7, <1>8 DEF LeadsTo
<1>9. CASE walk[j - 1].outcome # "deferred_quiet_hours"
  <2>1. PICK e \in Outgoing(def, walk[j - 1].node) : e.target = walk[j].node
    BY <1>1, <1>5, <1>7, <1>9, StepTakesEdge
  <2>2. e \in EdgesOf(def) /\ e.source = walk[j - 1].node
    BY DEF Outgoing
  <2>. QED  BY <1>4, <1>6, <2>1, <2>2, ReachableIsClosed
<1>. QED  BY <1>8, <1>9

\* The node after the trigger is reached from the trigger, of which there is one.
LEMMA EntryReached ==
    ASSUME NEW def \in Definition, Valid(def)
    PROVE  \E t \in Node : t \in TriggerNodes(def) /\ EntryNodeId(def) \in CollectReachable(def, t)
<1>1. TriggerNodes(def) # {}
  BY FS_EmptySet DEF Valid
<1> DEFINE t == CHOOSE n \in TriggerNodes(def) : TRUE
           fits == {i \in DOMAIN def.edges : def.edges[i].source = t}
<1>2. t \in TriggerNodes(def)
  BY <1>1
<1> HIDE DEF t
<1>3. t \in Node
  BY <1>2, DefinitionParts DEF TriggerNodes
<1>4. Outgoing(def, t) # {}
  BY <1>2 DEF Valid
<1>5. fits # {}
  BY <1>4 DEF Outgoing, EdgesOf
<1>6. PICK i \in fits : FirstTarget(def, fits) = def.edges[i].target
  BY <1>5, FirstTargetEdge
<1>7. EntryNodeId(def) = FirstTarget(def, fits)
  BY DEF EntryNodeId, ResolveNextNodeId, t
<1>8. def.edges[i] \in EdgesOf(def) /\ def.edges[i].source = t
  BY <1>6 DEF EdgesOf
<1>9. EntryNodeId(def) \in CollectReachable(def, t)
  BY <1>3, <1>6, <1>7, <1>8, ReachableIsClosed
<1>. QED  BY <1>2, <1>3, <1>9

\* A walk along a valid definition comes back to a node only by waiting there.
LEMMA NoCircle ==
    ASSUME NEW def \in Definition, Valid(def), NEW walk, IsWalk(def, walk),
           NEW i \in 1 .. Len(walk), NEW j \in 1 .. Len(walk), i < j, walk[i].node = walk[j].node,
           NEW k \in i .. j - 1
    PROVE  walk[k].outcome = "deferred_quiet_hours"
<1>1. walk \in Seq(Step) /\ Len(walk) \in Nat /\ \A x \in 1 .. Len(walk) : walk[x] \in Step /\ walk[x].node \in Node
  <2>1. walk \in Seq(Step) /\ Len(walk) \in Nat
    BY LenProperties DEF IsWalk
  <2>2. \A x \in 1 .. Len(walk) : walk[x] \in Step
    BY <2>1, ElementOfSeq
  <2>. QED  BY <2>1, <2>2 DEF Step
<1> SUFFICES ASSUME walk[k].outcome # "deferred_quiet_hours" PROVE FALSE
  OBVIOUS
<1>2. /\ k \in 1 .. Len(walk) /\ k < Len(walk) /\ k + 1 \in 1 .. Len(walk) /\ 1 \in 1 .. Len(walk)
      /\ k \in i .. Len(walk) /\ j \in (k + 1) .. Len(walk) /\ Len(walk) > 0
  <2>1. i \in Nat /\ j \in Nat /\ k \in Nat /\ 1 <= i /\ i <= k /\ k <= j - 1 /\ j <= Len(walk) /\ Len(walk) \in Nat
    BY <1>1
  <2>. QED  BY ONLY <2>1
<1>3. walk[k + 1].node = LeadsTo(def, walk[k]) /\ walk[k + 1].node \in Node
  BY <1>1, <1>2 DEF IsWalk
<1>4. PICK e \in Outgoing(def, walk[k].node) : e.target = walk[k + 1].node
  BY <1>1, <1>2, <1>3, StepTakesEdge
<1>5. walk[j].node \in CollectReachable(def, e.target)
  <2>1. walk[k + 1].node \in CollectReachable(def, walk[k + 1].node)
    BY <1>3, ReachableIsClosed
  <2>. QED  BY <1>2, <1>3, <1>4, <2>1, WalkReaches
<1>6. walk[k].node \in CollectReachable(def, walk[i].node)
  <2>1. walk[i].node \in CollectReachable(def, walk[i].node) /\ walk[i].node \in Node
    BY <1>1, ReachableIsClosed
  <2>. QED  BY <1>2, <2>1, WalkReaches
<1>7. walk[k].node \in CollectReachable(def, e.target)
  BY <1>3, <1>4, <1>5, <1>6, ReachableIsTransitive
<1>8. OnCycle(def, walk[k].node)
  BY <1>7 DEF OnCycle
<1>9. PICK t \in Node : t \in TriggerNodes(def) /\ EntryNodeId(def) \in CollectReachable(def, t)
  BY EntryReached
<1>10. walk[k].node \in CollectReachable(def, t)
  <2>1. walk[1].node \in CollectReachable(def, t)
    BY <1>2, <1>9 DEF IsWalk
  <2>2. k \in 1 .. Len(walk)
    BY <1>2
  <2>. QED  BY <1>2, <2>1, <2>2, WalkReaches
<1>11. CycleReachableFrom(def, t)
  BY <1>8, <1>10 DEF CycleReachableFrom
<1>. QED  BY <1>9, <1>11 DEF Valid

-----------------------------------------------------------------------------
\* A run is pinned to a version that validation accepted.
PinnedValid == \A r \in Run : Present(r) => Valid(PinnedDefinition(r))

\* A run the budget ended has used it up, and so has one that an open advance is
\* about to end that way.
Spent(r) ==
    /\ runs[r].reason = "step_budget_exceeded" => Len(steps[r]) >= MaxSteps
    /\ txn[r].open => (txn[r].out.row.reason = "step_budget_exceeded" => Len(steps[r]) >= MaxSteps)

BudgetSpent == \A r \in Run : Spent(r)

\* An advance that ends its run for its budget has found it used up.
LEMMA AdvanceReason ==
    ASSUME TypeOK, RunsFit, NEW r \in Run, Woken(r), Handled(r), Spent(r),
           Advance(r).row.reason = "step_budget_exceeded"
    PROVE  Len(steps[r]) >= MaxSteps
<1> SUFFICES ASSUME ~(Len(steps[r]) >= MaxSteps) PROVE FALSE
  OBVIOUS
<1> DEFINE def == PinnedDefinition(r)
           type == def.type[runs[r].node]
<1>1. runs[r] \in RunRow /\ runs[r].reason # "step_budget_exceeded"
  BY DEF TypeOK, Spent
<1>2. def \in Definition
  <2>1. runs[r].version \in 1 .. Len(versions)
    BY DEF Woken, RunsFit, Present, Active
  <2>. QED  BY <2>1, ElementOfSeq DEF TypeOK, PinnedDefinition
<1>3. \A next, wake : MovedTo(r, next, wake).reason # "step_budget_exceeded"
  BY <1>1 DEF MovedTo, Ended, RunRow
<1>4. \A w : [runs[r] EXCEPT !.wake = w].reason # "step_budget_exceeded"
  BY <1>1 DEF RunRow
<1>5. \A s : /\ Ended(r, s, "reached_exit").reason # "step_budget_exceeded"
             /\ Ended(r, s, "exit_condition").reason # "step_budget_exceeded"
  BY <1>1 DEF Ended, RunRow
<1>6. CASE ExitSatisfied
  <2>1. Advance(r).row = Ended(r, "exited", "exit_condition")
    BY <1>6 DEF Advance, Outcome
  <2>. QED  BY <1>5, <2>1
<1>7. CASE ~ExitSatisfied
  <2>1. Advance(r) = HandleNode(r, def)
    BY <1>7 DEF Advance
  <2>2. type \in {"send", "delay", "branch", "exit"}
    <3>1. runs[r].node \in Nodes(def) /\ type # "trigger"
      BY <1>7 DEF Handled
    <3>2. def.type[runs[r].node] \in NodeType
      BY <1>2, <3>1 DEF Definition, Nodes
    <3>. QED  BY <3>1, <3>2 DEF NodeType
  <2>3. SendNode(r, def).row.reason # "step_budget_exceeded"
    BY <1>3, <1>4 DEF SendNode, Outcome
  <2>4. DelayNode(r, def).row.reason # "step_budget_exceeded"
    BY <1>3 DEF DelayNode, Outcome
  <2>5. BranchNode(r, def).row.reason # "step_budget_exceeded"
    BY <1>3 DEF BranchNode, Outcome
  <2>6. Outcome(Ended(r, "completed", "reached_exit"), "completed", {}, {}).row.reason # "step_budget_exceeded"
    BY <1>5 DEF Outcome
  <2>. QED  BY <2>1, <2>2, <2>3, <2>4, <2>5, <2>6 DEF HandleNode
<1>. QED  BY <1>6, <1>7

\* A run keeps its version and the version its content, or it has just entered
\* the live one.
LEMMA VersionKept ==
    ASSUME FlowInv, [Next]_vars, NEW r \in Run, Present(r)'
    PROVE  \/ /\ Present(r) /\ runs'[r].version = runs[r].version
              /\ versions'[runs[r].version] = versions[runs[r].version]
           \/ flow.live # 0 /\ runs'[r].version = flow.live /\ versions' = versions
<1>1. /\ runs \in [Run -> RunRow] /\ versions \in Seq(Definition) /\ RunsFit /\ TxnsFit /\ FlowFits
  BY DEF FlowInv, TypeOK
<1>2. CASE UNCHANGED <<runs, versions>>
  BY <1>2 DEF Present
<1>3. ASSUME NEW x \in Run, EnterFlow(x)
      PROVE  \/ UNCHANGED <<runs[r], versions>>
             \/ flow.live # 0 /\ runs'[r].version = flow.live /\ versions' = versions
  BY <1>1, <1>3 DEF EnterFlow, FlowFits
<1>4. ASSUME NEW x \in Run, CommitAdvance(x)
      PROVE  versions' = versions /\ (UNCHANGED runs[r] \/ (Present(r) /\ runs'[r].version = runs[r].version))
  <2>1. versions' = versions /\ runs' = [runs EXCEPT ![x] = txn[x].out.row] /\ txn[x].open
    BY <1>4 DEF CommitAdvance
  <2>2. Active(x) /\ txn[x].out.row.version = runs[x].version
    BY <1>1, <2>1 DEF TxnsFit, Advances
  <2>. QED  BY <1>1, <2>1, <2>2 DEF Active, Present
<1>5. ASSUME NEW x \in Run, EjectRun(x)
      PROVE  versions' = versions /\ (UNCHANGED runs[r] \/ (Present(r) /\ runs'[r].version = runs[r].version))
  <2>1. versions' = versions /\ runs' = [runs EXCEPT ![x] = Ended(x, "ejected", "ejected")] /\ Active(x)
    BY <1>5 DEF EjectRun, Ejectable
  <2>2. Ended(x, "ejected", "ejected").version = runs[x].version
    BY <1>1 DEF Ended, RunRow
  <2>. QED  BY <1>1, <2>1, <2>2 DEF Active, Present
<1>6. ASSUME NEW def \in Definitions, NEW quiet \in BOOLEAN, NEW exitIn \in BOOLEAN,
             UpdateFlowDraft(def, quiet, exitIn)
      PROVE  Present(r) /\ UNCHANGED runs[r] /\ versions'[runs[r].version] = versions[runs[r].version]
  <2>1. runs' = runs /\ Present(r)
    BY <1>6 DEF UpdateFlowDraft, Present
  <2>2. runs[r].version \in 1 .. Len(versions) /\ runs[r].version # flow.draft
    BY <1>1, <2>1 DEF RunsFit
  <2>3. CASE flow.draft # 0
    <3>1. versions' = [versions EXCEPT ![flow.draft] = def]
      BY <1>6, <2>3 DEF UpdateFlowDraft
    <3>. QED  BY <1>1, <2>1, <2>2, <3>1, LenProperties
  <2>4. CASE flow.draft = 0
    <3>1. versions' = Append(versions, def)
      BY <1>6, <2>4 DEF UpdateFlowDraft
    <3>. QED  BY <1>1, <2>1, <2>2, <3>1, AppendProperties
  <2>. QED  BY <2>3, <2>4
<1>7. CASE DeleteFlow
  <2>1. runs'[r].status = "absent"
    BY <1>7 DEF DeleteFlow, Absent
  <2>. QED  BY <2>1 DEF Present
<1>8. CASE Tick
  <2>1. runs'[r] = Later(runs[r]) /\ versions' = versions
    BY <1>8 DEF Tick
  <2>2. runs'[r].version = runs[r].version /\ runs'[r].status = runs[r].status
    BY <1>1, <2>1 DEF Later, RunRow
  <2>. QED  BY <2>1, <2>2 DEF Present
<1>9. \/ \E x \in Run : EnterFlow(x) \/ CommitAdvance(x) \/ EjectRun(x)
      \/ \E def \in Definitions, quiet, exitIn \in BOOLEAN : UpdateFlowDraft(def, quiet, exitIn)
      \/ DeleteFlow \/ Tick \/ UNCHANGED <<runs, versions>>
  BY DEF Next, vars, RollbackAdvance, Reconcile, BeginAdvance, StaleNudge, LoseNudge, DeliverMail,
         PublishFlow, PauseFlow, ResumeFlow, ContactChanges
<1>. QED  BY <1>2, <1>3, <1>4, <1>5, <1>6, <1>7, <1>8, <1>9 DEF Present

\* So it stays pinned to a version that was accepted.
LEMMA PinnedValidStep ==
    ASSUME FlowInv, PinnedValid, [Next]_vars
    PROVE  PinnedValid'
<1> SUFFICES ASSUME NEW r \in Run, Present(r)' PROVE Valid(versions'[runs'[r].version])
  BY DEF PinnedValid, PinnedDefinition
<1>1. CASE /\ Present(r) /\ runs'[r].version = runs[r].version
           /\ versions'[runs[r].version] = versions[runs[r].version]
  BY <1>1 DEF PinnedValid, PinnedDefinition
<1>2. CASE flow.live # 0 /\ runs'[r].version = flow.live /\ versions' = versions
  BY <1>2 DEF FlowInv, FlowFits
<1>. QED  BY <1>1, <1>2, VersionKept

\* No run is ended by its budget before it has used it up.
LEMMA BudgetSpentStep ==
    ASSUME FlowInv, BudgetSpent, [Next]_vars
    PROVE  BudgetSpent'
<1> SUFFICES ASSUME NEW r \in Run PROVE Spent(r)'
  BY DEF BudgetSpent
<1>0. Spent(r)
  BY DEF BudgetSpent
<1>1. /\ runs \in [Run -> RunRow] /\ steps \in [Run -> Seq(Step)] /\ txn \in [Run -> OpenTxn \cup {Idle}]
      /\ TypeOK /\ RunsFit /\ TxnsFit /\ Len(steps[r]) \in Nat /\ MaxSteps \in Nat /\ ~Idle.open
  BY Bounds, LenProperties DEF FlowInv, TypeOK, Idle
<1>2. CASE UNCHANGED <<runs, steps, txn>>
  BY <1>0, <1>2 DEF Spent
<1>3. ASSUME NEW x \in Run, EnterFlow(x) PROVE Spent(r)'
  <2>1. runs'[r] = runs[r] \/ runs'[r].reason = ""
    BY <1>1, <1>3 DEF EnterFlow
  <2>. QED  BY <1>0, <1>3, <2>1 DEF Spent, EnterFlow
<1>4. ASSUME NEW x \in Run, EjectRun(x) PROVE Spent(r)'
  <2>1. runs'[r] = runs[r] \/ runs'[r].reason = "ejected"
    BY <1>1, <1>4 DEF EjectRun, Ended, RunRow
  <2>. QED  BY <1>0, <1>4, <2>1 DEF Spent, EjectRun
<1>5. ASSUME NEW x \in Run, RollbackAdvance(x) PROVE Spent(r)'
  <2>1. txn'[r] = txn[r] \/ ~txn'[r].open
    BY <1>1, <1>5 DEF RollbackAdvance
  <2>. QED  BY <1>0, <1>5, <2>1 DEF Spent, RollbackAdvance
<1>6. ASSUME NEW x \in Run, CommitAdvance(x) PROVE Spent(r)'
  <2>0. txn[x].open /\ runs' = [runs EXCEPT ![x] = txn[x].out.row] /\ txn' = [txn EXCEPT ![x] = Idle]
    BY <1>6 DEF CommitAdvance
  <2>1. CASE x # r
    <3>1. runs'[r] = runs[r] /\ txn'[r] = txn[r] /\ steps'[r] = steps[r]
      BY <1>1, <1>6, <2>0, <2>1 DEF CommitAdvance
    <3>. QED  BY <1>0, <3>1 DEF Spent
  <2>2. CASE x = r
    <3>1. runs'[r] = txn[r].out.row /\ ~txn'[r].open
      BY <1>1, <2>0, <2>2
    <3>2. txn[r] \in OpenTxn /\ txn[r].out.step \in Outcomes \cup {""}
      BY <1>1, <2>0, <2>2 DEF OpenTxn, Advanced
    <3>3. CASE txn[r].out.step = ""
      BY <1>0, <1>6, <2>0, <2>2, <3>1, <3>3 DEF Spent, CommitAdvance
    <3>4. CASE txn[r].out.step # ""
      <4>1. Len(steps[r]) < MaxSteps
        BY <1>1, <2>0, <2>2, <3>4 DEF TxnsFit, Advances
      <4>2. txn[r].out.row.reason # "step_budget_exceeded"
        BY <1>0, <1>1, <2>0, <2>2, <4>1 DEF Spent
      <4>. QED  BY <3>1, <4>2 DEF Spent
    <3>. QED  BY <3>3, <3>4
  <2>. QED  BY <2>1, <2>2
<1>7. ASSUME NEW j \in nudges, BeginAdvance(j) PROVE Spent(r)'
  <2> DEFINE out == Advance(j.run)
             t == [open |-> TRUE, job |-> j, out |-> out, age |-> 0]
  <2>1. txn' = [txn EXCEPT ![j.run] = t] /\ UNCHANGED <<runs, steps>> /\ Woken(j.run) /\ Handled(j.run)
    BY <1>7 DEF BeginAdvance
  <2>2. t.out = out
    OBVIOUS
  <2> HIDE DEF out, t
  <2>3. CASE j.run # r
    <3>1. txn'[r] = txn[r]
      BY <1>1, <2>1, <2>3
    <3>. QED  BY <1>0, <2>1, <3>1 DEF Spent
  <2>4. CASE j.run = r
    <3>1. txn'[r] = t
      BY <1>1, <2>1, <2>4
    <3>2. out.row.reason = "step_budget_exceeded" => Len(steps[r]) >= MaxSteps
      BY <1>0, <1>1, <2>1, <2>4, AdvanceReason DEF out
    <3>. QED  BY <1>0, <2>1, <2>2, <3>1, <3>2 DEF Spent
  <2>. QED  BY <2>3, <2>4
<1>8. CASE DeleteFlow
  <2>1. runs'[r] = Absent /\ txn' = txn /\ ~txn[r].open
    BY <1>1, <1>8 DEF DeleteFlow, RunsFit, TxnsFit, Advances, Active, Present, FlowInv, FlowFits
  <2>2. Absent.reason # "step_budget_exceeded"
    BY DEF Absent
  <2>. QED  BY <2>1, <2>2 DEF Spent
<1>9. CASE Tick
  <2>1. runs'[r] = Later(runs[r]) /\ steps' = steps
        /\ txn'[r] = IF txn[r].open THEN [txn[r] EXCEPT !.age = More(@), !.out.row = Later(@)] ELSE Idle
    BY <1>9 DEF Tick
  <2>2. runs'[r].reason = runs[r].reason
    BY <1>1, <2>1 DEF Later, RunRow
  <2>3. CASE ~txn[r].open
    BY <1>0, <1>1, <2>1, <2>2, <2>3 DEF Spent
  <2>4. CASE txn[r].open
    <3>1. txn[r] \in OpenTxn
      BY <1>1, <2>4
    <3>2. PICK t : t = txn[r]
      OBVIOUS
    <3>3. t \in OpenTxn /\ t.out \in Advanced /\ t.out.row \in RunRow
      BY <3>1, <3>2 DEF OpenTxn, Advanced
    <3>4. PICK row : row = Later(t.out.row)
      OBVIOUS
    <3>5. row.reason = t.out.row.reason
      BY <3>3, <3>4 DEF Later, RunRow
    <3>6. PICK age : age = More(t.age)
      OBVIOUS
    <3>7. txn'[r] = [t EXCEPT !.age = age, !.out.row = row]
      BY <2>1, <2>4, <3>2, <3>4, <3>6
    <3>8. txn'[r].out.row = row
      <4>1. PICK out : out = [t.out EXCEPT !.row = row]
        OBVIOUS
      <4>2. out.row = row
        BY <3>3, <4>1 DEF Advanced
      <4>3. txn'[r] = [t EXCEPT !.age = age, !.out = out]
        BY <3>7, <4>1
      <4>. QED  BY <3>3, <4>2, <4>3 DEF OpenTxn
    <3>. QED  BY <1>0, <2>1, <2>2, <2>4, <3>2, <3>5, <3>8 DEF Spent
  <2>. QED  BY <2>3, <2>4
<1>10. \/ \E x \in Run : EnterFlow(x) \/ CommitAdvance(x) \/ EjectRun(x) \/ RollbackAdvance(x)
       \/ \E j \in nudges : BeginAdvance(j)
       \/ DeleteFlow \/ Tick \/ UNCHANGED <<runs, steps, txn>>
  BY DEF Next, vars, Reconcile, StaleNudge, LoseNudge, DeliverMail, UpdateFlowDraft,
         PublishFlow, PauseFlow, ResumeFlow, ContactChanges
<1>. QED  BY <1>2, <1>3, <1>4, <1>5, <1>6, <1>7, <1>8, <1>9, <1>10

\* The walks of the runs, in every reachable state.
LEMMA WalkInvariant == Spec => [](FlowInv /\ PinnedValid /\ BudgetSpent)
<1>1. Init => PinnedValid /\ BudgetSpent
  <2> SUFFICES ASSUME Init, NEW r \in Run PROVE ~Present(r) /\ Spent(r)
    BY DEF PinnedValid, BudgetSpent
  <2>1. runs[r] = Absent /\ txn[r] = Idle
    BY DEF Init
  <2>2. Absent.status = "absent" /\ Absent.reason # "step_budget_exceeded" /\ ~Idle.open
    BY DEF Absent, Idle
  <2>. QED  BY <2>1, <2>2 DEF Present, Spent
<1>2. FlowInv /\ (PinnedValid /\ BudgetSpent) /\ [Next]_vars => (PinnedValid /\ BudgetSpent)'
  BY PinnedValidStep, BudgetSpentStep
<1>. QED  BY <1>1, <1>2, FlowInvariant, PTL DEF Spec

\* The steps of a run are a walk along a valid definition.
LEMMA StepsAreWalks ==
    ASSUME FlowInv, PinnedValid, NEW r \in Run, Present(r)
    PROVE  /\ PinnedDefinition(r) \in Definition /\ Valid(PinnedDefinition(r))
           /\ IsWalk(PinnedDefinition(r), steps[r])
<1>1. steps[r] \in Seq(Step) /\ Follows(r) /\ runs[r].version \in 1 .. Len(versions) /\ versions \in Seq(Definition)
  BY DEF FlowInv, TypeOK, StepsFit, RunsFit
<1>2. PinnedDefinition(r) \in Definition
  BY <1>1, ElementOfSeq DEF PinnedDefinition
<1>3. IsWalk(PinnedDefinition(r), steps[r])
  <2>1. Len(steps[r]) > 0 => Len(steps[r]) # 0
    OBVIOUS
  <2>. QED  BY <1>1, <2>1 DEF Follows, IsWalk
<1>. QED  BY <1>2, <1>3 DEF PinnedValid

\* A run comes back to a node only by waiting there for the end of the quiet
\* hours: what validateFlowDefinition accepts has no cycle a run could enter,
\* whatever is edited and published while it walks.
THEOREM WalksInNoCircleTheorem == Spec => []WalksInNoCircle
<1>1. FlowInv /\ PinnedValid => WalksInNoCircle
  <2> SUFFICES ASSUME FlowInv, PinnedValid, NEW r \in Run, NEW i \in DOMAIN steps[r], NEW j \in DOMAIN steps[r],
                      i < j, steps[r][i].node = steps[r][j].node, NEW k \in i .. j - 1
               PROVE  steps[r][k].outcome = "deferred_quiet_hours"
    BY DEF WalksInNoCircle
  <2>1. steps[r] \in Seq(Step) /\ DOMAIN steps[r] = 1 .. Len(steps[r]) /\ Len(steps[r]) \in Nat
    BY LenProperties DEF FlowInv, TypeOK
  <2>2. Len(steps[r]) # 0
    BY <2>1
  <2>3. Present(r)
    BY <2>2 DEF FlowInv, RunsFit
  <2>. QED  BY <2>1, <2>3, StepsAreWalks, NoCircle
<1>. QED  BY <1>1, WalkInvariant, PTL

\* The places of a run's walk where it put off a mail.
Deferrals(r) == {i \in 1 .. Len(steps[r]) : steps[r][i].outcome = "deferred_quiet_hours"}

\* A run that its step budget ended had put off mails to the end of the quiet hours
\* again and again: all but one step per node of its MAX_STEPS_PER_RUN.
BudgetGoesIntoDeferrals ==
    \A r \in Run : runs[r].reason = "step_budget_exceeded" =>
        MaxSteps <= Cardinality(Node) + Cardinality(Deferrals(r))

\* So the budget protects from nothing but endless deferral (processFlowRunAdvance).
THEOREM BudgetTheorem == Spec => []BudgetGoesIntoDeferrals
<1>1. FlowInv /\ PinnedValid /\ BudgetSpent => BudgetGoesIntoDeferrals
  <2> SUFFICES ASSUME FlowInv, PinnedValid, BudgetSpent, NEW r \in Run, runs[r].reason = "step_budget_exceeded"
               PROVE  MaxSteps <= Cardinality(Node) + Cardinality(Deferrals(r))
    BY DEF BudgetGoesIntoDeferrals
  <2> DEFINE len == Len(steps[r])
             moves == (1 .. len) \ Deferrals(r)
             nodeOf == [i \in moves |-> steps[r][i].node]
  <2>1. steps[r] \in Seq(Step) /\ len \in Nat /\ MaxSteps \in Nat /\ len >= MaxSteps
    BY Bounds, LenProperties DEF FlowInv, TypeOK, BudgetSpent, Spent
  <2>2. \A i \in 1 .. len : steps[r][i] \in Step /\ steps[r][i].node \in Node
    <3>1. \A i \in 1 .. len : steps[r][i] \in Step
      BY <2>1, ElementOfSeq
    <3>. QED  BY <3>1 DEF Step
  <2>3. IsFiniteSet(1 .. len) /\ Cardinality(1 .. len) = len
    <3>1. 1 \in Int /\ len \in Int /\ (IF 1 > len THEN 0 ELSE len - 1 + 1) = len
      BY <2>1
    <3> HIDE DEF len
    <3>. QED  BY <3>1, FS_Interval
  <2>4. /\ IsFiniteSet(Deferrals(r)) /\ IsFiniteSet(moves)
        /\ Cardinality(Deferrals(r)) \in Nat /\ Cardinality(moves) \in Nat
    BY <2>3, FS_Subset, FS_CardinalityType DEF Deferrals
  <2>5. Cardinality(moves) = len - Cardinality(Deferrals(r))
    <3>1. (1 .. len) \cap Deferrals(r) = Deferrals(r)
      BY DEF Deferrals
    <3>2. Cardinality(moves) = Cardinality(1 .. len) - Cardinality((1 .. len) \cap Deferrals(r))
      BY <2>3, FS_Difference
    <3>. QED  BY <2>3, <3>1, <3>2
  <2>6. IsFiniteSet(Node) /\ Cardinality(Node) \in Nat
    BY FlowRunsAssumption, FS_CardinalityType DEF FlowRunsAssumption
  <2>7. \A i, j \in moves : i < j => steps[r][i].node # steps[r][j].node
    <3> SUFFICES ASSUME NEW i \in moves, NEW j \in moves, i < j, steps[r][i].node = steps[r][j].node PROVE FALSE
      OBVIOUS
    <3>1. len # 0 /\ i \in 1 .. len /\ j \in 1 .. len /\ i \in i .. j - 1
      BY <2>1
    <3>2. Present(r)
      BY <3>1 DEF FlowInv, RunsFit
    <3>3. steps[r][i].outcome = "deferred_quiet_hours"
      BY <3>1, <3>2, StepsAreWalks, NoCircle
    <3>. QED  BY <3>1, <3>3 DEF Deferrals
  <2>8. nodeOf \in Injection(moves, Node)
    <3>1. nodeOf \in [moves -> Node]
      BY <2>2
    <3>2. \A i, j \in moves : nodeOf[i] = nodeOf[j] => i = j
      <4>1. \A i, j \in moves : i = j \/ i < j \/ j < i
        BY <2>1
      <4>. QED  BY <2>7, <4>1
    <3> HIDE DEF nodeOf, moves
    <3>. QED  BY <3>1, <3>2 DEF Injection, IsInjective
  <2>9. Cardinality(moves) <= Cardinality(Node)
    <3> HIDE DEF moves, nodeOf
    <3>. QED  BY <2>6, <2>8, FS_Injection
  <2>. QED  BY <2>1, <2>4, <2>5, <2>6, <2>9
<1>. QED  BY <1>1, WalkInvariant, PTL
=============================================================================

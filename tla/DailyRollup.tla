---------------------------- MODULE DailyRollup -----------------------------
(***************************************************************************)
(* The two writers of workspace_daily_rollup: the transactions that apply  *)
(* provider events and unsubscribe clicks, which add one to a day, and the *)
(* analytics reconciliation, which overwrites whole days with a recount of *)
(* the sends and clears the marks of the late days it verified.            *)
(*                                                                         *)
(* An event's transaction is one action at its commit.  The reconciliation *)
(* counts a day from a statement snapshot and overwrites it once it has    *)
(* the lock of the rollup row, which it then holds to its end.             *)
(***************************************************************************)
EXTENDS SendFacts

CONSTANTS
    Events,             \* what the provider reports, each event once
    WindowDays,         \* RECONCILE_WINDOW_DAYS
    DirtyPageLimit,     \* DIRTY_DAY_SWEEP_PAGE_LIMIT
    MaxSetbacks         \* bound: sweeps that roll back

\* An event is of a send of this workspace, and its timestamp is usable.
ASSUME DailyRollupAssumption ==
    /\ \A e \in Events : e.send \in Send /\ e.at \in Day
    /\ {WindowDays, DirtyPageLimit, MaxSetbacks} \subseteq Nat

VARIABLES
    facts,      \* the rows of SendFacts
    applied,    \* events and clicks whose transaction has committed
    recount,    \* the reconciliation's transaction
    date,
    live,       \* the workspace is not deleted
    setbacks

rollupVars == <<facts, applied, recount, date, live, setbacks>>

Zero == [m \in Metric |-> 0]
Idle == [phase |-> "idle", days |-> {}, locked |-> {}, day |-> Null,
         counted |-> Zero, writes |-> [d \in Day |-> Zero]]

Sweep == [phase : {"idle", "picking", "counted"}, days : SUBSET Day, locked : SUBSET Day,
          day : Day \cup {Null}, counted : [Metric -> Nat], writes : [Day -> [Metric -> Nat]]]

RollupTypeOK ==
    /\ facts \in Db
    /\ applied \subseteq Events
    /\ recount \in Sweep
    /\ recount.locked \subseteq recount.days
    /\ recount.phase = "counted" => recount.day \in recount.days \ recount.locked
    /\ date \in Day
    /\ live \in BOOLEAN
    /\ setbacks \in 0 .. MaxSetbacks

RollupInit ==
    /\ facts = EmptyDb
    /\ applied = {}
    /\ recount = Idle
    /\ date = 1
    /\ live = TRUE
    /\ setbacks = 0

\* A mark carries now(), the start of its transaction: a recount that runs may
\* have begun before it or after it.
MarkNow == IF recount.phase = "idle" THEN {"before"} ELSE {"before", "after"}

\* A transaction waits for the rollup rows the recount holds.
Unlocked(new) ==
    \A d \in recount.locked : new.rollup[d] = facts.rollup[d] /\ new.dirty[d] = facts.dirty[d]

\* The transaction of an event that is new to send_events, or of a click.
ApplyEvent(e) ==
    /\ e \in Events \ applied /\ e.at <= date
    /\ \E mark \in MarkNow :
         LET new == ApplyEventSideEffects(facts, e, [today |-> date, mark |-> mark])
         IN  Unlocked(new) /\ facts' = new
    /\ applied' = applied \cup {e}
    /\ UNCHANGED <<recount, date, live, setbacks>>

-----------------------------------------------------------------------------
\* recentDays and findDirtyRollupDays, the oldest dirty days first.
RecentDays == {d \in Day : date - WindowDays < d /\ d <= date}

DirtyDays ==
    LET marked == {d \in Day : facts.dirty[d] # "clean"}
    IN  {d \in marked : Cardinality({x \in marked : x < d}) < DirtyPageLimit}

\* reconcileWorkspace of a live workspace, up to its loop.  The marks there are
\* predate the new sweep.
BeginReconcile ==
    /\ recount.phase = "idle" /\ live
    /\ recount' = [Idle EXCEPT !.phase = "picking", !.days = RecentDays \cup DirtyDays]
    /\ facts' = [facts EXCEPT !.dirty = [d \in Day |-> IF facts.dirty[d] = "after" THEN "before" ELSE facts.dirty[d]]]
    /\ UNCHANGED <<applied, date, live, setbacks>>

\* reconcileWorkspaceDay's snapshot of sends ...
CountDay(d) ==
    /\ recount.phase = "picking" /\ d \in recount.days \ recount.locked
    /\ recount' = [recount EXCEPT !.phase = "counted", !.day = d, !.counted = Recount(facts, d)]
    /\ UNCHANGED <<facts, applied, date, live, setbacks>>

\* ... and its DO UPDATE, once the rollup row is ours.
OverwriteDay ==
    /\ recount.phase = "counted"
    /\ recount' = [recount EXCEPT !.phase = "picking", !.day = Null, !.counted = Zero,
                                  !.locked = @ \cup {recount.day},
                                  !.writes[recount.day] = recount.counted]
    /\ UNCHANGED <<facts, applied, date, live, setbacks>>

\* Mutant: the recount is added to what is there.
PublishedAdds(d) == [m \in Metric |-> facts.rollup[d][m] + recount.writes[d][m]]

\* Mutant: only a marked day is overwritten.
PublishedIfMarked(d) == IF facts.dirty[d] = "before" THEN recount.writes[d] ELSE facts.rollup[d]

\* What the commit leaves in the rollup row of a day of the sweep.
Published(d) == recount.writes[d]

\* clearDirtyRollupDays: not younger than the sweep, and on a day of the sweep.
Cleared(d) == d \in recount.days /\ facts.dirty[d] = "before"

\* The commit publishes every overwritten day.
CommitReconcile ==
    /\ recount.phase = "picking" /\ recount.locked = recount.days
    /\ facts' = [facts EXCEPT
         !.rollup = [d \in Day |-> IF d \in recount.days THEN Published(d) ELSE facts.rollup[d]],
         !.dirty  = [d \in Day |-> IF Cleared(d) THEN "clean" ELSE facts.dirty[d]]]
    /\ recount' = Idle
    /\ UNCHANGED <<applied, date, live, setbacks>>

\* A crash, a deadlock abort or a lost connection: nothing was written.
ReconcileFails ==
    /\ recount.phase # "idle" /\ setbacks < MaxSetbacks
    /\ recount' = Idle
    /\ setbacks' = setbacks + 1
    /\ UNCHANGED <<facts, applied, date, live>>

NextDate ==
    /\ date < MaxDay
    /\ date' = date + 1
    /\ UNCHANGED <<facts, applied, recount, live, setbacks>>

\* findLiveWorkspaceIds leaves a deleted workspace alone until it is restored.
SoftDelete ==
    /\ live /\ setbacks < MaxSetbacks
    /\ live' = FALSE
    /\ setbacks' = setbacks + 1
    /\ UNCHANGED <<facts, applied, recount, date>>

Restore ==
    /\ ~live
    /\ live' = TRUE
    /\ UNCHANGED <<facts, applied, recount, date, setbacks>>

RollupNext ==
    \/ \E e \in Events : ApplyEvent(e)
    \/ BeginReconcile \/ (\E d \in Day : CountDay(d)) \/ OverwriteDay
    \/ CommitReconcile \/ ReconcileFails
    \/ NextDate \/ SoftDelete \/ Restore

RollupSpec == RollupInit /\ [][RollupNext]_rollupVars

\* The scheduler keeps ticking, and a tick runs to its end unless it fails.
FairRollupSpec == RollupSpec /\ WF_rollupVars(BeginReconcile) /\ WF_rollupVars(\E d \in Day : CountDay(d))
                 /\ WF_rollupVars(OverwriteDay) /\ WF_rollupVars(CommitReconcile)

-----------------------------------------------------------------------------
\* A rollup day may lag behind the facts and never runs ahead of them: no event
\* is counted both by its own increment and by a recount racing it.
RollupNeverOverstates ==
    \A d \in Day, m \in Metric : facts.rollup[d][m] <= Recount(facts, d)[m]

\* The recent days of a live workspace keep coming back into agreement with the
\* facts, even when a recount overwrote an increment it had not seen.
RecentDaysConverge ==
    []<>(~live \/ \A d \in RecentDays : facts.rollup[d] = Recount(facts, d))

\* "a mark written AFTER this tick already read its dirty-day list has not yet
\* been reconciled by this tick ... it must survive to be picked up by the NEXT
\* tick" (analytics-reconciliation.worker.ts:194): when a mark goes, the day
\* holds every delivery there is.
ClearedDaysAreVerified ==
    [][\A d \in Day : facts.dirty[d] # "clean" /\ facts'.dirty[d] = "clean"
                      => facts'.rollup[d]["delivered"] = Recount(facts', d)["delivered"]]_rollupVars
=============================================================================

------------------------ MODULE TenantLaneSemaphore -------------------------
(***************************************************************************)
(* The per-tenant, per-lane concurrency slots of tenant-lane-semaphore.ts: *)
(* a sorted set of tokens scored with the time their owner asked, purged   *)
(* by the next acquire once older than the lease.  One token is one        *)
(* acquisition; a token nobody uses any more stands for a fresh UUID.      *)
(*                                                                         *)
(* Time is kept as ages: asked[t] is the time since the owner of t read    *)
(* Date.now(), idle the time since the key's expiry was last set.          *)
(***************************************************************************)
EXTENDS Integers, FiniteSets

CONSTANTS
    Token,       \* acquisitions that can exist at a time
    Cap,         \* resolveTenantLaneCap: a positive integer, whatever the environment says
    LeaseTtl,    \* SEND_SLOT_LEASE_TTL_MS
    MaxHold      \* how long after asking a live owner still holds its slot

\* SENDGRID_TIMEOUT_MS and the transaction margins, which bound the hold, stay
\* below the lease, which adds SEND_SLOT_LEASE_MARGIN_MS to them.
ASSUME SemaphoreAssumption ==
    /\ IsFiniteSet(Token)
    /\ Cap \in Nat \ {0} /\ LeaseTtl \in Nat /\ MaxHold \in Nat
    /\ MaxHold < LeaseTtl

VARIABLES
    pc,       \* [Token -> where its owner stands]
    held,     \* the members of the sorted set
    asked,    \* [Token -> time since the score of the token]
    idle      \* time since the last PEXPIRE

vars == <<pc, held, asked, idle>>

\* "gone": the owner crashed, or never learnt that it holds the slot.
PC  == {"fresh", "asking", "holding", "gone"}

\* Ages saturate where no purge can tell them apart any more.
AgeCap == LeaseTtl + MaxHold
Age    == 0 .. AgeCap

TypeOK ==
    /\ pc \in [Token -> PC]
    /\ held \subseteq Token
    /\ asked \in [Token -> Age]
    /\ idle \in Age

Init ==
    /\ pc = [t \in Token |-> "fresh"]
    /\ held = {}
    /\ asked = [t \in Token |-> 0]
    /\ idle = 0

\* acquireTenantLaneSlot up to the EVAL: a new token and a reading of the clock.
Ask(t) ==
    /\ pc[t] = "fresh" /\ t \notin held
    /\ pc' = [pc EXCEPT ![t] = "asking"]
    /\ asked' = [asked EXCEPT ![t] = 0]
    /\ UNCHANGED <<held, idle>>

\* Mutant: the lease leaves no margin over the longest hold.
SurvivorsWithoutMargin(t) == {u \in held : asked[u] - asked[t] < MaxHold}

\* ZREMRANGEBYSCORE -inf (now - leaseTtlMs), with the caller's reading of now.
Survivors(t) == {u \in held : asked[u] - asked[t] < LeaseTtl}

\* Mutant: one slot too many.
AcquireAtCap(t) ==
    /\ pc[t] = "asking"
    /\ Cardinality(Survivors(t)) <= Cap
    /\ held' = Survivors(t) \cup {t}
    /\ idle' = 0
    /\ \E known \in {"holding", "gone"} : pc' = [pc EXCEPT ![t] = known]
    /\ UNCHANGED asked

\* The EVAL under the cap: ZADD, PEXPIRE.  The answer may get lost, and then
\* the caller throws without knowing its token.
Acquire(t) ==
    /\ pc[t] = "asking"
    /\ Cardinality(Survivors(t)) < Cap
    /\ held' = Survivors(t) \cup {t}
    /\ idle' = 0
    /\ \E known \in {"holding", "gone"} : pc' = [pc EXCEPT ![t] = known]
    /\ UNCHANGED asked

\* The EVAL at the cap purges as well; the caller defers its job.
Reject(t) ==
    /\ pc[t] = "asking"
    /\ Cardinality(Survivors(t)) >= Cap
    /\ held' = Survivors(t)
    /\ pc' = [pc EXCEPT ![t] = "fresh"]
    /\ UNCHANGED <<asked, idle>>

\* The request never reaches Redis.
Fail(t) ==
    /\ pc[t] = "asking"
    /\ pc' = [pc EXCEPT ![t] = "fresh"]
    /\ UNCHANGED <<held, asked, idle>>

\* releaseTenantLaneSlot: ZREM of one token, member or not.
Release(t) ==
    /\ pc[t] = "holding"
    /\ held' = held \ {t}
    /\ pc' = [pc EXCEPT ![t] = "fresh"]
    /\ UNCHANGED <<asked, idle>>

\* The process dies, or the ZREM fails: nobody will release the token.
Abandon(t) ==
    /\ pc[t] = "holding"
    /\ pc' = [pc EXCEPT ![t] = "gone"]
    /\ UNCHANGED <<held, asked, idle>>

\* A token that is out of the set and has no owner is as good as a new one.
Recycle(t) ==
    /\ pc[t] = "gone" /\ t \notin held
    /\ pc' = [pc EXCEPT ![t] = "fresh"]
    /\ UNCHANGED <<held, asked, idle>>

\* Mutant: the script sets no expiry.
ExpireNever ==
    /\ held # {} /\ idle < 0
    /\ UNCHANGED vars

\* Redis drops the key LeaseTtl after the last PEXPIRE.
ExpireKey ==
    /\ held # {} /\ idle >= LeaseTtl
    /\ held' = {}
    /\ UNCHANGED <<pc, asked, idle>>

Older(a) == IF a < AgeCap THEN a + 1 ELSE a

\* Time passes, but a live owner asks and releases within MaxHold.
Tick ==
    /\ \A t \in Token : pc[t] \in {"asking", "holding"} => asked[t] < MaxHold
    /\ asked' = [t \in Token |-> Older(asked[t])]
    /\ idle' = Older(idle)
    /\ UNCHANGED <<pc, held>>

Next ==
    \/ \E t \in Token : \/ Ask(t) \/ Acquire(t) \/ Reject(t) \/ Fail(t)
                        \/ Release(t) \/ Abandon(t) \/ Recycle(t)
    \/ ExpireKey \/ Tick

Spec == Init /\ [][Next]_vars

\* Redis expires keys, the clock advances, and an owner that is alive asks
\* and releases (the `finally` of send-dispatch.ts).
Fairness ==
    /\ WF_vars(ExpireKey) /\ WF_vars(Tick)
    /\ \A t \in Token : WF_vars(Acquire(t) \/ Reject(t)) /\ WF_vars(Release(t))

FairSpec == Spec /\ Fairness

-----------------------------------------------------------------------------
\* At most Cap sends of a tenant are in flight in a lane, across crashed
\* owners, lost answers, purges by callers with an old clock reading, and the
\* expiry of the whole key.
CapRespected == Cardinality({t \in Token : pc[t] = "holding"}) <= Cap

\* The sorted set never outgrows the cap, and no purge or key expiry takes a
\* slot from an owner that is still at work: a slot handed out twice would
\* show here first.
OwnersKeepTheirSlots ==
    /\ Cardinality(held) <= Cap
    /\ \A t \in Token : pc[t] = "holding" => t \in held

\* A crashed owner "cannot leak a slot forever", whether traffic goes on or stops.
LeakedSlotsComeBack == \A t \in Token : pc[t] = "gone" ~> t \notin held
=============================================================================

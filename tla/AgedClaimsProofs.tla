------------------------- MODULE AgedClaimsProofs --------------------------
(***************************************************************************)
(* Two components whose claims lapse with age: the slots of                *)
(* TenantLaneSemaphore, a lease, and the alert slots of OpsAlerts, a       *)
(* window.  The concurrency cap holds for any number of acquisitions, any  *)
(* cap and any lease that exceeds the time a live owner holds its slot;    *)
(* the alerts keep their distance for any number of replicas that check,   *)
(* any window and any duration of a check.                                 *)
(***************************************************************************)
EXTENDS TenantLaneSemaphore, OpsAlerts, FiniteSetTheorems, TLAPS

-----------------------------------------------------------------------------
(* TenantLaneSemaphore.                                                    *)

\* A live owner is within its hold time, and the key was touched after it asked.
OwnersAreInTime ==
    /\ \A t \in Token : pc[t] \in {"asking", "holding"} => asked[t] <= MaxHold
    /\ \A t \in Token : pc[t] = "holding" => idle <= asked[t]

\* The inductive invariant of the semaphore.
Inv == TypeOK /\ OwnersKeepTheirSlots /\ OwnersAreInTime

\* Ages stay ages.
LEMMA OlderType == \A a \in Age : Older(a) \in Age
  BY SemaphoreAssumption DEF SemaphoreAssumption, Older, Age, AgeCap

\* A subset of the tokens is finite, and adding one token to a subset below
\* the cap keeps it within the cap.
LEMMA CountTokens ==
    ASSUME NEW S \in SUBSET Token
    PROVE  /\ IsFiniteSet(S) /\ Cardinality(S) \in Nat
           /\ \A U \in SUBSET S : Cardinality(U) <= Cardinality(S)
           /\ \A t \in Token : Cardinality(S) < Cap => Cardinality(S \cup {t}) <= Cap
<1>1. IsFiniteSet(S)
  BY SemaphoreAssumption, FS_Subset DEF SemaphoreAssumption
<1>2. Cardinality(S) \in Nat /\ \A U \in SUBSET S : Cardinality(U) <= Cardinality(S)
  BY <1>1, FS_Subset, FS_CardinalityType
<1>3. ASSUME NEW t \in Token, Cardinality(S) < Cap PROVE Cardinality(S \cup {t}) <= Cap
  <2>1. Cardinality(S \cup {t}) = IF t \in S THEN Cardinality(S) ELSE Cardinality(S) + 1
    BY <1>1, FS_AddElement
  <2> QED
    BY <1>2, <1>3, <2>1, SemaphoreAssumption DEF SemaphoreAssumption
<1> QED
  BY <1>1, <1>2, <1>3

\* Initially the sorted set is empty.
LEMMA SemaphoreInit == Init => Inv
<1> SUFFICES ASSUME Init PROVE Inv
  OBVIOUS
<1>1. TypeOK
  BY SemaphoreAssumption DEF SemaphoreAssumption, Init, TypeOK, PC, Age, AgeCap
<1>2. OwnersKeepTheirSlots
  BY SemaphoreAssumption, FS_EmptySet DEF SemaphoreAssumption, Init, OwnersKeepTheirSlots
<1>3. OwnersAreInTime
  BY DEF Init, OwnersAreInTime
<1> QED
  BY <1>1, <1>2, <1>3 DEF Inv

\* No purge takes a slot from a live owner, however old the purging caller's
\* reading of the clock is.
LEMMA LiveOwnersSurvive ==
    ASSUME Inv, NEW t \in Token
    PROVE  \A u \in Token : pc[u] = "holding" => u \in Survivors(t)
  BY SemaphoreAssumption
  DEF SemaphoreAssumption, Inv, TypeOK, OwnersKeepTheirSlots, OwnersAreInTime, Survivors, Age, AgeCap

\* Every action preserves the invariant.
LEMMA SemaphoreStep == Inv /\ [Next]_vars => Inv'
<1> SUFFICES ASSUME Inv, [Next]_vars PROVE Inv'
  OBVIOUS
<1>t. TypeOK /\ OwnersKeepTheirSlots /\ OwnersAreInTime
  BY DEF Inv
<1>a. /\ SemaphoreAssumption
      /\ \A t \in Token : asked[t] \in Nat /\ Survivors(t) \in SUBSET Token /\ Survivors(t) \subseteq held
  BY <1>t, SemaphoreAssumption DEF SemaphoreAssumption, TypeOK, Survivors, Age, AgeCap
<1>z. 0 \in Age
  BY SemaphoreAssumption DEF SemaphoreAssumption, Age, AgeCap
<1>1. ASSUME NEW t \in Token, Ask(t) PROVE Inv'
  BY <1>1, <1>t, <1>z, SemaphoreAssumption
  DEF SemaphoreAssumption, Inv, Ask, TypeOK, PC, OwnersKeepTheirSlots, OwnersAreInTime
<1>2. ASSUME NEW t \in Token, Acquire(t) PROVE Inv'
  <2>1. TypeOK'
    BY <1>2, <1>t, <1>a, <1>z DEF Acquire, TypeOK, PC
  <2>2. Cardinality(held') <= Cap
    BY <1>2, <1>a, CountTokens DEF Acquire
  <2>3. \A u \in Token : pc'[u] = "holding" => u \in held'
    BY <1>2, <1>t, LiveOwnersSurvive DEF Acquire, TypeOK
  <2>4. OwnersAreInTime'
    BY <1>2, <1>t, <1>a DEF Acquire, TypeOK, OwnersAreInTime
  <2> QED
    BY <2>1, <2>2, <2>3, <2>4 DEF Inv, OwnersKeepTheirSlots
<1>3. ASSUME NEW t \in Token, Reject(t) PROVE Inv'
  <2>1. TypeOK'
    BY <1>3, <1>t, <1>a DEF Reject, TypeOK, PC
  <2>2. Cardinality(held') <= Cap
    <3>1. held \in SUBSET Token /\ Survivors(t) \in SUBSET held
      BY <1>t, <1>a DEF TypeOK
    <3>2. Cardinality(Survivors(t)) <= Cardinality(held)
      BY <3>1, CountTokens
    <3>3. Cardinality(Survivors(t)) \in Nat /\ Cardinality(held) \in Nat
      BY <3>1, <1>a, CountTokens
    <3> QED
      BY <1>3, <1>t, <3>2, <3>3, SemaphoreAssumption
      DEF SemaphoreAssumption, Reject, OwnersKeepTheirSlots
  <2>3. \A u \in Token : pc'[u] = "holding" => u \in held'
    BY <1>3, <1>t, LiveOwnersSurvive DEF Reject, TypeOK
  <2>4. OwnersAreInTime'
    BY <1>3, <1>t DEF Reject, TypeOK, OwnersAreInTime
  <2> QED
    BY <2>1, <2>2, <2>3, <2>4 DEF Inv, OwnersKeepTheirSlots
<1>4. ASSUME NEW t \in Token, Fail(t) \/ Abandon(t) \/ Recycle(t) PROVE Inv'
  BY <1>4, <1>t DEF Inv, Fail, Abandon, Recycle, TypeOK, PC, OwnersKeepTheirSlots, OwnersAreInTime
<1>5. ASSUME NEW t \in Token, Release(t) PROVE Inv'
  <2>1. TypeOK' /\ OwnersAreInTime'
    BY <1>5, <1>t DEF Release, TypeOK, PC, OwnersAreInTime
  <2>2. \A u \in Token : pc'[u] = "holding" => u \in held'
    BY <1>5, <1>t DEF Release, TypeOK, OwnersKeepTheirSlots
  <2>3. Cardinality(held') <= Cap
    <3>1. held \in SUBSET Token /\ held' \in SUBSET held /\ held' \in SUBSET Token
      BY <1>5, <1>t DEF Release, TypeOK
    <3>2. Cardinality(held') <= Cardinality(held) /\ Cardinality(held') \in Nat /\ Cardinality(held) \in Nat
      BY <3>1, CountTokens
    <3> QED
      BY <1>t, <3>2, SemaphoreAssumption DEF SemaphoreAssumption, OwnersKeepTheirSlots
  <2> QED
    BY <2>1, <2>2, <2>3 DEF Inv, OwnersKeepTheirSlots
<1>6. CASE ExpireKey
  <2>1. \A t \in Token : pc[t] # "holding"
    BY <1>6, <1>t, SemaphoreAssumption
    DEF SemaphoreAssumption, ExpireKey, TypeOK, OwnersAreInTime, Age, AgeCap
  <2>2. Cardinality(held') <= Cap
    BY <1>6, SemaphoreAssumption, FS_EmptySet DEF SemaphoreAssumption, ExpireKey
  <2> QED
    BY <1>6, <1>t, <2>1, <2>2 DEF Inv, ExpireKey, TypeOK, OwnersKeepTheirSlots, OwnersAreInTime
<1>7. CASE Tick
  <2>1. TypeOK'
    BY <1>7, <1>t, OlderType DEF Tick, TypeOK
  <2>2. OwnersKeepTheirSlots'
    BY <1>7, <1>t DEF Tick, OwnersKeepTheirSlots
  <2>3. ASSUME NEW t \in Token, pc'[t] \in {"asking", "holding"}
        PROVE  asked'[t] <= MaxHold /\ (pc'[t] = "holding" => idle' <= asked'[t])
    <3>1. asked[t] < MaxHold /\ (pc[t] = "holding" => idle <= asked[t]) /\ pc'[t] = pc[t]
      BY <1>7, <2>3, <1>t DEF Tick, OwnersAreInTime
    <3>2. asked'[t] = Older(asked[t]) /\ idle' = Older(idle) /\ asked[t] \in Age /\ idle \in Age
      BY <1>7, <1>t DEF Tick, TypeOK
    <3> QED
      BY <3>1, <3>2, SemaphoreAssumption DEF SemaphoreAssumption, Older, Age, AgeCap
  <2>4. OwnersAreInTime'
    BY <2>3 DEF OwnersAreInTime
  <2> QED
    BY <2>1, <2>2, <2>4 DEF Inv
<1>8. CASE UNCHANGED vars
  BY <1>8 DEF vars, Inv, TypeOK, OwnersKeepTheirSlots, OwnersAreInTime
<1> QED
  BY <1>1, <1>2, <1>3, <1>4, <1>5, <1>6, <1>7, <1>8 DEF Next

\* So the invariant holds in every reachable state.
LEMMA SemaphoreInvariant == Spec => []Inv
<1>1. Init => Inv
  BY SemaphoreInit
<1>2. Inv /\ [Next]_vars => Inv'
  BY SemaphoreStep
<1> QED
  BY <1>1, <1>2, PTL DEF Spec

\* The set, the owners and their ages are well typed.
THEOREM SemaphoreTypeTheorem == Spec => []TypeOK
<1>1. Inv => TypeOK
  BY DEF Inv
<1> QED
  BY <1>1, SemaphoreInvariant, PTL

\* No purge and no key expiry takes a slot from an owner at work.
THEOREM OwnersKeepTheirSlotsTheorem == Spec => []OwnersKeepTheirSlots
<1>1. Inv => OwnersKeepTheirSlots
  BY DEF Inv
<1> QED
  BY <1>1, SemaphoreInvariant, PTL

\* At most Cap sends of a tenant are in flight in a lane.
THEOREM CapRespectedTheorem == Spec => []CapRespected
<1>1. Inv => CapRespected
  <2> SUFFICES ASSUME Inv PROVE CapRespected
    OBVIOUS
  <2> DEFINE owners == {t \in Token : pc[t] = "holding"}
  <2>1. held \in SUBSET Token /\ owners \in SUBSET held /\ owners \in SUBSET Token
    BY DEF Inv, TypeOK, OwnersKeepTheirSlots
  <2>2. Cardinality(owners) <= Cardinality(held) /\ Cardinality(owners) \in Nat /\ Cardinality(held) \in Nat
    BY <2>1, CountTokens
  <2> QED
    BY <2>2, SemaphoreAssumption DEF SemaphoreAssumption, Inv, OwnersKeepTheirSlots, CapRespected
<1> QED
  BY <1>1, SemaphoreInvariant, PTL

-----------------------------------------------------------------------------
(* OpsAlerts.                                                              *)

\* The checks that have claimed a slot and not mailed yet.
Mailing == {c \in Check : check[c].pc = "mailing"}

\* The members are only told by the reputation watchdog, only the purge watchdog
\* gives its slot back unasked, and only a reputation can get worse.
RolesOK ==
    \A c \in Check : /\ check[c].pc = "members" => kind = "reputation"
                     /\ check[c].pc = "rearm" => kind = "purge"
                     /\ kind # "reputation" => \A item \in check[c].todo : item.tier = "down"

\* Of the watchdogs that may repeat themselves no mail is counted.
RepeatingUncounted == kind \in Repeating => \A a \in 0 .. Horizon : mailed[a] = 0

\* A check that is mailing holds the slot, with the time it claimed it at; an
\* alert inside the window is the one the slot remembers, and nobody is mailing
\* after it; so claims that were followed by a mail are a window apart, less the
\* time a check may take.
ClaimsApart ==
    /\ \A c \in Mailing : slot["row"].by = c /\ slot["row"].sentAt = check[c].now
    /\ \A a \in 0 .. Dedup : mailed[a] > 0 => slot["row"].sentAt = a /\ Mailing = {}
    /\ \A a \in 0 .. Horizon : mailed[a] <= 1
    /\ \A a, b \in 0 .. Horizon :
         a < b /\ mailed[a] > 0 /\ mailed[b] > 0 => b + MaxCheck > a + Dedup

\* If a check may last longer than the window, nothing is promised.
AlertInv ==
    /\ AlertTypeOK /\ RolesOK /\ RepeatingUncounted
    /\ kind \notin Repeating /\ MaxCheck <= Dedup => ClaimsApart

\* The state of a check, and of a slot.
CheckRecord == [pc : {"idle", "rearm", "working", "mailing", "members"}, now : 0 .. MaxCheck,
                todo : SUBSET Item, item : Item \cup {NoCheck}]
SlotRecord  == [sentAt : SentAge, by : Check \cup {NoCheck}, tier : Tier]

\* The ages, as numbers.
LEMMA AlertConstants ==
    /\ Dedup \in Nat \ {0} /\ MaxCheck \in Nat /\ MaxFaults \in Nat /\ NoCheck \notin Check
    /\ Horizon \in Nat /\ Never \in Nat /\ Horizon = Dedup + MaxCheck + 1 /\ Never = Horizon + 1
    /\ SentAge = 0 .. Never /\ \A n \in 0 .. MaxCheck : n \in SentAge /\ n \in 0 .. Horizon
  BY OpsAlertsAssumption DEF OpsAlertsAssumption, Horizon, Never, SentAge

\* The types, one by one.
LEMMA AlertFields ==
    ASSUME AlertTypeOK
    PROVE  /\ kind \in Kind
           /\ slot \in [Rows -> SlotRecord] /\ check \in [Check -> CheckRecord]
           /\ told \in [Rows -> SUBSET Tier] /\ mailed \in [0 .. Horizon -> Nat]
           /\ faults \in 0 .. MaxFaults
  BY DEF AlertTypeOK, SlotRecord, CheckRecord

\* A watchdog that alerts once has one row.
LEMMA OneRow == kind \notin Repeating => Rows = {"row"}
  BY DEF Repeating, Rows

\* The tiers are those of the watchdogs.
LEMMA TroubleType ==
    ASSUME AlertTypeOK, NEW row \in Rows, NEW s \in Signals(row)
    PROVE  Trouble(row, s) \in Tier
<1>1. \A bad : Down(bad) \in Tier
  BY DEF Down, Tier
<1>2. kind \in {"queue_depth", "oldest_job_age", "webhook_lag", "send_reconciler",
                "dead_letter", "failed_send_share", "ingestion", "purge", "partition", "reputation"}
  BY OpsAlertsAssumption DEF AlertTypeOK, OpsAlertsAssumption
<1>3. kind = "reputation" => ReputationTier(row, s) \in Tier
  <2> SUFFICES ASSUME kind = "reputation" PROVE ReputationTier(row, s) \in Tier
    OBVIOUS
  <2>1. s.delivered \in Nat
    BY DEF Signals, DeliveredFloor
  <2>. QED  BY <2>1 DEF ReputationTier, Tier, DeliveredFloor
<1>. QED  BY <1>1, <1>2, <1>3 DEF Trouble

\* Nine of the watchdogs know of no tier but one.
LEMMA OnlyDown ==
    ASSUME AlertTypeOK, kind # "reputation", NEW row \in Rows, NEW s \in Signals(row),
           Trouble(row, s) # "none"
    PROVE  Trouble(row, s) = "down"
<1>1. \A bad : Down(bad) \in {"none", "down"}
  BY DEF Down
<1>2. kind \in {"queue_depth", "oldest_job_age", "webhook_lag", "send_reconciler",
                "dead_letter", "failed_send_share", "ingestion", "purge", "partition"}
  BY OpsAlertsAssumption DEF AlertTypeOK, OpsAlertsAssumption
<1>. QED  BY <1>1, <1>2 DEF Trouble

\* No check does nothing.
LEMMA IdleCheck == Idle \in CheckRecord /\ Idle.pc = "idle" /\ Idle.now = 0 /\ Idle.todo = {}
  BY AlertConstants DEF Idle, CheckRecord

\* What is left of a check: nothing to mail.
LEMMA RestCheck ==
    ASSUME AlertTypeOK, NEW c \in Check, NEW todo \in SUBSET Item
    PROVE  /\ Rest(c, todo) \in CheckRecord /\ Rest(c, todo).pc \in {"idle", "working"}
           /\ Rest(c, todo).todo = todo
<1>1. check[c] \in CheckRecord
  BY AlertFields
<1>2. CASE todo = {}
  BY <1>2, IdleCheck DEF Rest
<1>3. CASE todo # {}
  <2>1. Rest(c, todo) = [check[c] EXCEPT !.pc = "working", !.todo = todo, !.item = NoCheck]
    BY <1>3 DEF Rest
  <2>. QED  BY <1>1, <2>1 DEF CheckRecord
<1>. QED  BY <1>2, <1>3

\* Initially nothing was claimed or mailed.
LEMMA AlertInitInv == AlertInit => AlertInv
<1> SUFFICES ASSUME AlertInit PROVE AlertInv
  OBVIOUS
<1>1. AlertTypeOK
  <2>1. [sentAt |-> Never, by |-> NoCheck, tier |-> "none"] \in SlotRecord
    BY AlertConstants DEF SlotRecord, Tier
  <2>2. slot \in [Rows -> SlotRecord] /\ check \in [Check -> CheckRecord]
    BY <2>1, IdleCheck DEF AlertInit
  <2>3. \A c \in Check : check[c].pc = "idle"
    BY IdleCheck DEF AlertInit
  <2>4. told \in [Rows -> SUBSET Tier] /\ mailed \in [0 .. Horizon -> Nat] /\ faults \in 0 .. MaxFaults
    BY AlertConstants DEF AlertInit
  <2>. QED  BY <2>2, <2>3, <2>4 DEF AlertInit, AlertTypeOK, SlotRecord, CheckRecord
<1>2. \A c \in Check : check[c].pc = "idle" /\ check[c].todo = {}
  BY IdleCheck DEF AlertInit
<1>3. \A a \in 0 .. Horizon : mailed[a] = 0
  BY DEF AlertInit
<1>4. Mailing = {}
  BY <1>2 DEF Mailing
<1>5. \A a \in 0 .. Dedup : a \in 0 .. Horizon
  BY AlertConstants
<1>. QED  BY <1>1, <1>2, <1>3, <1>4, <1>5 DEF AlertInv, RolesOK, RepeatingUncounted, ClaimsApart

-----------------------------------------------------------------------------
\* A step that leaves slot and mails alone, and sets nobody mailing, keeps the claims apart.
LEMMA NobodyStartsMailing ==
    ASSUME AlertInv, NEW c \in Check, UNCHANGED <<kind, mailed>>,
           kind \notin Repeating /\ MaxCheck <= Dedup => UNCHANGED slot,
           NEW r, r.pc \notin {"mailing", "members"}, r.pc = "rearm" => kind = "purge",
           kind # "reputation" => \A item \in r.todo : item.tier = "down",
           check' = [check EXCEPT ![c] = r]
    PROVE  RolesOK' /\ RepeatingUncounted' /\ (kind' \notin Repeating /\ MaxCheck <= Dedup => ClaimsApart')
<1>1. check \in [Check -> CheckRecord]
  BY AlertFields DEF AlertInv
<1>2. \A d \in Check : check'[d] = IF d = c THEN r ELSE check[d]
  BY <1>1
<1>3. RolesOK'
  BY <1>2 DEF AlertInv, RolesOK
<1>4. RepeatingUncounted'
  BY DEF AlertInv, RepeatingUncounted, Repeating
<1>5. ASSUME kind \notin Repeating, MaxCheck <= Dedup PROVE ClaimsApart'
  <2>1. Mailing' \subseteq Mailing
    BY <1>2 DEF Mailing
  <2>2. \A d \in Mailing' : check'[d] = check[d]
    BY <1>2 DEF Mailing
  <2>. QED  BY <1>5, <2>1, <2>2 DEF AlertInv, ClaimsApart
<1>. QED  BY <1>3, <1>4, <1>5 DEF Repeating

\* The watchdog does not change, and neither do its rows.
LEMMA SameKind ==
    ASSUME kind' = kind
    PROVE  /\ Rows' = Rows /\ Item' = Item /\ CheckRecord' = CheckRecord
           /\ \A row : Signals(row)' = Signals(row)
           /\ \A row, s : Trouble(row, s)' = Trouble(row, s)
<1>1. Rows' = Rows
  BY DEF Rows
<1>2. Item' = Item
  BY <1>1 DEF Item
<1>3. \A row : Signals(row)' = Signals(row)
  BY DEF Signals
<1>4. \A row, s : Trouble(row, s)' = Trouble(row, s)
  BY DEF Trouble
<1>. QED  BY <1>1, <1>2, <1>3, <1>4 DEF CheckRecord

\* The types, across a step of one check.
LEMMA CheckStepType ==
    ASSUME AlertTypeOK, UNCHANGED <<kind, signal>>, NEW c \in Check, NEW r \in CheckRecord,
           r.pc \in {"mailing", "members"} => r.item \in Item,
           check' = [check EXCEPT ![c] = r],
           slot' \in [Rows -> SlotRecord], told' \in [Rows -> SUBSET Tier],
           mailed' \in [0 .. Horizon -> Nat], faults' \in 0 .. MaxFaults
    PROVE  AlertTypeOK'
<1>1. check \in [Check -> CheckRecord]
  BY AlertFields
<1>2. /\ check' \in [Check -> CheckRecord]
      /\ \A d \in Check : check'[d].pc \in {"mailing", "members"} => check'[d].item \in Item
  BY <1>1 DEF AlertTypeOK
<1>3. /\ kind' \in Kind /\ signal' \in [Rows -> UNION {Signals(row) : row \in Rows}]
      /\ \A row \in Rows : signal'[row] \in Signals(row)
  BY DEF AlertTypeOK
<1>4. /\ Rows' = Rows /\ Item' = Item /\ CheckRecord' = CheckRecord
      /\ \A row : Signals(row)' = Signals(row)
  BY SameKind
<1>5. signal' \in [Rows' -> UNION {Signals(row)' : row \in Rows'}]
  BY <1>3, <1>4
<1>. QED  BY <1>2, <1>3, <1>4, <1>5 DEF AlertTypeOK, SlotRecord, CheckRecord

\* A check begins, with nothing claimed.
LEMMA StartCheckKeeps ==
    ASSUME AlertInv, NEW c \in Check, StartCheck(c)
    PROVE  AlertInv'
<1> DEFINE bad == {[row |-> row, tier |-> TroubleOf(row), alerted |-> slot[row].tier] :
                     row \in {row \in Rows : TroubleOf(row) # "none"}}
           r == IF bad = {} /\ kind = "purge" THEN [Idle EXCEPT !.pc = "rearm"] ELSE Rest(c, bad)
<1>0. AlertTypeOK
  BY DEF AlertInv
<1>1. check' = [check EXCEPT ![c] = r] /\ UNCHANGED <<kind, signal, slot, told, mailed, faults>>
  BY DEF StartCheck
<1>2. \A row \in Rows : TroubleOf(row) \in Tier /\ slot[row].tier \in Tier
  BY <1>0, AlertFields, TroubleType DEF TroubleOf, AlertTypeOK, SlotRecord
<1>3. bad \in SUBSET Item
  BY <1>2 DEF Item
<1>4. kind # "reputation" => \A item \in bad : item.tier = "down"
  BY <1>0, OnlyDown DEF TroubleOf, AlertTypeOK
<1> HIDE DEF bad
<1>5. /\ r \in CheckRecord /\ r.pc \notin {"mailing", "members"}
      /\ r.pc = "rearm" => kind = "purge"
      /\ r.todo \in {{}, bad}
  <2>1. [Idle EXCEPT !.pc = "rearm"] \in CheckRecord
    BY IdleCheck DEF CheckRecord
  <2>2. [Idle EXCEPT !.pc = "rearm"].pc = "rearm" /\ [Idle EXCEPT !.pc = "rearm"].todo = {}
    BY DEF Idle
  <2>3. Rest(c, bad) \in CheckRecord /\ Rest(c, bad).pc \in {"idle", "working"} /\ Rest(c, bad).todo = bad
    BY <1>0, <1>3, RestCheck
  <2>. QED  BY <2>1, <2>2, <2>3
<1> HIDE DEF r
<1>6. AlertTypeOK'
  BY <1>0, <1>1, <1>5, CheckStepType, AlertFields
<1>. QED  BY <1>1, <1>4, <1>5, <1>6, NobodyStartsMailing DEF AlertInv

\* Only the purge watchdog clears its slot unasked, and its alerts are not counted.
LEMMA RearmKeeps ==
    ASSUME AlertInv, NEW c \in Check, Rearm(c)
    PROVE  AlertInv'
<1>0. AlertTypeOK /\ kind = "purge"
  BY DEF AlertInv, RolesOK, Rearm
<1>1. /\ slot' = [row \in Rows |-> [slot[row] EXCEPT !.sentAt = Never, !.by = NoCheck]]
      /\ check' = [check EXCEPT ![c] = Idle]
      /\ UNCHANGED <<kind, signal, told, mailed, faults>>
  BY DEF Rearm
<1>2. slot' \in [Rows -> SlotRecord]
  <2>1. \A row \in Rows : [slot[row] EXCEPT !.sentAt = Never, !.by = NoCheck] \in SlotRecord
    <3>1. slot \in [Rows -> SlotRecord] /\ Never \in SentAge
      BY <1>0, AlertFields, AlertConstants
    <3>. QED  BY <3>1 DEF SlotRecord
  <2>. QED  BY <1>1, <2>1
<1>3. AlertTypeOK'
  BY <1>0, <1>1, <1>2, IdleCheck, CheckStepType, AlertFields
<1>. QED  BY <1>0, <1>1, <1>3, IdleCheck, NobodyStartsMailing DEF AlertInv, Repeating

\* A check that ends early, and frees its slot if it still holds it.
LEMMA EndsEarly ==
    ASSUME AlertInv, NEW c \in Check, check' = [check EXCEPT ![c] = Idle],
           slot' = slot \/ (check[c].pc \in {"mailing", "members"} /\ slot' = Released(c)),
           faults' \in 0 .. MaxFaults, UNCHANGED <<kind, signal, told, mailed>>
    PROVE  AlertInv'
<1>0. AlertTypeOK
  BY DEF AlertInv
<1>1. /\ slot \in [Rows -> SlotRecord] /\ check \in [Check -> CheckRecord]
      /\ told \in [Rows -> SUBSET Tier] /\ mailed \in [0 .. Horizon -> Nat]
  BY <1>0, AlertFields
<1>2. slot' \in [Rows -> SlotRecord]
  <2>1. CASE slot' = slot
    BY <1>1, <2>1
  <2>2. CASE slot' # slot
    <3>1. /\ check[c].item \in Item
          /\ slot' = [slot EXCEPT ![check[c].item.row] =
                        [sentAt |-> Never, by |-> NoCheck, tier |-> check[c].item.alerted]]
      BY <1>0, <2>2 DEF Released, AlertTypeOK
    <3>2. [sentAt |-> Never, by |-> NoCheck, tier |-> check[c].item.alerted] \in SlotRecord
      BY <3>1, AlertConstants DEF SlotRecord, Item
    <3>. QED  BY <1>1, <3>1, <3>2
  <2>. QED  BY <2>1, <2>2
<1>3. AlertTypeOK'
  BY <1>0, <1>1, <1>2, IdleCheck, CheckStepType
<1>4. \A d \in Check : check'[d] = IF d = c THEN Idle ELSE check[d]
  BY <1>1
<1>5. RolesOK' /\ RepeatingUncounted'
  BY <1>4, IdleCheck DEF AlertInv, RolesOK, RepeatingUncounted, Repeating
<1>6. ASSUME kind \notin Repeating, MaxCheck <= Dedup PROVE ClaimsApart'
  <2>0. ClaimsApart
    BY <1>6 DEF AlertInv
  <2>1. Mailing' = Mailing \ {c} /\ \A d \in Mailing' : check'[d] = check[d]
    BY <1>4, IdleCheck DEF Mailing
  <2>2. CASE slot' = slot
    BY <2>0, <2>1, <2>2 DEF ClaimsApart
  <2>3. CASE slot' # slot
    <3>1. check[c].pc = "mailing" /\ slot["row"].by = c
      <4>1. check[c].pc \in {"mailing", "members"} /\ check[c].item \in Item /\ slot[check[c].item.row].by = c
        BY <1>0, <2>3 DEF Released, AlertTypeOK
      <4>2. check[c].pc # "members"
        BY <1>6 DEF AlertInv, RolesOK, Repeating
      <4>3. check[c].item.row = "row"
        BY <1>6, <4>1, OneRow DEF Item
      <4>. QED  BY <4>1, <4>2, <4>3
    <3>2. c \in Mailing /\ \A d \in Mailing : d = c
      BY <2>0, <3>1 DEF ClaimsApart, Mailing
    <3>3. Mailing' = {}
      BY <2>1, <3>2
    <3>4. \A a \in 0 .. Dedup : ~(mailed[a] > 0)
      BY <2>0, <3>2 DEF ClaimsApart
    <3>. QED  BY <2>0, <3>3, <3>4 DEF ClaimsApart
  <2>. QED  BY <2>2, <2>3
<1>. QED  BY <1>3, <1>5, <1>6 DEF AlertInv, Repeating

\* The members are told: only about a reputation.
LEMMA MailMembersKeeps ==
    ASSUME AlertInv, NEW c \in Check, MailMembers(c)
    PROVE  AlertInv'
<1> DEFINE r == Rest(c, check[c].todo)
<1>0. AlertTypeOK /\ check \in [Check -> CheckRecord] /\ check[c].pc = "members" /\ check[c].item \in Item
  BY AlertFields DEF AlertInv, MailMembers, AlertTypeOK
<1>1. check' = [check EXCEPT ![c] = r] /\ UNCHANGED <<kind, signal, slot, mailed, faults>>
  BY DEF MailMembers, Delivered
<1>2. told' \in [Rows -> SUBSET Tier]
  BY <1>0, AlertFields DEF MailMembers, Delivered, Item
<1>3. check[c].todo \in SUBSET Item
  BY <1>0 DEF CheckRecord
<1>4. r \in CheckRecord /\ r.pc \in {"idle", "working"} /\ r.todo = check[c].todo
  BY <1>0, <1>3, RestCheck
<1> HIDE DEF r
<1>5. AlertTypeOK'
  BY <1>0, <1>1, <1>2, <1>4, CheckStepType, AlertFields
<1>6. kind # "reputation" => \A item \in r.todo : item.tier = "down"
  BY <1>4 DEF AlertInv, RolesOK
<1>. QED  BY <1>1, <1>4, <1>5, <1>6, NobodyStartsMailing DEF AlertInv

\* A claim: the slot was null or older than the window, so whoever else mailed or
\* mails did so on a claim at least that old.
LEMMA ClaimKeeps ==
    ASSUME AlertInv, NEW c \in Check, NEW item \in check[c].todo, Claim(c, item)
    PROVE  AlertInv'
<1>0. /\ AlertTypeOK /\ check \in [Check -> CheckRecord] /\ slot \in [Rows -> SlotRecord]
      /\ mailed \in [0 .. Horizon -> Nat]
      /\ check[c].todo \in SUBSET Item /\ check[c].now \in 0 .. MaxCheck
  BY AlertFields DEF AlertInv, CheckRecord
<1>1. CASE ~Claimable(c, item)
  <2> DEFINE r == Rest(c, check[c].todo \ {item})
  <2>1. check' = [check EXCEPT ![c] = r] /\ UNCHANGED <<kind, signal, slot, told, mailed, faults>>
    BY <1>1 DEF Claim
  <2>2. r \in CheckRecord /\ r.pc \in {"idle", "working"} /\ r.todo = check[c].todo \ {item}
    BY <1>0, RestCheck
  <2> HIDE DEF r
  <2>3. AlertTypeOK'
    BY <1>0, <2>1, <2>2, CheckStepType, AlertFields
  <2>4. kind # "reputation" => \A i \in r.todo : i.tier = "down"
    BY <2>2 DEF AlertInv, RolesOK
  <2>. QED  BY <2>1, <2>2, <2>3, <2>4, NobodyStartsMailing DEF AlertInv
<1>2. CASE Claimable(c, item)
  <2> DEFINE r == [check[c] EXCEPT !.pc = "mailing", !.todo = check[c].todo \ {item}, !.item = item]
             s == [sentAt |-> check[c].now, by |-> c, tier |-> item.tier]
  <2>1. /\ slot' = [slot EXCEPT ![item.row] = s]
        /\ UNCHANGED <<kind, signal, told, mailed, faults>>
    BY <1>2 DEF Claim
  <2>2. item \in Item /\ item.row \in Rows /\ item.tier \in Tier
    BY <1>0 DEF Item
  <2>3. check' = [check EXCEPT ![c] = r]
    BY <1>0, <1>2 DEF Claim, CheckRecord
  <2>4. /\ r \in CheckRecord /\ r.pc = "mailing" /\ r.item = item /\ r.now = check[c].now
        /\ r.todo = check[c].todo \ {item}
    BY <1>0, <2>2 DEF CheckRecord
  <2>5. s \in SlotRecord /\ s.by = c /\ s.sentAt = check[c].now
    BY <1>0, <2>2, AlertConstants DEF SlotRecord
  <2> HIDE DEF r, s
  <2>6. AlertTypeOK'
    BY <1>0, <2>1, <2>2, <2>3, <2>4, <2>5, CheckStepType, AlertFields
  <2>7. \A d \in Check : check'[d] = IF d = c THEN r ELSE check[d]
    BY <1>0, <2>3
  <2>8. RolesOK' /\ RepeatingUncounted'
    BY <2>1, <2>4, <2>7 DEF AlertInv, RolesOK, RepeatingUncounted, Repeating
  <2>9. ASSUME kind \notin Repeating, MaxCheck <= Dedup PROVE ClaimsApart'
    <3>0. ClaimsApart /\ Rows = {"row"} /\ item.row = "row"
      BY <2>2, <2>9, OneRow DEF AlertInv
    <3>1. slot["row"].sentAt > Dedup
      <4>1. item.tier # "critical"
        BY <2>9 DEF AlertInv, RolesOK, Repeating
      <4>2. slot["row"].sentAt = Never \/ slot["row"].sentAt > check[c].now + Dedup
        BY <1>2, <3>0, <4>1 DEF Claimable
      <4>3. slot["row"].sentAt \in 0 .. Never
        BY <1>0, <3>0, AlertConstants DEF SlotRecord
      <4>. QED  BY <1>0, <4>2, <4>3, AlertConstants
    <3>2. \A a \in 0 .. Dedup : ~(mailed[a] > 0)
      <4> SUFFICES ASSUME NEW a \in 0 .. Dedup, mailed[a] > 0 PROVE FALSE
        OBVIOUS
      <4>1. slot["row"].sentAt = a
        BY <3>0 DEF ClaimsApart
      <4>. QED  BY <3>1, <4>1, AlertConstants
    <3>3. Mailing = {}
      <4> SUFFICES ASSUME NEW d \in Mailing PROVE FALSE
        OBVIOUS
      <4>1. slot["row"].sentAt = check[d].now /\ check[d].now \in 0 .. MaxCheck
        BY <1>0, <3>0 DEF ClaimsApart, Mailing, CheckRecord
      <4>. QED  BY <2>9, <3>1, <4>1, AlertConstants
    <3>4. \A d \in Mailing' : d = c
      BY <2>7, <3>3 DEF Mailing
    <3>5. slot'["row"] = s
      BY <1>0, <2>1, <3>0
    <3>6. check'[c].now = check[c].now
      BY <2>4, <2>7
    <3>. QED  BY <2>1, <2>5, <3>0, <3>2, <3>4, <3>5, <3>6 DEF ClaimsApart
  <2>. QED  BY <2>1, <2>6, <2>8, <2>9 DEF AlertInv, Repeating
<1>. QED  BY <1>1, <1>2

\* The mail goes out: it is the only one since the window opened.
LEMMA MailOperatorKeeps ==
    ASSUME AlertInv, NEW c \in Check, MailOperator(c)
    PROVE  AlertInv'
<1>0. /\ AlertTypeOK /\ check \in [Check -> CheckRecord] /\ slot \in [Rows -> SlotRecord]
      /\ mailed \in [0 .. Horizon -> Nat] /\ told \in [Rows -> SUBSET Tier]
      /\ check[c] \in CheckRecord /\ check[c].pc = "mailing" /\ check[c].item \in Item
      /\ check[c].todo \in SUBSET Item /\ check[c].now \in 0 .. MaxCheck
  BY AlertFields DEF AlertInv, CheckRecord, MailOperator, AlertTypeOK
<1> DEFINE n == check[c].now
           r == IF kind = "reputation" THEN [check[c] EXCEPT !.pc = "members"]
                ELSE Rest(c, check[c].todo)
<1>1. /\ mailed' = IF kind \in Repeating THEN mailed ELSE [mailed EXCEPT ![n] = @ + 1]
      /\ UNCHANGED <<kind, signal, slot, faults>>
  BY DEF MailOperator
<1>2. check' = [check EXCEPT ![c] = r]
  BY <1>0 DEF MailOperator, Delivered
<1>3. told' \in [Rows -> SUBSET Tier]
  BY <1>0 DEF MailOperator, Delivered, Item
<1>4. mailed' \in [0 .. Horizon -> Nat]
  BY <1>0, <1>1, AlertConstants
<1>5. /\ r \in CheckRecord /\ r.todo = check[c].todo
      /\ r.pc = "members" => kind = "reputation" /\ r.item \in Item
      /\ r.pc \in {"idle", "working", "members"}
  <2>1. CASE kind = "reputation"
    BY <1>0, <2>1 DEF CheckRecord
  <2>2. CASE kind # "reputation"
    BY <1>0, <2>2, RestCheck
  <2>. QED  BY <2>1, <2>2
<1> HIDE DEF r
<1>6. AlertTypeOK'
  BY <1>0, <1>1, <1>2, <1>3, <1>4, <1>5, CheckStepType, AlertFields
<1>7. \A d \in Check : check'[d] = IF d = c THEN r ELSE check[d]
  BY <1>0, <1>2
<1>8. RolesOK' /\ RepeatingUncounted'
  BY <1>1, <1>5, <1>7 DEF AlertInv, RolesOK, RepeatingUncounted, Repeating
<1>9. ASSUME kind \notin Repeating, MaxCheck <= Dedup PROVE ClaimsApart'
  <2>0. ClaimsApart /\ c \in Mailing
    BY <1>0, <1>9 DEF AlertInv, Mailing
  <2>1. slot["row"].by = c /\ slot["row"].sentAt = n /\ \A d \in Mailing : d = c
    BY <2>0 DEF ClaimsApart
  <2>2. Mailing' = {}
    BY <1>5, <1>7, <2>1 DEF Mailing
  <2>3. n \in 0 .. Dedup /\ n \in 0 .. Horizon
    BY <1>0, <1>9, AlertConstants
  <2>4. \A a \in 0 .. Dedup : mailed[a] = 0
    <3>1. \A a \in 0 .. Dedup : a \in 0 .. Horizon /\ ~(mailed[a] > 0)
      BY <2>0, AlertConstants DEF ClaimsApart
    <3>. QED  BY <1>0, <3>1
  <2>5. \A a \in 0 .. Horizon : mailed'[a] = IF a = n THEN 1 ELSE mailed[a]
    BY <1>0, <1>1, <1>9, <2>3, <2>4
  <2>6. \A a \in 0 .. Dedup : mailed'[a] > 0 => a = n
    <3>1. \A a \in 0 .. Dedup : a \in 0 .. Horizon
      BY AlertConstants
    <3>. QED  BY <2>4, <2>5, <3>1
  <2>7. \A a, b \in 0 .. Horizon : a < b /\ mailed'[a] > 0 /\ mailed'[b] > 0 => b + MaxCheck > a + Dedup
    <3> SUFFICES ASSUME NEW a \in 0 .. Horizon, NEW b \in 0 .. Horizon,
                        a < b, mailed'[a] > 0, mailed'[b] > 0
                 PROVE  b + MaxCheck > a + Dedup
      OBVIOUS
    <3>1. CASE a # n /\ b # n
      BY <2>0, <2>5, <3>1 DEF ClaimsApart
    <3>2. CASE a = n
      <4>1. b > Dedup
        BY <2>6, <3>2, AlertConstants
      <4>. QED  BY <1>0, <3>2, <4>1, AlertConstants
    <3>3. CASE b = n
      <4>1. a \in 0 .. Dedup /\ a # n
        BY <2>3, <3>3, AlertConstants
      <4>. QED  BY <2>6, <4>1
    <3>. QED  BY <3>1, <3>2, <3>3
  <2>8. \A a \in 0 .. Horizon : mailed'[a] <= 1
    BY <2>0, <2>5 DEF ClaimsApart
  <2>. QED  BY <1>1, <2>1, <2>2, <2>6, <2>7, <2>8 DEF ClaimsApart
<1>. QED  BY <1>1, <1>6, <1>8, <1>9 DEF AlertInv, Repeating

\* The slots and mails do not depend on what the signals say.
LEMMA SignalChangesKeeps ==
    ASSUME AlertInv, NEW row \in Rows, SignalChanges(row)
    PROVE  AlertInv'
<1>0. AlertTypeOK /\ told \in [Rows -> SUBSET Tier]
  BY AlertFields DEF AlertInv
<1>1. PICK s \in Signals(row) :
        /\ signal' = [signal EXCEPT ![row] = s]
        /\ told' = IF Trouble(row, s) = "none" THEN [told EXCEPT ![row] = {}] ELSE told
  BY DEF SignalChanges
<1>2. UNCHANGED <<kind, slot, check, mailed, faults>>
  BY DEF SignalChanges
<1>3. signal \in [Rows -> UNION {Signals(w) : w \in Rows}] /\ \A w \in Rows : signal[w] \in Signals(w)
  BY <1>0 DEF AlertTypeOK
<1>4. \A w \in Rows : signal'[w] \in Signals(w)
  BY <1>1, <1>3
<1>5. signal' \in [Rows -> UNION {Signals(w) : w \in Rows}]
  BY <1>1, <1>3
<1>6. told' \in [Rows -> SUBSET Tier]
  BY <1>0, <1>1
<1>7. /\ Rows' = Rows /\ Item' = Item /\ CheckRecord' = CheckRecord
      /\ \A w : Signals(w)' = Signals(w)
  BY <1>2, SameKind
<1>8. signal' \in [Rows' -> UNION {Signals(w)' : w \in Rows'}]
  BY <1>5, <1>7
<1>9. AlertTypeOK'
  BY <1>0, <1>2, <1>4, <1>6, <1>7, <1>8 DEF AlertTypeOK
<1>10. /\ RolesOK' /\ RepeatingUncounted'
       /\ kind' \notin Repeating /\ MaxCheck <= Dedup => ClaimsApart'
  BY <1>2 DEF AlertInv, RolesOK, RepeatingUncounted, ClaimsApart, Mailing, Repeating
<1>. QED  BY <1>9, <1>10 DEF AlertInv

\* Everything gets older by the same tick; what leaves the horizon is too old to matter.
LEMMA ClockTicksKeeps ==
    ASSUME AlertInv, ClockTicks
    PROVE  AlertInv'
<1>0. /\ AlertTypeOK /\ check \in [Check -> CheckRecord] /\ slot \in [Rows -> SlotRecord]
      /\ mailed \in [0 .. Horizon -> Nat]
  BY AlertFields DEF AlertInv
<1>1. /\ \A c \in Check : check[c].now < MaxCheck
      /\ slot' = [row \in Rows |-> [slot[row] EXCEPT !.sentAt = Aged(@)]]
      /\ check' = [c \in Check |-> IF check[c].pc = "idle" THEN Idle ELSE [check[c] EXCEPT !.now = @ + 1]]
      /\ mailed' = [a \in 0 .. Horizon |-> IF a = 0 THEN 0 ELSE mailed[a - 1]]
      /\ UNCHANGED <<kind, signal, told, faults>>
  BY DEF ClockTicks
<1>2. \A a \in SentAge : Aged(a) \in SentAge
  BY AlertConstants DEF Aged
<1>3. \A row \in Rows : /\ slot'[row] \in SlotRecord /\ slot'[row].by = slot[row].by
                        /\ slot'[row].sentAt = Aged(slot[row].sentAt)
  <2> SUFFICES ASSUME NEW row \in Rows
               PROVE  /\ slot'[row] \in SlotRecord /\ slot'[row].by = slot[row].by
                      /\ slot'[row].sentAt = Aged(slot[row].sentAt)
    OBVIOUS
  <2>1. slot[row] \in SlotRecord /\ Aged(slot[row].sentAt) \in SentAge
    BY <1>0, <1>2 DEF SlotRecord
  <2> DEFINE a == Aged(slot[row].sentAt)
  <2>2. slot'[row] = [slot[row] EXCEPT !.sentAt = a]
    BY <1>1, <2>1 DEF SlotRecord
  <2> HIDE DEF a
  <2>3. a \in SentAge
    BY <2>1 DEF a
  <2>4. slot'[row] \in SlotRecord /\ slot'[row].by = slot[row].by /\ slot'[row].sentAt = a
    BY <2>1, <2>2, <2>3 DEF SlotRecord
  <2>. QED  BY <2>4 DEF a
<1>4. slot' \in [Rows -> SlotRecord]
  BY <1>1, <1>3
<1>5. \A c \in Check :
        /\ check'[c] \in CheckRecord
        /\ check'[c].pc = check[c].pc /\ check'[c].todo \subseteq check[c].todo
        /\ check[c].pc # "idle" => check'[c].item = check[c].item /\ check'[c].now = check[c].now + 1
  <2> SUFFICES ASSUME NEW c \in Check
               PROVE  /\ check'[c] \in CheckRecord
                      /\ check'[c].pc = check[c].pc /\ check'[c].todo \subseteq check[c].todo
                      /\ check[c].pc # "idle" => check'[c].item = check[c].item /\ check'[c].now = check[c].now + 1
    OBVIOUS
  <2> DEFINE n == check[c].now + 1
  <2>1. check[c] \in CheckRecord /\ n \in 0 .. MaxCheck
    <3>1. check[c].now \in 0 .. MaxCheck /\ check[c].now < MaxCheck
      BY <1>0, <1>1 DEF CheckRecord
    <3>. QED  BY <1>0, <3>1, AlertConstants
  <2>2. check[c].pc # "idle" => check'[c] = [check[c] EXCEPT !.now = n]
    BY <1>1, <2>1 DEF CheckRecord
  <2> HIDE DEF n
  <2>3. CASE check[c].pc = "idle"
    <3>1. check'[c] = Idle
      BY <1>1, <2>3
    <3>. QED  BY <2>3, <3>1, IdleCheck
  <2>4. CASE check[c].pc # "idle"
    <3>1. /\ check'[c] \in CheckRecord /\ check'[c].pc = check[c].pc /\ check'[c].todo = check[c].todo
          /\ check'[c].item = check[c].item /\ check'[c].now = n
      BY <2>1, <2>2, <2>4 DEF CheckRecord
    <3>. QED  BY <3>1 DEF n
  <2>. QED  BY <2>3, <2>4
<1>6. check' \in [Check -> CheckRecord]
  BY <1>1, <1>5
<1>7. \A a \in 0 .. Horizon : mailed'[a] = IF a = 0 THEN 0 ELSE mailed[a - 1]
  BY <1>1
<1>8. mailed' \in [0 .. Horizon -> Nat]
  <2>1. \A a \in 0 .. Horizon : a # 0 => a - 1 \in 0 .. Horizon
    BY AlertConstants
  <2>. QED  BY <1>0, <1>1, <2>1
<1>9. AlertTypeOK'
  <2>1. /\ Rows' = Rows /\ Item' = Item /\ CheckRecord' = CheckRecord
        /\ \A w : Signals(w)' = Signals(w)
    BY <1>1, SameKind
  <2>2. \A c \in Check : check'[c].pc \in {"mailing", "members"} => check'[c].item \in Item
    BY <1>0, <1>5 DEF AlertTypeOK
  <2>3. /\ kind' \in Kind /\ \A w \in Rows : signal'[w] \in Signals(w)
        /\ signal' \in [Rows -> UNION {Signals(w) : w \in Rows}]
        /\ told' \in [Rows -> SUBSET Tier] /\ faults' \in 0 .. MaxFaults
    BY <1>0, <1>1 DEF AlertTypeOK
  <2>4. signal' \in [Rows' -> UNION {Signals(w)' : w \in Rows'}]
    BY <2>1, <2>3
  <2>. QED  BY <1>4, <1>6, <1>8, <2>1, <2>2, <2>3, <2>4 DEF AlertTypeOK, SlotRecord, CheckRecord
<1>10. RolesOK'
  BY <1>1, <1>5 DEF AlertInv, RolesOK
<1>11. RepeatingUncounted'
  <2>1. \A a \in 0 .. Horizon : a # 0 => a - 1 \in 0 .. Horizon
    BY AlertConstants
  <2>. QED  BY <1>1, <1>7, <2>1 DEF AlertInv, RepeatingUncounted, Repeating
<1>12. ASSUME kind \notin Repeating, MaxCheck <= Dedup PROVE ClaimsApart'
  <2>0. ClaimsApart /\ "row" \in Rows
    BY <1>12, OneRow DEF AlertInv
  <2>1. Mailing' = Mailing
    BY <1>5 DEF Mailing
  <2>2. \A n \in 0 .. Dedup : Aged(n) = n + 1
    BY AlertConstants DEF Aged
  <2>3. \A c \in Mailing' : slot'["row"].by = c /\ slot'["row"].sentAt = check'[c].now
    <3> SUFFICES ASSUME NEW c \in Mailing
                 PROVE  slot'["row"].by = c /\ slot'["row"].sentAt = check'[c].now
      BY <2>1
    <3>1. slot["row"].by = c /\ slot["row"].sentAt = check[c].now
      BY <2>0 DEF ClaimsApart
    <3>2. check[c].now \in 0 .. Dedup /\ check'[c].now = check[c].now + 1
      BY <1>0, <1>5, <1>12, AlertConstants DEF Mailing, CheckRecord
    <3>. QED  BY <1>3, <2>0, <2>2, <3>1, <3>2
  <2>4. \A a \in 0 .. Dedup : mailed'[a] > 0 => slot'["row"].sentAt = a /\ Mailing' = {}
    <3> SUFFICES ASSUME NEW a \in 0 .. Dedup, mailed'[a] > 0
                 PROVE  slot'["row"].sentAt = a /\ Mailing = {}
      BY <2>1
    <3>1. a \in 0 .. Horizon /\ a # 0 /\ mailed[a - 1] > 0
      <4>1. a \in 0 .. Horizon
        BY AlertConstants
      <4>. QED  BY <1>7, <4>1
    <3>2. a - 1 \in 0 .. Dedup
      BY <3>1, AlertConstants
    <3>3. slot["row"].sentAt = a - 1 /\ Mailing = {}
      BY <2>0, <3>1, <3>2 DEF ClaimsApart
    <3>4. Aged(a - 1) = a
      BY <2>2, <3>2
    <3>. QED  BY <1>3, <2>0, <3>3, <3>4
  <2>5. \A a \in 0 .. Horizon : mailed'[a] <= 1
    <3>1. \A a \in 0 .. Horizon : a # 0 => a - 1 \in 0 .. Horizon
      BY AlertConstants
    <3>. QED  BY <1>7, <2>0, <3>1 DEF ClaimsApart
  <2>6. \A a, b \in 0 .. Horizon : a < b /\ mailed'[a] > 0 /\ mailed'[b] > 0 => b + MaxCheck > a + Dedup
    <3> SUFFICES ASSUME NEW a \in 0 .. Horizon, NEW b \in 0 .. Horizon,
                        a < b, mailed'[a] > 0, mailed'[b] > 0
                 PROVE  b + MaxCheck > a + Dedup
      OBVIOUS
    <3>1. a # 0 /\ b # 0 /\ mailed[a - 1] > 0 /\ mailed[b - 1] > 0
      BY <1>7
    <3>2. a - 1 \in 0 .. Horizon /\ b - 1 \in 0 .. Horizon /\ a - 1 < b - 1
      BY <3>1, AlertConstants
    <3>3. (b - 1) + MaxCheck > (a - 1) + Dedup
      BY <2>0, <3>1, <3>2 DEF ClaimsApart
    <3>. QED  BY <3>3, AlertConstants
  <2>. QED  BY <2>3, <2>4, <2>5, <2>6 DEF ClaimsApart
<1>. QED  BY <1>1, <1>9, <1>10, <1>11, <1>12 DEF AlertInv, Repeating

-----------------------------------------------------------------------------
\* Every step keeps the invariant.
LEMMA AlertNextInv == AlertInv /\ [AlertNext]_alertVars => AlertInv'
<1> SUFFICES ASSUME AlertInv, [AlertNext]_alertVars PROVE AlertInv'
  OBVIOUS
<1>1. ASSUME NEW c \in Check, CheckStep(c) PROVE AlertInv'
  BY <1>1, StartCheckKeeps, RearmKeeps, MailOperatorKeeps, MailMembersKeeps, ClaimKeeps DEF CheckStep
<1>2. ASSUME NEW c \in Check, MailFails(c) \/ Crash(c) PROVE AlertInv'
  <2>1. faults' \in 0 .. MaxFaults
    <3>1. faults \in 0 .. MaxFaults
      BY AlertFields DEF AlertInv
    <3>. QED  BY <1>2, <3>1, AlertConstants DEF MailFails, Crash, Fault
  <2>2. /\ check' = [check EXCEPT ![c] = Idle] /\ UNCHANGED <<kind, signal, told, mailed>>
        /\ slot' = slot \/ (check[c].pc \in {"mailing", "members"} /\ slot' = Released(c))
    BY <1>2 DEF MailFails, Crash
  <2>. QED  BY <2>1, <2>2, EndsEarly
<1>3. ASSUME NEW row \in Rows, SignalChanges(row) PROVE AlertInv'
  BY <1>3, SignalChangesKeeps
<1>4. CASE ClockTicks
  BY <1>4, ClockTicksKeeps
<1>5. CASE UNCHANGED alertVars
  <2>1. UNCHANGED <<kind, signal, slot, check, told, mailed, faults>>
    BY <1>5 DEF alertVars
  <2>2. /\ Rows' = Rows /\ Item' = Item /\ \A w : Signals(w)' = Signals(w)
    BY <2>1, SameKind
  <2>3. AlertTypeOK'
    BY <2>1, <2>2 DEF AlertInv, AlertTypeOK
  <2>. QED  BY <2>1, <2>3 DEF AlertInv, RolesOK, RepeatingUncounted, ClaimsApart, Mailing, Repeating
<1>. QED  BY <1>1, <1>2, <1>3, <1>4, <1>5 DEF AlertNext

\* So the invariant holds in every reachable state.
LEMMA AlertInvariant == AlertSpec => []AlertInv
BY AlertInitInv, AlertNextInv, PTL DEF AlertSpec

\* Checks, slots and the history of alerts keep their types, whichever watchdog
\* is followed.
THEOREM AlertTypeTheorem == AlertSpec => []AlertTypeOK
<1>1. AlertInv => AlertTypeOK
  BY DEF AlertInv
<1>. QED  BY <1>1, AlertInvariant, PTL

\* claimOpsAlertSlot and releaseOpsAlertSlot: whatever the replicas claim, mail,
\* fail to mail or leave behind, two alerts about one trouble are the window
\* apart, less the time a check may last.
THEOREM OneAlertPerWindowTheorem == AlertSpec => []OneAlertPerWindow
<1>1. AlertInv => OneAlertPerWindow
  <2> SUFFICES ASSUME AlertInv, NEW a \in 0 .. Horizon, NEW b \in 0 .. Horizon,
                      a <= b, b + MaxCheck <= a + Dedup
               PROVE  mailed[a] + (IF a = b THEN 0 ELSE mailed[b]) <= 1
    BY DEF OneAlertPerWindow
  <2>1. mailed[a] \in Nat /\ mailed[b] \in Nat
    BY AlertFields DEF AlertInv
  <2>2. CASE kind \in Repeating
    BY <2>2 DEF AlertInv, RepeatingUncounted
  <2>3. CASE kind \notin Repeating
    <3>1. MaxCheck <= Dedup /\ a \in Nat /\ b \in Nat
      BY AlertConstants
    <3>2. mailed[a] <= 1 /\ mailed[b] <= 1
      BY <2>3, <3>1 DEF AlertInv, ClaimsApart
    <3>3. a < b => ~(mailed[a] > 0 /\ mailed[b] > 0)
      <4>1. ~(b + MaxCheck > a + Dedup)
        BY <3>1, AlertConstants
      <4>. QED  BY <2>3, <3>1, <4>1 DEF AlertInv, ClaimsApart
    <3>. QED  BY <2>1, <3>1, <3>2, <3>3
  <2>. QED  BY <2>2, <2>3
<1>. QED  BY <1>1, AlertInvariant, PTL
=============================================================================

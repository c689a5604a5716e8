-------------------------- MODULE SendFactsProofs --------------------------
(***************************************************************************)
(* Theorems about the two components that write the facts of SendFacts:    *)
(* WebhookIngestion, for any number of sends, journal rows, events in a    *)
(* batch, crashes, replays and operator actions; and DailyRollup, for any  *)
(* number of sends, events, days and reconciliations that fail.            *)
(***************************************************************************)
EXTENDS WebhookIngestion, DailyRollup, FiniteSetTheorems, WellFoundedInduction, TLAPS

-----------------------------------------------------------------------------
(* The invariants, as facts about the rows they relate.                    *)

\* Send s has a fact that metric m counts.
Has(rows, s, m) == \E f \in CountedFacts(m) : rows.fact[s][f] # Null

\* Each counter is the number of campaign sends that have a fact it counts.
CountsOK(rows) ==
    \A m \in Metric : rows.count[m] = Cardinality({s \in CampaignSend : Has(rows, s, m)})

\* A hard bounce or a complaint leaves the contact suppressed.
Suppressed(rows) ==
    \A s \in Send : rows.fact[s]["bounced_at"] # Null \/ rows.fact[s]["spam_reported_at"] # Null
                    => ContactOf[s] \in rows.hashed /\ rows.status[ContactOf[s]] # "subscribed"

\* The genuine events of a name stored for a send.
Seen(events, s, name) == {k \in events : k.send = s /\ k.event = name /\ ~k.test}

\* Opens and clicks are counted once per stored event.
EngagementOK(events, rows) ==
    \A s \in Send : /\ rows.opens[s] = Cardinality(Seen(events, s, "open"))
                    /\ rows.clicks[s] = Cardinality(Seen(events, s, "click"))

\* What every side effect keeps, but for the open and click counts.
RowsOK(rows) == rows \in Db /\ CountsOK(rows) /\ Suppressed(rows)
\* The open and click counts are left alone.
SameEngagement(rows, new) == new.opens = rows.opens /\ new.clicks = rows.clicks

\* What a transaction takes from the clock: the day, and the side of a running sweep.
Instant == [today : Day, mark : Mark]

\* A rollup with one more on metric m of day d.
OneMore(rollup, d, m) == [rollup EXCEPT ![d] = [rollup[d] EXCEPT ![m] = @ + 1]]

-----------------------------------------------------------------------------
(* The primitives of SendFacts.                                            *)

\* The tables of a workspace.
LEMMA DbFields ==
    ASSUME NEW rows \in Db
    PROVE  /\ rows.fact \in [Send -> [Fact -> Day \cup {Null}]]
           /\ rows.opens \in [Send -> Nat] /\ rows.clicks \in [Send -> Nat]
           /\ rows.count \in [Metric -> Nat]
           /\ rows.status \in [Contact -> SubscriptionStatus]
           /\ rows.streak \in [Contact -> Nat]
           /\ rows.hashed \in SUBSET Contact
           /\ rows.rollup \in [Day -> [Metric -> Nat]]
           /\ rows.dirty \in [Day -> Mark]
BY DEF Db

\* A fact column that was empty is set, and nothing else changes.
LEMMA SetFact ==
    ASSUME NEW rows \in Db, NEW s \in Send, NEW f \in Fact, NEW d \in Day, Unset(rows, s, f)
    PROVE  /\ SetFactColumnOnce(rows, s, f, d) \in Db
           /\ SetFactColumnOnce(rows, s, f, d).fact =
                [rows.fact EXCEPT ![s] = [rows.fact[s] EXCEPT ![f] = d]]
           /\ SetFactColumnOnce(rows, s, f, d).count = rows.count
           /\ SetFactColumnOnce(rows, s, f, d).status = rows.status
           /\ SetFactColumnOnce(rows, s, f, d).streak = rows.streak
           /\ SetFactColumnOnce(rows, s, f, d).hashed = rows.hashed
           /\ SetFactColumnOnce(rows, s, f, d).rollup = rows.rollup
           /\ SameEngagement(rows, SetFactColumnOnce(rows, s, f, d))
<1> DEFINE fact == [rows.fact EXCEPT ![s] = [rows.fact[s] EXCEPT ![f] = d]]
<1>1. SetFactColumnOnce(rows, s, f, d) = [rows EXCEPT !.fact = fact]
  BY DEF SetFactColumnOnce, Db, Unset
<1>2. fact \in [Send -> [Fact -> Day \cup {Null}]]
  BY DbFields
<1> HIDE DEF fact
<1>3. [rows EXCEPT !.fact = fact] \in Db
  BY <1>2 DEF Db
<1>. QED  BY <1>1, <1>3 DEF Db, SameEngagement, fact

\* A counter goes up by one if the send is the campaign's.
LEMMA Counter ==
    ASSUME NEW rows \in Db, NEW s \in Send, NEW m \in Metric
    PROVE  /\ IncrementCampaignCounter(rows, s, m) \in Db
           /\ IncrementCampaignCounter(rows, s, m).count =
                IF s \in CampaignSend THEN [rows.count EXCEPT ![m] = @ + 1] ELSE rows.count
           /\ IncrementCampaignCounter(rows, s, m).fact = rows.fact
           /\ IncrementCampaignCounter(rows, s, m).status = rows.status
           /\ IncrementCampaignCounter(rows, s, m).streak = rows.streak
           /\ IncrementCampaignCounter(rows, s, m).hashed = rows.hashed
           /\ IncrementCampaignCounter(rows, s, m).rollup = rows.rollup
           /\ SameEngagement(rows, IncrementCampaignCounter(rows, s, m))
<1> DEFINE count == [rows.count EXCEPT ![m] = @ + 1]
<1>1. count \in [Metric -> Nat]
  BY DbFields
<1>2. s \in CampaignSend => IncrementCampaignCounter(rows, s, m) = [rows EXCEPT !.count = count]
  BY DEF IncrementCampaignCounter, Db
<1> HIDE DEF count
<1>3. [rows EXCEPT !.count = count] \in Db
  BY <1>1 DEF Db
<1>. QED  BY <1>2, <1>3 DEF Db, IncrementCampaignCounter, SameEngagement, count

\* The daily rollup moves, and nothing else.
LEMMA Rollup ==
    ASSUME NEW rows \in Db, NEW d \in Day, NEW m \in Metric, NEW now \in Instant
    PROVE  /\ IncrementWorkspaceDailyRollup(rows, d, m, now) \in Db
           /\ IncrementWorkspaceDailyRollup(rows, d, m, now).count = rows.count
           /\ IncrementWorkspaceDailyRollup(rows, d, m, now).fact = rows.fact
           /\ IncrementWorkspaceDailyRollup(rows, d, m, now).status = rows.status
           /\ IncrementWorkspaceDailyRollup(rows, d, m, now).streak = rows.streak
           /\ IncrementWorkspaceDailyRollup(rows, d, m, now).hashed = rows.hashed
           /\ IncrementWorkspaceDailyRollup(rows, d, m, now).rollup = OneMore(rows.rollup, d, m)
           /\ SameEngagement(rows, IncrementWorkspaceDailyRollup(rows, d, m, now))
<1> DEFINE rollup == OneMore(rows.rollup, d, m)
           dirty  == [rows.dirty EXCEPT ![d] =
                        IF d # now.today /\ rows.dirty[d] = "clean" THEN now.mark ELSE rows.dirty[d]]
<1>1. rollup \in [Day -> [Metric -> Nat]]
  BY DbFields DEF OneMore
<1>2. dirty \in [Day -> Mark]
  BY DbFields DEF Instant
<1>3. IncrementWorkspaceDailyRollup(rows, d, m, now) =
        [rows EXCEPT !.rollup = rollup, !.dirty = dirty]
  BY DEF IncrementWorkspaceDailyRollup, Db, OneMore
<1> HIDE DEF rollup, dirty
<1>4. [rows EXCEPT !.rollup = rollup, !.dirty = dirty] \in Db
  BY <1>1, <1>2 DEF Db
<1>. QED  BY <1>3, <1>4 DEF Db, SameEngagement, rollup

\* CountFact moves the send's counter and the rollup, and no fact, status or list.
LEMMA CountFactRows ==
    ASSUME NEW rows \in Db, NEW s \in Send, NEW d \in Day, NEW m \in Metric, NEW now \in Instant
    PROVE  /\ CountFact(rows, s, d, m, now) \in Db
           /\ CountFact(rows, s, d, m, now).count =
                IF s \in CampaignSend THEN [rows.count EXCEPT ![m] = @ + 1] ELSE rows.count
           /\ CountFact(rows, s, d, m, now).fact = rows.fact
           /\ CountFact(rows, s, d, m, now).status = rows.status
           /\ CountFact(rows, s, d, m, now).streak = rows.streak
           /\ CountFact(rows, s, d, m, now).hashed = rows.hashed
           /\ CountFact(rows, s, d, m, now).rollup = OneMore(rows.rollup, d, m)
           /\ SameEngagement(rows, CountFact(rows, s, d, m, now))
<1> DEFINE mid == IncrementCampaignCounter(rows, s, m)
<1>1. /\ mid \in Db
      /\ mid.count = IF s \in CampaignSend THEN [rows.count EXCEPT ![m] = @ + 1] ELSE rows.count
      /\ mid.fact = rows.fact /\ mid.status = rows.status
      /\ mid.streak = rows.streak /\ mid.hashed = rows.hashed
      /\ mid.rollup = rows.rollup
      /\ SameEngagement(rows, mid)
  BY Counter
<1> HIDE DEF mid
<1>2. /\ IncrementWorkspaceDailyRollup(mid, d, m, now) \in Db
      /\ IncrementWorkspaceDailyRollup(mid, d, m, now).count = mid.count
      /\ IncrementWorkspaceDailyRollup(mid, d, m, now).fact = mid.fact
      /\ IncrementWorkspaceDailyRollup(mid, d, m, now).status = mid.status
      /\ IncrementWorkspaceDailyRollup(mid, d, m, now).streak = mid.streak
      /\ IncrementWorkspaceDailyRollup(mid, d, m, now).hashed = mid.hashed
      /\ IncrementWorkspaceDailyRollup(mid, d, m, now).rollup = OneMore(mid.rollup, d, m)
      /\ SameEngagement(mid, IncrementWorkspaceDailyRollup(mid, d, m, now))
  BY <1>1, Rollup
<1>3. CountFact(rows, s, d, m, now) = IncrementWorkspaceDailyRollup(mid, d, m, now)
  BY DEF CountFact, mid
<1>. QED  BY <1>1, <1>2, <1>3 DEF SameEngagement

\* The contact of s is suppressed and its address is on the list.
LEMMA Suppress ==
    ASSUME NEW rows \in Db, NEW s \in Send
    PROVE  /\ ApplySuppression(rows, ContactOf[s]) \in Db
           /\ ApplySuppression(rows, ContactOf[s]).fact = rows.fact
           /\ ApplySuppression(rows, ContactOf[s]).count = rows.count
           /\ ApplySuppression(rows, ContactOf[s]).rollup = rows.rollup
           /\ ApplySuppression(rows, ContactOf[s]).status =
                [rows.status EXCEPT ![ContactOf[s]] = "suppressed"]
           /\ ApplySuppression(rows, ContactOf[s]).hashed = rows.hashed \cup {ContactOf[s]}
           /\ SameEngagement(rows, ApplySuppression(rows, ContactOf[s]))
<1> DEFINE c == ContactOf[s]
           status == [rows.status EXCEPT ![c] = "suppressed"]
           hashed == rows.hashed \cup {c}
<1>1. c \in Contact
  BY SendFactsAssumption
<1>2. ApplySuppression(rows, c) = [rows EXCEPT !.status = status, !.hashed = hashed]
  BY DEF ApplySuppression, Db
<1> HIDE DEF c
<1>3. status \in [Contact -> SubscriptionStatus] /\ hashed \in SUBSET Contact
  BY <1>1, DbFields DEF SubscriptionStatus
<1> HIDE DEF status, hashed
<1>4. [rows EXCEPT !.status = status, !.hashed = hashed] \in Db
  BY <1>3 DEF Db
<1>. QED  BY <1>2, <1>4 DEF Db, SameEngagement, c, status, hashed

-----------------------------------------------------------------------------
(* Counters, and the suppression list, across one change.                  *)

\* No fact is counted by two metrics.
LEMMA CountedFactsOnce ==
    ASSUME NEW f \in Fact, NEW m \in Metric, NEW k \in Metric,
           f \in CountedFacts(m), f \in CountedFacts(k)
    PROVE  m = k
BY DEF CountedFacts, Metric, NonDeliveryTerminal

\* Setting a fact of metric m gives the send m, and no other metric.
LEMMA HasAfter ==
    ASSUME NEW rows \in Db, NEW new \in Db, NEW s \in Send, NEW f \in Fact, NEW d \in Day,
           NEW m \in Metric, f \in CountedFacts(m),
           new.fact = [rows.fact EXCEPT ![s] = [rows.fact[s] EXCEPT ![f] = d]],
           Unset(rows, s, f)
    PROVE  \A t \in Send, k \in Metric :
               Has(new, t, k) <=> Has(rows, t, k) \/ (t = s /\ k = m)
<1> SUFFICES ASSUME NEW t \in Send, NEW k \in Metric
             PROVE  Has(new, t, k) <=> Has(rows, t, k) \/ (t = s /\ k = m)
  OBVIOUS
<1>0. CountedFacts(k) \subseteq Fact
  BY DEF CountedFacts, Metric, Fact, NonDeliveryTerminal
<1>1. rows.fact \in [Send -> [Fact -> Day \cup {Null}]] /\ d # Null
  BY DbFields DEF Day, Null
<1>2. \A g \in Fact : new.fact[t][g] = IF t = s /\ g = f THEN d ELSE rows.fact[t][g]
  BY <1>1
<1>3. f \in CountedFacts(k) <=> k = m
  BY CountedFactsOnce
<1>. QED  BY <1>0, <1>1, <1>2, <1>3 DEF Has, Unset

\* The sends of a campaign can be counted.
LEMMA CampaignSendsFinite ==
    ASSUME NEW S \in SUBSET CampaignSend
    PROVE  IsFiniteSet(S) /\ Cardinality(S) \in Nat
BY SendFactsAssumption, FS_Subset, FS_CardinalityType

\* A counter moves exactly when one more send of the campaign has its metric.
LEMMA CountStep ==
    ASSUME NEW rows \in Db, NEW new \in Db, NEW s \in Send, NEW m \in Metric,
           CountsOK(rows), ~Has(rows, s, m),
           \A t \in Send, k \in Metric : Has(new, t, k) <=> Has(rows, t, k) \/ (t = s /\ k = m),
           new.count = IF s \in CampaignSend THEN [rows.count EXCEPT ![m] = @ + 1] ELSE rows.count
    PROVE  CountsOK(new)
<1> SUFFICES ASSUME NEW k \in Metric
             PROVE  new.count[k] = Cardinality({t \in CampaignSend : Has(new, t, k)})
  BY DEF CountsOK
<1> DEFINE Old == {t \in CampaignSend : Has(rows, t, k)}
           New == {t \in CampaignSend : Has(new, t, k)}
<1>1. rows.count \in [Metric -> Nat] /\ rows.count[k] = Cardinality(Old)
  BY DbFields DEF CountsOK
<1>2. IsFiniteSet(Old)
  BY CampaignSendsFinite
<1>3. CASE s \in CampaignSend /\ k = m
  <2>1. New = Old \cup {s} /\ s \notin Old
    BY <1>3, SendFactsAssumption
  <2>2. Cardinality(New) = Cardinality(Old) + 1
    BY <1>2, <2>1, FS_AddElement
  <2>. QED  BY <1>1, <1>3, <2>2
<1>4. CASE ~(s \in CampaignSend /\ k = m)
  <2>1. New = Old
    BY <1>4, SendFactsAssumption
  <2>2. new.count[k] = rows.count[k]
    BY <1>1, <1>4
  <2>. QED  BY <1>1, <2>1, <2>2
<1>. QED  BY <1>3, <1>4

\* The counters stay right while no send gains a metric.
LEMMA CountsSame ==
    ASSUME NEW rows \in Db, NEW new \in Db, CountsOK(rows), new.count = rows.count,
           \A t \in Send, k \in Metric : Has(new, t, k) <=> Has(rows, t, k)
    PROVE  CountsOK(new)
<1>1. \A k \in Metric : {t \in CampaignSend : Has(new, t, k)} = {t \in CampaignSend : Has(rows, t, k)}
  BY SendFactsAssumption
<1>. QED  BY <1>1 DEF CountsOK

\* What may change without a bounced or reported address leaving the list.
LEMMA SuppressedStep ==
    ASSUME NEW rows \in Db, NEW new \in Db, Suppressed(rows),
           rows.hashed \subseteq new.hashed,
           \A c \in Contact : new.status[c] = "subscribed" => rows.status[c] = "subscribed",
           \A t \in Send :
               new.fact[t]["bounced_at"] # Null \/ new.fact[t]["spam_reported_at"] # Null
               => \/ rows.fact[t]["bounced_at"] # Null \/ rows.fact[t]["spam_reported_at"] # Null
                  \/ ContactOf[t] \in new.hashed /\ new.status[ContactOf[t]] # "subscribed"
    PROVE  Suppressed(new)
<1>1. \A t \in Send : ContactOf[t] \in Contact
  BY SendFactsAssumption
<1>. QED  BY <1>1 DEF Suppressed

\* A fact other than the two that suppress leaves the list as it should be.
LEMMA SuppressedFact ==
    ASSUME NEW rows \in Db, NEW new \in Db, NEW s \in Send, NEW f \in Fact, NEW d \in Day,
           Suppressed(rows), f \notin {"bounced_at", "spam_reported_at"},
           new.fact = [rows.fact EXCEPT ![s] = [rows.fact[s] EXCEPT ![f] = d]],
           new.hashed = rows.hashed,
           \A c \in Contact : new.status[c] = "subscribed" => rows.status[c] = "subscribed"
    PROVE  Suppressed(new)
<1>1. rows.fact \in [Send -> [Fact -> Day \cup {Null}]]
  BY DbFields
<1>2. {"bounced_at", "spam_reported_at"} \subseteq Fact
  BY DEF Fact
<1>3. \A t \in Send : \A g \in {"bounced_at", "spam_reported_at"} :
          new.fact[t][g] = rows.fact[t][g]
  BY <1>1, <1>2
<1>4. /\ rows.hashed \subseteq new.hashed
      /\ \A t \in Send :
             new.fact[t]["bounced_at"] # Null \/ new.fact[t]["spam_reported_at"] # Null
             => rows.fact[t]["bounced_at"] # Null \/ rows.fact[t]["spam_reported_at"] # Null
  BY <1>3
<1>. QED  BY <1>4, SuppressedStep

-----------------------------------------------------------------------------
(* The events.                                                             *)

\* The streak of soft bounces is nobody's business here.
LEMMA Streak ==
    ASSUME NEW rows \in Db, NEW s \in Send, NEW n \in Nat
    PROVE  /\ [rows EXCEPT !.streak[ContactOf[s]] = n] \in Db
           /\ [rows EXCEPT !.streak[ContactOf[s]] = n].fact = rows.fact
           /\ [rows EXCEPT !.streak[ContactOf[s]] = n].count = rows.count
           /\ [rows EXCEPT !.streak[ContactOf[s]] = n].status = rows.status
           /\ [rows EXCEPT !.streak[ContactOf[s]] = n].hashed = rows.hashed
           /\ [rows EXCEPT !.streak[ContactOf[s]] = n].streak =
                [rows.streak EXCEPT ![ContactOf[s]] = n]
           /\ SameEngagement(rows, [rows EXCEPT !.streak[ContactOf[s]] = n])
<1> DEFINE streak == [rows.streak EXCEPT ![ContactOf[s]] = n]
<1>1. streak \in [Contact -> Nat]
  BY DbFields
<1>2. [rows EXCEPT !.streak[ContactOf[s]] = n] = [rows EXCEPT !.streak = streak]
  BY DEF Db
<1> HIDE DEF streak
<1>3. [rows EXCEPT !.streak = streak] \in Db
  BY <1>1 DEF Db
<1>. QED  BY <1>2, <1>3 DEF Db, SameEngagement, streak

\* A fact that has a metric of its own is set, and counted in the campaign.
LEMMA NewFactCounted ==
    ASSUME NEW rows, RowsOK(rows), NEW new \in Db, NEW s \in Send, NEW f \in Fact, NEW d \in Day,
           NEW m \in Metric, CountedFacts(m) = {f}, Unset(rows, s, f),
           new.fact = [rows.fact EXCEPT ![s] = [rows.fact[s] EXCEPT ![f] = d]],
           new.count = IF s \in CampaignSend THEN [rows.count EXCEPT ![m] = @ + 1] ELSE rows.count,
           new.hashed = rows.hashed,
           \A c \in Contact : new.status[c] = "subscribed" => rows.status[c] = "subscribed"
    PROVE  RowsOK(new)
<1>0. rows \in Db /\ CountsOK(rows) /\ Suppressed(rows)
  BY DEF RowsOK
<1>1. ~Has(rows, s, m)
  BY DEF Has, Unset
<1>2. \A t \in Send, k \in Metric : Has(new, t, k) <=> Has(rows, t, k) \/ (t = s /\ k = m)
  BY <1>0, HasAfter
<1>3. CountsOK(new)
  BY <1>0, <1>1, <1>2, CountStep
<1>4. f \notin {"bounced_at", "spam_reported_at"}
  BY DEF CountedFacts, Metric, NonDeliveryTerminal
<1>5. Suppressed(new)
  BY <1>0, <1>4, SuppressedFact
<1>. QED  BY <1>3, <1>5 DEF RowsOK

\* The same with the daily rollup.
LEMMA CountNewFact ==
    ASSUME NEW rows, RowsOK(rows), NEW mid \in Db, NEW s \in Send, NEW f \in Fact, NEW d \in Day,
           NEW m \in Metric, NEW now \in Instant,
           CountedFacts(m) = {f}, Unset(rows, s, f),
           mid.fact = [rows.fact EXCEPT ![s] = [rows.fact[s] EXCEPT ![f] = d]],
           mid.count = rows.count, mid.hashed = rows.hashed,
           \A c \in Contact : mid.status[c] = "subscribed" => rows.status[c] = "subscribed"
    PROVE  RowsOK(CountFact(mid, s, d, m, now)) /\ SameEngagement(mid, CountFact(mid, s, d, m, now))
<1> DEFINE new == CountFact(mid, s, d, m, now)
<1>1. /\ new \in Db
      /\ new.count = IF s \in CampaignSend THEN [mid.count EXCEPT ![m] = @ + 1] ELSE mid.count
      /\ new.fact = mid.fact /\ new.status = mid.status /\ new.hashed = mid.hashed
      /\ SameEngagement(mid, new)
  BY CountFactRows
<1> HIDE DEF new
<1>2. new.count = IF s \in CampaignSend THEN [rows.count EXCEPT ![m] = @ + 1] ELSE rows.count
  BY <1>1
<1>3. RowsOK(new)
  BY <1>1, <1>2, NewFactCounted
<1>. QED  BY <1>1, <1>3 DEF new

\* delivered: the fact once, its counters, the end of the soft-bounce streak.
LEMMA DeliveredKeeps ==
    ASSUME NEW rows, RowsOK(rows), NEW s \in Send, NEW d \in Day, NEW now \in Instant
    PROVE  RowsOK(Delivered(rows, s, d, now)) /\ SameEngagement(rows, Delivered(rows, s, d, now))
<1>0. rows \in Db
  BY DEF RowsOK
<1>1. CASE ~Unset(rows, s, "delivered_at")
  BY <1>1 DEF Delivered, SameEngagement
<1>2. CASE Unset(rows, s, "delivered_at")
  <2> DEFINE set == SetFactColumnOnce(rows, s, "delivered_at", d)
             mid == [set EXCEPT !.streak[ContactOf[s]] = 0]
  <2>1. "delivered_at" \in Fact /\ "delivered" \in Metric /\ CountedFacts("delivered") = {"delivered_at"}
    BY DEF Fact, Metric, CountedFacts
  <2>2. /\ set \in Db /\ set.count = rows.count /\ set.status = rows.status /\ set.hashed = rows.hashed
        /\ set.fact = [rows.fact EXCEPT ![s] = [rows.fact[s] EXCEPT !["delivered_at"] = d]]
        /\ SameEngagement(rows, set)
    BY <1>0, <1>2, <2>1, SetFact
  <2> HIDE DEF set
  <2>3. /\ mid \in Db /\ mid.count = set.count /\ mid.status = set.status /\ mid.hashed = set.hashed
        /\ mid.fact = set.fact /\ SameEngagement(set, mid)
    BY <2>2, Streak
  <2> HIDE DEF mid
  <2>4. RowsOK(CountFact(mid, s, d, "delivered", now)) /\ SameEngagement(mid, CountFact(mid, s, d, "delivered", now))
    BY <1>2, <2>1, <2>2, <2>3, CountNewFact
  <2>5. Delivered(rows, s, d, now) = CountFact(mid, s, d, "delivered", now)
    BY <1>2 DEF Delivered, mid, set
  <2>. QED  BY <2>2, <2>3, <2>4, <2>5 DEF SameEngagement
<1>. QED  BY <1>1, <1>2

\* A fact of its own metric that is set and counted the first time only.
FirstTime(rows, s, f, d, m, now) ==
    IF Unset(rows, s, f) THEN CountFact(SetFactColumnOnce(rows, s, f, d), s, d, m, now) ELSE rows

\* Counted or not, a first open or click keeps the rows good.
LEMMA FirstTimeKeeps ==
    ASSUME NEW rows, RowsOK(rows), NEW s \in Send, NEW f \in Fact, NEW d \in Day,
           NEW m \in Metric, NEW now \in Instant, CountedFacts(m) = {f}
    PROVE  RowsOK(FirstTime(rows, s, f, d, m, now)) /\ SameEngagement(rows, FirstTime(rows, s, f, d, m, now))
<1>0. rows \in Db
  BY DEF RowsOK
<1>1. CASE ~Unset(rows, s, f)
  BY <1>1 DEF FirstTime, SameEngagement
<1>2. CASE Unset(rows, s, f)
  <2> DEFINE set == SetFactColumnOnce(rows, s, f, d)
  <2>1. /\ set \in Db /\ set.count = rows.count /\ set.status = rows.status /\ set.hashed = rows.hashed
        /\ set.fact = [rows.fact EXCEPT ![s] = [rows.fact[s] EXCEPT ![f] = d]]
        /\ SameEngagement(rows, set)
    BY <1>0, <1>2, SetFact
  <2> HIDE DEF set
  <2>2. RowsOK(CountFact(set, s, d, m, now)) /\ SameEngagement(set, CountFact(set, s, d, m, now))
    BY <1>2, <2>1, CountNewFact
  <2>3. FirstTime(rows, s, f, d, m, now) = CountFact(set, s, d, m, now)
    BY <1>2 DEF FirstTime, set
  <2>. QED  BY <2>1, <2>2, <2>3 DEF SameEngagement
<1>. QED  BY <1>1, <1>2

\* The open and click counts are in no other invariant.
LEMMA Engage ==
    ASSUME NEW rows, RowsOK(rows), NEW s \in Send
    PROVE  /\ RowsOK([rows EXCEPT !.opens[s] = @ + 1])
           /\ [rows EXCEPT !.opens[s] = @ + 1].opens = [rows.opens EXCEPT ![s] = @ + 1]
           /\ [rows EXCEPT !.opens[s] = @ + 1].clicks = rows.clicks
           /\ RowsOK([rows EXCEPT !.clicks[s] = @ + 1])
           /\ [rows EXCEPT !.clicks[s] = @ + 1].clicks = [rows.clicks EXCEPT ![s] = @ + 1]
           /\ [rows EXCEPT !.clicks[s] = @ + 1].opens = rows.opens
<1> DEFINE opens == [rows.opens EXCEPT ![s] = @ + 1]
           clicks == [rows.clicks EXCEPT ![s] = @ + 1]
           opened == [rows EXCEPT !.opens = opens]
           clicked == [rows EXCEPT !.clicks = clicks]
<1>0. rows \in Db
  BY DEF RowsOK
<1>1. opens \in [Send -> Nat] /\ clicks \in [Send -> Nat]
  BY <1>0, DbFields
<1>2. [rows EXCEPT !.opens[s] = @ + 1] = opened /\ [rows EXCEPT !.clicks[s] = @ + 1] = clicked
  BY <1>0 DEF Db
<1> HIDE DEF opens, clicks
<1>3. opened \in Db /\ clicked \in Db
  BY <1>0, <1>1 DEF Db
<1>4. /\ opened.opens = opens /\ opened.clicks = rows.clicks
      /\ opened.fact = rows.fact /\ opened.count = rows.count
      /\ opened.status = rows.status /\ opened.hashed = rows.hashed
  BY <1>0 DEF Db
<1>5. /\ clicked.clicks = clicks /\ clicked.opens = rows.opens
      /\ clicked.fact = rows.fact /\ clicked.count = rows.count
      /\ clicked.status = rows.status /\ clicked.hashed = rows.hashed
  BY <1>0 DEF Db
<1> HIDE DEF opened, clicked
<1>6. RowsOK(opened) /\ RowsOK(clicked)
  BY <1>3, <1>4, <1>5 DEF RowsOK, CountsOK, Suppressed, Has
<1>. QED  BY <1>2, <1>4, <1>5, <1>6 DEF opens, clicks

\* open: every one counts for the send, the first for the campaign.
LEMMA OpenedKeeps ==
    ASSUME NEW rows, RowsOK(rows), NEW s \in Send, NEW d \in Day, NEW now \in Instant
    PROVE  /\ RowsOK(Opened(rows, s, d, now))
           /\ Opened(rows, s, d, now).opens = [rows.opens EXCEPT ![s] = @ + 1]
           /\ Opened(rows, s, d, now).clicks = rows.clicks
<1> DEFINE set == FirstTime(rows, s, "first_opened_at", d, "opened", now)
<1>1. "first_opened_at" \in Fact /\ "opened" \in Metric /\ CountedFacts("opened") = {"first_opened_at"}
  BY DEF Fact, Metric, CountedFacts
<1>2. RowsOK(set) /\ SameEngagement(rows, set)
  BY <1>1, FirstTimeKeeps
<1>3. Opened(rows, s, d, now) = [set EXCEPT !.opens[s] = @ + 1]
  BY DEF Opened, FirstTime
<1> HIDE DEF set
<1>4. /\ RowsOK([set EXCEPT !.opens[s] = @ + 1])
      /\ [set EXCEPT !.opens[s] = @ + 1].opens = [set.opens EXCEPT ![s] = @ + 1]
      /\ [set EXCEPT !.opens[s] = @ + 1].clicks = set.clicks
  BY <1>2, Engage
<1>. QED  BY <1>2, <1>3, <1>4 DEF SameEngagement

\* click: likewise.
LEMMA ClickedKeeps ==
    ASSUME NEW rows, RowsOK(rows), NEW s \in Send, NEW d \in Day, NEW now \in Instant
    PROVE  /\ RowsOK(Clicked(rows, s, d, now))
           /\ Clicked(rows, s, d, now).clicks = [rows.clicks EXCEPT ![s] = @ + 1]
           /\ Clicked(rows, s, d, now).opens = rows.opens
<1> DEFINE set == FirstTime(rows, s, "first_clicked_at", d, "clicked", now)
<1>1. "first_clicked_at" \in Fact /\ "clicked" \in Metric /\ CountedFacts("clicked") = {"first_clicked_at"}
  BY DEF Fact, Metric, CountedFacts
<1>2. RowsOK(set) /\ SameEngagement(rows, set)
  BY <1>1, FirstTimeKeeps
<1>3. Clicked(rows, s, d, now) = [set EXCEPT !.clicks[s] = @ + 1]
  BY DEF Clicked, FirstTime
<1> HIDE DEF set
<1>4. /\ RowsOK([set EXCEPT !.clicks[s] = @ + 1])
      /\ [set EXCEPT !.clicks[s] = @ + 1].clicks = [set.clicks EXCEPT ![s] = @ + 1]
      /\ [set EXCEPT !.clicks[s] = @ + 1].opens = set.opens
  BY <1>2, Engage
<1>. QED  BY <1>2, <1>3, <1>4 DEF SameEngagement

-----------------------------------------------------------------------------
\* A send with one terminal after another was set had none before.
LEMMA FirstTerminal ==
    ASSUME NEW rows \in Db, NEW set \in Db, NEW s \in Send, NEW f \in NonDeliveryTerminal,
           NEW d \in Day, Unset(rows, s, f),
           set.fact = [rows.fact EXCEPT ![s] = [rows.fact[s] EXCEPT ![f] = d]],
           Cardinality({g \in NonDeliveryTerminal : set.fact[s][g] # Null}) = 1
    PROVE  ~Has(rows, s, "bounced")
<1> DEFINE Terms(r) == {g \in NonDeliveryTerminal : r.fact[s][g] # Null}
<1>1. NonDeliveryTerminal \subseteq Fact /\ CountedFacts("bounced") = NonDeliveryTerminal
  BY DEF Fact, Metric, CountedFacts, NonDeliveryTerminal
<1>2. Terms(set) = Terms(rows) \cup {f} /\ f \notin Terms(rows)
  BY <1>1, DbFields DEF Unset, Day, Null
<1>3. IsFiniteSet(NonDeliveryTerminal)
  <2>1. \A x : IsFiniteSet({x})
    BY FS_Singleton
  <2>2. NonDeliveryTerminal = {"bounced_at"} \cup {"dropped_at"} \cup {"spam_reported_at"}
    BY DEF NonDeliveryTerminal
  <2>. QED  BY <2>1, <2>2, FS_Union
<1>4. \E x : Terms(set) = {x}
  <2>1. IsFiniteSet(Terms(set))
    BY <1>3, FS_Subset
  <2>. QED  BY <2>1, FS_Singleton
<1>5. Terms(rows) = {}
  BY <1>2, <1>4
<1>. QED  BY <1>1, <1>5 DEF Has

\* Setting a terminal: the first of the send is a bounce, a later one is not.
\* What becomes of the list is up to the caller.
LEMMA TerminalRows ==
    ASSUME NEW rows, RowsOK(rows), NEW s \in Send, NEW f \in NonDeliveryTerminal, NEW d \in Day,
           NEW now \in Instant, Unset(rows, s, f)
    PROVE  /\ Terminal(rows, s, f, d, now) \in Db
           /\ CountsOK(Terminal(rows, s, f, d, now))
           /\ Terminal(rows, s, f, d, now).fact =
                [rows.fact EXCEPT ![s] = [rows.fact[s] EXCEPT ![f] = d]]
           /\ Terminal(rows, s, f, d, now).status = rows.status
           /\ Terminal(rows, s, f, d, now).hashed = rows.hashed
           /\ SameEngagement(rows, Terminal(rows, s, f, d, now))
<1> DEFINE set == SetFactColumnOnce(rows, s, f, d)
           Terms(r) == {g \in NonDeliveryTerminal : r.fact[s][g] # Null}
<1>0. rows \in Db /\ CountsOK(rows) /\ d # Null
  BY DEF RowsOK, Day, Null
<1>1. /\ NonDeliveryTerminal \subseteq Fact /\ "bounced" \in Metric
      /\ CountedFacts("bounced") = NonDeliveryTerminal
  BY DEF Fact, Metric, CountedFacts, NonDeliveryTerminal
<1>2. /\ set \in Db /\ set.count = rows.count /\ set.status = rows.status /\ set.hashed = rows.hashed
      /\ set.fact = [rows.fact EXCEPT ![s] = [rows.fact[s] EXCEPT ![f] = d]]
      /\ SameEngagement(rows, set)
  BY <1>0, <1>1, SetFact
<1>3. Terminal(rows, s, f, d, now) = CountIfFirstTerminal(set, s, d, now)
  BY DEF Terminal
<1> HIDE DEF set
<1>4. \A t \in Send, k \in Metric : Has(set, t, k) <=> Has(rows, t, k) \/ (t = s /\ k = "bounced")
  BY <1>0, <1>1, <1>2, HasAfter
<1>5. Terms(set) = Terms(rows) \cup {f} /\ f \notin Terms(rows)
  BY <1>0, <1>1, <1>2, DbFields DEF Unset
<1>6. CASE Cardinality(Terms(set)) = 1
  <2>1. ~Has(rows, s, "bounced")
    BY <1>0, <1>2, <1>6, FirstTerminal
  <2> DEFINE new == CountFact(set, s, d, "bounced", now)
  <2>2. /\ new \in Db
        /\ new.count = IF s \in CampaignSend THEN [set.count EXCEPT !["bounced"] = @ + 1] ELSE set.count
        /\ new.fact = set.fact /\ new.status = set.status /\ new.hashed = set.hashed
        /\ SameEngagement(set, new)
    BY <1>1, <1>2, CountFactRows
  <2> HIDE DEF new
  <2>3. \A t \in Send, k \in Metric : Has(new, t, k) <=> Has(rows, t, k) \/ (t = s /\ k = "bounced")
    BY <1>4, <2>2 DEF Has
  <2>a. new.count = IF s \in CampaignSend THEN [rows.count EXCEPT !["bounced"] = @ + 1] ELSE rows.count
    BY <1>2, <2>2
  <2>4. CountsOK(new)
    BY <1>0, <1>1, <2>1, <2>2, <2>3, <2>a, CountStep
  <2>5. CountIfFirstTerminal(set, s, d, now) = new
    BY <1>6 DEF CountIfFirstTerminal, new
  <2>. QED  BY <1>2, <1>3, <2>2, <2>4, <2>5 DEF SameEngagement
<1>7. CASE Cardinality(Terms(set)) # 1
  <2>1. Terms(rows) # {}
    <3>1. Terms(rows) = {} => Terms(set) = {f}
      BY <1>5
    <3>2. Cardinality({f}) = 1
      BY FS_Singleton
    <3>. QED  BY <1>7, <3>1, <3>2
  <2>2. Has(rows, s, "bounced")
    BY <1>1, <2>1 DEF Has
  <2>3. CountsOK(set)
    BY <1>0, <1>2, <1>4, <2>2, CountsSame
  <2>4. CountIfFirstTerminal(set, s, d, now) = set
    BY <1>7 DEF CountIfFirstTerminal
  <2>. QED  BY <1>2, <1>3, <2>3, <2>4
<1>. QED  BY <1>6, <1>7

\* Suppressing the contact of a send touches no counter, and lists the address.
LEMMA SuppressKeeps ==
    ASSUME NEW rows, RowsOK(rows), NEW mid \in Db, NEW s \in Send, NEW f \in Fact, NEW d \in Day,
           CountsOK(mid), SameEngagement(rows, mid),
           mid.fact = [rows.fact EXCEPT ![s] = [rows.fact[s] EXCEPT ![f] = d]],
           mid.status = rows.status, mid.hashed = rows.hashed
    PROVE  /\ RowsOK(ApplySuppression(mid, ContactOf[s]))
           /\ SameEngagement(rows, ApplySuppression(mid, ContactOf[s]))
<1> DEFINE new == ApplySuppression(mid, ContactOf[s])
<1>0. rows \in Db /\ Suppressed(rows)
  BY DEF RowsOK
<1>1. /\ new \in Db /\ new.fact = mid.fact /\ new.count = mid.count
      /\ new.status = [mid.status EXCEPT ![ContactOf[s]] = "suppressed"]
      /\ new.hashed = mid.hashed \cup {ContactOf[s]}
      /\ SameEngagement(mid, new)
  BY Suppress
<1> HIDE DEF new
<1>2. CountsOK(new)
  BY <1>1 DEF CountsOK, Has
<1>3. rows.fact \in [Send -> [Fact -> Day \cup {Null}]] /\ rows.status \in [Contact -> SubscriptionStatus]
  BY <1>0, DbFields
<1>4. {"bounced_at", "spam_reported_at"} \subseteq Fact
  BY DEF Fact
<1>5. \A t \in Send \ {s} : \A g \in {"bounced_at", "spam_reported_at"} :
          new.fact[t][g] = rows.fact[t][g]
  BY <1>1, <1>3, <1>4
<1>6. ContactOf[s] \in Contact /\ new.status[ContactOf[s]] = "suppressed"
  BY <1>1, <1>3, SendFactsAssumption
<1>7. \A c \in Contact : new.status[c] = "subscribed" => rows.status[c] = "subscribed"
  BY <1>1, <1>3
<1>8. rows.hashed \subseteq new.hashed /\ ContactOf[s] \in new.hashed
  BY <1>1
<1>9. \A t \in Send :
          new.fact[t]["bounced_at"] # Null \/ new.fact[t]["spam_reported_at"] # Null
          => \/ rows.fact[t]["bounced_at"] # Null \/ rows.fact[t]["spam_reported_at"] # Null
             \/ ContactOf[t] \in new.hashed /\ new.status[ContactOf[t]] # "subscribed"
  BY <1>5, <1>6, <1>8
<1>10. Suppressed(new)
  BY <1>0, <1>1, <1>7, <1>8, <1>9, SuppressedStep
<1>. QED  BY <1>1, <1>2, <1>10 DEF RowsOK, SameEngagement, new

-----------------------------------------------------------------------------
\* A hard bounce: the fact and its counter once, and the address on the list.
LEMMA BouncedHardKeeps ==
    ASSUME NEW rows, RowsOK(rows), NEW s \in Send, NEW d \in Day, NEW now \in Instant
    PROVE  RowsOK(BouncedHard(rows, s, d, now)) /\ SameEngagement(rows, BouncedHard(rows, s, d, now))
<1>1. CASE ~Unset(rows, s, "bounced_at")
  BY <1>1 DEF BouncedHard, SameEngagement
<1>2. CASE Unset(rows, s, "bounced_at")
  <2> DEFINE mid == Terminal(rows, s, "bounced_at", d, now)
  <2>1. "bounced_at" \in NonDeliveryTerminal /\ "bounced_at" \in Fact
    BY DEF NonDeliveryTerminal, Fact
  <2>2. /\ mid \in Db /\ CountsOK(mid) /\ SameEngagement(rows, mid)
        /\ mid.fact = [rows.fact EXCEPT ![s] = [rows.fact[s] EXCEPT !["bounced_at"] = d]]
        /\ mid.status = rows.status /\ mid.hashed = rows.hashed
    BY <1>2, <2>1, TerminalRows
  <2>3. BouncedHard(rows, s, d, now) = ApplySuppression(mid, ContactOf[s])
    BY <1>2 DEF BouncedHard
  <2> HIDE DEF mid
  <2>. QED  BY <2>1, <2>2, <2>3, SuppressKeeps
<1>. QED  BY <1>1, <1>2

\* A spam report: likewise.
LEMMA SpamReportedKeeps ==
    ASSUME NEW rows, RowsOK(rows), NEW s \in Send, NEW d \in Day, NEW now \in Instant
    PROVE  RowsOK(SpamReported(rows, s, d, now)) /\ SameEngagement(rows, SpamReported(rows, s, d, now))
<1>1. CASE ~Unset(rows, s, "spam_reported_at")
  BY <1>1 DEF SpamReported, SameEngagement
<1>2. CASE Unset(rows, s, "spam_reported_at")
  <2> DEFINE mid == Terminal(rows, s, "spam_reported_at", d, now)
  <2>1. "spam_reported_at" \in NonDeliveryTerminal /\ "spam_reported_at" \in Fact
    BY DEF NonDeliveryTerminal, Fact
  <2>2. /\ mid \in Db /\ CountsOK(mid) /\ SameEngagement(rows, mid)
        /\ mid.fact = [rows.fact EXCEPT ![s] = [rows.fact[s] EXCEPT !["spam_reported_at"] = d]]
        /\ mid.status = rows.status /\ mid.hashed = rows.hashed
    BY <1>2, <2>1, TerminalRows
  <2>3. SpamReported(rows, s, d, now) = ApplySuppression(mid, ContactOf[s])
    BY <1>2 DEF SpamReported
  <2> HIDE DEF mid
  <2>. QED  BY <2>1, <2>2, <2>3, SuppressKeeps
<1>. QED  BY <1>1, <1>2

\* A soft bounce: the streak, and a hard bounce when it is too long.
LEMMA BouncedSoftKeeps ==
    ASSUME NEW rows, RowsOK(rows), NEW s \in Send, NEW d \in Day, NEW now \in Instant
    PROVE  RowsOK(BouncedSoft(rows, s, d, now)) /\ SameEngagement(rows, BouncedSoft(rows, s, d, now))
<1> DEFINE n == rows.streak[ContactOf[s]] + 1
           counted == [rows EXCEPT !.streak[ContactOf[s]] = n]
<1>1. rows \in Db /\ ContactOf[s] \in Contact
  BY SendFactsAssumption DEF RowsOK
<1>2. n \in Nat
  BY <1>1, DbFields
<1>3. BouncedSoft(rows, s, d, now) \in {counted, BouncedHard(counted, s, d, now)}
  BY DEF BouncedSoft
<1> HIDE DEF n
<1>4. /\ counted \in Db /\ counted.fact = rows.fact /\ counted.count = rows.count
      /\ counted.status = rows.status /\ counted.hashed = rows.hashed
      /\ SameEngagement(rows, counted)
  BY <1>1, <1>2, Streak
<1> HIDE DEF counted
<1>5. RowsOK(counted)
  BY <1>4 DEF RowsOK, CountsOK, Suppressed, Has
<1>6. RowsOK(BouncedHard(counted, s, d, now)) /\ SameEngagement(counted, BouncedHard(counted, s, d, now))
  BY <1>5, BouncedHardKeeps
<1>. QED  BY <1>3, <1>4, <1>5, <1>6 DEF SameEngagement

\* The contact unsubscribes, and the fact is set unless it was: nobody who was
\* not subscribed becomes so, and the list stays.
LEMMA UnsubscribeRows ==
    ASSUME NEW rows \in Db, NEW s \in Send, NEW d \in Day
    PROVE  /\ ApplyUnsubscribeWithSendFact(rows, s, d) \in Db
           /\ ApplyUnsubscribeWithSendFact(rows, s, d).fact =
                IF Unset(rows, s, "unsubscribed_at")
                THEN [rows.fact EXCEPT ![s] = [rows.fact[s] EXCEPT !["unsubscribed_at"] = d]]
                ELSE rows.fact
           /\ ApplyUnsubscribeWithSendFact(rows, s, d).count = rows.count
           /\ ApplyUnsubscribeWithSendFact(rows, s, d).rollup = rows.rollup
           /\ ApplyUnsubscribeWithSendFact(rows, s, d).hashed = rows.hashed
           /\ \A c \in Contact : ApplyUnsubscribeWithSendFact(rows, s, d).status[c] = "subscribed"
                                 => rows.status[c] = "subscribed"
           /\ SameEngagement(rows, ApplyUnsubscribeWithSendFact(rows, s, d))
<1> DEFINE status == [rows.status EXCEPT ![ContactOf[s]] = "unsubscribed"]
           left == [rows EXCEPT !.status = status]
           new  == SetFactColumnOnce(left, s, "unsubscribed_at", d)
<1>1. status \in [Contact -> SubscriptionStatus]
      /\ \A c \in Contact : status[c] = "subscribed" => rows.status[c] = "subscribed"
  BY DbFields, SendFactsAssumption DEF SubscriptionStatus
<1>2. ApplyUnsubscribeWithSendFact(rows, s, d) = new
  BY DEF ApplyUnsubscribeWithSendFact, Db
<1> HIDE DEF status
<1>3. left \in Db
  BY <1>1 DEF Db
<1>4. /\ left.fact = rows.fact /\ left.count = rows.count /\ left.hashed = rows.hashed
      /\ left.rollup = rows.rollup
      /\ left.status = status /\ SameEngagement(rows, left)
  BY DEF Db, SameEngagement
<1> HIDE DEF left
<1>5. "unsubscribed_at" \in Fact
  BY DEF Fact
<1>6. CASE Unset(rows, s, "unsubscribed_at")
  <2>1. Unset(left, s, "unsubscribed_at")
    BY <1>4, <1>6 DEF Unset
  <2>2. /\ new \in Db /\ new.count = left.count /\ new.status = left.status /\ new.hashed = left.hashed
        /\ new.rollup = left.rollup
        /\ new.fact = [left.fact EXCEPT ![s] = [left.fact[s] EXCEPT !["unsubscribed_at"] = d]]
        /\ SameEngagement(left, new)
    BY <1>3, <1>5, <2>1, SetFact
  <2> HIDE DEF new
  <2>. QED  BY <1>1, <1>2, <1>4, <1>6, <2>2 DEF SameEngagement
<1>7. CASE ~Unset(rows, s, "unsubscribed_at")
  <2>1. ~Unset(left, s, "unsubscribed_at")
    BY <1>4, <1>7 DEF Unset
  <2>2. new = left
    <3>1. left.fact \in [Send -> [Fact -> Day \cup {Null}]]
      BY <1>3, DbFields
    <3>2. new = [left EXCEPT !.fact = [left.fact EXCEPT ![s] =
                   [left.fact[s] EXCEPT !["unsubscribed_at"] = left.fact[s]["unsubscribed_at"]]]]
      BY <1>3, <2>1 DEF SetFactColumnOnce, Unset, Db
    <3>3. [left.fact[s] EXCEPT !["unsubscribed_at"] = left.fact[s]["unsubscribed_at"]] = left.fact[s]
      BY <3>1
    <3>4. [left.fact EXCEPT ![s] = left.fact[s]] = left.fact
      BY <3>1
    <3>5. [left EXCEPT !.fact = left.fact] = left
      BY <1>3 DEF Db
    <3>. QED  BY <3>2, <3>3, <3>4, <3>5
  <2>. QED  BY <1>1, <1>2, <1>3, <1>4, <1>7, <2>2
<1>. QED  BY <1>6, <1>7

-----------------------------------------------------------------------------
\* Leaving a second time changes neither the counters nor the list.
LEMMA UnsubscribeAgain ==
    ASSUME NEW rows, RowsOK(rows), NEW s \in Send, NEW d \in Day,
           ~Unset(rows, s, "unsubscribed_at")
    PROVE  RowsOK(ApplyUnsubscribeWithSendFact(rows, s, d))
<1> DEFINE new == ApplyUnsubscribeWithSendFact(rows, s, d)
<1>0. rows \in Db /\ CountsOK(rows) /\ Suppressed(rows)
  BY DEF RowsOK
<1>1. /\ new \in Db /\ new.fact = rows.fact /\ new.count = rows.count /\ new.hashed = rows.hashed
      /\ \A c \in Contact : new.status[c] = "subscribed" => rows.status[c] = "subscribed"
  BY <1>0, UnsubscribeRows
<1> HIDE DEF new
<1>2. CountsOK(new)
  BY <1>0, <1>1 DEF CountsOK, Has
<1>3. Suppressed(new)
  BY <1>0, <1>1, SuppressedStep
<1>. QED  BY <1>1, <1>2, <1>3 DEF RowsOK, new

\* An unsubscribe, by event or by the link.
LEMMA UnsubscribedKeeps ==
    ASSUME NEW rows, RowsOK(rows), NEW s \in Send, NEW d \in Day, NEW now \in Instant
    PROVE  RowsOK(Unsubscribed(rows, s, d, now)) /\ SameEngagement(rows, Unsubscribed(rows, s, d, now))
<1> DEFINE unsub == ApplyUnsubscribeWithSendFact(rows, s, d)
<1>0. rows \in Db
  BY DEF RowsOK
<1>1. /\ unsub \in Db /\ unsub.count = rows.count /\ unsub.hashed = rows.hashed
      /\ unsub.fact = IF Unset(rows, s, "unsubscribed_at")
                      THEN [rows.fact EXCEPT ![s] = [rows.fact[s] EXCEPT !["unsubscribed_at"] = d]]
                      ELSE rows.fact
      /\ \A c \in Contact : unsub.status[c] = "subscribed" => rows.status[c] = "subscribed"
      /\ SameEngagement(rows, unsub)
  BY <1>0, UnsubscribeRows
<1>2. CASE ~Unset(rows, s, "unsubscribed_at")
  <2>1. RowsOK(unsub)
    BY <1>2, UnsubscribeAgain
  <2>2. Unsubscribed(rows, s, d, now) = unsub
    BY <1>2 DEF Unsubscribed
  <2>. QED  BY <1>1, <2>1, <2>2
<1>3. CASE Unset(rows, s, "unsubscribed_at")
  <2>1. /\ "unsubscribed_at" \in Fact /\ "unsubscribed" \in Metric
        /\ CountedFacts("unsubscribed") = {"unsubscribed_at"}
    BY DEF Fact, Metric, CountedFacts
  <2>2. Unsubscribed(rows, s, d, now) = CountFact(unsub, s, d, "unsubscribed", now)
    BY <1>3 DEF Unsubscribed
  <2> HIDE DEF unsub
  <2>3. /\ RowsOK(CountFact(unsub, s, d, "unsubscribed", now))
        /\ SameEngagement(unsub, CountFact(unsub, s, d, "unsubscribed", now))
    BY <1>1, <1>3, <2>1, CountNewFact
  <2>. QED  BY <1>1, <2>2, <2>3 DEF SameEngagement
<1>. QED  BY <1>2, <1>3

\* A drop: a terminal, and what SendGrid's reason says of the address.
LEMMA DroppedKeeps ==
    ASSUME NEW rows, RowsOK(rows), NEW s \in Send, NEW reason, NEW d \in Day, NEW now \in Instant
    PROVE  /\ RowsOK(Dropped(rows, s, reason, d, now))
           /\ SameEngagement(rows, Dropped(rows, s, reason, d, now))
<1>1. CASE ~Unset(rows, s, "dropped_at")
  BY <1>1 DEF Dropped, SameEngagement
<1>2. CASE Unset(rows, s, "dropped_at")
  <2> DEFINE set == Terminal(rows, s, "dropped_at", d, now)
             unsub == ApplyUnsubscribeWithSendFact(set, s, d)
             counted == IncrementCampaignCounter(unsub, s, "unsubscribed")
             new == Dropped(rows, s, reason, d, now)
  <2>0. "dropped_at" \in NonDeliveryTerminal /\ "dropped_at" \in Fact
    BY DEF NonDeliveryTerminal, Fact
  <2>1. /\ set \in Db /\ CountsOK(set) /\ SameEngagement(rows, set)
        /\ set.fact = [rows.fact EXCEPT ![s] = [rows.fact[s] EXCEPT !["dropped_at"] = d]]
        /\ set.status = rows.status /\ set.hashed = rows.hashed
    BY <1>2, <2>0, TerminalRows
  <2>2. /\ DropOutcome(reason) = "suppressed" => new = ApplySuppression(set, ContactOf[s])
        /\ DropOutcome(reason) = "unsubscribed" =>
             new = IF Unset(set, s, "unsubscribed_at") THEN counted ELSE unsub
        /\ DropOutcome(reason) \notin {"suppressed", "unsubscribed"} => new = set
    BY <1>2 DEF Dropped
  <2> HIDE DEF set, new
  <2>3. Suppressed(set)
    <3>1. rows \in Db /\ Suppressed(rows)
      BY DEF RowsOK
    <3>. QED  BY <2>0, <2>1, <3>1, SuppressedFact
  <2>4. RowsOK(set)
    BY <2>1, <2>3 DEF RowsOK
  <2>5. CASE DropOutcome(reason) = "suppressed"
    <3>1. /\ RowsOK(ApplySuppression(set, ContactOf[s]))
          /\ SameEngagement(rows, ApplySuppression(set, ContactOf[s]))
      BY <2>0, <2>1, SuppressKeeps
    <3>. QED  BY <2>2, <2>5, <3>1 DEF new
  <2>6. CASE DropOutcome(reason) = "unsubscribed"
    <3>1. /\ unsub \in Db /\ unsub.count = set.count /\ unsub.hashed = set.hashed
          /\ unsub.fact = IF Unset(set, s, "unsubscribed_at")
                          THEN [set.fact EXCEPT ![s] = [set.fact[s] EXCEPT !["unsubscribed_at"] = d]]
                          ELSE set.fact
          /\ \A c \in Contact : unsub.status[c] = "subscribed" => set.status[c] = "subscribed"
          /\ SameEngagement(set, unsub)
      BY <2>1, UnsubscribeRows
    <3>2. CASE ~Unset(set, s, "unsubscribed_at")
      <4>1. RowsOK(unsub)
        BY <2>4, <3>2, UnsubscribeAgain
      <4>. QED  BY <2>1, <2>2, <2>6, <3>1, <3>2, <4>1 DEF SameEngagement, new
    <3>3. CASE Unset(set, s, "unsubscribed_at")
      <4>1. /\ "unsubscribed_at" \in Fact /\ "unsubscribed" \in Metric
            /\ CountedFacts("unsubscribed") = {"unsubscribed_at"}
        BY DEF Fact, Metric, CountedFacts
      <4> HIDE DEF unsub
      <4>2. /\ counted \in Db
            /\ counted.count = IF s \in CampaignSend THEN [unsub.count EXCEPT !["unsubscribed"] = @ + 1]
                               ELSE unsub.count
            /\ counted.fact = unsub.fact /\ counted.status = unsub.status
            /\ counted.hashed = unsub.hashed /\ SameEngagement(unsub, counted)
        BY <3>1, <4>1, Counter
      <4> HIDE DEF counted
      <4>3. counted.count = IF s \in CampaignSend THEN [set.count EXCEPT !["unsubscribed"] = @ + 1]
                            ELSE set.count
        BY <3>1, <4>2
      <4>4. counted.fact = [set.fact EXCEPT ![s] = [set.fact[s] EXCEPT !["unsubscribed_at"] = d]]
        BY <3>1, <3>3, <4>2
      <4>a. /\ counted.hashed = set.hashed
            /\ \A c \in Contact : counted.status[c] = "subscribed" => set.status[c] = "subscribed"
        BY <3>1, <4>2
      <4>5. RowsOK(counted)
        BY <2>4, <3>3, <4>1, <4>2, <4>3, <4>4, <4>a, NewFactCounted
      <4>. QED  BY <2>1, <2>2, <2>6, <3>1, <3>3, <4>2, <4>5 DEF SameEngagement, new
    <3>. QED  BY <3>2, <3>3
  <2>7. CASE DropOutcome(reason) \notin {"suppressed", "unsubscribed"}
    BY <2>1, <2>2, <2>4, <2>7 DEF new
  <2>. QED  BY <2>5, <2>6, <2>7
<1>. QED  BY <1>1, <1>2

\* An open and a click move their count; every other event moves neither.
LEMMA SideEffects ==
    ASSUME NEW rows, RowsOK(rows), NEW e \in Event, e.send \in Send, e.at \in Day, NEW now \in Instant
    PROVE  LET new == ApplyEventSideEffects(rows, e, now)
           IN  /\ RowsOK(new)
               /\ new.opens  = IF e.event = "open" THEN [rows.opens EXCEPT ![e.send] = @ + 1] ELSE rows.opens
               /\ new.clicks = IF e.event = "click" THEN [rows.clicks EXCEPT ![e.send] = @ + 1] ELSE rows.clicks
<1> DEFINE kind == NormalizeEventType(e)
           new == ApplyEventSideEffects(rows, e, now)
<1>1. /\ kind = "open" <=> e.event = "open"
      /\ kind = "click" <=> e.event = "click"
  BY ZenonT(30) DEF NormalizeEventType, Event, EventName
<1>2. CASE kind = "delivered"
  <2>1. new = Delivered(rows, e.send, e.at, now)
    BY <1>2 DEF ApplyEventSideEffects
  <2>. QED  BY <1>1, <1>2, <2>1, DeliveredKeeps DEF SameEngagement
<1>3. CASE kind = "open"
  <2>1. new = Opened(rows, e.send, e.at, now)
    BY <1>3 DEF ApplyEventSideEffects
  <2>2. \A s \in Send, d \in Day :
            /\ RowsOK(Opened(rows, s, d, now))
            /\ Opened(rows, s, d, now).opens = [rows.opens EXCEPT ![s] = @ + 1]
            /\ Opened(rows, s, d, now).clicks = rows.clicks
    BY OpenedKeeps
  <2>. QED  BY <1>1, <1>3, <2>1, <2>2
<1>4. CASE kind = "click"
  <2>1. new = Clicked(rows, e.send, e.at, now)
    BY <1>4 DEF ApplyEventSideEffects
  <2>2. \A s \in Send, d \in Day :
            /\ RowsOK(Clicked(rows, s, d, now))
            /\ Clicked(rows, s, d, now).clicks = [rows.clicks EXCEPT ![s] = @ + 1]
            /\ Clicked(rows, s, d, now).opens = rows.opens
    BY ClickedKeeps
  <2>. QED  BY <1>1, <1>4, <2>1, <2>2
<1>5. CASE kind = "bounce_hard"
  <2>1. new = BouncedHard(rows, e.send, e.at, now)
    BY <1>5 DEF ApplyEventSideEffects
  <2>. QED  BY <1>1, <1>5, <2>1, BouncedHardKeeps DEF SameEngagement
<1>6. CASE kind = "bounce_soft"
  <2>1. new = BouncedSoft(rows, e.send, e.at, now)
    BY <1>6 DEF ApplyEventSideEffects
  <2>. QED  BY <1>1, <1>6, <2>1, BouncedSoftKeeps DEF SameEngagement
<1>7. CASE kind = "dropped"
  <2>1. new = Dropped(rows, e.send, e.type, e.at, now)
    BY <1>7 DEF ApplyEventSideEffects
  <2>. QED  BY <1>1, <1>7, <2>1, DroppedKeeps DEF SameEngagement
<1>8. CASE kind = "spam_report"
  <2>1. new = SpamReported(rows, e.send, e.at, now)
    BY <1>8 DEF ApplyEventSideEffects
  <2>. QED  BY <1>1, <1>8, <2>1, SpamReportedKeeps DEF SameEngagement
<1>9. CASE kind \in {"unsubscribe", "group_unsubscribe"}
  <2>1. new = Unsubscribed(rows, e.send, e.at, now)
    BY <1>9 DEF ApplyEventSideEffects
  <2>. QED  BY <1>1, <1>9, <2>1, UnsubscribedKeeps DEF SameEngagement
<1>10. CASE kind \notin {"delivered", "open", "click", "bounce_hard", "bounce_soft", "dropped",
                         "spam_report", "unsubscribe", "group_unsubscribe"}
  <2>1. new = rows
    BY <1>10 DEF ApplyEventSideEffects
  <2>. QED  BY <1>1, <1>10, <2>1
<1>. QED  BY <1>2, <1>3, <1>4, <1>5, <1>6, <1>7, <1>8, <1>9, <1>10

-----------------------------------------------------------------------------
(* The daily rollup against a recount of the facts.                        *)

\* The sends that metric m of day d counts.
Tallied(rows, d, m) == {s \in Send : \E f \in CountedFacts(m) : rows.fact[s][f] = d}

\* Going from rows to new, a recount does not shrink, and the rollup grows by no
\* more than the recount does: every increment is backed by a fact of its own.
Backed(rows, new) ==
    /\ new \in Db
    /\ \A d \in Day, m \in Metric :
         /\ Recount(rows, d)[m] <= Recount(new, d)[m]
         /\ new.rollup[d][m] + Recount(rows, d)[m] <= rows.rollup[d][m] + Recount(new, d)[m]

\* A recount counts the sends of a metric.
LEMMA RecountSends ==
    ASSUME NEW rows, NEW d \in Day, NEW m \in Metric
    PROVE  /\ Recount(rows, d)[m] = Cardinality(Tallied(rows, d, m))
           /\ IsFiniteSet(Tallied(rows, d, m)) /\ Recount(rows, d)[m] \in Nat
<1> DEFINE On(F) == {s \in Send : \E f \in F : rows.fact[s][f] = d}
<1>1. Recount(rows, d)[m] =
        CASE m = "delivered"    -> Cardinality(On({"delivered_at"}))
          [] m = "opened"       -> Cardinality(On({"first_opened_at"}))
          [] m = "clicked"      -> Cardinality(On({"first_clicked_at"}))
          [] m = "bounced"      -> Cardinality(On(NonDeliveryTerminal))
          [] m = "unsubscribed" -> Cardinality(On({"unsubscribed_at"}))
  BY DEF Recount
<1>2. Tallied(rows, d, m) = On(CountedFacts(m))
  BY DEF Tallied
<1> HIDE DEF On
<1>6. Recount(rows, d)[m] = Cardinality(Tallied(rows, d, m))
  BY <1>1, <1>2 DEF CountedFacts, Metric
<1>7. IsFiniteSet(Tallied(rows, d, m))
  BY SendFactsAssumption, FS_Subset DEF Tallied
<1>. QED  BY <1>6, <1>7, FS_CardinalityType

\* A recount sees only the fact columns.
LEMMA RecountFacts ==
    ASSUME NEW rows, NEW new, new.fact = rows.fact, NEW d \in Day, NEW m \in Metric
    PROVE  Recount(new, d)[m] = Recount(rows, d)[m]
<1>1. Tallied(new, d, m) = Tallied(rows, d, m)
  BY DEF Tallied
<1>. QED  BY <1>1, RecountSends

\* What touches neither a fact nor the rollup is backed.
LEMMA BackedSame ==
    ASSUME NEW rows \in Db, NEW new \in Db, new.fact = rows.fact, new.rollup = rows.rollup
    PROVE  Backed(rows, new)
<1> SUFFICES ASSUME NEW d \in Day, NEW m \in Metric
             PROVE  /\ Recount(rows, d)[m] <= Recount(new, d)[m]
                    /\ new.rollup[d][m] + Recount(rows, d)[m] <= rows.rollup[d][m] + Recount(new, d)[m]
  BY DEF Backed
<1>1. Recount(new, d)[m] = Recount(rows, d)[m] /\ Recount(rows, d)[m] \in Nat
  BY RecountFacts, RecountSends
<1>2. rows.rollup[d][m] \in Nat
  BY DbFields
<1>. QED  BY <1>1, <1>2

\* Two backed changes make one.
LEMMA BackedTwice ==
    ASSUME NEW rows \in Db, NEW mid \in Db, NEW new, Backed(rows, mid), Backed(mid, new)
    PROVE  Backed(rows, new)
<1>1. new \in Db
  BY DEF Backed
<1> SUFFICES ASSUME NEW d \in Day, NEW m \in Metric
             PROVE  /\ Recount(rows, d)[m] <= Recount(new, d)[m]
                    /\ new.rollup[d][m] + Recount(rows, d)[m] <= rows.rollup[d][m] + Recount(new, d)[m]
  BY <1>1 DEF Backed
<1>2. /\ Recount(rows, d)[m] \in Nat /\ Recount(mid, d)[m] \in Nat /\ Recount(new, d)[m] \in Nat
  BY RecountSends
<1>3. rows.rollup[d][m] \in Nat /\ mid.rollup[d][m] \in Nat /\ new.rollup[d][m] \in Nat
  BY <1>1, DbFields
<1>4. /\ Recount(rows, d)[m] <= Recount(mid, d)[m] /\ Recount(mid, d)[m] <= Recount(new, d)[m]
      /\ mid.rollup[d][m] + Recount(rows, d)[m] <= rows.rollup[d][m] + Recount(mid, d)[m]
      /\ new.rollup[d][m] + Recount(mid, d)[m] <= mid.rollup[d][m] + Recount(new, d)[m]
  BY DEF Backed
<1>. QED  BY <1>2, <1>3, <1>4

\* Setting an empty fact column takes no send off any day.
LEMMA TalliedGrows ==
    ASSUME NEW rows \in Db, NEW new, NEW s \in Send, NEW f \in Fact, NEW d \in Day,
           Unset(rows, s, f),
           new.fact = [rows.fact EXCEPT ![s] = [rows.fact[s] EXCEPT ![f] = d]]
    PROVE  \A e \in Day, k \in Metric :
             /\ Tallied(rows, e, k) \subseteq Tallied(new, e, k)
             /\ Recount(rows, e)[k] <= Recount(new, e)[k]
<1> SUFFICES ASSUME NEW e \in Day, NEW k \in Metric
             PROVE  /\ Tallied(rows, e, k) \subseteq Tallied(new, e, k)
                    /\ Recount(rows, e)[k] <= Recount(new, e)[k]
  OBVIOUS
<1>1. CountedFacts(k) \subseteq Fact
  BY DEF CountedFacts, Metric, Fact, NonDeliveryTerminal
<1>2. \A t \in Send, g \in Fact : rows.fact[t][g] = e => new.fact[t][g] = e
  <2>1. rows.fact \in [Send -> [Fact -> Day \cup {Null}]] /\ e # Null
    BY DbFields DEF Day, Null
  <2>. QED  BY <2>1 DEF Unset
<1>3. Tallied(rows, e, k) \subseteq Tallied(new, e, k)
  BY <1>1, <1>2 DEF Tallied
<1>4. Cardinality(Tallied(rows, e, k)) <= Cardinality(Tallied(new, e, k))
  BY <1>3, RecountSends, FS_Subset
<1>. QED  BY <1>3, <1>4, RecountSends

\* A fact that is set and not counted leaves the rollup behind.
LEMMA BackedSet ==
    ASSUME NEW rows \in Db, NEW new \in Db, NEW s \in Send, NEW f \in Fact, NEW d \in Day,
           Unset(rows, s, f),
           new.fact = [rows.fact EXCEPT ![s] = [rows.fact[s] EXCEPT ![f] = d]],
           new.rollup = rows.rollup
    PROVE  Backed(rows, new)
<1> SUFFICES ASSUME NEW e \in Day, NEW k \in Metric
             PROVE  /\ Recount(rows, e)[k] <= Recount(new, e)[k]
                    /\ new.rollup[e][k] + Recount(rows, e)[k] <= rows.rollup[e][k] + Recount(new, e)[k]
  BY DEF Backed
<1>1. Recount(rows, e)[k] <= Recount(new, e)[k]
  BY TalliedGrows
<1>2. Recount(rows, e)[k] \in Nat /\ Recount(new, e)[k] \in Nat /\ rows.rollup[e][k] \in Nat
  BY RecountSends, DbFields
<1>. QED  BY <1>1, <1>2

\* A fact that is the first of its metric for the send is one more in the recount
\* of its day, and so it may be counted there.
LEMMA BackedCount ==
    ASSUME NEW rows \in Db, NEW new \in Db, NEW s \in Send, NEW f \in Fact, NEW d \in Day,
           NEW m \in Metric, f \in CountedFacts(m), ~Has(rows, s, m),
           new.fact = [rows.fact EXCEPT ![s] = [rows.fact[s] EXCEPT ![f] = d]],
           new.rollup = OneMore(rows.rollup, d, m)
    PROVE  Backed(rows, new)
<1>0. Unset(rows, s, f)
  BY DEF Has, Unset
<1> SUFFICES ASSUME NEW e \in Day, NEW k \in Metric
             PROVE  /\ Recount(rows, e)[k] <= Recount(new, e)[k]
                    /\ new.rollup[e][k] + Recount(rows, e)[k] <= rows.rollup[e][k] + Recount(new, e)[k]
  BY DEF Backed
<1>1. Tallied(rows, e, k) \subseteq Tallied(new, e, k) /\ Recount(rows, e)[k] <= Recount(new, e)[k]
  BY <1>0, TalliedGrows
<1>2. Recount(rows, e)[k] \in Nat /\ Recount(new, e)[k] \in Nat
  BY RecountSends
<1>3. rows.rollup \in [Day -> [Metric -> Nat]] /\ rows.rollup[e][k] \in Nat
  BY DbFields
<1>4. CASE ~(e = d /\ k = m)
  <2>1. new.rollup[e][k] = rows.rollup[e][k]
    BY <1>3, <1>4 DEF OneMore
  <2>. QED  BY <1>1, <1>2, <1>3, <2>1
<1>5. CASE e = d /\ k = m
  <2>1. new.rollup[e][k] = rows.rollup[e][k] + 1
    BY <1>3, <1>5 DEF OneMore
  <2>2. s \notin Tallied(rows, e, k)
    BY <1>5 DEF Has, Tallied, Day, Null
  <2>3. s \in Tallied(new, e, k)
    <3>1. rows.fact \in [Send -> [Fact -> Day \cup {Null}]]
      BY DbFields
    <3>2. new.fact[s][f] = d
      BY <3>1
    <3>. QED  BY <1>5, <3>2 DEF Tallied
  <2>4. Cardinality(Tallied(rows, e, k) \cup {s}) = Cardinality(Tallied(rows, e, k)) + 1
    BY <2>2, RecountSends, FS_AddElement
  <2>5. Cardinality(Tallied(rows, e, k) \cup {s}) <= Cardinality(Tallied(new, e, k))
    <3>1. Tallied(rows, e, k) \cup {s} \subseteq Tallied(new, e, k)
      BY <1>1, <2>3
    <3>. QED  BY <3>1, RecountSends, FS_Subset
  <2>6. Recount(rows, e)[k] + 1 <= Recount(new, e)[k]
    BY <2>4, <2>5, RecountSends
  <2>. QED  BY <1>1, <1>2, <1>3, <2>1, <2>6
<1>. QED  BY <1>4, <1>5

\* Counting a fact whose send had none of its metric is backed.
LEMMA CountFactBacked ==
    ASSUME NEW rows \in Db, NEW mid \in Db, NEW s \in Send, NEW f \in Fact, NEW d \in Day,
           NEW m \in Metric, NEW now \in Instant, f \in CountedFacts(m), ~Has(rows, s, m),
           mid.fact = [rows.fact EXCEPT ![s] = [rows.fact[s] EXCEPT ![f] = d]],
           mid.rollup = rows.rollup
    PROVE  Backed(rows, CountFact(mid, s, d, m, now))
<1> DEFINE new == CountFact(mid, s, d, m, now)
<1>1. /\ new \in Db
      /\ new.count = IF s \in CampaignSend THEN [mid.count EXCEPT ![m] = @ + 1] ELSE mid.count
      /\ new.fact = mid.fact /\ new.rollup = OneMore(mid.rollup, d, m)
  BY CountFactRows
<1> HIDE DEF new
<1>2. Backed(rows, new)
  BY <1>1, BackedCount
<1>. QED  BY <1>2 DEF new

\* A delivery: its rollup increment is backed by the fact it stamps.
LEMMA DeliveredBacked ==
    ASSUME NEW rows \in Db, NEW s \in Send, NEW d \in Day, NEW now \in Instant
    PROVE  Backed(rows, Delivered(rows, s, d, now))
<1>1. CASE ~Unset(rows, s, "delivered_at")
  BY <1>1, BackedSame DEF Delivered
<1>2. CASE Unset(rows, s, "delivered_at")
  <2> DEFINE set == SetFactColumnOnce(rows, s, "delivered_at", d)
             mid == [set EXCEPT !.streak[ContactOf[s]] = 0]
  <2>1. "delivered_at" \in Fact /\ "delivered" \in Metric /\ CountedFacts("delivered") = {"delivered_at"}
    BY DEF Fact, Metric, CountedFacts
  <2>2. /\ set \in Db /\ set.rollup = rows.rollup
        /\ set.fact = [rows.fact EXCEPT ![s] = [rows.fact[s] EXCEPT !["delivered_at"] = d]]
    BY <1>2, <2>1, SetFact
  <2> HIDE DEF set
  <2>3. mid \in Db /\ mid.fact = set.fact /\ mid.rollup = set.rollup
    BY <2>2, Streak
  <2> HIDE DEF mid
  <2>4. ~Has(rows, s, "delivered")
    BY <1>2, <2>1 DEF Has, Unset
  <2>5. Backed(rows, CountFact(mid, s, d, "delivered", now))
    BY <2>1, <2>2, <2>3, <2>4, CountFactBacked
  <2>6. Delivered(rows, s, d, now) = CountFact(mid, s, d, "delivered", now)
    BY <1>2 DEF Delivered, mid, set
  <2>. QED  BY <2>5, <2>6
<1>. QED  BY <1>1, <1>2

\* A first-time fact that is counted on its day, likewise.
LEMMA FirstTimeBacked ==
    ASSUME NEW rows \in Db, NEW s \in Send, NEW f \in Fact, NEW d \in Day,
           NEW m \in Metric, NEW now \in Instant, CountedFacts(m) = {f}
    PROVE  Backed(rows, FirstTime(rows, s, f, d, m, now))
<1>1. CASE ~Unset(rows, s, f)
  BY <1>1, BackedSame DEF FirstTime
<1>2. CASE Unset(rows, s, f)
  <2> DEFINE set == SetFactColumnOnce(rows, s, f, d)
  <2>1. /\ set \in Db /\ set.rollup = rows.rollup
        /\ set.fact = [rows.fact EXCEPT ![s] = [rows.fact[s] EXCEPT ![f] = d]]
    BY <1>2, SetFact
  <2> HIDE DEF set
  <2>2. ~Has(rows, s, m)
    BY <1>2 DEF Has, Unset
  <2>3. Backed(rows, CountFact(set, s, d, m, now))
    BY <2>1, <2>2, CountFactBacked
  <2>4. FirstTime(rows, s, f, d, m, now) = CountFact(set, s, d, m, now)
    BY <1>2 DEF FirstTime, set
  <2>. QED  BY <2>3, <2>4
<1>. QED  BY <1>1, <1>2

\* The open and click counts are in no rollup.
LEMMA EngageBacked ==
    ASSUME NEW rows \in Db, NEW s \in Send
    PROVE  /\ Backed(rows, [rows EXCEPT !.opens[s] = @ + 1])
           /\ Backed(rows, [rows EXCEPT !.clicks[s] = @ + 1])
<1> DEFINE opens == [rows.opens EXCEPT ![s] = @ + 1]
           clicks == [rows.clicks EXCEPT ![s] = @ + 1]
           opened == [rows EXCEPT !.opens = opens]
           clicked == [rows EXCEPT !.clicks = clicks]
<1>1. opens \in [Send -> Nat] /\ clicks \in [Send -> Nat]
  BY DbFields
<1>2. [rows EXCEPT !.opens[s] = @ + 1] = opened /\ [rows EXCEPT !.clicks[s] = @ + 1] = clicked
  BY DEF Db
<1> HIDE DEF opens, clicks
<1>3. opened \in Db /\ clicked \in Db
  BY <1>1 DEF Db
<1>4. /\ opened.fact = rows.fact /\ opened.rollup = rows.rollup
      /\ clicked.fact = rows.fact /\ clicked.rollup = rows.rollup
  BY DEF Db
<1> HIDE DEF opened, clicked
<1>. QED  BY <1>2, <1>3, <1>4, BackedSame

\* Opens and clicks, likewise.
LEMMA OpenedBacked ==
    ASSUME NEW rows \in Db, NEW s \in Send, NEW d \in Day, NEW now \in Instant
    PROVE  Backed(rows, Opened(rows, s, d, now)) /\ Backed(rows, Clicked(rows, s, d, now))
<1> DEFINE opened == FirstTime(rows, s, "first_opened_at", d, "opened", now)
           clicked == FirstTime(rows, s, "first_clicked_at", d, "clicked", now)
<1>1. /\ "first_opened_at" \in Fact /\ "opened" \in Metric /\ CountedFacts("opened") = {"first_opened_at"}
      /\ "first_clicked_at" \in Fact /\ "clicked" \in Metric /\ CountedFacts("clicked") = {"first_clicked_at"}
  BY DEF Fact, Metric, CountedFacts
<1>2. Backed(rows, opened) /\ Backed(rows, clicked)
  BY <1>1, FirstTimeBacked
<1>3. /\ Opened(rows, s, d, now) = [opened EXCEPT !.opens[s] = @ + 1]
      /\ Clicked(rows, s, d, now) = [clicked EXCEPT !.clicks[s] = @ + 1]
  BY DEF Opened, Clicked, FirstTime
<1> HIDE DEF opened, clicked
<1>4. opened \in Db /\ clicked \in Db
  BY <1>2 DEF Backed
<1>5. /\ Backed(opened, [opened EXCEPT !.opens[s] = @ + 1])
      /\ Backed(clicked, [clicked EXCEPT !.clicks[s] = @ + 1])
  BY <1>4, EngageBacked
<1>6. Backed(rows, [opened EXCEPT !.opens[s] = @ + 1]) /\ Backed(rows, [clicked EXCEPT !.clicks[s] = @ + 1])
  BY <1>2, <1>4, <1>5, BackedTwice
<1>. QED  BY <1>3, <1>6

\* A terminal, counted if it is the send's first; and suppressing the contact.
LEMMA TerminalBacked ==
    ASSUME NEW rows \in Db, NEW s \in Send, NEW f \in NonDeliveryTerminal, NEW d \in Day,
           NEW now \in Instant, Unset(rows, s, f)
    PROVE  /\ Backed(rows, Terminal(rows, s, f, d, now))
           /\ Backed(rows, ApplySuppression(Terminal(rows, s, f, d, now), ContactOf[s]))
<1> DEFINE set == SetFactColumnOnce(rows, s, f, d)
           new == Terminal(rows, s, f, d, now)
           Terms(r) == {g \in NonDeliveryTerminal : r.fact[s][g] # Null}
<1>1. f \in Fact /\ "bounced" \in Metric /\ f \in CountedFacts("bounced")
  BY DEF Fact, Metric, CountedFacts, NonDeliveryTerminal
<1>2. /\ set \in Db /\ set.rollup = rows.rollup
      /\ set.fact = [rows.fact EXCEPT ![s] = [rows.fact[s] EXCEPT ![f] = d]]
  BY <1>1, SetFact
<1>3. new = IF Cardinality(Terms(set)) = 1 THEN CountFact(set, s, d, "bounced", now) ELSE set
  BY DEF Terminal, CountIfFirstTerminal
<1> HIDE DEF new, set
<1>4. Backed(rows, new)
  <2>1. CASE Cardinality(Terms(set)) = 1
    <3>1. ~Has(rows, s, "bounced")
      BY <1>2, <2>1, FirstTerminal
    <3>2. Backed(rows, CountFact(set, s, d, "bounced", now))
      BY <1>1, <1>2, <3>1, CountFactBacked
    <3>. QED  BY <1>3, <2>1, <3>2
  <2>2. CASE Cardinality(Terms(set)) # 1
    <3>1. Backed(rows, set)
      BY <1>1, <1>2, BackedSet
    <3>. QED  BY <1>3, <2>2, <3>1
  <2>. QED  BY <2>1, <2>2
<1>5. new \in Db
  BY <1>4 DEF Backed
<1> DEFINE listed == ApplySuppression(new, ContactOf[s])
<1>6. listed \in Db /\ listed.fact = new.fact /\ listed.rollup = new.rollup
  BY <1>5, Suppress
<1> HIDE DEF listed
<1>7. Backed(new, listed)
  BY <1>5, <1>6, BackedSame
<1>8. Backed(rows, listed)
  BY <1>4, <1>5, <1>7, BackedTwice
<1>. QED  BY <1>4, <1>8 DEF listed, new

\* A hard bounce or a complaint, likewise.
LEMMA BouncedHardBacked ==
    ASSUME NEW rows \in Db, NEW s \in Send, NEW d \in Day, NEW now \in Instant
    PROVE  Backed(rows, BouncedHard(rows, s, d, now)) /\ Backed(rows, SpamReported(rows, s, d, now))
<1>0. {"bounced_at", "spam_reported_at"} \subseteq NonDeliveryTerminal /\ Backed(rows, rows)
  BY BackedSame DEF NonDeliveryTerminal
<1>1. Backed(rows, BouncedHard(rows, s, d, now))
  <2>1. CASE Unset(rows, s, "bounced_at")
    BY <1>0, <2>1, TerminalBacked DEF BouncedHard
  <2>2. CASE ~Unset(rows, s, "bounced_at")
    BY <1>0, <2>2 DEF BouncedHard
  <2>. QED  BY <2>1, <2>2
<1>2. Backed(rows, SpamReported(rows, s, d, now))
  <2>1. CASE Unset(rows, s, "spam_reported_at")
    BY <1>0, <2>1, TerminalBacked DEF SpamReported
  <2>2. CASE ~Unset(rows, s, "spam_reported_at")
    BY <1>0, <2>2 DEF SpamReported
  <2>. QED  BY <2>1, <2>2
<1>. QED  BY <1>1, <1>2

\* A soft bounce, and the hard one that too many of them amount to.
LEMMA BouncedSoftBacked ==
    ASSUME NEW rows \in Db, NEW s \in Send, NEW d \in Day, NEW now \in Instant
    PROVE  Backed(rows, BouncedSoft(rows, s, d, now))
<1> DEFINE n == rows.streak[ContactOf[s]] + 1
           counted == [rows EXCEPT !.streak[ContactOf[s]] = n]
<1>1. n \in Nat
  BY DbFields, SendFactsAssumption
<1>2. BouncedSoft(rows, s, d, now) \in {counted, BouncedHard(counted, s, d, now)}
  BY DEF BouncedSoft
<1> HIDE DEF n
<1>3. counted \in Db /\ counted.fact = rows.fact /\ counted.rollup = rows.rollup
  BY <1>1, Streak
<1> HIDE DEF counted
<1>4. Backed(rows, counted) /\ Backed(counted, BouncedHard(counted, s, d, now))
  BY <1>3, BackedSame, BouncedHardBacked
<1>5. Backed(rows, BouncedHard(counted, s, d, now))
  BY <1>3, <1>4, BackedTwice
<1>. QED  BY <1>2, <1>4, <1>5

\* Leaving: the fact at most, and it is the only one of its metric.
LEMMA LeaveBacked ==
    ASSUME NEW rows \in Db, NEW s \in Send, NEW d \in Day
    PROVE  Backed(rows, ApplyUnsubscribeWithSendFact(rows, s, d))
<1> DEFINE new == ApplyUnsubscribeWithSendFact(rows, s, d)
<1>1. /\ new \in Db /\ new.rollup = rows.rollup
      /\ new.fact = IF Unset(rows, s, "unsubscribed_at")
                    THEN [rows.fact EXCEPT ![s] = [rows.fact[s] EXCEPT !["unsubscribed_at"] = d]]
                    ELSE rows.fact
  BY UnsubscribeRows
<1> HIDE DEF new
<1>2. "unsubscribed_at" \in Fact
  BY DEF Fact
<1>3. Backed(rows, new)
  BY <1>1, <1>2, BackedSame, BackedSet
<1>. QED  BY <1>3 DEF new

\* An unsubscribe, likewise.
LEMMA UnsubscribedBacked ==
    ASSUME NEW rows \in Db, NEW s \in Send, NEW d \in Day, NEW now \in Instant
    PROVE  Backed(rows, Unsubscribed(rows, s, d, now))
<1> DEFINE unsub == ApplyUnsubscribeWithSendFact(rows, s, d)
<1>1. CASE ~Unset(rows, s, "unsubscribed_at")
  BY <1>1, LeaveBacked DEF Unsubscribed
<1>2. CASE Unset(rows, s, "unsubscribed_at")
  <2>1. /\ "unsubscribed_at" \in Fact /\ "unsubscribed" \in Metric
        /\ CountedFacts("unsubscribed") = {"unsubscribed_at"}
    BY DEF Fact, Metric, CountedFacts
  <2>2. /\ unsub \in Db /\ unsub.rollup = rows.rollup
        /\ unsub.fact = [rows.fact EXCEPT ![s] = [rows.fact[s] EXCEPT !["unsubscribed_at"] = d]]
    BY <1>2, UnsubscribeRows
  <2>3. Unsubscribed(rows, s, d, now) = CountFact(unsub, s, d, "unsubscribed", now)
    BY <1>2 DEF Unsubscribed
  <2> HIDE DEF unsub
  <2>4. ~Has(rows, s, "unsubscribed")
    BY <1>2, <2>1 DEF Has, Unset
  <2>. QED  BY <2>1, <2>2, <2>3, <2>4, CountFactBacked
<1>. QED  BY <1>1, <1>2

\* A drop that unsubscribes counts for the campaign and not for the day.
LEMMA DroppedBacked ==
    ASSUME NEW rows \in Db, NEW s \in Send, NEW reason, NEW d \in Day, NEW now \in Instant
    PROVE  Backed(rows, Dropped(rows, s, reason, d, now))
<1>1. CASE ~Unset(rows, s, "dropped_at")
  BY <1>1, BackedSame DEF Dropped
<1>2. CASE Unset(rows, s, "dropped_at")
  <2> DEFINE set == Terminal(rows, s, "dropped_at", d, now)
             unsub == ApplyUnsubscribeWithSendFact(set, s, d)
             counted == IncrementCampaignCounter(unsub, s, "unsubscribed")
             new == Dropped(rows, s, reason, d, now)
  <2>1. "dropped_at" \in NonDeliveryTerminal /\ "unsubscribed" \in Metric
    BY DEF NonDeliveryTerminal, Metric
  <2>2. Backed(rows, set) /\ Backed(rows, ApplySuppression(set, ContactOf[s]))
    BY <1>2, <2>1, TerminalBacked
  <2>3. new \in {set, ApplySuppression(set, ContactOf[s]), unsub, counted}
    BY <1>2 DEF Dropped
  <2> HIDE DEF set, new
  <2>4. set \in Db
    BY <2>2 DEF Backed
  <2>5. Backed(set, unsub)
    BY <2>4, LeaveBacked
  <2>6. unsub \in Db
    BY <2>5 DEF Backed
  <2> HIDE DEF unsub
  <2>7. Backed(unsub, counted)
    <3>1. counted \in Db /\ counted.fact = unsub.fact /\ counted.rollup = unsub.rollup
      BY <2>1, <2>6, Counter
    <3> HIDE DEF counted
    <3>. QED  BY <2>6, <3>1, BackedSame
  <2> HIDE DEF counted
  <2>8. Backed(rows, unsub) /\ Backed(rows, counted)
    BY <2>2, <2>4, <2>5, <2>6, <2>7, BackedTwice
  <2>9. Backed(rows, new)
    BY <2>2, <2>3, <2>8
  <2>. QED  BY <2>9 DEF new
<1>. QED  BY <1>1, <1>2

\* Whatever the provider reports of a send, the rollup grows no faster than a recount.
LEMMA SideEffectsBacked ==
    ASSUME NEW rows \in Db, NEW e, e.send \in Send, e.at \in Day, NEW now \in Instant
    PROVE  Backed(rows, ApplyEventSideEffects(rows, e, now))
<1>1. Backed(rows, rows)
  BY BackedSame
<1>2. /\ Backed(rows, Delivered(rows, e.send, e.at, now))
      /\ Backed(rows, Opened(rows, e.send, e.at, now)) /\ Backed(rows, Clicked(rows, e.send, e.at, now))
      /\ Backed(rows, BouncedHard(rows, e.send, e.at, now))
      /\ Backed(rows, SpamReported(rows, e.send, e.at, now))
      /\ Backed(rows, BouncedSoft(rows, e.send, e.at, now))
      /\ Backed(rows, Unsubscribed(rows, e.send, e.at, now))
      /\ Backed(rows, Dropped(rows, e.send, e.type, e.at, now))
  BY DeliveredBacked, OpenedBacked, BouncedHardBacked, BouncedSoftBacked, UnsubscribedBacked, DroppedBacked
<1>. QED  BY <1>1, <1>2 DEF ApplyEventSideEffects

-----------------------------------------------------------------------------
(* A batch, event by event.                                                *)

\* The rows of one transaction, as far as it has got.
Progress == [stored : SUBSET StoredEvent, db : Db]

\* What holds after any number of events of a batch.
AccOK(acc) ==
    /\ acc \in Progress
    /\ IsFiniteSet(acc.stored)
    /\ RowsOK(acc.db)
    /\ EngagementOK(acc.stored, acc.db)

\* An event with the key of e is stored already.
Holds(events, e) == \E k \in events : SameKey(k, e)

\* A stored event is seen once more by its own send and name.
LEMMA SeenStep ==
    ASSUME NEW events, IsFiniteSet(events), NEW k, k \notin events, NEW s, NEW name
    PROVE  /\ Cardinality(Seen(events, s, name)) \in Nat
           /\ Cardinality(Seen(events \cup {k}, s, name)) =
                IF k.send = s /\ k.event = name /\ ~k.test
                THEN Cardinality(Seen(events, s, name)) + 1
                ELSE Cardinality(Seen(events, s, name))
<1>1. IsFiniteSet(Seen(events, s, name))
  BY FS_Subset DEF Seen
<1>2. CASE k.send = s /\ k.event = name /\ ~k.test
  <2>1. Seen(events \cup {k}, s, name) = Seen(events, s, name) \cup {k}
    BY <1>2 DEF Seen
  <2>2. k \notin Seen(events, s, name)
    BY DEF Seen
  <2>3. Cardinality(Seen(events, s, name) \cup {k}) = Cardinality(Seen(events, s, name)) + 1
    BY <1>1, <2>2, FS_AddElement
  <2>. QED  BY <1>1, <1>2, <2>1, <2>3, FS_CardinalityType
<1>3. CASE ~(k.send = s /\ k.event = name /\ ~k.test)
  <2>1. Seen(events \cup {k}, s, name) = Seen(events, s, name)
    BY <1>3 DEF Seen
  <2>. QED  BY <1>1, <1>3, <2>1, FS_CardinalityType
<1>. QED  BY <1>2, <1>3

\* One event: stored and applied, or already there and neither.
LEMMA IngestOneKeeps ==
    ASSUME NEW acc, AccOK(acc), NEW e \in Event, e.at \in Day, NEW now \in Instant
    PROVE  /\ AccOK(IngestOne(acc, e, now))
           /\ acc.stored \subseteq IngestOne(acc, e, now).stored
           /\ e.send \in Send => Holds(IngestOne(acc, e, now).stored, e)
<1> DEFINE new == IngestOne(acc, e, now)
           k == [send |-> e.send, event |-> e.event, at |-> e.at, test |-> e.test]
           after == ApplyEventSideEffects(acc.db, e, now)
<1>0. acc \in Progress /\ IsFiniteSet(acc.stored) /\ RowsOK(acc.db) /\ EngagementOK(acc.stored, acc.db)
  BY DEF AccOK
<1>1. CASE e.send \notin Send \/ Holds(acc.stored, e)
  <2>1. new = acc
    BY <1>1 DEF IngestOne, Holds
  <2>. QED  BY <1>1, <2>1
<1>2. CASE e.send \in Send /\ ~Holds(acc.stored, e)
  <2>1. /\ new.stored = acc.stored \cup {k}
        /\ new.db = IF e.test THEN acc.db ELSE after
        /\ new = [stored |-> acc.stored \cup {k}, db |-> IF e.test THEN acc.db ELSE after]
    BY <1>2 DEF IngestOne, Holds
  <2>2. /\ e.event \in EventName /\ e.test \in BOOLEAN
        /\ k \in StoredEvent
        /\ k.send = e.send /\ k.event = e.event /\ k.at = e.at /\ k.test = e.test
    BY <1>2 DEF Event, StoredEvent
  <2>3. SameKey(k, e)
    BY <2>2 DEF SameKey
  <2> HIDE DEF k
  <2>4. k \notin acc.stored /\ Holds(new.stored, e)
    BY <1>2, <2>1, <2>3 DEF Holds
  <2>5. IsFiniteSet(new.stored)
    BY <1>0, <2>1, FS_AddElement
  <2>6. /\ RowsOK(after)
        /\ after.opens  = IF e.event = "open" THEN [acc.db.opens EXCEPT ![e.send] = @ + 1] ELSE acc.db.opens
        /\ after.clicks = IF e.event = "click" THEN [acc.db.clicks EXCEPT ![e.send] = @ + 1] ELSE acc.db.clicks
    BY <1>0, <1>2, SideEffects
  <2> HIDE DEF after, new
  <2>7. RowsOK(new.db)
    BY <1>0, <2>1, <2>6
  <2>8. new \in Progress
    BY <1>0, <2>1, <2>2, <2>7 DEF Progress, RowsOK
  <2>9. EngagementOK(new.stored, new.db)
    <3> SUFFICES ASSUME NEW s \in Send
                 PROVE  /\ new.db.opens[s] = Cardinality(Seen(new.stored, s, "open"))
                        /\ new.db.clicks[s] = Cardinality(Seen(new.stored, s, "click"))
      BY DEF EngagementOK
    <3>1. /\ acc.db.opens[s] = Cardinality(Seen(acc.stored, s, "open"))
          /\ acc.db.clicks[s] = Cardinality(Seen(acc.stored, s, "click"))
      BY <1>0 DEF EngagementOK
    <3>2. acc.db.opens \in [Send -> Nat] /\ acc.db.clicks \in [Send -> Nat]
      BY <1>0, DbFields DEF RowsOK
    <3>3. Cardinality(Seen(new.stored, s, "open")) =
            IF e.send = s /\ e.event = "open" /\ ~e.test
            THEN Cardinality(Seen(acc.stored, s, "open")) + 1
            ELSE Cardinality(Seen(acc.stored, s, "open"))
      BY <1>0, <2>1, <2>2, <2>4, SeenStep
    <3>4. Cardinality(Seen(new.stored, s, "click")) =
            IF e.send = s /\ e.event = "click" /\ ~e.test
            THEN Cardinality(Seen(acc.stored, s, "click")) + 1
            ELSE Cardinality(Seen(acc.stored, s, "click"))
      BY <1>0, <2>1, <2>2, <2>4, SeenStep
    <3>5. CASE e.test
      BY <2>1, <3>1, <3>3, <3>4, <3>5
    <3>6. CASE ~e.test
      <4>1. new.db = after
        BY <2>1, <3>6
      <4>2. after.opens[s] = IF e.event = "open" /\ e.send = s THEN acc.db.opens[s] + 1 ELSE acc.db.opens[s]
        BY <1>2, <2>6, <3>2
      <4>3. after.clicks[s] = IF e.event = "click" /\ e.send = s THEN acc.db.clicks[s] + 1 ELSE acc.db.clicks[s]
        BY <1>2, <2>6, <3>2
      <4>. QED  BY <3>1, <3>3, <3>4, <3>6, <4>1, <4>2, <4>3
    <3>. QED  BY <3>5, <3>6
  <2>. QED  BY <2>1, <2>4, <2>5, <2>7, <2>8, <2>9 DEF AccOK, new
<1>. QED  BY <1>1, <1>2

-----------------------------------------------------------------------------
\* A nonempty set of natural numbers has a least element.
LEMMA LeastNat ==
    ASSUME NEW S \in SUBSET Nat, S # {}
    PROVE  \E i \in S : \A j \in S : i <= j
<1> DEFINE Less == OpToRel(<, Nat)
<1>1. \A i, j \in Nat : j < i => <<j, i>> \in Less
  BY DEF OpToRel
<1>2. \E i \in S : \A j \in S : <<j, i>> \notin Less
  BY WFMin, NatLessThanWellFounded
<1> HIDE DEF Less
<1>3. PICK i \in S : \A j \in S : <<j, i>> \notin Less
  BY <1>2
<1>4. \A j \in S : ~ (j < i)
  BY <1>1, <1>3
<1>. QED  BY <1>4

\* What a batch starts from.
Start == [stored |-> stored, db |-> db]

\* The recursion of IngestUpTo is well defined: by least counterexample, there
\* is one function up to each n, and they agree.
LEMMA IngestUpToUnfolds ==
    /\ \A j \in Row : IngestUpTo[0][j] = Start
    /\ \A n \in Nat \ {0} : \A j \in Row :
           IngestUpTo[n][j] = IngestNext(IngestUpTo[n - 1][j], j, n)
<1> DEFINE Value(g, n) == [j \in Row |-> IF n = 0 THEN [stored |-> stored, db |-> db]
                                         ELSE IngestNext(g[n - 1][j], j, n)]
           IsUpTo(g, L) == g = [n \in 0 .. L |-> Value(g, n)]
           Undefined == {L \in Nat : ~ \E g : IsUpTo(g, L)}
<1>1. Undefined = {}
  <2> SUFFICES ASSUME Undefined # {} PROVE FALSE
    OBVIOUS
  <2>1. PICK L \in Undefined : \A k \in Undefined : L <= k
    BY LeastNat
  <2>2. CASE L = 0
    <3> DEFINE g == [n \in 0 .. 0 |-> [j \in Row |-> Start]]
    <3>1. \A n \in 0 .. 0 : Value(g, n) = [j \in Row |-> Start]
      BY DEF Start
    <3>2. IsUpTo(g, 0)
      BY <3>1
    <3>. QED  BY <2>1, <2>2, <3>2
  <2>3. CASE L # 0
    <3>1. L - 1 \in Nat /\ L - 1 \notin Undefined /\ L \in Nat \ {0}
      <4>1. L \in Nat /\ L - 1 \in Nat /\ ~(L <= L - 1)
        BY <2>3
      <4>. QED  BY <2>1, <2>3, <4>1
    <3>2. PICK g : IsUpTo(g, L - 1)
      BY <3>1
    <3> DEFINE h == [n \in 0 .. L |-> IF n < L THEN g[n] ELSE Value(g, L)]
    <3>3. \A n \in 0 .. L : h[n] = Value(h, n)
      <4> SUFFICES ASSUME NEW n \in 0 .. L PROVE h[n] = Value(h, n)
        OBVIOUS
      <4>1. CASE n = 0
        <5>1. h[n] = g[n] /\ g[n] = Value(g, n)
          BY <3>1, <3>2, <4>1
        <5>. QED  BY <4>1, <5>1
      <4>2. CASE n # 0
        <5>1. n - 1 \in 0 .. L /\ n - 1 < L /\ n - 1 \in 0 .. L - 1
          BY <3>1, <4>2
        <5>2. h[n - 1] = g[n - 1]
          BY <5>1
        <5>3. h[n] = Value(g, n)
          <6>1. CASE n < L
            <7>1. n \in 0 .. L - 1
              BY <3>1, <6>1
            <7>2. g[n] = Value(g, n)
              BY <3>2, <7>1
            <7>. QED  BY <6>1, <7>2
          <6>2. CASE n = L
            BY <3>1, <6>2
          <6>. QED  BY <3>1, <6>1, <6>2
        <5>. QED  BY <4>2, <5>2, <5>3
      <4>. QED  BY <4>1, <4>2
    <3>4. IsUpTo(h, L)
      BY <3>3
    <3> HIDE DEF h, IsUpTo
    <3>. QED  BY <2>1, <3>4
  <2>. QED  BY <2>2, <2>3
<1> DEFINE upTo(L) == CHOOSE g : IsUpTo(g, L)
<1>2. \A L \in Nat : IsUpTo(upTo(L), L)
  <2> SUFFICES ASSUME NEW L \in Nat PROVE IsUpTo(upTo(L), L)
    OBVIOUS
  <2> HIDE DEF IsUpTo
  <2>1. \E g : IsUpTo(g, L)
    BY <1>1
  <2>. QED  BY <2>1
<1> HIDE DEF upTo
<1>3. ASSUME NEW K \in Nat, NEW L \in Nat, K <= L, NEW n \in 0 .. K
      PROVE  upTo(K)[n] = upTo(L)[n]
  <2> DEFINE Differ == {m \in 0 .. K : upTo(K)[m] # upTo(L)[m]}
  <2> SUFFICES Differ = {}
    OBVIOUS
  <2> SUFFICES ASSUME Differ # {} PROVE FALSE
    OBVIOUS
  <2>0. Differ \in SUBSET Nat
    OBVIOUS
  <2>1. PICK m \in Differ : \A k \in Differ : m <= k
    BY <2>0, LeastNat
  <2>2. m \in 0 .. K /\ m \in 0 .. L
    BY <1>3
  <2>3. upTo(K)[m] = Value(upTo(K), m) /\ upTo(L)[m] = Value(upTo(L), m)
    BY <1>2, <2>2
  <2>4. m # 0 => upTo(K)[m - 1] = upTo(L)[m - 1]
    <3> SUFFICES ASSUME m # 0 PROVE upTo(K)[m - 1] = upTo(L)[m - 1]
      OBVIOUS
    <3>1. m - 1 \in 0 .. K /\ ~(m <= m - 1)
      BY <2>2
    <3>. QED  BY <2>1, <3>1
  <2>5. Value(upTo(K), m) = Value(upTo(L), m)
    BY <2>4
  <2>. QED  BY <2>1, <2>3, <2>5
<1> DEFINE all == [n \in Nat |-> upTo(n)[n]]
<1>4. \A n \in Nat : all[n] = Value(all, n)
  <2> SUFFICES ASSUME NEW n \in Nat PROVE all[n] = Value(all, n)
    OBVIOUS
  <2>1. all[n] = Value(upTo(n), n)
    BY <1>2
  <2>2. n # 0 => all[n - 1] = upTo(n)[n - 1]
    <3> SUFFICES ASSUME n # 0 PROVE all[n - 1] = upTo(n)[n - 1]
      OBVIOUS
    <3>1. n - 1 \in Nat /\ n - 1 <= n /\ n - 1 \in 0 .. n - 1
      OBVIOUS
    <3>. QED  BY <1>3, <3>1
  <2>. QED  BY <2>1, <2>2
<1>5. all = [n \in Nat |-> Value(all, n)]
  BY <1>4
<1> HIDE DEF all
<1>6. \E g : g = [n \in Nat |-> [j \in Row |-> IF n = 0 THEN [stored |-> stored, db |-> db]
                                             ELSE IngestNext(g[n - 1][j], j, n)]]
  BY <1>5
<1>7. IngestUpTo = [n \in Nat |-> [j \in Row |-> IF n = 0 THEN [stored |-> stored, db |-> db]
                                             ELSE IngestNext(IngestUpTo[n - 1][j], j, n)]]
  BY <1>6 DEF IngestUpTo
<1>. QED  BY <1>7 DEF Start

\* A batch leaves good rows, removes no event, and stores every event it accepts.
LEMMA IngestKeeps ==
    ASSUME AccOK(Start), NEW j \in Row, journal[j].batch \in Seq(Event), Now \in Instant
    PROVE  LET new == Ingest(j)
               b   == journal[j].batch
           IN  /\ AccOK(new)
               /\ stored \subseteq new.stored
               /\ \A i \in 1 .. Len(b) :
                      Extracted(b[i], began[j]) /\ b[i].send \in Send => Holds(new.stored, b[i])
<1> DEFINE b == journal[j].batch
           after(n) == IngestUpTo[n][j]
           Good(n) == /\ AccOK(after(n))
                      /\ stored \subseteq after(n).stored
                      /\ \A i \in 1 .. n : Extracted(b[i], began[j]) /\ b[i].send \in Send
                                           => Holds(after(n).stored, b[i])
           Bad == {n \in 0 .. Len(b) : ~Good(n)}
<1>0. Len(b) \in Nat /\ \A i \in 1 .. Len(b) : b[i] \in Event
  OBVIOUS
<1>1. /\ after(0) = Start
      /\ \A n \in 1 .. Len(b) : after(n) = IF Extracted(b[n], began[j])
                                           THEN IngestOne(after(n - 1), b[n], Now) ELSE after(n - 1)
  BY <1>0, IngestUpToUnfolds DEF IngestNext
<1>2. Ingest(j) = after(Len(b))
  BY DEF Ingest
<1> HIDE DEF after
<1>3. Good(0)
  BY <1>1 DEF Start
<1>4. ASSUME NEW n \in 1 .. Len(b), Good(n - 1)
      PROVE  Good(n)
  <2>1. \A i \in 1 .. n : i = n \/ i \in 1 .. n - 1
    OBVIOUS
  <2>2. CASE Extracted(b[n], began[j])
    <3>1. after(n) = IngestOne(after(n - 1), b[n], Now)
      BY <1>1, <2>2
    <3>2. b[n] \in Event /\ b[n].at \in Day
      BY <1>0, <2>2 DEF Extracted, OccurredAtAccepted
    <3>3. /\ AccOK(after(n))
          /\ after(n - 1).stored \subseteq after(n).stored
          /\ b[n].send \in Send => Holds(after(n).stored, b[n])
      BY <1>4, <3>1, <3>2, IngestOneKeeps
    <3>4. \A i \in 1 .. n - 1 : Extracted(b[i], began[j]) /\ b[i].send \in Send
                                => Holds(after(n).stored, b[i])
      BY <1>4, <3>3 DEF Holds
    <3>. QED  BY <1>4, <2>1, <3>3, <3>4
  <2>3. CASE ~Extracted(b[n], began[j])
    <3>1. after(n) = after(n - 1)
      BY <1>1, <2>3
    <3>. QED  BY <1>4, <2>1, <2>3, <3>1
  <2>. QED  BY <2>2, <2>3
<1>5. Bad = {}
  <2> SUFFICES ASSUME Bad # {} PROVE FALSE
    OBVIOUS
  <2> HIDE DEF Good
  <2>0. Bad \in SUBSET Nat
    BY <1>0
  <2>1. PICK n \in Bad : \A k \in Bad : n <= k
    BY <2>0, LeastNat
  <2>2. n # 0 /\ n \in 1 .. Len(b)
    BY <1>0, <1>3, <2>1
  <2>3. n - 1 \in 0 .. Len(b) /\ n - 1 \notin Bad
    <3>1. n - 1 \in 0 .. Len(b) /\ ~(n <= n - 1)
      BY <1>0, <2>2
    <3>. QED  BY <2>1, <3>1
  <2>4. Good(n - 1)
    BY <2>3
  <2>. QED  BY <1>4, <2>1, <2>2, <2>4
<1>6. Good(Len(b))
  <2> HIDE DEF Good
  <2>. QED  BY <1>0, <1>5
<1>. QED  BY <1>2, <1>6

-----------------------------------------------------------------------------
(* The invariant.                                                          *)

\* What the transactions leave: the counters are right, the engagement counts
\* are those of the stored events, the list has whom it should.
RowsInv == AccOK(Start)

\* A journal row is older than the jobs and workers that have it, and its events
\* are no younger than the row.
BatchInv ==
    \A j \in Row :
        LET row == journal[j]
        IN  /\ row.replays <= ReplayMaxAttempts + ops
            /\ row.received <= today
            /\ \A i \in 1 .. Len(row.batch) : row.batch[i].at \in Day => row.batch[i].at <= row.received
            /\ jobs[j] > 0 \/ began[j] # Null => row.received # Null
            /\ began[j] # Null => row.received <= began[j] /\ began[j] <= today

\* Row j of the journal is received, and done if it exists.
Settled(j) == journal[j].received # Null /\ (journal[j].done \/ ~journal[j].exists)

\* CompleteMeansIngested by position in the batch.
CompleteInv ==
    \A j \in Row : Settled(j) =>
        \A i \in 1 .. Len(journal[j].batch) :
            LET e == journal[j].batch[i]
            IN  e.hasId /\ e.send \in Send /\ e.at \in Day /\ e.at >= today - PastDays => Holds(stored, e)

\* The inductive invariant of the ingestion.
WebhookInv == TypeOK /\ RowsInv /\ BatchInv /\ CompleteInv

\* What the assumptions say of the constants.
LEMMA Constants ==
    /\ Row \subseteq Nat
    /\ PastDays \in Nat /\ RetentionDays \in Nat /\ ReplayPageLimit \in Nat /\ ReplayMaxAttempts \in Nat
    /\ MaxJobs \in Nat \ {0} /\ MaxFaults \in Nat /\ MaxOperator \in Nat /\ MaxDay \in Nat \ {0}
    /\ Null = 0 /\ Day \subseteq Nat \ {0}
<1>1. Cardinality(Row) \in Nat
  BY WebhookIngestionAssumption, FS_CardinalityType
<1>. QED  BY <1>1, WebhookIngestionAssumption, SendFactsAssumption DEF Null, Day

\* The batch's instant is one SendFacts can take.
LEMMA NowInstant == ASSUME today \in Day PROVE Now \in Instant
BY DEF Now, Instant, Mark

\* The next row is one that was never written.
LEMMA NextRowFresh ==
    ASSUME \E j \in Row : journal[j].received = Null
    PROVE  NextRow \in Row /\ journal[NextRow].received = Null
<1> DEFINE fresh == {j \in Row : journal[j].received = Null}
<1>1. fresh \in SUBSET Nat /\ fresh # {}
  BY Constants
<1>2. PICK j \in fresh : \A i \in fresh : j <= i
  BY <1>1, LeastNat
<1>3. \A i \in Row : i < j => journal[i].received # Null
  <2> SUFFICES ASSUME NEW i \in Row, i < j, journal[i].received = Null PROVE FALSE
    OBVIOUS
  <2>1. i \in fresh /\ i \in Nat /\ j \in Nat
    BY <1>1
  <2>. QED  BY <1>2, <2>1
<1>4. j \in Row /\ journal[j].received = Null
  OBVIOUS
<1>. QED  BY <1>3, <1>4 DEF NextRow

\* A journal row, its jobs and its worker, by column.
LEMMA RowFields ==
    ASSUME TypeOK, NEW j \in Row
    PROVE  /\ journal[j] \in JournalRow
           /\ journal[j].batch \in Seq(Event)
           /\ journal[j].received \in Day \cup {Null}
           /\ journal[j].exists \in BOOLEAN /\ journal[j].done \in BOOLEAN /\ journal[j].purged \in BOOLEAN
           /\ journal[j].replays \in Nat
           /\ jobs[j] \in 0 .. MaxJobs
           /\ began[j] \in Day \cup {Null}
BY DEF TypeOK, JournalRow

\* An empty workspace.
LEMMA InitInv == Init => WebhookInv
<1> SUFFICES ASSUME Init PROVE WebhookInv
  OBVIOUS
<1>1. EmptyDb \in Db
  BY DEF EmptyDb, Db, Null, Mark, SubscriptionStatus
<1>2. TypeOK
  <2>1. NoRow \in JournalRow
    BY DEF NoRow, JournalRow
  <2>2. 1 \in Day
    BY Constants DEF Day
  <2>3. journal \in [Row -> JournalRow] /\ \A j \in Row : journal[j].replays = 0 /\ ~journal[j].exists
    BY <2>1 DEF Init, NoRow
  <2>4. jobs \in [Row -> 0 .. MaxJobs] /\ began \in [Row -> Day \cup {Null}]
    BY Constants DEF Init
  <2>5. faults \in 0 .. MaxFaults /\ ops \in 0 .. MaxOperator /\ 0 \in 0 .. ReplayMaxAttempts + MaxOperator
    BY Constants DEF Init
  <2>. QED  BY <1>1, <2>2, <2>3, <2>4, <2>5 DEF Init, TypeOK
<1>3. RowsInv
  <2>1. \A s \in Send : \A f \in Fact : EmptyDb.fact[s][f] = Null
    BY DEF EmptyDb
  <2>2. \A m \in Metric : CountedFacts(m) \subseteq Fact
    BY DEF CountedFacts, Metric, Fact, NonDeliveryTerminal
  <2>3. CountsOK(EmptyDb)
    <3>1. \A m \in Metric : {s \in CampaignSend : Has(EmptyDb, s, m)} = {}
      BY <2>1, <2>2, SendFactsAssumption DEF Has
    <3>2. \A m \in Metric : EmptyDb.count[m] = 0
      BY DEF EmptyDb
    <3>. QED  BY <3>1, <3>2, FS_EmptySet DEF CountsOK
  <2>4. Suppressed(EmptyDb)
    BY <2>1 DEF Suppressed, Fact
  <2>5. EngagementOK({}, EmptyDb)
    <3>1. \A s, name : Seen({}, s, name) = {}
      BY DEF Seen
    <3>2. \A s \in Send : EmptyDb.opens[s] = 0 /\ EmptyDb.clicks[s] = 0
      BY DEF EmptyDb
    <3>. QED  BY <3>1, <3>2, FS_EmptySet DEF EngagementOK
  <2>6. Start = [stored |-> {}, db |-> EmptyDb]
    BY DEF Init, Start
  <2>. QED  BY <1>1, <2>3, <2>4, <2>5, <2>6, FS_EmptySet DEF RowsInv, AccOK, RowsOK, Progress
<1>4. BatchInv
  BY Constants DEF Init, BatchInv, NoRow
<1>5. CompleteInv
  BY DEF Init, CompleteInv, Settled, NoRow
<1>. QED  BY <1>2, <1>3, <1>4, <1>5 DEF WebhookInv

-----------------------------------------------------------------------------
(* The steps.                                                              *)

\* What the journal may become of a row that is not new: retention deletes or
\* purges it, ingestion completes it, a replay is counted.
Aged(old, new) ==
    /\ new \in JournalRow
    /\ new.batch = old.batch /\ new.received = old.received
    /\ new.exists => old.exists
    /\ new.replays \in {old.replays, old.replays + 1}

\* The sweep on one row: a replay counted below the cap, then retention.
LEMMA SweepRows ==
    ASSUME TypeOK, NEW n, NEW j \in Row
    PROVE  LET row == IF j \in Replayable(n) THEN [journal[j] EXCEPT !.replays = @ + 1] ELSE journal[j]
               new == Retained(row, j)
           IN  /\ Aged(journal[j], new)
               /\ new.replays <= ReplayMaxAttempts \/ new.replays = journal[j].replays
               /\ new.done = journal[j].done
               /\ new.exists \/ ~journal[j].exists \/ journal[j].done
<1> DEFINE row == IF j \in Replayable(n) THEN [journal[j] EXCEPT !.replays = @ + 1] ELSE journal[j]
           new == Retained(row, j)
<1>1. journal[j] \in JournalRow
  BY RowFields
<1>2. /\ row \in JournalRow
      /\ row.batch = journal[j].batch /\ row.received = journal[j].received
      /\ row.exists = journal[j].exists /\ row.done = journal[j].done
      /\ row.replays \in {journal[j].replays, journal[j].replays + 1}
  BY <1>1 DEF JournalRow
<1>3. row.replays <= ReplayMaxAttempts \/ row.replays = journal[j].replays
  <2>1. j \in Replayable(n) => journal[j].replays < ReplayMaxAttempts
    BY DEF Replayable
  <2>2. journal[j].replays \in Nat /\ ReplayMaxAttempts \in Nat
    BY RowFields, Constants
  <2>3. j \in Replayable(n) => row.replays = journal[j].replays + 1
    BY <1>1 DEF JournalRow
  <2>. QED  BY <2>1, <2>2, <2>3
<1> HIDE DEF row
<1>4. /\ new \in {row, [row EXCEPT !.exists = FALSE], [row EXCEPT !.purged = TRUE]}
      /\ new = [row EXCEPT !.exists = FALSE] => new = row \/ row.done
  BY <1>2 DEF Retained, JournalRow
<1>5. /\ new \in JournalRow
      /\ new.batch = row.batch /\ new.received = row.received
      /\ new.replays = row.replays /\ new.done = row.done
      /\ new.exists => row.exists
      /\ new.exists \/ ~row.exists \/ row.done
  BY <1>2, <1>4 DEF JournalRow
<1> HIDE DEF new
<1>. QED  BY <1>2, <1>3, <1>5 DEF Aged, new, row

\* The worker's completion mark, on a row that is there or gone.
LEMMA CompleteRow ==
    ASSUME TypeOK, NEW j \in Row
    PROVE  /\ MarkIngestionComplete(j) \in [Row -> JournalRow]
           /\ \A i \in Row : /\ Aged(journal[i], MarkIngestionComplete(j)[i])
                             /\ MarkIngestionComplete(j)[i].replays = journal[i].replays
                             /\ MarkIngestionComplete(j)[i].exists = journal[i].exists
                             /\ i # j => MarkIngestionComplete(j)[i] = journal[i]
<1>1. journal \in [Row -> JournalRow]
  BY DEF TypeOK
<1>2. [journal[j] EXCEPT !.done = TRUE] \in JournalRow
  BY <1>1 DEF JournalRow
<1>3. MarkIngestionComplete(j) \in {journal, [journal EXCEPT ![j] = [journal[j] EXCEPT !.done = TRUE]]}
  BY <1>1 DEF MarkIngestionComplete
<1>4. \A r \in JournalRow :
          /\ [r EXCEPT !.done = TRUE].batch = r.batch /\ [r EXCEPT !.done = TRUE].received = r.received
          /\ [r EXCEPT !.done = TRUE].exists = r.exists /\ [r EXCEPT !.done = TRUE].replays = r.replays
  BY DEF JournalRow
<1> DEFINE new == [journal[j] EXCEPT !.done = TRUE]
<1>5. /\ new.batch = journal[j].batch /\ new.received = journal[j].received
      /\ new.exists = journal[j].exists /\ new.replays = journal[j].replays
  BY <1>1, <1>4
<1> HIDE DEF new
<1>6. CASE MarkIngestionComplete(j) = journal
  BY <1>1, <1>6 DEF Aged
<1>7. CASE MarkIngestionComplete(j) = [journal EXCEPT ![j] = new]
  BY <1>1, <1>2, <1>5, <1>7 DEF Aged, new
<1>. QED  BY <1>3, <1>6, <1>7 DEF new

\* The operator's replay of one row.
LEMMA ReplayedRow ==
    ASSUME TypeOK, NEW j \in Row, journal' = [journal EXCEPT ![j].replays = @ + 1]
    PROVE  /\ journal' \in [Row -> JournalRow]
           /\ \A i \in Row : /\ Aged(journal[i], journal'[i])
                             /\ journal'[i].exists = journal[i].exists
                             /\ journal'[i].done = journal[i].done
                             /\ journal'[i].replays <= journal[i].replays + 1
<1>1. journal \in [Row -> JournalRow]
  BY DEF TypeOK
<1> DEFINE row == [journal[j] EXCEPT !.replays = @ + 1]
<1>a. journal[j] \in JournalRow /\ journal[j].replays + 1 \in Nat
  BY RowFields
<1>2. row \in JournalRow
  BY <1>a DEF JournalRow
<1>3. journal' = [journal EXCEPT ![j] = row]
  BY <1>1
<1>4. /\ row.batch = journal[j].batch /\ row.received = journal[j].received
      /\ row.exists = journal[j].exists /\ row.done = journal[j].done
      /\ row.replays = journal[j].replays + 1
  BY <1>1 DEF JournalRow
<1>5. \A i \in Row : journal[i].replays \in Nat
  BY RowFields
<1> HIDE DEF row
<1>. QED  BY <1>1, <1>2, <1>3, <1>4, <1>5 DEF Aged

\* A batch that arrives has a row of its own, and the right types.
LEMMA ReceivedRow ==
    ASSUME TypeOK, NEW b \in Batches, ReceiveBatch(b)
    PROVE  /\ NextRow \in Row /\ journal[NextRow].received = Null
           /\ journal' \in [Row -> JournalRow]
           /\ \A i \in Row \ {NextRow} : journal'[i] = journal[i]
           /\ journal'[NextRow].exists /\ ~journal'[NextRow].done
           /\ journal'[NextRow].batch = b /\ journal'[NextRow].received = today
           /\ journal'[NextRow].replays = 0
           /\ \A n \in 1 .. Len(b) : b[n].at \in Day => b[n].at <= today
<1>1. NextRow \in Row /\ journal[NextRow].received = Null
  BY NextRowFresh DEF ReceiveBatch
<1> DEFINE new == [NoRow EXCEPT !.exists = TRUE, !.batch = b, !.received = today]
<1>2. journal' = [journal EXCEPT ![NextRow] = new]
  BY DEF ReceiveBatch
<1>3. b \in Seq(Event)
  BY WebhookIngestionAssumption
<1>4. NoRow \in JournalRow /\ NoRow.done = FALSE /\ NoRow.replays = 0
  BY DEF NoRow, JournalRow
<1>5. today \in Day /\ journal \in [Row -> JournalRow]
  BY DEF TypeOK
<1>6. /\ new \in JournalRow
      /\ new.exists = TRUE /\ new.batch = b /\ new.received = today
      /\ new.done = FALSE /\ new.replays = 0
  BY <1>3, <1>4, <1>5 DEF JournalRow
<1> HIDE DEF new
<1>7. \A n \in 1 .. Len(b) : b[n].at \in Day => b[n].at <= today
  BY DEF ReceiveBatch
<1>. QED  BY <1>1, <1>2, <1>5, <1>6, <1>7

-----------------------------------------------------------------------------
\* The sweep's effect on the whole journal.
LEMMA SweptJournal ==
    ASSUME TypeOK, NEW n \in Row, NEW added \in SUBSET Row, RunReplaySweep(n, added)
    PROVE  /\ journal' \in [Row -> JournalRow]
           /\ \A j \in Row : /\ Aged(journal[j], journal'[j])
                             /\ \/ journal'[j].replays <= ReplayMaxAttempts
                                \/ journal'[j].replays = journal[j].replays
                             /\ journal'[j].done = journal[j].done
                             /\ journal'[j].exists \/ ~journal[j].exists \/ journal[j].done
           /\ \A j \in added : journal[j].exists
<1> DEFINE new(j) == Retained(IF j \in Replayable(n) THEN [journal[j] EXCEPT !.replays = @ + 1]
                              ELSE journal[j], j)
<1>1. journal' = [j \in Row |-> new(j)]
  BY DEF RunReplaySweep
<1>2. \A j \in Row : /\ Aged(journal[j], new(j))
                     /\ new(j).replays <= ReplayMaxAttempts \/ new(j).replays = journal[j].replays
                     /\ new(j).done = journal[j].done
                     /\ new(j).exists \/ ~journal[j].exists \/ journal[j].done
  BY SweepRows
<1> HIDE DEF new
<1>3. \A j \in added : journal[j].exists
  BY DEF RunReplaySweep, Replayable, StuckRows, Incomplete
<1>. QED  BY <1>1, <1>2, <1>3 DEF Aged

\* Queues and workers keep their types.
LEMMA EnqueueType ==
    ASSUME TypeOK, NEW j \in Row
    PROVE  /\ jobs[j] < MaxJobs => [jobs EXCEPT ![j] = @ + 1] \in [Row -> 0 .. MaxJobs]
           /\ jobs[j] > 0 => [jobs EXCEPT ![j] = @ - 1] \in [Row -> 0 .. MaxJobs]
           /\ \A d \in Day \cup {Null} : [began EXCEPT ![j] = d] \in [Row -> Day \cup {Null}]
<1>1. jobs \in [Row -> 0 .. MaxJobs] /\ MaxJobs \in Nat /\ began \in [Row -> Day \cup {Null}]
  BY Constants DEF TypeOK
<1>2. jobs[j] < MaxJobs => jobs[j] + 1 \in 0 .. MaxJobs
  BY <1>1
<1>3. jobs[j] > 0 => jobs[j] - 1 \in 0 .. MaxJobs
  BY <1>1
<1>. QED  BY <1>1, <1>2, <1>3

\* The parts of TypeOK that most steps leave alone, or move by themselves.
LEMMA CountersType ==
    ASSUME TypeOK, [Next]_vars
    PROVE  /\ today' \in Day /\ deleted' \in BOOLEAN
           /\ faults' \in 0 .. MaxFaults /\ ops' \in 0 .. MaxOperator
           /\ today <= today' /\ ops <= ops'
           /\ began' \in [Row -> Day \cup {Null}]
<1> USE Constants
<1>0. /\ today \in Day /\ today \in Nat /\ deleted \in BOOLEAN
      /\ faults \in 0 .. MaxFaults /\ ops \in 0 .. MaxOperator
      /\ began \in [Row -> Day \cup {Null}]
  BY DEF TypeOK
<1>1. ASSUME NEW b \in Batches, ReceiveBatch(b)
      PROVE  UNCHANGED <<today, deleted, ops, began>> /\ faults' \in 0 .. MaxFaults
  BY <1>0, <1>1 DEF ReceiveBatch
<1>2. ASSUME NEW j \in Row, DropJobOfDeletedWorkspace(j)
      PROVE  UNCHANGED <<today, deleted, faults, ops, began>>
  BY <1>2 DEF DropJobOfDeletedWorkspace
<1>3. ASSUME NEW j \in Row, BeginBatch(j)
      PROVE  UNCHANGED <<today, deleted, faults, ops>> /\ began' \in [Row -> Day \cup {Null}]
  BY <1>0, <1>3 DEF BeginBatch
<1>4. ASSUME NEW j \in Row, ProcessWebhookEventBatch(j)
      PROVE  UNCHANGED <<today, deleted, faults, ops>> /\ began' \in [Row -> Day \cup {Null}]
  BY <1>0, <1>4 DEF ProcessWebhookEventBatch
<1>5. ASSUME NEW j \in Row, BatchFails(j)
      PROVE  /\ UNCHANGED <<today, deleted, ops>> /\ faults' \in 0 .. MaxFaults
             /\ began' \in [Row -> Day \cup {Null}]
  BY <1>0, <1>5 DEF BatchFails
<1>6. ASSUME NEW j \in Row, ReplayJournal(j)
      PROVE  UNCHANGED <<today, deleted, faults, began>> /\ ops' \in 0 .. MaxOperator /\ ops <= ops'
  BY <1>0, <1>6 DEF ReplayJournal
<1>7. ASSUME NEW n \in Row, NEW added \in SUBSET Row, RunReplaySweep(n, added)
      PROVE  UNCHANGED <<today, deleted, ops, began>> /\ faults' \in 0 .. MaxFaults
  BY <1>0, <1>7 DEF RunReplaySweep
<1>8. ASSUME NEW s \in Send, UnsubscribeClick(s)
      PROVE  UNCHANGED <<today, deleted, faults, began>> /\ ops' \in 0 .. MaxOperator /\ ops <= ops'
  BY <1>0, <1>8 DEF UnsubscribeClick, ingestVars
<1>9. ASSUME NextDay
      PROVE  UNCHANGED <<deleted, faults, ops, began>> /\ today' \in Day /\ today <= today'
  BY <1>0, <1>9 DEF NextDay, ingestVars, Day
<1>10. ASSUME SoftDeleteOrRestore
       PROVE  UNCHANGED <<today, faults, began>> /\ deleted' \in BOOLEAN /\ ops' \in 0 .. MaxOperator /\ ops <= ops'
  BY <1>0, <1>10 DEF SoftDeleteOrRestore, ingestVars
<1>11. ASSUME UNCHANGED vars
       PROVE  UNCHANGED <<today, deleted, faults, ops, began>>
  BY <1>11 DEF vars, ingestVars
<1>. QED  BY <1>0, <1>1, <1>2, <1>3, <1>4, <1>5, <1>6, <1>7, <1>8, <1>9, <1>10, <1>11 DEF Next

-----------------------------------------------------------------------------
\* A transaction of the worker applies a whole batch to good rows.
LEMMA Processed ==
    ASSUME TypeOK, RowsInv, NEW j \in Row, ProcessWebhookEventBatch(j)
    PROVE  /\ RowsInv'
           /\ stored \subseteq stored'
           /\ \A i \in 1 .. Len(journal[j].batch) :
                  Extracted(journal[j].batch[i], began[j]) /\ journal[j].batch[i].send \in Send
                  => Holds(stored', journal[j].batch[i])
<1> DEFINE new == Ingest(j)
<1>1. db' = new.db /\ stored' = new.stored
  BY DEF ProcessWebhookEventBatch
<1>2. today \in Day /\ journal[j].batch \in Seq(Event)
  BY RowFields DEF TypeOK
<1>3. Now \in Instant
  BY <1>2, NowInstant
<1>4. /\ AccOK(new)
      /\ stored \subseteq new.stored
      /\ \A i \in 1 .. Len(journal[j].batch) :
             Extracted(journal[j].batch[i], began[j]) /\ journal[j].batch[i].send \in Send
             => Holds(new.stored, journal[j].batch[i])
  BY <1>2, <1>3, IngestKeeps DEF RowsInv
<1> HIDE DEF new
<1>5. Start' = [stored |-> stored', db |-> db']
  BY DEF Start
<1>6. AccOK([stored |-> stored', db |-> db'])
  BY <1>1, <1>4 DEF AccOK, Progress
<1>7. RowsInv'
  BY <1>6 DEF RowsInv, AccOK, Start
<1>. QED  BY <1>1, <1>4, <1>7

\* Only a worker's transaction and an unsubscribe touch the rows, and no step loses an event.
LEMMA RowsStep ==
    ASSUME TypeOK, RowsInv, [Next]_vars
    PROVE  RowsInv' /\ stored \subseteq stored'
<1>1. ASSUME UNCHANGED <<db, stored>> PROVE RowsInv' /\ stored \subseteq stored'
  BY <1>1 DEF RowsInv, Start, AccOK
<1>2. ASSUME NEW b \in Batches, ReceiveBatch(b) PROVE UNCHANGED <<db, stored>>
  BY <1>2 DEF ReceiveBatch
<1>3. ASSUME NEW j \in Row, DropJobOfDeletedWorkspace(j) PROVE UNCHANGED <<db, stored>>
  BY <1>3 DEF DropJobOfDeletedWorkspace
<1>4. ASSUME NEW j \in Row, BeginBatch(j) PROVE UNCHANGED <<db, stored>>
  BY <1>4 DEF BeginBatch
<1>5. ASSUME NEW j \in Row, ProcessWebhookEventBatch(j) PROVE RowsInv' /\ stored \subseteq stored'
  BY <1>5, Processed
<1>6. ASSUME NEW j \in Row, BatchFails(j) PROVE UNCHANGED <<db, stored>>
  BY <1>6 DEF BatchFails
<1>7. ASSUME NEW j \in Row, ReplayJournal(j) PROVE UNCHANGED <<db, stored>>
  BY <1>7 DEF ReplayJournal
<1>8. ASSUME NEW n \in Row, NEW added \in SUBSET Row, RunReplaySweep(n, added) PROVE UNCHANGED <<db, stored>>
  BY <1>8 DEF RunReplaySweep
<1>9. ASSUME NEW s \in Send, UnsubscribeClick(s) PROVE RowsInv' /\ stored \subseteq stored'
  <2>1. today \in Day /\ stored' = stored /\ db' = Unsubscribed(db, s, today, Now)
    BY <1>9 DEF TypeOK, UnsubscribeClick, ingestVars
  <2>2. /\ db \in Db /\ RowsOK(db) /\ EngagementOK(stored, db)
        /\ IsFiniteSet(stored) /\ stored \in SUBSET StoredEvent
    BY DEF RowsInv, AccOK, Start, TypeOK
  <2>3. RowsOK(db') /\ SameEngagement(db, db')
    BY <2>1, <2>2, NowInstant, UnsubscribedKeeps
  <2>4. EngagementOK(stored', db')
    BY <2>1, <2>2, <2>3 DEF EngagementOK, SameEngagement
  <2>5. AccOK([stored |-> stored', db |-> db'])
    BY <2>1, <2>2, <2>3, <2>4 DEF AccOK, Progress, RowsOK
  <2>. QED  BY <2>1, <2>5 DEF RowsInv, AccOK, Start
<1>10. ASSUME NextDay PROVE UNCHANGED <<db, stored>>
  BY <1>10 DEF NextDay, ingestVars
<1>11. ASSUME SoftDeleteOrRestore PROVE UNCHANGED <<db, stored>>
  BY <1>11 DEF SoftDeleteOrRestore, ingestVars
<1>12. ASSUME UNCHANGED vars PROVE UNCHANGED <<db, stored>>
  BY <1>12 DEF vars, ingestVars
<1>. QED  BY <1>1, <1>2, <1>3, <1>4, <1>5, <1>6, <1>7, <1>8, <1>9, <1>10, <1>11, <1>12 DEF Next

\* One row of BatchInv.
RowInv(j) ==
    LET row == journal[j]
    IN  /\ row.replays <= ReplayMaxAttempts + ops
        /\ row.received <= today
        /\ \A i \in 1 .. Len(row.batch) : row.batch[i].at \in Day => row.batch[i].at <= row.received
        /\ jobs[j] > 0 \/ began[j] # Null => row.received # Null
        /\ began[j] # Null => row.received <= began[j] /\ began[j] <= today

\* A row that only ages stays as it should be, if nobody new is at work on it.
LEMMA AgedRow ==
    ASSUME TypeOK, NEW j \in Row, RowInv(j), Aged(journal[j], journal'[j]),
           \/ journal'[j].replays <= ReplayMaxAttempts + ops'
           \/ journal'[j].replays = journal[j].replays,
           today <= today', today' \in Day, ops <= ops', ops' \in 0 .. MaxOperator,
           jobs'[j] > 0 => jobs[j] > 0 \/ began[j] # Null \/ journal[j].received # Null,
           began'[j] \in {began[j], Null} \/ (began'[j] = today /\ jobs[j] > 0)
    PROVE  RowInv(j)'
<1>1. /\ journal[j].received \in Nat /\ journal[j].replays \in Nat
      /\ jobs[j] \in Nat /\ began[j] \in Nat /\ today \in Nat /\ today' \in Nat /\ today # Null
      /\ ops \in Nat /\ ops' \in Nat /\ ReplayMaxAttempts \in Nat /\ Null = 0
  <2>1. /\ journal[j].received \in Day \cup {Null} /\ journal[j].replays \in Nat
        /\ jobs[j] \in 0 .. MaxJobs /\ began[j] \in Day \cup {Null}
    BY RowFields
  <2>2. today \in Day /\ ops \in 0 .. MaxOperator
    BY DEF TypeOK
  <2>3. /\ \A d \in Day : d \in Nat /\ d # 0
        /\ Null = 0 /\ MaxJobs \in Nat /\ MaxOperator \in Nat /\ ReplayMaxAttempts \in Nat
    BY Constants
  <2>. QED  BY <2>1, <2>2, <2>3
<1>2. journal'[j].batch = journal[j].batch /\ journal'[j].received = journal[j].received
  BY DEF Aged
<1>3. journal'[j].replays <= ReplayMaxAttempts + ops'
  BY <1>1 DEF RowInv
<1>4. journal'[j].received <= today'
  BY <1>1, <1>2 DEF RowInv
<1>5. \A i \in 1 .. Len(journal'[j].batch) :
          journal'[j].batch[i].at \in Day => journal'[j].batch[i].at <= journal'[j].received
  BY <1>2 DEF RowInv
<1>6. jobs'[j] > 0 \/ began'[j] # Null => journal'[j].received # Null
  BY <1>1, <1>2 DEF RowInv
<1>7. began'[j] # Null => journal'[j].received <= began'[j] /\ began'[j] <= today'
  BY <1>1, <1>2 DEF RowInv
<1>. QED  BY <1>3, <1>4, <1>5, <1>6, <1>7 DEF RowInv

-----------------------------------------------------------------------------
\* A row that nothing touches.
LEMMA SameRow == ASSUME TypeOK, NEW j \in Row PROVE Aged(journal[j], journal[j])
BY RowFields DEF Aged

\* No step lets a job or a worker outrun its journal row.
LEMMA BatchStep ==
    ASSUME TypeOK, BatchInv, [Next]_vars
    PROVE  BatchInv'
<1> SUFFICES ASSUME NEW i \in Row PROVE RowInv(i)'
  BY DEF BatchInv, RowInv
<1>0. /\ RowInv(i) /\ jobs \in [Row -> 0 .. MaxJobs] /\ began \in [Row -> Day \cup {Null}]
      /\ jobs[i] \in Nat /\ today' \in Day /\ today <= today' /\ ops <= ops' /\ ops' \in 0 .. MaxOperator
      /\ journal[i].replays \in Nat /\ ops \in Nat /\ ops' \in Nat /\ ReplayMaxAttempts \in Nat
      /\ MaxJobs \in Nat
  <2>1. RowInv(i)
    BY DEF BatchInv, RowInv
  <2>2. /\ today' \in Day /\ today <= today' /\ ops <= ops' /\ ops' \in 0 .. MaxOperator
        /\ jobs \in [Row -> 0 .. MaxJobs] /\ began \in [Row -> Day \cup {Null}]
        /\ ops \in 0 .. MaxOperator
    BY CountersType DEF TypeOK
  <2>3. ReplayMaxAttempts \in Nat /\ MaxJobs \in Nat /\ MaxOperator \in Nat
    BY Constants
  <2>4. journal[i].replays \in Nat
    BY RowFields
  <2>. QED  BY <2>1, <2>2, <2>3, <2>4
<1>s. Aged(journal[i], journal[i])
  BY SameRow
<1>1. ASSUME NEW b \in Batches, ReceiveBatch(b) PROVE RowInv(i)'
  <2>1. UNCHANGED <<began, today, ops>> /\ jobs' \in {jobs, [jobs EXCEPT ![NextRow] = @ + 1]}
    BY <1>1 DEF ReceiveBatch
  <2>2. /\ NextRow \in Row /\ journal[NextRow].received = Null
        /\ i # NextRow => journal'[i] = journal[i]
        /\ journal'[NextRow].batch = b /\ journal'[NextRow].received = today
        /\ journal'[NextRow].replays = 0
        /\ \A n \in 1 .. Len(b) : b[n].at \in Day => b[n].at <= today
    BY <1>1, ReceivedRow
  <2>3. CASE i # NextRow
    <3>1. jobs'[i] = jobs[i]
      BY <1>0, <2>1, <2>2, <2>3
    <3>2. journal'[i] = journal[i] /\ began'[i] = began[i]
      BY <2>1, <2>2, <2>3
    <3>. QED  BY <1>0, <2>1, <3>1, <3>2 DEF RowInv
  <2>4. CASE i = NextRow
    <3>1. began[i] = Null /\ today # Null /\ today \in Nat
      BY <1>0, <2>2, <2>4, Constants DEF RowInv, TypeOK
    <3>. QED  BY <1>0, <2>1, <2>2, <2>4, <3>1 DEF RowInv
  <2>. QED  BY <2>3, <2>4
<1>2. ASSUME NEW j \in Row, DropJobOfDeletedWorkspace(j) PROVE RowInv(i)'
  <2>1. UNCHANGED <<journal, began>> /\ jobs' = [jobs EXCEPT ![j] = @ - 1] /\ jobs[j] > 0
    BY <1>2 DEF DropJobOfDeletedWorkspace
  <2>2. jobs'[i] > 0 => jobs[i] > 0
    BY <1>0, <2>1
  <2>. QED  BY <1>0, <1>s, <2>1, <2>2, AgedRow
<1>3. ASSUME NEW j \in Row, BeginBatch(j) PROVE RowInv(i)'
  <2>1. /\ UNCHANGED <<journal, today>> /\ jobs' = [jobs EXCEPT ![j] = @ - 1] /\ jobs[j] > 0
        /\ began' = [began EXCEPT ![j] = today]
    BY <1>3 DEF BeginBatch
  <2>2. jobs'[i] > 0 => jobs[i] > 0
    BY <1>0, <2>1
  <2>3. began'[i] = began[i] \/ (began'[i] = today /\ jobs[i] > 0)
    BY <1>0, <2>1
  <2>. QED  BY <1>0, <1>s, <2>1, <2>2, <2>3, AgedRow
<1>4. ASSUME NEW j \in Row, ProcessWebhookEventBatch(j) PROVE RowInv(i)'
  <2>1. UNCHANGED jobs /\ journal' = MarkIngestionComplete(j) /\ began' = [began EXCEPT ![j] = Null]
    BY <1>4 DEF ProcessWebhookEventBatch
  <2>2. Aged(journal[i], journal'[i]) /\ journal'[i].replays = journal[i].replays
    BY <2>1, CompleteRow
  <2>3. began'[i] \in {began[i], Null}
    BY <1>0, <2>1
  <2>. QED  BY <1>0, <2>1, <2>2, <2>3, AgedRow
<1>5. ASSUME NEW j \in Row, BatchFails(j) PROVE RowInv(i)'
  <2>1. /\ UNCHANGED journal /\ jobs' \in {jobs, [jobs EXCEPT ![j] = @ + 1]} /\ began[j] # Null
        /\ began' = [began EXCEPT ![j] = Null]
    BY <1>5 DEF BatchFails
  <2>2. jobs'[i] > 0 => jobs[i] > 0 \/ began[i] # Null
    BY <1>0, <2>1
  <2>3. began'[i] \in {began[i], Null}
    BY <1>0, <2>1
  <2>. QED  BY <1>0, <1>s, <2>1, <2>2, <2>3, AgedRow
<1>6. ASSUME NEW j \in Row, ReplayJournal(j) PROVE RowInv(i)'
  <2>1. /\ UNCHANGED began /\ jobs' = [jobs EXCEPT ![j] = @ + 1] /\ journal[j].exists
        /\ journal' = [journal EXCEPT ![j].replays = @ + 1] /\ ops' = ops + 1
    BY <1>6 DEF ReplayJournal
  <2>2. Aged(journal[i], journal'[i]) /\ journal'[i].replays <= journal[i].replays + 1
    BY <2>1, ReplayedRow
  <2>3. journal'[i].replays \in Nat /\ journal[i].replays <= ReplayMaxAttempts + ops
    BY <1>0, <2>2 DEF RowInv, Aged, JournalRow
  <2>4. journal'[i].replays <= ReplayMaxAttempts + ops'
    BY <1>0, <2>1, <2>2, <2>3
  <2>5. journal[j].received # Null
    BY <2>1, Constants DEF TypeOK
  <2>6. jobs'[i] > 0 => jobs[i] > 0 \/ journal[i].received # Null
    BY <1>0, <2>1, <2>5
  <2>. QED  BY <1>0, <2>1, <2>2, <2>4, <2>6, AgedRow
<1>7. ASSUME NEW n \in Row, NEW added \in SUBSET Row, RunReplaySweep(n, added) PROVE RowInv(i)'
  <2>1. UNCHANGED <<began, ops>> /\ jobs' = [j \in Row |-> IF j \in added THEN jobs[j] + 1 ELSE jobs[j]]
    BY <1>7 DEF RunReplaySweep
  <2>2. /\ Aged(journal[i], journal'[i])
        /\ journal'[i].replays <= ReplayMaxAttempts \/ journal'[i].replays = journal[i].replays
        /\ i \in added => journal[i].exists
    BY <1>7, SweptJournal
  <2>3. journal'[i].replays <= ReplayMaxAttempts + ops' \/ journal'[i].replays = journal[i].replays
    <3>1. journal'[i].replays \in Nat
      BY <2>2 DEF Aged, JournalRow
    <3>. QED  BY <1>0, <2>2, <3>1
  <2>4. journal[i].exists => journal[i].received # Null
    BY Constants DEF TypeOK
  <2>5. jobs'[i] > 0 => jobs[i] > 0 \/ journal[i].received # Null
    BY <1>0, <2>1, <2>2, <2>4
  <2>. QED  BY <1>0, <2>1, <2>2, <2>3, <2>5, AgedRow
<1>8. ASSUME UNCHANGED <<journal, jobs, began>> PROVE RowInv(i)'
  BY <1>0, <1>s, <1>8, AgedRow
<1>9. ASSUME NEW s \in Send, UnsubscribeClick(s) PROVE UNCHANGED <<journal, jobs, began>>
  BY <1>9 DEF UnsubscribeClick, ingestVars
<1>10. ASSUME NextDay PROVE UNCHANGED <<journal, jobs, began>>
  BY <1>10 DEF NextDay, ingestVars
<1>11. ASSUME SoftDeleteOrRestore PROVE UNCHANGED <<journal, jobs, began>>
  BY <1>11 DEF SoftDeleteOrRestore, ingestVars
<1>12. ASSUME UNCHANGED vars PROVE UNCHANGED <<journal, jobs, began>>
  BY <1>12 DEF vars, ingestVars
<1>. QED  BY <1>1, <1>2, <1>3, <1>4, <1>5, <1>6, <1>7, <1>8, <1>9, <1>10, <1>11, <1>12 DEF Next

\* The types, after any step.
LEMMA TypeStep ==
    ASSUME TypeOK, RowsInv', BatchInv, BatchInv', [Next]_vars
    PROVE  TypeOK'
<1>0. /\ journal \in [Row -> JournalRow] /\ jobs \in [Row -> 0 .. MaxJobs] /\ today \in Day
      /\ quarantine \subseteq [event : Event, day : Day] /\ MaxJobs \in Nat \ {0}
      /\ \A j \in Row : journal[j].exists => journal[j].received \in Day
  BY Constants DEF TypeOK
<1> DEFINE JournalOK == /\ journal' \in [Row -> JournalRow]
                        /\ \A j \in Row : journal'[j].exists => journal'[j].received \in Day
           JobsOK == jobs' \in [Row -> 0 .. MaxJobs]
           QuarantineOK == quarantine' \subseteq [event : Event, day : Day]
           Same == UNCHANGED <<journal, jobs, quarantine>>
<1>1. Same => JournalOK /\ JobsOK /\ QuarantineOK
  BY <1>0
<1>2. ASSUME NEW b \in Batches, ReceiveBatch(b) PROVE JournalOK /\ JobsOK /\ QuarantineOK
  <2>1. UNCHANGED quarantine /\ jobs' \in {jobs, [jobs EXCEPT ![NextRow] = @ + 1]}
    BY <1>2 DEF ReceiveBatch
  <2>2. /\ NextRow \in Row /\ journal[NextRow].received = Null
        /\ journal' \in [Row -> JournalRow]
        /\ \A j \in Row \ {NextRow} : journal'[j] = journal[j]
        /\ journal'[NextRow].received = today
    BY <1>2, ReceivedRow
  <2>3. jobs[NextRow] = 0
    BY <1>0, <2>2 DEF BatchInv
  <2>. QED  BY <1>0, <2>1, <2>2, <2>3, EnqueueType
<1>3. ASSUME NEW j \in Row, DropJobOfDeletedWorkspace(j) PROVE JournalOK /\ JobsOK /\ QuarantineOK
  <2>1. UNCHANGED <<journal, quarantine>> /\ jobs' = [jobs EXCEPT ![j] = @ - 1] /\ jobs[j] > 0
    BY <1>3 DEF DropJobOfDeletedWorkspace
  <2>. QED  BY <1>0, <2>1, EnqueueType
<1>4. ASSUME NEW j \in Row, BeginBatch(j) PROVE JournalOK /\ JobsOK /\ QuarantineOK
  <2>1. UNCHANGED <<journal, quarantine>> /\ jobs' = [jobs EXCEPT ![j] = @ - 1] /\ jobs[j] > 0
    BY <1>4 DEF BeginBatch
  <2>. QED  BY <1>0, <2>1, EnqueueType
<1>5. ASSUME NEW j \in Row, ProcessWebhookEventBatch(j) PROVE JournalOK /\ JobsOK /\ QuarantineOK
  <2>1. /\ UNCHANGED jobs /\ journal' = MarkIngestionComplete(j)
        /\ quarantine' = quarantine \cup
             {[event |-> e, day |-> today] : e \in Quarantined(journal[j].batch, began[j])}
    BY <1>5 DEF ProcessWebhookEventBatch
  <2>2. \A i \in Row : /\ journal'[i].exists => journal[i].exists
                       /\ journal'[i].received = journal[i].received
    BY <2>1, CompleteRow DEF Aged
  <2>3. journal' \in [Row -> JournalRow]
    BY <2>1, CompleteRow
  <2>4. Quarantined(journal[j].batch, began[j]) \subseteq Event
    <3>1. journal[j].batch \in Seq(Event)
      BY RowFields
    <3>2. ToSet(journal[j].batch) \subseteq Event
      BY <3>1 DEF ToSet
    <3>. QED  BY <3>2 DEF Quarantined
  <2>5. QuarantineOK
    BY <1>0, <2>1, <2>4
  <2>. QED  BY <1>0, <2>1, <2>2, <2>3, <2>5
<1>6. ASSUME NEW j \in Row, BatchFails(j) PROVE JournalOK /\ JobsOK /\ QuarantineOK
  <2>1. UNCHANGED <<journal, quarantine>> /\ (jobs' = jobs \/ (jobs[j] < MaxJobs /\ jobs' = [jobs EXCEPT ![j] = @ + 1]))
    BY <1>6 DEF BatchFails
  <2>. QED  BY <1>0, <2>1, EnqueueType
<1>7. ASSUME NEW j \in Row, ReplayJournal(j) PROVE JournalOK /\ JobsOK /\ QuarantineOK
  <2>1. /\ UNCHANGED quarantine /\ jobs' = [jobs EXCEPT ![j] = @ + 1] /\ jobs[j] < MaxJobs
        /\ journal' = [journal EXCEPT ![j].replays = @ + 1]
    BY <1>7 DEF ReplayJournal
  <2>2. journal' \in [Row -> JournalRow] /\ \A i \in Row : Aged(journal[i], journal'[i])
    BY <2>1, ReplayedRow
  <2>. QED  BY <1>0, <2>1, <2>2, EnqueueType DEF Aged
<1>8. ASSUME NEW n \in Row, NEW added \in SUBSET Row, RunReplaySweep(n, added)
      PROVE  JournalOK /\ JobsOK /\ QuarantineOK
  <2>1. /\ jobs' = [j \in Row |-> IF j \in added THEN jobs[j] + 1 ELSE jobs[j]]
        /\ \A j \in added : jobs[j] < MaxJobs
        /\ quarantine' \subseteq quarantine
    BY <1>8 DEF RunReplaySweep
  <2>2. journal' \in [Row -> JournalRow] /\ \A j \in Row : Aged(journal[j], journal'[j])
    BY <1>8, SweptJournal
  <2>3. \A j \in added : jobs[j] + 1 \in 0 .. MaxJobs
    BY <1>0, <2>1
  <2>4. JobsOK
    BY <1>0, <2>1, <2>3
  <2>. QED  BY <1>0, <2>1, <2>2, <2>4 DEF Aged
<1>9. ASSUME NEW s \in Send, UnsubscribeClick(s) PROVE Same
  BY <1>9 DEF UnsubscribeClick, ingestVars
<1>10. ASSUME NextDay PROVE Same
  BY <1>10 DEF NextDay, ingestVars
<1>11. ASSUME SoftDeleteOrRestore PROVE Same
  BY <1>11 DEF SoftDeleteOrRestore, ingestVars
<1>12. ASSUME UNCHANGED vars PROVE Same
  BY <1>12 DEF vars, ingestVars
<1>13. JournalOK /\ JobsOK /\ QuarantineOK
  BY <1>1, <1>2, <1>3, <1>4, <1>5, <1>6, <1>7, <1>8, <1>9, <1>10, <1>11, <1>12 DEF Next
<1>14. db' \in Db /\ stored' \subseteq StoredEvent
  BY DEF RowsInv, AccOK, Start, Progress
<1>15. /\ today' \in Day /\ deleted' \in BOOLEAN
       /\ faults' \in 0 .. MaxFaults /\ ops' \in 0 .. MaxOperator
       /\ began' \in [Row -> Day \cup {Null}]
  BY CountersType
<1>16. \A j \in Row : journal'[j].replays \in 0 .. ReplayMaxAttempts + MaxOperator
  <2> SUFFICES ASSUME NEW j \in Row PROVE journal'[j].replays \in 0 .. ReplayMaxAttempts + MaxOperator
    OBVIOUS
  <2>1. journal'[j].replays \in Nat
    BY <1>13 DEF JournalRow
  <2>2. journal'[j].replays <= ReplayMaxAttempts + ops'
    BY DEF BatchInv
  <2>. QED  BY <1>15, <2>1, <2>2, Constants
<1>. QED  BY <1>13, <1>14, <1>15, <1>16 DEF TypeOK

-----------------------------------------------------------------------------
\* A row that was settled, or is settled now with all its events stored.
LEMMA SettledRow ==
    ASSUME TypeOK, NEW j \in Row, Aged(journal[j], journal'[j]),
           stored \subseteq stored', today <= today', today \in Nat, today' \in Nat,
           Settled(j)' => \/ Settled(j)
                          \/ \A i \in 1 .. Len(journal[j].batch) :
                                 LET e == journal[j].batch[i]
                                 IN  e.hasId /\ e.send \in Send /\ e.at \in Day /\ e.at >= today - PastDays
                                     => Holds(stored', e),
           Settled(j) =>
               \A i \in 1 .. Len(journal[j].batch) :
                   LET e == journal[j].batch[i]
                   IN  e.hasId /\ e.send \in Send /\ e.at \in Day /\ e.at >= today - PastDays => Holds(stored, e),
           Settled(j)', NEW i \in 1 .. Len(journal'[j].batch),
           journal'[j].batch[i].hasId, journal'[j].batch[i].send \in Send,
           journal'[j].batch[i].at \in Day, journal'[j].batch[i].at >= today' - PastDays
    PROVE  Holds(stored', journal'[j].batch[i])
<1> DEFINE e == journal[j].batch[i]
<1>1. journal'[j].batch = journal[j].batch
  BY DEF Aged
<1>2. e.at >= today - PastDays
  <2>1. e.at \in Nat /\ PastDays \in Nat /\ e.at >= today' - PastDays
    BY <1>1, Constants
  <2>. QED  BY <2>1
<1>3. Holds(stored, e) => Holds(stored', e)
  BY DEF Holds
<1>. QED  BY <1>1, <1>2, <1>3

\* SweepRows, CompleteRow and ReplayedRow leave a row that was not settled so,
\* but for the row a worker has just completed.
LEMMA CompleteStep ==
    ASSUME TypeOK, RowsInv, BatchInv, CompleteInv, [Next]_vars
    PROVE  CompleteInv'
<1> DEFINE Ingested(j, events, day) ==
             \A i \in 1 .. Len(journal[j].batch) :
                 LET e == journal[j].batch[i]
                 IN  e.hasId /\ e.send \in Send /\ e.at \in Day /\ e.at >= day - PastDays
                     => Holds(events, e)
<1>0. /\ stored \subseteq stored' /\ today <= today' /\ today \in Nat /\ today' \in Nat
      /\ \A j \in Row : Settled(j) => Ingested(j, stored, today)
  <2>1. stored \subseteq stored'
    BY RowsStep
  <2>2. today <= today' /\ today \in Nat /\ today' \in Nat
    BY CountersType, Constants DEF TypeOK
  <2>. QED  BY <2>1, <2>2 DEF CompleteInv
<1> DEFINE Kept(j) == /\ Aged(journal[j], journal'[j])
                      /\ Settled(j)' => Settled(j) \/ Ingested(j, stored', today)
<1>1. ASSUME \A j \in Row : Kept(j)
      PROVE  CompleteInv'
  <2> SUFFICES ASSUME NEW j \in Row, Settled(j)', NEW i \in 1 .. Len(journal'[j].batch),
                      journal'[j].batch[i].hasId, journal'[j].batch[i].send \in Send,
                      journal'[j].batch[i].at \in Day, journal'[j].batch[i].at >= today' - PastDays
               PROVE  Holds(stored', journal'[j].batch[i])
    BY DEF CompleteInv, Holds
  <2>1. Kept(j)
    BY <1>1
  <2>. QED  BY <1>0, <2>1, SettledRow
<1>2. ASSUME UNCHANGED journal PROVE \A j \in Row : Kept(j)
  BY <1>2, SameRow DEF Settled
<1>3. ASSUME NEW b \in Batches, ReceiveBatch(b) PROVE CompleteInv'
  <2>1. /\ NextRow \in Row
        /\ \A j \in Row \ {NextRow} : journal'[j] = journal[j]
        /\ journal'[NextRow].exists /\ ~journal'[NextRow].done
    BY <1>3, ReceivedRow
  <2>2. UNCHANGED <<stored, today>>
    BY <1>3 DEF ReceiveBatch
  <2>3. \A j \in Row : Settled(j)' => j # NextRow
    BY <2>1 DEF Settled
  <2>. QED  BY <2>1, <2>2, <2>3 DEF CompleteInv, Settled
<1>4. ASSUME NEW j \in Row, ProcessWebhookEventBatch(j) PROVE \A i \in Row : Kept(i)
  <2>1. journal' = MarkIngestionComplete(j) /\ began[j] # Null
    BY <1>4 DEF ProcessWebhookEventBatch
  <2>2. \A i \in Row : Aged(journal[i], journal'[i]) /\ (i # j => journal'[i] = journal[i])
    BY <2>1, CompleteRow
  <2>3. Ingested(j, stored', today)
    <3> SUFFICES ASSUME NEW i \in 1 .. Len(journal[j].batch),
                        journal[j].batch[i].hasId, journal[j].batch[i].send \in Send,
                        journal[j].batch[i].at \in Day, journal[j].batch[i].at >= today - PastDays
                 PROVE  Holds(stored', journal[j].batch[i])
      OBVIOUS
    <3> DEFINE e == journal[j].batch[i]
    <3>1. /\ e.at <= journal[j].received /\ journal[j].received <= began[j] /\ began[j] <= today
      BY <2>1 DEF BatchInv
    <3>2. e.at \in Nat /\ journal[j].received \in Nat /\ began[j] \in Nat /\ PastDays \in Nat
      <4>1. /\ journal[j].received \in Day \cup {Null} /\ began[j] \in Day \cup {Null}
            /\ e.at \in Day
        BY RowFields
      <4>2. \A d \in Day \cup {Null} : d \in Nat
        BY Constants
      <4>. QED  BY <4>1, <4>2, Constants
    <3>a. began[j] - PastDays <= e.at /\ e.at <= began[j]
      <4> HIDE DEF e
      <4>1. e.at >= today - PastDays
        BY DEF e
      <4>. QED  BY <1>0, <3>1, <3>2, <4>1
    <3>3. OccurredAtAccepted(e, began[j])
      BY <3>a DEF OccurredAtAccepted
    <3>4. e.send # "sibling"
      BY WebhookIngestionAssumption DEF Elsewhere
    <3>5. Extracted(e, began[j])
      BY <3>3, <3>4 DEF Extracted
    <3>. QED  BY <1>4, <3>5, Processed
  <2>. QED  BY <2>2, <2>3 DEF Settled
<1>5. ASSUME NEW j \in Row, ReplayJournal(j) PROVE \A i \in Row : Kept(i)
  <2>1. journal' = [journal EXCEPT ![j].replays = @ + 1]
    BY <1>5 DEF ReplayJournal
  <2>2. \A i \in Row : /\ Aged(journal[i], journal'[i]) /\ journal'[i].done = journal[i].done
                       /\ journal'[i].exists = journal[i].exists
    BY <2>1, ReplayedRow
  <2>. QED  BY <2>2 DEF Settled, Aged
<1>6. ASSUME NEW n \in Row, NEW added \in SUBSET Row, RunReplaySweep(n, added)
      PROVE  \A i \in Row : Kept(i)
  <2>1. \A i \in Row : /\ Aged(journal[i], journal'[i]) /\ journal'[i].done = journal[i].done
                       /\ journal'[i].exists \/ ~journal[i].exists \/ journal[i].done
    BY <1>6, SweptJournal
  <2>. QED  BY <2>1 DEF Settled, Aged
<1>7. ASSUME NEW j \in Row, DropJobOfDeletedWorkspace(j) PROVE UNCHANGED journal
  BY <1>7 DEF DropJobOfDeletedWorkspace
<1>8. ASSUME NEW j \in Row, BeginBatch(j) PROVE UNCHANGED journal
  BY <1>8 DEF BeginBatch
<1>9. ASSUME NEW j \in Row, BatchFails(j) PROVE UNCHANGED journal
  BY <1>9 DEF BatchFails
<1>10. ASSUME NEW s \in Send, UnsubscribeClick(s) PROVE UNCHANGED journal
  BY <1>10 DEF UnsubscribeClick, ingestVars
<1>11. ASSUME NextDay PROVE UNCHANGED journal
  BY <1>11 DEF NextDay, ingestVars
<1>12. ASSUME SoftDeleteOrRestore PROVE UNCHANGED journal
  BY <1>12 DEF SoftDeleteOrRestore, ingestVars
<1>13. ASSUME UNCHANGED vars PROVE UNCHANGED journal
  BY <1>13 DEF vars, ingestVars
<1> HIDE DEF Kept
<1>. QED  BY <1>1, <1>2, <1>3, <1>4, <1>5, <1>6, <1>7, <1>8, <1>9, <1>10, <1>11, <1>12, <1>13 DEF Next

\* Every step keeps the invariant.
LEMMA NextInv == WebhookInv /\ [Next]_vars => WebhookInv'
<1> SUFFICES ASSUME WebhookInv, [Next]_vars PROVE WebhookInv'
  OBVIOUS
<1>1. RowsInv'
  BY RowsStep DEF WebhookInv
<1>2. BatchInv'
  BY BatchStep DEF WebhookInv
<1>3. CompleteInv'
  BY CompleteStep DEF WebhookInv
<1>4. TypeOK'
  BY <1>1, <1>2, TypeStep DEF WebhookInv
<1>. QED  BY <1>1, <1>2, <1>3, <1>4 DEF WebhookInv

\* The invariant holds from the start.
LEMMA WebhookInvariant == Spec => []WebhookInv
BY InitInv, NextInv, PTL DEF Spec

-----------------------------------------------------------------------------
(* The theorems.                                                           *)

\* Every row, job and counter of the webhook path keeps its type.
THEOREM TypeTheorem == Spec => []TypeOK
<1>1. WebhookInv => TypeOK
  BY DEF WebhookInv
<1>. QED  BY <1>1, WebhookInvariant, PTL

\* applyEventSideEffects and the unsubscribe link count a send once per metric,
\* and no send is missed: however batches are repeated, replayed, cut short or
\* interleaved with clicks, a campaign counter is the number of its sends with
\* the fact.
THEOREM CountersMatchFactsTheorem == Spec => []CountersMatchFacts
<1>1. WebhookInv => CountersMatchFacts
  BY DEF WebhookInv, RowsInv, AccOK, Start, RowsOK, CountsOK, CountersMatchFacts, Has
<1>. QED  BY <1>1, WebhookInvariant, PTL

\* The insert's ON CONFLICT DO NOTHING carries the side effects: opens and clicks
\* count each stored event exactly once.
THEOREM EngagementMatchesEventsTheorem == Spec => []EngagementMatchesEvents
<1>1. WebhookInv => EngagementMatchesEvents
  BY DEF WebhookInv, RowsInv, AccOK, Start, EngagementOK, EngagementMatchesEvents, Seen
<1>. QED  BY <1>1, WebhookInvariant, PTL

\* Hard bounces, too many soft ones and spam reports put the address on the list,
\* and nothing in the webhook path or the unsubscribe link takes it off.
THEOREM TerminalsAreSuppressedTheorem == Spec => []TerminalsAreSuppressed
<1>1. WebhookInv => TerminalsAreSuppressed
  BY DEF WebhookInv, RowsInv, AccOK, Start, RowsOK, Suppressed, TerminalsAreSuppressed
<1>. QED  BY <1>1, WebhookInvariant, PTL

\* markIngestionComplete and the journal's retention lose no acknowledged event.
THEOREM CompleteMeansIngestedTheorem == Spec => []CompleteMeansIngested
<1>1. WebhookInv => CompleteMeansIngested
  <2> SUFFICES ASSUME WebhookInv, NEW j \in Row, Settled(j), NEW e \in ToSet(journal[j].batch),
                      e.hasId, e.send \in Send, e.at \in Day, e.at >= today - PastDays
               PROVE  \E k \in stored : SameKey(k, e)
    BY DEF CompleteMeansIngested, Settled
  <2>1. journal[j].batch \in Seq(Event)
    BY RowFields DEF WebhookInv
  <2>2. PICK i \in 1 .. Len(journal[j].batch) : journal[j].batch[i] = e
    BY <2>1 DEF ToSet
  <2>. QED  BY <2>2 DEF WebhookInv, CompleteInv, Holds
<1>. QED  BY <1>1, WebhookInvariant, PTL

-----------------------------------------------------------------------------
(* The reconciliation of DailyRollup.                                      *)

\* Nothing counted for day d exceeds a recount.
Within(counted, rows, d) == \A m \in Metric : counted[m] <= Recount(rows, d)[m]

\* What the sweep counted, or overwrote and has not committed, overstates nothing
\* either: the event that commits in between adds to the facts as well.
SweepNeverOverstates ==
    /\ recount.phase = "counted" => Within(recount.counted, facts, recount.day)
    /\ \A d \in recount.locked : Within(recount.writes[d], facts, d)

\* The inductive invariant of the rollup.
RollupInv == RollupTypeOK /\ RollupNeverOverstates /\ SweepNeverOverstates

\* The fields of a sweep.
LEMMA SweepFields ==
    ASSUME RollupTypeOK
    PROVE  /\ recount.phase \in {"idle", "picking", "counted"}
           /\ recount.days \in SUBSET Day /\ recount.locked \in SUBSET Day
           /\ recount.day \in Day \cup {Null}
           /\ recount.counted \in [Metric -> Nat] /\ recount.writes \in [Day -> [Metric -> Nat]]
  BY DEF RollupTypeOK, Sweep

\* No sweep holds nothing.
LEMMA IdleSweep == Idle \in Sweep /\ Idle.phase = "idle" /\ Idle.locked = {} /\ Idle.days = {}
<1>1. Zero \in [Metric -> Nat]
  BY DEF Zero
<1> HIDE DEF Zero
<1>. QED  BY <1>1 DEF Idle, Sweep

\* Facts are never taken back.
LEMMA WithinBacked ==
    ASSUME NEW rows \in Db, NEW new, Backed(rows, new), NEW d \in Day,
           NEW counted \in [Metric -> Nat], Within(counted, rows, d)
    PROVE  Within(counted, new, d)
<1> SUFFICES ASSUME NEW m \in Metric PROVE counted[m] <= Recount(new, d)[m]
  BY DEF Within
<1>1. counted[m] <= Recount(rows, d)[m] /\ Recount(rows, d)[m] <= Recount(new, d)[m]
  BY DEF Within, Backed
<1>2. counted[m] \in Nat /\ Recount(rows, d)[m] \in Nat /\ Recount(new, d)[m] \in Nat
  BY RecountSends
<1>. QED  BY <1>1, <1>2

\* A recount is itself a row of counts.
LEMMA RecountType ==
    ASSUME NEW rows, NEW d \in Day
    PROVE  Recount(rows, d) \in [Metric -> Nat]
<1>1. \A m \in Metric : Recount(rows, d)[m] \in Nat
  BY RecountSends
<1> DEFINE on(F) == Cardinality({s \in Send : \E f \in F : rows.fact[s][f] = d})
<1>2. Recount(rows, d) =
        [m \in Metric |->
            CASE m = "delivered"    -> on({"delivered_at"})
              [] m = "opened"       -> on({"first_opened_at"})
              [] m = "clicked"      -> on({"first_clicked_at"})
              [] m = "bounced"      -> on(NonDeliveryTerminal)
              [] m = "unsubscribed" -> on({"unsubscribed_at"})]
  BY DEF Recount
<1> HIDE DEF on
<1>3. Recount(rows, d) = [m \in Metric |-> Recount(rows, d)[m]]
  BY <1>2
<1>. QED  BY <1>1, <1>3

\* Initially nothing is counted.
LEMMA RollupInitInv == RollupInit => RollupInv
<1> SUFFICES ASSUME RollupInit PROVE RollupInv
  OBVIOUS
<1>1. EmptyDb \in Db /\ \A d \in Day, m \in Metric : EmptyDb.rollup[d][m] = 0
  BY DEF EmptyDb, Db, Null, Mark, SubscriptionStatus
<1>2. 1 \in Day
  BY SendFactsAssumption DEF Day
<1>3. RollupTypeOK
  BY <1>1, <1>2, IdleSweep, DailyRollupAssumption DEF RollupInit, RollupTypeOK
<1>4. RollupNeverOverstates
  <2>1. \A d \in Day, m \in Metric : 0 <= Recount(facts, d)[m]
    BY RecountSends
  <2>. QED  BY <1>1, <2>1 DEF RollupInit, RollupNeverOverstates
<1>5. SweepNeverOverstates
  BY IdleSweep DEF RollupInit, SweepNeverOverstates
<1>. QED  BY <1>3, <1>4, <1>5 DEF RollupInv

\* An event or a click: the increments it makes are backed, and what the sweep
\* holds stays within the facts, which only grow.
LEMMA ApplyEventKeeps ==
    ASSUME RollupInv, NEW e \in Events, ApplyEvent(e)
    PROVE  RollupInv'
<1>1. e.send \in Send /\ e.at \in Day
  BY DailyRollupAssumption
<1>2. facts \in Db /\ date \in Day /\ RollupTypeOK
  BY DEF RollupInv, RollupTypeOK
<1>3. PICK mark \in MarkNow : facts' = ApplyEventSideEffects(facts, e, [today |-> date, mark |-> mark])
  BY DEF ApplyEvent
<1>4. [today |-> date, mark |-> mark] \in Instant
  BY <1>2 DEF Instant, Mark, MarkNow
<1>5. Backed(facts, facts')
  BY <1>1, <1>2, <1>3, <1>4, SideEffectsBacked
<1>6. RollupTypeOK'
  BY <1>2, <1>5 DEF ApplyEvent, RollupTypeOK, Backed
<1>7. RollupNeverOverstates'
  <2> SUFFICES ASSUME NEW d \in Day, NEW m \in Metric
               PROVE  facts'.rollup[d][m] <= Recount(facts', d)[m]
    BY DEF RollupNeverOverstates
  <2>1. facts'.rollup[d][m] + Recount(facts, d)[m] <= facts.rollup[d][m] + Recount(facts', d)[m]
    BY <1>5 DEF Backed
  <2>2. facts.rollup[d][m] <= Recount(facts, d)[m]
    BY DEF RollupInv, RollupNeverOverstates
  <2>3. facts.rollup[d][m] \in Nat /\ facts'.rollup[d][m] \in Nat
    BY <1>2, <1>5, DbFields DEF Backed
  <2>4. Recount(facts, d)[m] \in Nat /\ Recount(facts', d)[m] \in Nat
    BY RecountSends
  <2>. QED  BY <2>1, <2>2, <2>3, <2>4
<1>8. SweepNeverOverstates'
  <2>1. recount' = recount
    BY DEF ApplyEvent
  <2>2. ASSUME recount.phase = "counted" PROVE Within(recount.counted, facts', recount.day)
    <3>1. recount.day \in Day /\ recount.counted \in [Metric -> Nat]
      BY <1>2, <2>2, SweepFields DEF RollupTypeOK
    <3>2. Within(recount.counted, facts, recount.day)
      BY <2>2 DEF RollupInv, SweepNeverOverstates
    <3>. QED  BY <1>2, <1>5, <3>1, <3>2, WithinBacked
  <2>3. ASSUME NEW d \in recount.locked PROVE Within(recount.writes[d], facts', d)
    <3>1. d \in Day /\ recount.writes[d] \in [Metric -> Nat]
      BY <1>2, SweepFields
    <3>2. Within(recount.writes[d], facts, d)
      BY DEF RollupInv, SweepNeverOverstates
    <3>. QED  BY <1>2, <1>5, <3>1, <3>2, WithinBacked
  <2>. QED  BY <2>1, <2>2, <2>3 DEF SweepNeverOverstates
<1>. QED  BY <1>6, <1>7, <1>8 DEF RollupInv

\* The facts stay, and so do the days already overwritten.
LEMMA SweepKeeps ==
    ASSUME RollupInv, BeginReconcile \/ (\E d \in Day : CountDay(d)) \/ OverwriteDay
    PROVE  RollupInv'
<1>0. facts \in Db /\ RollupTypeOK
  BY DEF RollupInv, RollupTypeOK
<1>1. CASE BeginReconcile
  <2> DEFINE dirty == [d \in Day |-> IF facts.dirty[d] = "after" THEN "before" ELSE facts.dirty[d]]
  <2>1. dirty \in [Day -> Mark]
    BY <1>0, DbFields DEF Mark
  <2>2. facts' = [facts EXCEPT !.dirty = dirty]
    BY <1>1 DEF BeginReconcile
  <2> HIDE DEF dirty
  <2>3. facts' \in Db /\ facts'.fact = facts.fact /\ facts'.rollup = facts.rollup
    BY <1>0, <2>1, <2>2 DEF Db
  <2>4. RecentDays \cup DirtyDays \in SUBSET Day
    BY DEF RecentDays, DirtyDays
  <2>5. recount' = [Idle EXCEPT !.phase = "picking", !.days = RecentDays \cup DirtyDays]
    BY <1>1 DEF BeginReconcile
  <2>6. recount' \in Sweep /\ recount'.phase = "picking" /\ recount'.locked = {}
    BY <2>4, <2>5, IdleSweep DEF Sweep
  <2>7. RollupTypeOK'
    BY <1>0, <1>1, <2>3, <2>6 DEF BeginReconcile, RollupTypeOK
  <2>8. RollupNeverOverstates'
    BY <2>3, RecountFacts DEF RollupInv, RollupNeverOverstates
  <2>9. SweepNeverOverstates'
    BY <2>6 DEF SweepNeverOverstates
  <2>. QED  BY <2>7, <2>8, <2>9 DEF RollupInv
<1>2. CASE \E d \in Day : CountDay(d)
  <2>1. PICK d \in Day : CountDay(d)
    BY <1>2
  <2> DEFINE counts == Recount(facts, d)
  <2>2. counts \in [Metric -> Nat] /\ Within(counts, facts, d)
    <3>1. \A m \in Metric : counts[m] \in Nat
      BY RecountSends
    <3>2. counts \in [Metric -> Nat]
      BY RecountType
    <3>. QED  BY <3>1, <3>2 DEF Within
  <2>3. recount' = [recount EXCEPT !.phase = "counted", !.day = d, !.counted = counts]
    BY ONLY <2>1 DEF CountDay
  <2>4. d \in recount.days \ recount.locked /\ UNCHANGED <<facts, applied, date, live, setbacks>>
    BY ONLY <2>1 DEF CountDay
  <2> HIDE DEF counts
  <2>5. recount \in Sweep
    BY <1>0 DEF RollupTypeOK
  <2>6. /\ recount' \in Sweep /\ recount'.phase = "counted" /\ recount'.day = d /\ recount'.counted = counts
        /\ recount'.days = recount.days /\ recount'.locked = recount.locked
        /\ recount'.writes = recount.writes
    BY <2>2, <2>3, <2>5 DEF Sweep
  <2>7. RollupTypeOK'
    BY <1>0, <2>4, <2>6 DEF RollupTypeOK
  <2>8. RollupNeverOverstates'
    BY <2>4 DEF RollupInv, RollupNeverOverstates
  <2>9. SweepNeverOverstates'
    BY <2>2, <2>4, <2>6 DEF RollupInv, SweepNeverOverstates
  <2>. QED  BY <2>7, <2>8, <2>9 DEF RollupInv
<1>3. CASE OverwriteDay
  <2> DEFINE writes == [recount.writes EXCEPT ![recount.day] = recount.counted]
  <2>1. recount.phase = "counted" /\ UNCHANGED <<facts, applied, date, live, setbacks>>
    BY <1>3 DEF OverwriteDay
  <2>2. recount.day \in Day /\ recount.day \in recount.days
    BY <1>0, <2>1, SweepFields DEF RollupTypeOK
  <2>3. /\ recount \in Sweep /\ recount.locked \subseteq recount.days
        /\ recount.writes \in [Day -> [Metric -> Nat]] /\ recount.counted \in [Metric -> Nat]
        /\ recount.locked \in SUBSET Day
    BY <1>0, SweepFields DEF RollupTypeOK
  <2>4. writes \in [Day -> [Metric -> Nat]]
    BY <2>2, <2>3
  <2>5. recount' = [recount EXCEPT !.phase = "picking", !.day = Null, !.counted = Zero,
                                   !.locked = recount.locked \cup {recount.day}, !.writes = writes]
    BY <1>3, <2>3 DEF OverwriteDay, Sweep
  <2>6. \A d \in Day : writes[d] = IF d = recount.day THEN recount.counted ELSE recount.writes[d]
    BY <2>2, <2>3
  <2>7. Zero \in [Metric -> Nat]
    BY DEF Zero
  <2> HIDE DEF writes, Zero
  <2>8. /\ recount' \in Sweep /\ recount'.phase = "picking" /\ recount'.days = recount.days
        /\ recount'.locked = recount.locked \cup {recount.day} /\ recount'.writes = writes
    BY <2>2, <2>3, <2>4, <2>5, <2>7 DEF Sweep
  <2>9. RollupTypeOK'
    BY <1>0, <2>1, <2>2, <2>3, <2>8 DEF RollupTypeOK
  <2>10. RollupNeverOverstates'
    BY <2>1 DEF RollupInv, RollupNeverOverstates
  <2>11. SweepNeverOverstates'
    <3>1. /\ Within(recount.counted, facts, recount.day)
          /\ \A d \in recount.locked : Within(recount.writes[d], facts, d)
      BY <2>1 DEF RollupInv, SweepNeverOverstates
    <3>2. ASSUME NEW d \in recount.locked \cup {recount.day} PROVE Within(writes[d], facts, d)
      BY <2>2, <2>3, <2>6, <3>1
    <3>. QED  BY <2>1, <2>8, <3>2 DEF SweepNeverOverstates
  <2>. QED  BY <2>9, <2>10, <2>11 DEF RollupInv
<1>. QED  BY <1>1, <1>2, <1>3

\* The commit publishes days whose counts are within the facts.
LEMMA CommitKeeps ==
    ASSUME RollupInv, CommitReconcile
    PROVE  RollupInv'
<1> DEFINE rollup == [d \in Day |-> IF d \in recount.days THEN Published(d) ELSE facts.rollup[d]]
           dirty  == [d \in Day |-> IF Cleared(d) THEN "clean" ELSE facts.dirty[d]]
<1>0. facts \in Db /\ RollupTypeOK
  BY DEF RollupInv, RollupTypeOK
<1>1. recount.writes \in [Day -> [Metric -> Nat]] /\ recount.locked = recount.days
  BY <1>0, SweepFields DEF CommitReconcile
<1>2. rollup \in [Day -> [Metric -> Nat]] /\ dirty \in [Day -> Mark]
  BY <1>0, <1>1, DbFields DEF Published, Mark
<1>3. facts' = [facts EXCEPT !.rollup = rollup, !.dirty = dirty]
  BY DEF CommitReconcile
<1>4. \A d \in Day : rollup[d] = IF d \in recount.days THEN recount.writes[d] ELSE facts.rollup[d]
  BY DEF Published
<1> HIDE DEF rollup, dirty
<1>5. facts' \in Db /\ facts'.fact = facts.fact /\ facts'.rollup = rollup
  BY <1>0, <1>2, <1>3 DEF Db
<1>6. RollupTypeOK'
  BY <1>0, <1>5, IdleSweep DEF CommitReconcile, RollupTypeOK
<1>7. RollupNeverOverstates'
  <2> SUFFICES ASSUME NEW d \in Day, NEW m \in Metric
               PROVE  rollup[d][m] <= Recount(facts', d)[m]
    BY <1>5 DEF RollupNeverOverstates
  <2>1. Recount(facts', d)[m] = Recount(facts, d)[m]
    BY <1>5, RecountFacts
  <2>2. CASE d \in recount.days
    <3>1. Within(recount.writes[d], facts, d)
      BY <1>1, <2>2 DEF RollupInv, SweepNeverOverstates
    <3>. QED  BY <1>4, <2>1, <2>2, <3>1 DEF Within
  <2>3. CASE d \notin recount.days
    BY <1>4, <2>1, <2>3 DEF RollupInv, RollupNeverOverstates
  <2>. QED  BY <2>2, <2>3
<1>8. SweepNeverOverstates'
  BY IdleSweep DEF CommitReconcile, SweepNeverOverstates
<1>. QED  BY <1>6, <1>7, <1>8 DEF RollupInv

\* Every step keeps the invariant.
LEMMA RollupNextInv == RollupInv /\ [RollupNext]_rollupVars => RollupInv'
<1> SUFFICES ASSUME RollupInv, [RollupNext]_rollupVars PROVE RollupInv'
  OBVIOUS
<1>1. CASE \E e \in Events : ApplyEvent(e)
  BY <1>1, ApplyEventKeeps
<1>2. CASE BeginReconcile \/ (\E d \in Day : CountDay(d)) \/ OverwriteDay
  BY <1>2, SweepKeeps
<1>3. CASE CommitReconcile
  BY <1>3, CommitKeeps
<1>4. CASE ReconcileFails
  <2>1. RollupTypeOK'
    BY <1>4, IdleSweep, DailyRollupAssumption DEF ReconcileFails, RollupInv, RollupTypeOK
  <2>2. RollupNeverOverstates' /\ SweepNeverOverstates'
    BY <1>4, IdleSweep DEF ReconcileFails, RollupInv, RollupNeverOverstates, SweepNeverOverstates
  <2>. QED  BY <2>1, <2>2 DEF RollupInv
<1>5. CASE NextDate \/ SoftDelete \/ Restore \/ UNCHANGED rollupVars
  <2>1. UNCHANGED <<facts, recount, applied>>
    BY <1>5 DEF NextDate, SoftDelete, Restore, rollupVars
  <2>2. /\ date \in Day /\ MaxDay \in Nat /\ live \in BOOLEAN
        /\ setbacks \in 0 .. MaxSetbacks /\ MaxSetbacks \in Nat
    BY SendFactsAssumption, DailyRollupAssumption DEF RollupInv, RollupTypeOK
  <2>3. date' \in Day
    BY <1>5, <2>2 DEF NextDate, SoftDelete, Restore, rollupVars, Day
  <2>4. live' \in BOOLEAN
    BY <1>5, <2>2 DEF NextDate, SoftDelete, Restore, rollupVars
  <2>5. setbacks' \in 0 .. MaxSetbacks
    BY <1>5, <2>2 DEF NextDate, SoftDelete, Restore, rollupVars
  <2>. QED  BY <2>1, <2>3, <2>4, <2>5 DEF RollupInv, RollupTypeOK, RollupNeverOverstates, SweepNeverOverstates
<1>. QED  BY <1>1, <1>2, <1>3, <1>4, <1>5 DEF RollupNext

\* The invariant holds from the start.
LEMMA RollupInvariant == RollupSpec => []RollupInv
BY RollupInitInv, RollupNextInv, PTL DEF RollupSpec

\* Both writers of the rollup, and the transaction between them, keep its types.
THEOREM RollupTypeTheorem == RollupSpec => []RollupTypeOK
<1>1. RollupInv => RollupTypeOK
  BY DEF RollupInv
<1>. QED  BY <1>1, RollupInvariant, PTL

\* incrementWorkspaceDailyRollup in the event's own transaction, and the DO UPDATE
\* of reconcileWorkspaceDay from an older snapshot: in whatever order they count,
\* lock, commit and roll back, a rollup day never runs ahead of the facts.
THEOREM RollupNeverOverstatesTheorem == RollupSpec => []RollupNeverOverstates
<1>1. RollupInv => RollupNeverOverstates
  BY DEF RollupInv
<1>. QED  BY <1>1, RollupInvariant, PTL
=============================================================================

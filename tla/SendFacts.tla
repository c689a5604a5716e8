------------------------------ MODULE SendFacts ------------------------------
(***************************************************************************)
(* What one provider event does to a workspace's rows: the fact columns of *)
(* the send it names, the campaign's counters, the contact's subscription  *)
(* status and soft-bounce streak, the suppression list and the daily       *)
(* rollup.  Everything is a function of the rows `db' as the transaction   *)
(* sees them; the modules that own the transaction store the result.       *)
(*                                                                         *)
(* A time is the UTC day it falls on, which is all the rollup keeps of it. *)
(***************************************************************************)
EXTENDS Integers, FiniteSets

CONSTANTS
    Send,            \* the workspace's sends
    Contact,
    ContactOf,       \* [Send -> Contact]
    CampaignSend,    \* the sends of the campaign; the others belong to flows
    MaxDay,
    SoftBounceSuppressThreshold

ASSUME SendFactsAssumption ==
    /\ IsFiniteSet(Send)
    /\ ContactOf \in [Send -> Contact]
    /\ CampaignSend \subseteq Send
    /\ MaxDay \in Nat \ {0}
    /\ SoftBounceSuppressThreshold \in Nat \ {0}

Day  == 1 .. MaxDay
Null == 0             \* a fact column nobody has set

Fact == {"delivered_at", "first_opened_at", "first_clicked_at",
         "bounced_at", "dropped_at", "spam_reported_at", "unsubscribed_at"}
NonDeliveryTerminal == {"bounced_at", "dropped_at", "spam_reported_at"}

\* The campaign's counters and the rollup's event-derived ones have one name.
Metric == {"delivered", "opened", "clicked", "bounced", "unsubscribed"}

SubscriptionStatus == {"subscribed", "unsubscribed", "suppressed"}

\* dirtied_at against the start of the reconciliation that runs, or runs next.
Mark == {"clean", "before", "after"}

Db == [fact     : [Send -> [Fact -> Day \cup {Null}]],
       opens    : [Send -> Nat],
       clicks   : [Send -> Nat],
       count    : [Metric -> Nat],
       status   : [Contact -> SubscriptionStatus],
       streak   : [Contact -> Nat],
       hashed   : SUBSET Contact,
       rollup   : [Day -> [Metric -> Nat]],
       dirty    : [Day -> Mark]]

EmptyDb ==
    [fact   |-> [s \in Send |-> [f \in Fact |-> Null]],
     opens  |-> [s \in Send |-> 0],
     clicks |-> [s \in Send |-> 0],
     count  |-> [m \in Metric |-> 0],
     status |-> [c \in Contact |-> "subscribed"],
     streak |-> [c \in Contact |-> 0],
     hashed |-> {},
     rollup |-> [d \in Day |-> [m \in Metric |-> 0]],
     dirty  |-> [d \in Day |-> "clean"]]

\* normalizeEventType; "bounce" carries its subtype, anything else is out of scope.
NormalizeEventType(e) ==
    CASE e.event = "bounce" /\ e.type = "blocked" -> "bounce_soft"
      [] e.event = "bounce" /\ e.type # "blocked" -> "bounce_hard"
      [] e.event = "spamreport"                   -> "spam_report"
      [] e.event \in {"delivered", "open", "click", "dropped",
                      "unsubscribe", "group_unsubscribe"} -> e.event
      [] OTHER -> "out_of_scope"

\* resolveSuppression for a drop: what SendGrid's reason says of the address.
DropOutcome(reason) ==
    CASE reason \in {"Bounced Address", "Spam Reporting Address", "Invalid Address"} -> "suppressed"
      [] reason = "Unsubscribed Address" -> "unsubscribed"
      [] OTHER -> "none"

-----------------------------------------------------------------------------
\* setFactColumnOnce: UPDATE ... WHERE column IS NULL, and whether it matched.
Unset(db, s, f)               == db.fact[s][f] = Null
SetFactColumnOnce(db, s, f, d) == [db EXCEPT !.fact[s][f] = IF @ = Null THEN d ELSE @]

\* incrementCampaignCounter, for a send that has a campaign.
IncrementCampaignCounter(db, s, m) ==
    IF s \in CampaignSend THEN [db EXCEPT !.count[m] = @ + 1] ELSE db

\* incrementWorkspaceDailyRollup: dirtied_at = COALESCE(dirtied_at, now()) unless
\* the day is today, where now() is the start of the transaction.
IncrementWorkspaceDailyRollup(db, d, m, now) ==
    [db EXCEPT !.rollup[d][m] = @ + 1,
               !.dirty[d] = IF d # now.today /\ @ = "clean" THEN now.mark ELSE @]

\* The two counters of a fact that was just set.
CountFact(db, s, d, m, now) ==
    IncrementWorkspaceDailyRollup(IncrementCampaignCounter(db, s, m), d, m, now)

\* Mutant: every non-delivery terminal counts.
CountEveryTerminal(db, s, d, now) == CountFact(db, s, d, "bounced", now)

\* isFirstNonDeliveryTerminal, asked after the fact was set: only the first of a
\* send's terminals counts as a bounce.
CountIfFirstTerminal(db, s, d, now) ==
    IF Cardinality({f \in NonDeliveryTerminal : db.fact[s][f] # Null}) = 1
    THEN CountFact(db, s, d, "bounced", now)
    ELSE db

\* Mutant: an address that unsubscribed is not put on the list.
ApplySuppressionUnlessUnsubscribed(db, c) ==
    IF db.status[c] = "unsubscribed" THEN db
    ELSE [db EXCEPT !.status[c] = "suppressed", !.hashed = @ \cup {c}]

\* applySuppression: the contact's status, and its address's hash in the list.
ApplySuppression(db, c) ==
    [db EXCEPT !.status[c] = "suppressed", !.hashed = @ \cup {c}]

\* applyUnsubscribeWithSendFact; a suppressed contact becomes unsubscribed too.
ApplyUnsubscribeWithSendFact(db, s, d) ==
    SetFactColumnOnce([db EXCEPT !.status[ContactOf[s]] = "unsubscribed"], s, "unsubscribed_at", d)

-----------------------------------------------------------------------------
\* The cases of applyEventSideEffects.
Delivered(db, s, d, now) ==
    IF ~Unset(db, s, "delivered_at") THEN db
    ELSE CountFact([SetFactColumnOnce(db, s, "delivered_at", d)
                       EXCEPT !.streak[ContactOf[s]] = 0], s, d, "delivered", now)

Opened(db, s, d, now) ==
    LET set == IF Unset(db, s, "first_opened_at")
               THEN CountFact(SetFactColumnOnce(db, s, "first_opened_at", d), s, d, "opened", now)
               ELSE db
    IN  [set EXCEPT !.opens[s] = @ + 1]

Clicked(db, s, d, now) ==
    LET set == IF Unset(db, s, "first_clicked_at")
               THEN CountFact(SetFactColumnOnce(db, s, "first_clicked_at", d), s, d, "clicked", now)
               ELSE db
    IN  [set EXCEPT !.clicks[s] = @ + 1]

\* bounced_at, dropped_at or spam_reported_at, set and counted; once per column.
Terminal(db, s, f, d, now) ==
    CountIfFirstTerminal(SetFactColumnOnce(db, s, f, d), s, d, now)

BouncedHard(db, s, d, now) ==
    IF ~Unset(db, s, "bounced_at") THEN db
    ELSE ApplySuppression(Terminal(db, s, "bounced_at", d, now), ContactOf[s])

BouncedSoft(db, s, d, now) ==
    LET counted == [db EXCEPT !.streak[ContactOf[s]] = @ + 1]
    IN  IF counted.streak[ContactOf[s]] >= SoftBounceSuppressThreshold
        THEN BouncedHard(counted, s, d, now)
        ELSE counted

Dropped(db, s, reason, d, now) ==
    LET set == Terminal(db, s, "dropped_at", d, now)
    IN  CASE ~Unset(db, s, "dropped_at") -> db
          [] Unset(db, s, "dropped_at") /\ DropOutcome(reason) = "suppressed" ->
               ApplySuppression(set, ContactOf[s])
          [] Unset(db, s, "dropped_at") /\ DropOutcome(reason) = "unsubscribed" ->
               LET unsub == ApplyUnsubscribeWithSendFact(set, s, d)
               IN  IF Unset(set, s, "unsubscribed_at")
                   THEN IncrementCampaignCounter(unsub, s, "unsubscribed")
                   ELSE unsub
          [] OTHER -> set

SpamReported(db, s, d, now) ==
    IF ~Unset(db, s, "spam_reported_at") THEN db
    ELSE ApplySuppression(Terminal(db, s, "spam_reported_at", d, now), ContactOf[s])

Unsubscribed(db, s, d, now) ==
    LET unsub == ApplyUnsubscribeWithSendFact(db, s, d)
    IN  IF Unset(db, s, "unsubscribed_at")
        THEN CountFact(unsub, s, d, "unsubscribed", now)
        ELSE unsub

ApplyEventSideEffects(db, e, now) ==
    LET kind == NormalizeEventType(e)
    IN  CASE kind = "delivered"   -> Delivered(db, e.send, e.at, now)
          [] kind = "open"        -> Opened(db, e.send, e.at, now)
          [] kind = "click"       -> Clicked(db, e.send, e.at, now)
          [] kind = "bounce_hard" -> BouncedHard(db, e.send, e.at, now)
          [] kind = "bounce_soft" -> BouncedSoft(db, e.send, e.at, now)
          [] kind = "dropped"     -> Dropped(db, e.send, e.type, e.at, now)
          [] kind = "spam_report" -> SpamReported(db, e.send, e.at, now)
          [] kind \in {"unsubscribe", "group_unsubscribe"} ->
               Unsubscribed(db, e.send, e.at, now)
          [] OTHER -> db

\* reconcileWorkspaceDay's COUNT over sends for one day.
Recount(db, d) ==
    LET on(F) == Cardinality({s \in Send : \E f \in F : db.fact[s][f] = d})
    IN  [m \in Metric |->
            CASE m = "delivered"    -> on({"delivered_at"})
              [] m = "opened"       -> on({"first_opened_at"})
              [] m = "clicked"      -> on({"first_clicked_at"})
              [] m = "bounced"      -> on(NonDeliveryTerminal)
              [] m = "unsubscribed" -> on({"unsubscribed_at"})]
=============================================================================

-------------------------- MODULE EventStoreProofs --------------------------
(***************************************************************************)
(* The event tables under maintenance, relocation and erasure, for any     *)
(* tables and events, any horizon, page limit and number of scrubs.        *)
(***************************************************************************)
EXTENDS EventStore, FiniteSetTheorems, WellFoundedInduction, TLAPS

\* Nothing was dropped inside the horizon: a maintenance run works with the
\* month it began in, which is not after this one.
HorizonKept ==
    /\ upkeep.base <= now
    /\ \A e \in Event : place[e] = "dropped" => MonthOf[e] + Retention < now

\* Rows in a child that is not attached: the relocation is at their month, or
\* was cut off there.
ChildrenFound ==
    \A e \in Event : place[e] = "child" =>
        \/ child[PartitionOf(e)] = "attached"
        \/ reloc.pc \in {"move", "attach"} /\ reloc.at = PartitionOf(e)
        \/ PartitionOf(e) \in cutOff

\* What an erasure owes is still in reach, or gone for good.
OwedInReach == \A e \in owed : Visible(e) \/ place[e] = "dropped"

Covered(e) == e \in scrubbed \/ place[e] = "dropped"

\* A cursor vouches for the events of a table up to it.
Vouches(t, cursor) ==
    \A e \in owed : TableOf[e] = t /\ (cursor = Done \/ e <= cursor) => Covered(e)

\* The persisted cursors vouch for what is behind them, and so does the cursor
\* every scrub goes on with; the tables a scrub has left behind are done.
CursorsVouch ==
    /\ \A t \in Table : Vouches(t, record.cursor[t])
    /\ \A s \in Scrubber :
         /\ scrub[s].pc = "page" => Vouches(Tables[scrub[s].table], scrub[s].cursor)
         /\ scrub[s].pc # "idle" =>
              \A i \in 1 .. scrub[s].table - 1 : Vouches(Tables[i], Done)
         /\ scrub[s].pc = "finish" => \A t \in Table : Vouches(t, Done)

\* Without a request nothing is under way, and what is complete is covered.
RequestFits ==
    /\ record.status = "none" =>
         /\ owed = {} /\ job = "none"
         /\ \A t \in Table : record.cursor[t] = 0
         /\ \A s \in Scrubber : scrub[s].pc = "idle"
    /\ record.status = "complete" => \A e \in owed : Covered(e)

StoreInv == TypeOK /\ HorizonKept /\ ChildrenFound /\ OwedInReach /\ CursorsVouch /\ RequestFits

-----------------------------------------------------------------------------
(* Operators                                                               *)

\* A nonempty set of natural numbers has a least element.
LEMMA LeastNat ==
    ASSUME NEW S \in SUBSET Nat, S # {}
    PROVE  \E i \in S : \A j \in S : i <= j
<1> DEFINE Less == OpToRel(<, Nat)
<1>1. \A i, j \in Nat : j < i => <<j, i>> \in Less
  BY DEF OpToRel
<1>2. \E i \in S : \A j \in S : <<j, i>> \notin Less
  BY WFMin, NatLessThanWellFounded
<1> HIDE DEF Less
<1>3. PICK i \in S : \A j \in S : <<j, i>> \notin Less
  BY <1>2
<1>4. \A j \in S : ~ (j < i)
  BY <1>1, <1>3
<1> QED
  BY <1>4

\* The last event of a page: the one with the fewest after it.
LEMMA LastOfPage ==
    ASSUME NEW S \in SUBSET Event, S # {}
    PROVE  Max(S) \in S /\ \A e \in S : e <= Max(S)
<1> DEFINE after(e) == {f \in S : e < f}
           sizes == {Cardinality(after(e)) : e \in S}
<1>1. S \in SUBSET Nat /\ IsFiniteSet(S)
  BY EventStoreAssumption, FS_Subset DEF EventStoreAssumption
<1>2. \A e \in S : IsFiniteSet(after(e)) /\ Cardinality(after(e)) \in Nat
  BY <1>1, FS_Subset, FS_CardinalityType
<1>3. PICK e \in S : \A f \in S : Cardinality(after(e)) <= Cardinality(after(f))
  <2>1. sizes \in SUBSET Nat /\ sizes # {}
    BY <1>2
  <2>2. \E n \in sizes : \A m \in sizes : n <= m
    BY <2>1, LeastNat
  <2> QED
    BY <2>2
<1>4. ASSUME NEW f \in S, e < f PROVE FALSE
  <2>1. after(f) \in SUBSET after(e) /\ f \in after(e) /\ f \notin after(f)
    <3>1. \A g \in S : f < g => e < g
      BY <1>1, <1>4
    <3>2. ~ (f < f)
      BY <1>1
    <3> QED
      BY <1>4, <3>1, <3>2
  <2> HIDE DEF after
  <2>2. Cardinality(after(f)) <= Cardinality(after(e)) /\ Cardinality(after(f)) # Cardinality(after(e))
    BY <1>2, <2>1, FS_Subset
  <2> QED
    BY <1>2, <1>3, <2>2
<1>5. \E x \in S : \A y \in S : x >= y
  BY <1>1, <1>4
<1>6. Max(S) \in S /\ \A y \in S : Max(S) >= y
  BY <1>5 DEF Max
<1> QED
  BY <1>1, <1>6

\* A page leaves out no event of its table in reach, from the cursor to the
\* page's last; and it is empty only if none is left.
LEMMA PageSkipsNothing ==
    ASSUME TypeOK, NEW t \in Table, NEW cursor \in Event \cup {0}
    PROVE  LET page == PageAfter(t, cursor) IN
           /\ page \in SUBSET Event
           /\ \A e \in Event, last \in page :
                TableOf[e] = t /\ Visible(e) /\ cursor < e /\ e <= last => e \in page
           /\ page = {} => \A e \in Event : TableOf[e] = t /\ Visible(e) => e <= cursor
<1> DEFINE left == {e \in Event : TableOf[e] = t /\ Visible(e) /\ e > cursor}
           before(e) == {f \in left : f < e}
           page == PageAfter(t, cursor)
<1>1. Event \subseteq Nat \ {0} /\ IsFiniteSet(Event) /\ cursor \in Nat /\ PageLimit \in Nat \ {0}
  BY EventStoreAssumption DEF EventStoreAssumption
<1>2. page = {e \in left : Cardinality(before(e)) < PageLimit}
  BY DEF PageAfter
<1>3. \A e \in left : IsFiniteSet(before(e)) /\ Cardinality(before(e)) \in Nat
  <2> SUFFICES ASSUME NEW e \in left PROVE IsFiniteSet(before(e)) /\ Cardinality(before(e)) \in Nat
    OBVIOUS
  <2>1. before(e) \in SUBSET Event
    OBVIOUS
  <2> HIDE DEF before
  <2> QED
    BY <1>1, <2>1, FS_Subset, FS_CardinalityType
<1>4. page \in SUBSET Event
  BY <1>2
<1>5. ASSUME NEW e \in Event, NEW last \in page,
             TableOf[e] = t, Visible(e), cursor < e, e <= last
      PROVE  e \in page
  <2>1. e \in left /\ last \in left /\ Cardinality(before(last)) < PageLimit
    <3>1. e > cursor
      BY <1>1, <1>5
    <3> QED
      BY <1>2, <1>5, <3>1
  <2>2. before(e) \in SUBSET before(last)
    <3>1. \A f \in left : f < e => f < last
      <4>1. \A f \in left : f \in Nat
        BY <1>1
      <4>2. e \in Nat /\ last \in Nat
        BY <1>1, <2>1
      <4> QED
        BY <1>5, <4>1, <4>2
    <3> QED
      BY <3>1
  <2> HIDE DEF before, left, page
  <2>3. Cardinality(before(e)) <= Cardinality(before(last))
    BY <1>3, <2>1, <2>2, FS_Subset
  <2>4. Cardinality(before(e)) < PageLimit
    BY <1>1, <1>3, <2>1, <2>3
  <2> QED
    BY <1>2, <2>1, <2>4
<1>6. ASSUME page = {}, NEW e \in Event, TableOf[e] = t, Visible(e), ~ (e <= cursor) PROVE FALSE
  <2>1. e \in left /\ left \in SUBSET Nat
    <3>1. e > cursor
      BY <1>1, <1>6
    <3> QED
      BY <1>1, <1>6, <3>1
  <2>2. PICK m \in left : \A f \in left : m <= f
    BY <2>1, LeastNat
  <2>3. before(m) = {}
    BY <2>1, <2>2
  <2> HIDE DEF before, left, page
  <2>4. Cardinality(before(m)) = 0
    BY <2>3, FS_EmptySet
  <2> QED
    BY <1>1, <1>2, <1>6, <2>2, <2>4
<1> QED
  BY <1>4, <1>5, <1>6

LEMMA Bounds ==
    /\ MaxMonth \in Nat \ {0} /\ Retention \in Nat \ {0} /\ Lookahead \in Nat /\ MaxFaults \in Nat
    /\ PageLimit \in Nat \ {0} /\ Done \notin Nat /\ Event \subseteq Nat \ {0}
    /\ DOMAIN Tables = 1 .. Len(Tables) /\ Len(Tables) \in Nat \ {0}
    /\ MonthOf \in [Event -> 1 .. MaxMonth] /\ TableOf \in [Event -> Table]
  BY EventStoreAssumption DEF EventStoreAssumption, Table

LEMMA Places ==
    /\ 1 \in 1 .. Len(Tables) /\ Tables[1] \in Table /\ <<Tables[1], 1>> \in Table \X Month
    /\ \A i \in 1 .. Len(Tables) : Tables[i] \in Table
    /\ \A t \in Table : \E i \in 1 .. Len(Tables) : t = Tables[i]
    /\ \A e \in Event : PartitionOf(e) \in Table \X Month
<1>1. 1 \in 1 .. Len(Tables) /\ 1 \in Month /\ \A m \in 1 .. MaxMonth : m \in Month
  BY Bounds DEF Month
<1>2. \A i \in 1 .. Len(Tables) : Tables[i] \in Table
  BY Bounds DEF Table
<1>3. \A t \in Table : \E i \in 1 .. Len(Tables) : t = Tables[i]
  BY Bounds DEF Table
<1>4. \A e \in Event : PartitionOf(e) \in Table \X Month
  BY <1>1, Bounds DEF PartitionOf
<1> QED
  BY <1>1, <1>2, <1>3, <1>4

-----------------------------------------------------------------------------
(* The partitions                                                          *)

\* Where an event in a child may be found.
Found(e) ==
    \/ child[PartitionOf(e)] = "attached"
    \/ reloc.pc \in {"move", "attach"} /\ reloc.at = PartitionOf(e)
    \/ PartitionOf(e) \in cutOff

\* What a step of the partitions has to keep to.
LEMMA PartitionStep ==
    ASSUME StoreInv, TypeOK', UNCHANGED erasure, owed' \subseteq owed,
           upkeep'.base <= now', now <= now',
           \A e \in Event :
             /\ place[e] = "dropped" => place'[e] = "dropped"
             /\ place'[e] = "dropped" => place[e] = "dropped" \/ MonthOf[e] + Retention < now
             /\ place'[e] = "child" => Found(e)'
             /\ e \in owed' /\ Visible(e) => Visible(e)' \/ place'[e] = "dropped"
    PROVE  StoreInv'
<1>1. TypeOK /\ HorizonKept /\ ChildrenFound /\ OwedInReach /\ CursorsVouch /\ RequestFits
  BY DEF StoreInv
<1>2. record' = record /\ job' = job /\ scrub' = scrub /\ scrubbed' = scrubbed
  BY DEF erasure
<1>3. owed \subseteq Event
  BY <1>1 DEF TypeOK
<1>4. HorizonKept'
  <2> SUFFICES ASSUME NEW e \in Event, place'[e] = "dropped" PROVE MonthOf[e] + Retention < now'
    BY DEF HorizonKept
  <2>1. now \in Nat /\ now' \in Nat /\ MonthOf[e] \in Nat /\ Retention \in Nat
    BY <1>1, Bounds DEF TypeOK
  <2>2. MonthOf[e] + Retention < now
    BY <1>1 DEF HorizonKept
  <2> QED
    BY <2>1, <2>2
<1>5. ChildrenFound'
  BY DEF ChildrenFound, Found
<1>6. OwedInReach'
  BY <1>1, <1>3 DEF OwedInReach
<1>7. \A e \in owed : Covered(e) => Covered(e)'
  BY <1>2, <1>3 DEF Covered
<1>8. ASSUME NEW t, NEW cursor, Vouches(t, cursor) PROVE Vouches(t, cursor)'
  BY <1>7, <1>8 DEF Vouches
<1>9. CursorsVouch'
  BY <1>1, <1>2, <1>8 DEF CursorsVouch
<1>10. RequestFits'
  BY <1>1, <1>2, <1>7 DEF RequestFits
<1> QED
  BY <1>4, <1>5, <1>6, <1>9, <1>10 DEF StoreInv

LEMMA IngestStep ==
    ASSUME StoreInv, NEW e \in Event, Ingest(e)
    PROVE  StoreInv'
<1>1. TypeOK /\ HorizonKept /\ ChildrenFound
  BY DEF StoreInv
<1>2. /\ UNCHANGED <<now, child, upkeep, reloc, cutOff, record, job, scrub, scrubbed, owed, faults>>
      /\ place[e] = "absent"
      /\ place' = [place EXCEPT ![e] = IF child[PartitionOf(e)] = "attached" THEN "child" ELSE "default"]
  BY DEF Ingest, erasure
<1>3. place' \in [Event -> {"absent", "default", "child", "dropped"}]
  BY <1>1, <1>2 DEF TypeOK
<1>4. TypeOK'
  BY <1>1, <1>2, <1>3 DEF TypeOK
<1>5. ASSUME NEW f \in Event
      PROVE  /\ place[f] = "dropped" => place'[f] = "dropped"
             /\ place'[f] = "dropped" => place[f] = "dropped"
             /\ place'[f] = "child" => Found(f)'
             /\ Visible(f) => Visible(f)'
  <2>1. CASE f = e
    BY <1>1, <1>2, <2>1 DEF TypeOK, Found, Visible
  <2>2. CASE f # e
    <3>1. place'[f] = place[f]
      BY <1>1, <1>2, <2>2 DEF TypeOK
    <3> QED
      BY <1>1, <1>2, <3>1 DEF ChildrenFound, Found, Visible
  <2> QED
    BY <2>1, <2>2
<1>6. upkeep'.base <= now' /\ now <= now'
  BY <1>1, <1>2 DEF HorizonKept, TypeOK
<1> QED
  BY <1>2, <1>4, <1>5, <1>6, PartitionStep DEF erasure

\* The clock, and a maintenance run that begins, goes on or ends.
LEMMA UpkeepSteps ==
    ASSUME StoreInv, MonthPasses \/ StartUpkeep \/ EnsureMonth \/ EndUpkeep
    PROVE  StoreInv'
<1>1. TypeOK /\ HorizonKept /\ ChildrenFound
  BY DEF StoreInv
<1>2. UNCHANGED <<place, reloc, cutOff, record, job, scrub, scrubbed, owed, faults>>
  BY DEF MonthPasses, StartUpkeep, EnsureMonth, EndUpkeep, erasure
<1>3. now \in 1 .. MaxMonth /\ upkeep.base \in 1 .. MaxMonth /\ upkeep.base <= now /\ upkeep.at \in Nat
      /\ MaxMonth \in Nat \ {0}
      /\ upkeep \in [pc : {"idle", "ensure", "retention"}, base : 1 .. MaxMonth, at : Nat]
  BY <1>1, Bounds DEF TypeOK, HorizonKept
<1>4. /\ upkeep' \in [pc : {"idle", "ensure", "retention"}, base : 1 .. MaxMonth, at : Nat]
      /\ now' \in 1 .. MaxMonth /\ now <= now' /\ upkeep'.base <= now'
  <2>n. /\ NoUpkeep \in [pc : {"idle", "ensure", "retention"}, base : 1 .. MaxMonth, at : Nat]
        /\ NoUpkeep.base <= now
    BY <1>3 DEF NoUpkeep
  <2>1. CASE MonthPasses
    <3>1. now' = now + 1 /\ now < MaxMonth /\ upkeep' = upkeep
      BY <2>1 DEF MonthPasses
    <3> QED
      BY <1>3, <3>1
  <2>2. CASE StartUpkeep
    <3>1. now' = now /\ upkeep' = [pc |-> "ensure", base |-> now, at |-> 0]
      BY <2>2 DEF StartUpkeep
    <3> QED
      BY <1>3, <3>1
  <2>3. CASE EnsureMonth
    <3>1. now' = now
      BY <2>3 DEF EnsureMonth
    <3>2. \/ upkeep' = NoUpkeep
          \/ upkeep' = [upkeep EXCEPT !.pc = "retention"]
          \/ upkeep' = [upkeep EXCEPT !.at = @ + 1]
      <4>1. CASE child[Ahead] = "none" /\ ~Attachable(Ahead)
        BY <2>3, <4>1 DEF EnsureMonth
      <4>2. CASE child[Ahead] # "none" \/ Attachable(Ahead)
        BY <2>3, <4>2 DEF EnsureMonth
      <4> QED
        BY <4>1, <4>2
    <3>3. [upkeep EXCEPT !.at = @ + 1] \in [pc : {"idle", "ensure", "retention"}, base : 1 .. MaxMonth, at : Nat]
          /\ [upkeep EXCEPT !.at = @ + 1].base = upkeep.base
      BY <1>3
    <3>4. [upkeep EXCEPT !.pc = "retention"] \in [pc : {"idle", "ensure", "retention"}, base : 1 .. MaxMonth, at : Nat]
          /\ [upkeep EXCEPT !.pc = "retention"].base = upkeep.base
      BY <1>3
    <3>5. now <= now
      BY <1>3
    <3> QED
      BY <1>3, <2>n, <3>1, <3>2, <3>3, <3>4, <3>5
  <2>4. CASE EndUpkeep
    <3>1. now' = now /\ upkeep' = NoUpkeep
      BY <2>4 DEF EndUpkeep
    <3>2. now <= now
      BY <1>3
    <3> QED
      BY <1>3, <2>n, <3>1, <3>2
  <2> QED
    BY <2>1, <2>2, <2>3, <2>4
<1>5. /\ child' \in [Table \X Month -> {"none", "freestanding", "attached"}]
      /\ \A p \in Table \X Month : child'[p] = child[p] \/ child'[p] = "attached"
  <2>1. child' = child \/ child' = [child EXCEPT ![Ahead] = "attached"]
    BY DEF MonthPasses, StartUpkeep, EnsureMonth, EndUpkeep
  <2> QED
    BY <1>1, <2>1 DEF TypeOK
<1>6. TypeOK'
  BY <1>1, <1>2, <1>4, <1>5 DEF TypeOK
<1>7. ASSUME NEW f \in Event
      PROVE  (place'[f] = "child" => Found(f)') /\ (Visible(f) => Visible(f)')
  <2>1. child'[PartitionOf(f)] = child[PartitionOf(f)] \/ child'[PartitionOf(f)] = "attached"
    BY <1>5, Places
  <2>2. PartitionOf(f)' = PartitionOf(f)
    BY DEF PartitionOf
  <2> QED
    BY <1>1, <1>2, <2>1, <2>2 DEF ChildrenFound, Found, Visible
<1> QED
  BY <1>2, <1>4, <1>6, <1>7, PartitionStep DEF erasure

\* Only what is beyond the horizon is dropped, even by a run that began months
\* ago.
LEMMA DropPartitionStep ==
    ASSUME StoreInv, NEW p \in Table \X Month, DropPartition(p)
    PROVE  StoreInv'
<1>1. TypeOK /\ HorizonKept /\ ChildrenFound
  BY DEF StoreInv
<1>2. /\ UNCHANGED <<now, upkeep, reloc, cutOff, record, job, scrub, scrubbed, owed, faults>>
      /\ Expired(p)
      /\ child' = [child EXCEPT ![p] = "none"]
      /\ place' = [e \in Event |-> IF PartitionOf(e) = p /\ place[e] = "child" THEN "dropped" ELSE place[e]]
  BY DEF DropPartition, erasure
<1>3. TypeOK'
  <2>1. child' \in [Table \X Month -> {"none", "freestanding", "attached"}]
    BY <1>1, <1>2 DEF TypeOK
  <2>2. place' \in [Event -> {"absent", "default", "child", "dropped"}]
    BY <1>1, <1>2 DEF TypeOK
  <2> QED
    BY <1>1, <1>2, <2>1, <2>2 DEF TypeOK
<1>4. ASSUME NEW f \in Event, PartitionOf(f) = p PROVE MonthOf[f] + Retention < now
  <2>1. p[2] = MonthOf[f]
    BY <1>4 DEF PartitionOf
  <2>2. MonthOf[f] + 1 + Retention <= upkeep.base
    BY <1>2, <2>1 DEF Expired
  <2>3. MonthOf[f] \in Nat /\ Retention \in Nat /\ upkeep.base \in Nat /\ now \in Nat /\ upkeep.base <= now
    BY <1>1, Bounds DEF TypeOK, HorizonKept
  <2> QED
    BY <2>2, <2>3
<1>5. ASSUME NEW f \in Event
      PROVE  /\ place[f] = "dropped" => place'[f] = "dropped"
             /\ place'[f] = "dropped" => place[f] = "dropped" \/ MonthOf[f] + Retention < now
             /\ place'[f] = "child" => Found(f)'
             /\ Visible(f) => Visible(f)' \/ place'[f] = "dropped"
  <2>1. PartitionOf(f) \in Table \X Month /\ PartitionOf(f)' = PartitionOf(f)
    BY Places DEF PartitionOf
  <2>2. CASE PartitionOf(f) = p
    <3>1. place'[f] = IF place[f] = "child" THEN "dropped" ELSE place[f]
      BY <1>2, <2>2
    <3> QED
      BY <1>4, <2>2, <3>1 DEF Visible
  <2>3. CASE PartitionOf(f) # p
    <3>1. place'[f] = place[f] /\ child'[PartitionOf(f)] = child[PartitionOf(f)]
      BY <1>1, <1>2, <2>1, <2>3 DEF TypeOK
    <3> QED
      BY <1>1, <1>2, <2>1, <3>1 DEF ChildrenFound, Found, Visible
  <2> QED
    BY <2>2, <2>3
<1>6. upkeep'.base <= now' /\ now <= now'
  BY <1>1, <1>2 DEF HorizonKept, TypeOK
<1> QED
  BY <1>2, <1>3, <1>5, <1>6, PartitionStep DEF erasure

\* The relocation takes rows out of reach only where it is at work, and says so
\* when it is cut off.
LEMMA RelocationSteps ==
    ASSUME StoreInv,
           \/ StartRelocation \/ MoveBatch \/ AttachChild \/ RelocationFails
           \/ \E p \in Table \X Month : CreateChild(p)
    PROVE  StoreInv'
<1>1. TypeOK /\ HorizonKept /\ ChildrenFound
  BY DEF StoreInv
<1>2. UNCHANGED <<now, upkeep, record, job, scrub, scrubbed>>
  BY DEF StartRelocation, MoveBatch, AttachChild, RelocationFails, CreateChild, erasure
<1> DEFINE relocType == [pc : {"idle", "next", "move", "attach"}, todo : SUBSET (Table \X Month),
                         at : Table \X Month]
           childType == [Table \X Month -> {"none", "freestanding", "attached"}]
           placeType == [Event -> {"absent", "default", "child", "dropped"}]
<1>3. NoReloc \in relocType
  BY Places DEF NoReloc
<1>4. reloc \in relocType /\ child \in childType /\ place \in placeType /\ owed \subseteq Event
      /\ cutOff \subseteq Table \X Month /\ faults \in 0 .. MaxFaults
  BY <1>1 DEF TypeOK
<1> DEFINE typed == /\ reloc' \in relocType /\ child' \in childType /\ place' \in placeType /\ owed' \subseteq owed
                    /\ cutOff' \subseteq Table \X Month /\ faults' \in 0 .. MaxFaults
           kept(f) == /\ place[f] = "dropped" <=> place'[f] = "dropped"
                      /\ place'[f] = "child" => Found(f)'
                      /\ f \in owed' /\ Visible(f) => Visible(f)'
<1>5. \A f \in Event : PartitionOf(f) \in Table \X Month /\ PartitionOf(f)' = PartitionOf(f)
  BY Places DEF PartitionOf
<1>6. ASSUME StartRelocation PROVE typed /\ \A f \in Event : kept(f)
  <2>1. UNCHANGED <<place, child, cutOff, owed, faults>> /\ reloc.pc = "idle"
    BY <1>6 DEF StartRelocation
  <2>2. reloc' \in relocType
    <3>1. {q \in Table \X Month : InDefault(q) # {}} \subseteq Table \X Month
      OBVIOUS
    <3> QED
      BY <1>3, <1>6, <3>1 DEF StartRelocation
  <2>3. \A f \in Event : kept(f)
    BY <1>1, <1>5, <2>1 DEF ChildrenFound, Found, Visible
  <2> HIDE DEF kept
  <2> QED
    BY <1>4, <2>1, <2>2, <2>3
<1>7. ASSUME NEW p \in Table \X Month, CreateChild(p) PROVE typed /\ \A f \in Event : kept(f)
  <2>1. /\ UNCHANGED <<place, cutOff, owed, faults>> /\ reloc.pc = "next"
        /\ child' = [child EXCEPT ![p] = IF @ = "none" THEN "freestanding" ELSE @]
        /\ reloc' = [pc |-> "move", todo |-> reloc.todo \ {p}, at |-> p]
    BY <1>7 DEF CreateChild
  <2>2. reloc' \in relocType
    BY <1>4, <2>1
  <2>3. child' \in childType /\ \A q \in Table \X Month : child[q] = "attached" => child'[q] = "attached"
    BY <1>4, <2>1
  <2>4. \A f \in Event : kept(f)
    BY <1>1, <1>5, <2>1, <2>3 DEF ChildrenFound, Found, Visible
  <2> HIDE DEF kept
  <2> QED
    BY <1>4, <2>1, <2>2, <2>3, <2>4
<1>8. ASSUME MoveBatch PROVE typed /\ \A f \in Event : kept(f)
  <2>1. UNCHANGED <<child, cutOff, faults>> /\ reloc.pc = "move"
        /\ reloc' \in {reloc, [reloc EXCEPT !.pc = "attach"]}
    BY <1>8 DEF MoveBatch
  <2>2. PICK moved \in SUBSET InDefault(reloc.at) :
          /\ place' = [e \in Event |-> IF e \in moved THEN "child" ELSE place[e]]
          /\ owed' = owed \ moved
    BY <1>8 DEF MoveBatch
  <2>3. reloc' \in relocType /\ reloc'.at = reloc.at /\ reloc'.pc \in {"move", "attach"}
    BY <1>4, <2>1
  <2>4. ASSUME NEW f \in Event PROVE kept(f)
    <3>1. CASE f \in moved
      <4>1. PartitionOf(f) = reloc.at /\ place[f] = "default"
        BY <2>2, <3>1 DEF InDefault
      <4> QED
        BY <1>5, <2>2, <2>3, <3>1, <4>1 DEF Found
    <3>2. CASE f \notin moved
      <4>1. place'[f] = place[f]
        BY <2>2, <3>2
      <4> QED
        BY <1>1, <1>5, <2>1, <2>3, <4>1 DEF ChildrenFound, Found, Visible
    <3> QED
      BY <3>1, <3>2
  <2>5. place' \in placeType
    BY <1>4, <2>2
  <2> HIDE DEF kept
  <2> QED
    BY <1>4, <2>1, <2>2, <2>3, <2>4, <2>5
<1>9. ASSUME AttachChild PROVE typed /\ \A f \in Event : kept(f)
  <2>1. UNCHANGED <<place, owed, faults>> /\ reloc.pc = "attach"
    BY <1>9 DEF AttachChild
  <2>2. CASE Attachable(reloc.at)
    <3>1. /\ child' = [child EXCEPT ![reloc.at] = "attached"]
          /\ cutOff' = cutOff \ {reloc.at}
          /\ reloc' = IF reloc.todo = {} THEN NoReloc ELSE [reloc EXCEPT !.pc = "next"]
      BY <1>9, <2>2 DEF AttachChild
    <3>2. reloc' \in relocType
      BY <1>3, <1>4, <3>1
    <3>3. child' \in childType /\ child'[reloc.at] = "attached"
          /\ \A q \in Table \X Month : child[q] = "attached" => child'[q] = "attached"
      BY <1>4, <3>1
    <3>4. ASSUME NEW f \in Event PROVE kept(f)
      BY <1>1, <1>5, <2>1, <3>1, <3>3 DEF ChildrenFound, Found, Visible
    <3> HIDE DEF kept
    <3> QED
      BY <1>4, <2>1, <3>1, <3>2, <3>3, <3>4
  <2>3. CASE ~Attachable(reloc.at)
    <3>1. cutOff' = cutOff \cup {reloc.at} /\ reloc' = NoReloc /\ child' = child
      BY <1>9, <2>3 DEF AttachChild
    <3>2. \A f \in Event : kept(f)
      BY <1>1, <1>5, <2>1, <3>1 DEF ChildrenFound, Found, Visible
    <3> HIDE DEF kept
    <3> QED
      BY <1>3, <1>4, <2>1, <3>1, <3>2
  <2> QED
    BY <2>2, <2>3
<1>10. ASSUME RelocationFails PROVE typed /\ \A f \in Event : kept(f)
  <2>1. /\ UNCHANGED <<place, child, owed>> /\ reloc.pc # "idle"
        /\ faults < MaxFaults /\ faults' = faults + 1
        /\ cutOff' = IF reloc.pc = "next" THEN cutOff ELSE cutOff \cup {reloc.at}
        /\ reloc' = NoReloc
    BY <1>10 DEF RelocationFails, Fault
  <2>2. faults' \in 0 .. MaxFaults
    BY <1>4, <2>1, Bounds
  <2>3. \A f \in Event : kept(f)
    BY <1>1, <1>5, <2>1 DEF ChildrenFound, Found, Visible
  <2> HIDE DEF kept
  <2> QED
    BY <1>3, <1>4, <2>1, <2>2, <2>3
<1>11. typed /\ \A f \in Event : kept(f)
  BY <1>6, <1>7, <1>8, <1>9, <1>10
<1>12. TypeOK'
  <2>1. owed' \subseteq Event
    BY <1>4, <1>11
  <2> QED
    BY <1>1, <1>2, <1>11, <2>1 DEF TypeOK
<1>13. upkeep'.base <= now' /\ now <= now'
  BY <1>1, <1>2 DEF HorizonKept, TypeOK
<1>14. \A f \in Event :
             /\ place[f] = "dropped" => place'[f] = "dropped"
             /\ place'[f] = "dropped" => place[f] = "dropped" \/ MonthOf[f] + Retention < now
             /\ place'[f] = "child" => Found(f)'
             /\ f \in owed' /\ Visible(f) => Visible(f)' \/ place'[f] = "dropped"
  BY <1>11
<1>15. owed' \subseteq owed
  BY <1>11
<1> QED
  BY <1>2, <1>12, <1>13, <1>14, <1>15, PartitionStep DEF erasure

-----------------------------------------------------------------------------
(* The erasure                                                             *)

LEMMA ErasureStep ==
    ASSUME StoreInv, TypeOK', UNCHANGED <<partitions, owed>>, CursorsVouch', RequestFits'
    PROVE  StoreInv'
<1>1. HorizonKept' /\ ChildrenFound' /\ OwedInReach'
  BY DEF StoreInv, partitions, HorizonKept, ChildrenFound, OwedInReach, Visible, PartitionOf
<1> QED
  BY <1>1 DEF StoreInv

\* What was vouched for stays so when more is scrubbed.
LEMMA VouchesStay ==
    ASSUME UNCHANGED <<partitions, owed>>, scrubbed \subseteq scrubbed', NEW t, NEW cursor, Vouches(t, cursor)
    PROVE  Vouches(t, cursor)'
  BY DEF Vouches, Covered, partitions

LEMMA DeleteContactStep ==
    ASSUME StoreInv, DeleteContact
    PROVE  StoreInv'
<1>1. TypeOK /\ HorizonKept /\ ChildrenFound /\ RequestFits
  BY DEF StoreInv
<1>2. /\ UNCHANGED <<now, place, child, upkeep, reloc, cutOff, scrub, scrubbed>>
      /\ record.status = "none" /\ record' = [record EXCEPT !.status = "pending"]
      /\ owed' = {e \in Event : Visible(e)}
      /\ job' = "queued" \/ job' = job
  BY DEF DeleteContact, partitions
<1>3. record'.status = "pending" /\ record'.cursor = record.cursor
      /\ record' \in [status : {"none", "pending", "scrubbing", "complete", "failed"},
                      cursor : [Table -> Event \cup {0, Done}]]
  BY <1>1, <1>2 DEF TypeOK
<1>4. faults' \in 0 .. MaxFaults
  <2>1. faults \in 0 .. MaxFaults /\ MaxFaults \in Nat
        /\ (faults' = faults \/ (faults < MaxFaults /\ faults' = faults + 1))
    BY <1>1, Bounds DEF TypeOK, DeleteContact, Fault
  <2> QED
    BY <2>1
<1>5. TypeOK'
  BY <1>1, <1>2, <1>3, <1>4 DEF TypeOK
<1>6. HorizonKept' /\ ChildrenFound'
  BY <1>1, <1>2 DEF HorizonKept, ChildrenFound, PartitionOf
<1>7. OwedInReach'
  BY <1>2 DEF OwedInReach, Visible, PartitionOf
<1>8. CursorsVouch'
  <2>1. \A t \in Table : record'.cursor[t] = 0
    BY <1>1, <1>2, <1>3 DEF RequestFits
  <2>2. \A e \in Event : 0 # Done /\ ~ (e <= 0)
    BY Bounds
  <2>3. \A t \in Table : Vouches(t, 0)'
    BY <1>2, <2>2 DEF Vouches
  <2>4. \A s \in Scrubber : scrub'[s].pc = "idle"
    BY <1>1, <1>2 DEF RequestFits
  <2> QED
    BY <2>1, <2>3, <2>4 DEF CursorsVouch
<1>9. RequestFits'
  BY <1>3 DEF RequestFits
<1> QED
  BY <1>5, <1>6, <1>7, <1>8, <1>9 DEF StoreInv

ScrubRow == [pc : {"idle", "load", "page", "finish"}, table : DOMAIN Tables, cursor : Event \cup {0}]

RecordType == [status : {"none", "pending", "scrubbing", "complete", "failed"},
               cursor : [Table -> Event \cup {0, Done}]]

\* What is true of every scrub, whatever row it goes on with.
ScrubFits(row) ==
    /\ row \in ScrubRow
    /\ row.pc = "page" => Vouches(Tables[row.table], row.cursor)
    /\ row.pc # "idle" => \A i \in 1 .. row.table - 1 : Vouches(Tables[i], Done)
    /\ row.pc = "finish" => \A t \in Table : Vouches(t, Done)

LEMMA ScrubsFit ==
    ASSUME StoreInv
    PROVE  /\ record \in RecordType /\ scrub \in [Scrubber -> ScrubRow]
           /\ \A s \in Scrubber : ScrubFits(scrub[s])
  BY DEF StoreInv, TypeOK, CursorsVouch, ScrubFits, ScrubRow, RecordType

\* A step of one scrub, which keeps the cursors of the record or moves one of
\* them on to what it vouches for.
LEMMA OneScrubStep ==
    ASSUME StoreInv, UNCHANGED <<partitions, owed>>, scrubbed \subseteq scrubbed',
           scrubbed' \subseteq Event, job' \in {"none", "queued", "retained"}, faults' \in 0 .. MaxFaults,
           NEW s \in Scrubber, NEW row, scrub' = [scrub EXCEPT ![s] = row], ScrubFits(row)',
           record' \in RecordType, \A t \in Table : Vouches(t, record.cursor[t])',
           RequestFits'
    PROVE  StoreInv'
<1>1. TypeOK /\ CursorsVouch /\ RequestFits
  BY DEF StoreInv
<1>2. /\ record \in RecordType /\ scrub \in [Scrubber -> ScrubRow]
      /\ \A x \in Scrubber : ScrubFits(scrub[x])
  BY ScrubsFit
<1>3. /\ scrub' \in [Scrubber -> ScrubRow] /\ scrub'[s] = row
      /\ \A x \in Scrubber : x # s => scrub'[x] = scrub[x]
  <2>1. row \in ScrubRow
    BY DEF ScrubFits, ScrubRow
  <2> QED
    BY <1>2, <2>1
<1>4. TypeOK'
  BY <1>1, <1>3 DEF TypeOK, ScrubRow, RecordType, partitions
<1>5. \A x \in Scrubber : ScrubFits(scrub[x])'
  <2> SUFFICES ASSUME NEW x \in Scrubber PROVE ScrubFits(scrub[x])'
    OBVIOUS
  <2>1. CASE x = s
    BY <1>3, <2>1
  <2>2. CASE x # s
    <3>1. PICK y : y = scrub[x]
      OBVIOUS
    <3>2. ScrubFits(y)
      BY <1>2, <3>1
    <3>3. ScrubFits(y)'
      BY <3>2, VouchesStay DEF ScrubFits, ScrubRow
    <3>4. scrub'[x] = y
      BY <1>3, <2>2, <3>1
    <3> QED
      BY <3>3, <3>4
  <2> QED
    BY <2>1, <2>2
<1>6. CursorsVouch'
  BY <1>5 DEF CursorsVouch, ScrubFits
<1> QED
  BY <1>4, <1>6, ErasureStep

\* From a table that is done on to the next one, or to the end.
LEMMA NextTableFits ==
    ASSUME NEW s \in Scrubber, scrub \in [Scrubber -> ScrubRow], ScrubFits(scrub[s]),
           scrub[s].pc # "idle", Vouches(Tables[scrub[s].table], Done)
    PROVE  \E row : ScrubFits(row) /\ NextTable(s) = [scrub EXCEPT ![s] = row]
<1> DEFINE table == scrub[s].table
           len == Len(Tables)
<1>1. scrub[s] \in ScrubRow /\ table \in 1 .. len /\ len \in Nat \ {0} /\ DOMAIN Tables = 1 .. len
  BY Bounds DEF ScrubRow
<1>2. \A i \in 1 .. table - 1 : Vouches(Tables[i], Done)
  BY DEF ScrubFits
<1>3. \A i \in 1 .. table : Vouches(Tables[i], Done)
  <2>1. \A i \in 1 .. table : i = table \/ i \in 1 .. table - 1
    BY <1>1
  <2> QED
    BY <1>2, <2>1
<1>4. CASE table = len
  <2> DEFINE row == [scrub[s] EXCEPT !.pc = "finish"]
  <2>1. NextTable(s) = [scrub EXCEPT ![s] = row]
    BY <1>4 DEF NextTable
  <2>2. row \in ScrubRow /\ row.pc = "finish" /\ row.table = table
    BY <1>1 DEF ScrubRow
  <2>3. \A t \in Table : Vouches(t, Done)
    BY <1>3, <1>4, Places
  <2> HIDE DEF row, table
  <2>4. ScrubFits(row)
    BY <1>2, <2>2, <2>3 DEF ScrubFits
  <2> QED
    BY <2>1, <2>4
<1>5. CASE table # len
  <2> DEFINE row == [scrub[s] EXCEPT !.pc = "load", !.table = table + 1]
  <2>1. NextTable(s) = [scrub EXCEPT ![s] = row]
    BY <1>5 DEF NextTable
  <2>2. table + 1 \in 1 .. len /\ (table + 1) - 1 = table
    BY <1>1, <1>5
  <2>3. row \in ScrubRow /\ row.pc = "load" /\ row.table = table + 1
    BY <1>1, <2>2 DEF ScrubRow
  <2> HIDE DEF row, table
  <2>4. ScrubFits(row)
    BY <1>3, <2>2, <2>3 DEF ScrubFits
  <2> QED
    BY <2>1, <2>4
<1> QED
  BY <1>4, <1>5

LEMMA LoadCursorStep ==
    ASSUME StoreInv, NEW s \in Scrubber, LoadCursor(s)
    PROVE  StoreInv'
<1> DEFINE t == Tables[scrub[s].table]
           cursor == record.cursor[t]
<1>1. TypeOK /\ CursorsVouch /\ RequestFits
  BY DEF StoreInv
<1>2. UNCHANGED <<now, place, child, upkeep, reloc, cutOff, record, job, scrubbed, owed, faults>> /\ scrub[s].pc = "load"
  BY DEF LoadCursor, partitions
<1>3. /\ record \in RecordType /\ scrub \in [Scrubber -> ScrubRow] /\ scrub[s] \in ScrubRow
      /\ ScrubFits(scrub[s])
  BY ScrubsFit
<1>4. t \in Table
  BY <1>3, Places, Bounds DEF ScrubRow
<1>5. Vouches(t, cursor) /\ cursor \in Event \cup {0, Done}
  BY <1>1, <1>3, <1>4 DEF CursorsVouch, RecordType
<1>6. PICK row : ScrubFits(row) /\ scrub' = [scrub EXCEPT ![s] = row]
  <2>1. CASE cursor = Done
    <3>1. scrub' = NextTable(s)
      BY <2>1 DEF LoadCursor
    <3> QED
      BY <1>2, <1>3, <1>5, <2>1, <3>1, NextTableFits
  <2>2. CASE cursor # Done
    <3>1. PICK row : row = [scrub[s] EXCEPT !.pc = "page", !.cursor = cursor]
      OBVIOUS
    <3>2. scrub' = [scrub EXCEPT ![s] = row]
      BY <2>2, <3>1 DEF LoadCursor
    <3>3. row \in ScrubRow /\ row.pc = "page" /\ row.table = scrub[s].table /\ row.cursor = cursor
      BY <1>3, <1>5, <2>2, <3>1 DEF ScrubRow
    <3>4. ScrubFits(row)
      BY <1>2, <1>3, <1>5, <3>3 DEF ScrubFits
    <3> QED
      BY <3>2, <3>4
  <2> QED
    BY <2>1, <2>2
<1>7. UNCHANGED <<partitions, owed>> /\ scrubbed \subseteq scrubbed'
  BY <1>2 DEF partitions
<1>8. ScrubFits(row)'
  BY <1>6, <1>7, VouchesStay DEF ScrubFits, ScrubRow
<1>9. \A x \in Table : Vouches(x, record.cursor[x])'
  <2> SUFFICES ASSUME NEW x \in Table PROVE Vouches(x, record.cursor[x])'
    BY <1>2
  <2>1. PICK c : c = record.cursor[x]
    OBVIOUS
  <2>2. Vouches(x, c)
    BY <1>1, <2>1 DEF CursorsVouch
  <2>3. Vouches(x, c)'
    BY <1>7, <2>2, VouchesStay
  <2> QED
    BY <1>2, <2>1, <2>3
<1>10. RequestFits'
  <2>1. record.status # "none"
    BY <1>1, <1>2 DEF RequestFits
  <2> QED
    BY <1>1, <1>2, <2>1 DEF RequestFits, Covered
<1>11. job' \in {"none", "queued", "retained"} /\ faults' \in 0 .. MaxFaults /\ record' \in RecordType
       /\ scrubbed' \subseteq Event
  BY <1>1, <1>2, <1>3 DEF TypeOK
<1> QED
  BY <1>6, <1>7, <1>8, <1>9, <1>10, <1>11, OneScrubStep

\* A page and its cursor go together; a cursor moves back when a scrub that has
\* lost its lock commits late, and still vouches for what is behind it.
LEMMA ScrubPageStep ==
    ASSUME StoreInv, NEW s \in Scrubber, ScrubPage(s)
    PROVE  StoreInv'
<1>1. TypeOK /\ CursorsVouch /\ RequestFits /\ OwedInReach
  BY DEF StoreInv
<1>2. UNCHANGED <<now, place, child, upkeep, reloc, cutOff, job, owed, faults>> /\ scrub[s].pc = "page"
  BY DEF ScrubPage, partitions
<1>3. /\ record \in RecordType /\ scrub \in [Scrubber -> ScrubRow] /\ scrub[s] \in ScrubRow
      /\ ScrubFits(scrub[s])
  BY ScrubsFit
<1>t. PICK t : t = Tables[scrub[s].table]
  OBVIOUS
<1>c. PICK cursor : cursor = scrub[s].cursor
  OBVIOUS
<1>p. PICK page : page = PageAfter(t, cursor)
  OBVIOUS
<1>l. PICK last : last = IF page = {} THEN Done ELSE Max(page)
  OBVIOUS
<1>4. /\ scrubbed' = scrubbed \cup page
      /\ record' = [record EXCEPT !.cursor[t] = last]
      /\ scrub' = IF page = {} THEN NextTable(s) ELSE [scrub EXCEPT ![s].cursor = last]
  BY <1>t, <1>c, <1>p, <1>l DEF ScrubPage
<1>5. t \in Table /\ cursor \in Event \cup {0} /\ owed \subseteq Event
  BY <1>1, <1>3, <1>t, <1>c, Places, Bounds DEF ScrubRow, TypeOK
<1>6. /\ page \in SUBSET Event
      /\ \A e \in Event, f \in page : TableOf[e] = t /\ Visible(e) /\ cursor < e /\ e <= f => e \in page
      /\ page = {} => \A e \in Event : TableOf[e] = t /\ Visible(e) => e <= cursor
  BY <1>1, <1>5, <1>p, PageSkipsNothing
<1>7. page # {} => last \in page /\ last \in Event
  BY <1>6, <1>l, LastOfPage
<1>8. last \in Event \cup {0, Done}
  BY <1>7, <1>l
<1>9. Vouches(t, cursor)
  BY <1>2, <1>3, <1>t, <1>c DEF ScrubFits
<1>10. \A e \in owed : Visible(e) \/ place[e] = "dropped"
  BY <1>1 DEF OwedInReach
<1>11. page = {} => Vouches(t, Done)
  BY <1>5, <1>6, <1>9, <1>10 DEF Vouches, Covered
<1>12. UNCHANGED <<partitions, owed>> /\ scrubbed \subseteq scrubbed'
  BY <1>2, <1>4 DEF partitions
<1>13. Vouches(t, last)'
  <2>1. CASE page = {}
    BY <1>11, <1>12, <1>l, <2>1, VouchesStay
  <2>2. CASE page # {}
    <3> SUFFICES ASSUME NEW e \in owed, TableOf[e] = t, last = Done \/ e <= last PROVE Covered(e)'
      BY <1>2 DEF Vouches
    <3>1. e \in Nat /\ last \in Nat /\ cursor \in Nat /\ last # Done /\ e \in Event
      BY <1>5, <1>7, <2>2, Bounds, SMTT(20)
    <3>2. CASE e <= cursor
      BY <1>2, <1>4, <1>9, <3>2 DEF Vouches, Covered
    <3>3. CASE cursor < e
      <4>1. CASE Visible(e)
        <5>1. e \in page
          BY <1>6, <1>7, <2>2, <3>1, <3>3, <4>1
        <5> QED
          BY <1>4, <5>1 DEF Covered
      <4>2. CASE place[e] = "dropped"
        BY <1>2, <4>2 DEF Covered
      <4> QED
        BY <1>10, <4>1, <4>2
    <3> QED
      BY <3>1, <3>2, <3>3
  <2> QED
    BY <2>1, <2>2
<1>14. /\ record' \in RecordType /\ record'.status = record.status
       /\ record'.cursor[t] = last
       /\ \A x \in Table : x # t => record'.cursor[x] = record.cursor[x]
  <2>1. record.cursor \in [Table -> Event \cup {0, Done}]
    BY <1>3 DEF RecordType
  <2>2. record' = [record EXCEPT !.cursor = [record.cursor EXCEPT ![t] = last]]
    BY <1>4
  <2>3. [record.cursor EXCEPT ![t] = last] \in [Table -> Event \cup {0, Done}]
    BY <1>8, <2>1
  <2>4. record' \in RecordType /\ record'.status = record.status
        /\ record'.cursor = [record.cursor EXCEPT ![t] = last]
    BY <1>3, <2>2, <2>3 DEF RecordType
  <2> QED
    BY <1>5, <2>1, <2>4
<1>15. \A x \in Table : Vouches(x, record.cursor[x])'
  <2> SUFFICES ASSUME NEW x \in Table PROVE Vouches(x, record.cursor[x])'
    OBVIOUS
  <2>1. CASE x = t
    BY <1>13, <1>14, <2>1
  <2>2. CASE x # t
    <3>1. PICK c : c = record.cursor[x]
      OBVIOUS
    <3>2. Vouches(x, c)
      BY <1>1, <3>1 DEF CursorsVouch
    <3>3. Vouches(x, c)'
      BY <1>12, <3>2, VouchesStay
    <3> QED
      BY <1>14, <2>2, <3>1, <3>3
  <2> QED
    BY <2>1, <2>2
<1>16. PICK row : ScrubFits(row)' /\ scrub' = [scrub EXCEPT ![s] = row]
  <2>1. CASE page = {}
    <3>1. PICK row : ScrubFits(row) /\ NextTable(s) = [scrub EXCEPT ![s] = row]
      BY <1>2, <1>3, <1>11, <1>t, <2>1, NextTableFits
    <3>2. ScrubFits(row)'
      BY <1>12, <3>1, VouchesStay DEF ScrubFits, ScrubRow
    <3> QED
      BY <1>4, <2>1, <3>1, <3>2
  <2>2. CASE page # {}
    <3>1. PICK row : row = [scrub[s] EXCEPT !.cursor = last]
      OBVIOUS
    <3>2. scrub' = [scrub EXCEPT ![s] = row]
      BY <1>4, <2>2, <3>1
    <3>3. row \in ScrubRow /\ row.pc = "page" /\ row.table = scrub[s].table /\ row.cursor = last
      BY <1>2, <1>3, <1>7, <2>2, <3>1 DEF ScrubRow
    <3>4. \A i \in 1 .. row.table - 1 : Vouches(Tables[i], Done)
      BY <1>2, <1>3, <3>3 DEF ScrubFits
    <3>5. \A i \in 1 .. row.table - 1 : Vouches(Tables[i], Done)'
      BY <1>12, <3>4, VouchesStay
    <3>6. ScrubFits(row)'
      BY <1>13, <1>t, <3>3, <3>5 DEF ScrubFits, ScrubRow
    <3> QED
      BY <3>2, <3>6
  <2> QED
    BY <2>1, <2>2
<1>17. RequestFits'
  <2>1. record.status # "none"
    BY <1>1, <1>2 DEF RequestFits
  <2>2. \A e \in owed : Covered(e) => Covered(e)'
    BY <1>2, <1>4 DEF Covered
  <2> QED
    BY <1>1, <1>2, <1>14, <2>1, <2>2 DEF RequestFits
<1>18. job' \in {"none", "queued", "retained"} /\ faults' \in 0 .. MaxFaults /\ scrubbed' \subseteq Event
  BY <1>1, <1>2, <1>4, <1>6 DEF TypeOK
<1> QED
  BY <1>12, <1>14, <1>15, <1>16, <1>17, <1>18, OneScrubStep

\* A scrub that begins, ends or fails.
LEMMA ScrubEnds ==
    ASSUME StoreInv, NEW s \in Scrubber, BeginScrub(s) \/ FinishScrub(s) \/ ScrubFails(s)
    PROVE  StoreInv'
<1>1. TypeOK /\ CursorsVouch /\ RequestFits
  BY DEF StoreInv
<1>2. UNCHANGED <<now, place, child, upkeep, reloc, cutOff, scrubbed, owed>>
  BY DEF BeginScrub, FinishScrub, ScrubFails, partitions
<1>3. /\ record \in RecordType /\ scrub \in [Scrubber -> ScrubRow] /\ scrub[s] \in ScrubRow
      /\ ScrubFits(scrub[s])
  BY ScrubsFit
<1>4. UNCHANGED <<partitions, owed>> /\ scrubbed \subseteq scrubbed' /\ scrubbed' \subseteq Event
  BY <1>1, <1>2 DEF partitions, TypeOK
<1>5. faults' \in 0 .. MaxFaults
  <2>1. faults \in 0 .. MaxFaults /\ MaxFaults \in Nat
        /\ (faults' = faults \/ (faults < MaxFaults /\ faults' = faults + 1))
    BY <1>1, Bounds DEF TypeOK, BeginScrub, FinishScrub, ScrubFails, Fault
  <2> QED
    BY <2>1
<1>6. record.status # "none"
  BY <1>1 DEF RequestFits, BeginScrub, FinishScrub, ScrubFails
<1>7. job' \in {"none", "queued", "retained"}
  BY <1>1 DEF TypeOK, BeginScrub, FinishScrub, ScrubFails
<1>8. /\ record' \in RecordType /\ record'.cursor = record.cursor /\ record'.status # "none"
      /\ record'.status = "complete" => record.status = "complete" \/ scrub[s].pc = "finish"
  <2>1. \/ record' = record
        \/ record' = [record EXCEPT !.status = "failed"]
        \/ record' = [record EXCEPT !.status = "complete"] /\ scrub[s].pc = "finish"
        \/ record' = [record EXCEPT !.status = IF @ = "pending" THEN "scrubbing" ELSE @]
    BY DEF BeginScrub, FinishScrub, ScrubFails
  <2> QED
    BY <1>3, <1>6, <2>1 DEF RecordType
<1>9. \A x \in Table : Vouches(x, record.cursor[x])'
  <2> SUFFICES ASSUME NEW x \in Table PROVE Vouches(x, record.cursor[x])'
    OBVIOUS
  <2>1. PICK c : c = record.cursor[x]
    OBVIOUS
  <2>2. Vouches(x, c)
    BY <1>1, <2>1 DEF CursorsVouch
  <2>3. Vouches(x, c)'
    BY <1>4, <2>2, VouchesStay
  <2> QED
    BY <1>8, <2>1, <2>3
<1>10. RequestFits'
  <2>1. \A e \in owed : Covered(e) => Covered(e)'
    BY <1>2 DEF Covered
  <2>2. scrub[s].pc = "finish" => \A e \in owed : Covered(e)
    <3>1. \A e \in owed : TableOf[e] \in Table
      BY <1>1, Bounds DEF TypeOK
    <3> QED
      BY <1>3, <3>1 DEF ScrubFits, Vouches
  <2> QED
    BY <1>1, <1>2, <1>8, <2>1, <2>2 DEF RequestFits
<1>11. PICK row : ScrubFits(row) /\ scrub' = [scrub EXCEPT ![s] = row]
  <2>1. 1 \in DOMAIN Tables /\ \A i \in 1 .. 1 - 1 : FALSE
    BY Bounds
  <2>2. CASE scrub' = scrub
    <3>1. scrub' = [scrub EXCEPT ![s] = scrub[s]]
      BY <1>3, <2>2
    <3> QED
      BY <1>3, <3>1
  <2>3. CASE scrub' = [scrub EXCEPT ![s] = NoScrub]
    <3>1. ScrubFits(NoScrub)
      BY <2>1 DEF ScrubFits, NoScrub, ScrubRow
    <3> QED
      BY <2>3, <3>1
  <2>4. CASE scrub' = [scrub EXCEPT ![s] = [NoScrub EXCEPT !.pc = "load"]]
    <3>1. PICK row : row = [NoScrub EXCEPT !.pc = "load"]
      OBVIOUS
    <3>2. row \in ScrubRow /\ row.pc = "load" /\ row.table = 1
      BY <2>1, <3>1 DEF NoScrub, ScrubRow
    <3>3. ScrubFits(row)
      BY <2>1, <3>2 DEF ScrubFits
    <3> QED
      BY <2>4, <3>1, <3>3
  <2>5. scrub' = scrub \/ scrub' = [scrub EXCEPT ![s] = NoScrub]
        \/ scrub' = [scrub EXCEPT ![s] = [NoScrub EXCEPT !.pc = "load"]]
    BY DEF BeginScrub, FinishScrub, ScrubFails
  <2> QED
    BY <2>2, <2>3, <2>4, <2>5
<1>12. ScrubFits(row)'
  BY <1>4, <1>11, VouchesStay DEF ScrubFits, ScrubRow
<1> QED
  BY <1>4, <1>5, <1>7, <1>8, <1>9, <1>10, <1>11, <1>12, OneScrubStep

\* The job that is queued again, or forgotten, and nothing at all.
LEMMA JobSteps ==
    ASSUME StoreInv, ReclaimErasure \/ JobExpires \/ UNCHANGED vars
    PROVE  StoreInv'
<1>1. TypeOK /\ CursorsVouch /\ RequestFits
  BY DEF StoreInv
<1>2. UNCHANGED <<now, place, child, upkeep, reloc, cutOff, record, scrub, scrubbed, owed, faults>>
  BY DEF ReclaimErasure, JobExpires, vars, partitions
<1>3. job' \in {"none", "queued", "retained"} /\ (record.status = "none" => job' = "none")
  BY <1>1 DEF ReclaimErasure, JobExpires, vars, Reclaimable, TypeOK, RequestFits
<1>4. TypeOK'
  BY <1>1, <1>2, <1>3 DEF TypeOK
<1>5. CursorsVouch'
  BY <1>1, <1>2 DEF CursorsVouch, Vouches, Covered
<1>6. RequestFits'
  BY <1>1, <1>2, <1>3 DEF RequestFits, Covered
<1>7. UNCHANGED <<partitions, owed>>
  BY <1>2 DEF partitions
<1> QED
  BY <1>4, <1>5, <1>6, <1>7, ErasureStep

-----------------------------------------------------------------------------
(* The invariant and what follows from it                                  *)

LEMMA StoreInvInit == Init => StoreInv
<1> SUFFICES ASSUME Init PROVE StoreInv
  OBVIOUS
<1>1. /\ now = 1 /\ place = [e \in Event |-> "absent"]
      /\ child = [p \in Table \X Month |-> IF p[2] = 1 THEN "attached" ELSE "none"]
      /\ upkeep = NoUpkeep /\ reloc = NoReloc
      /\ record = [status |-> "none", cursor |-> [t \in Table |-> 0]]
      /\ job = "none" /\ scrub = [s \in Scrubber |-> NoScrub]
      /\ scrubbed = {} /\ owed = {} /\ cutOff = {} /\ faults = 0
  BY DEF Init
<1>2. 1 \in 1 .. MaxMonth /\ 0 \in 0 .. MaxFaults /\ 1 \in DOMAIN Tables
  BY Bounds
<1>3. TypeOK
  <2>1. upkeep \in [pc : {"idle", "ensure", "retention"}, base : 1 .. MaxMonth, at : Nat]
    BY <1>1, <1>2 DEF NoUpkeep
  <2>2. reloc \in [pc : {"idle", "next", "move", "attach"}, todo : SUBSET (Table \X Month), at : Table \X Month]
    BY <1>1, Places DEF NoReloc
  <2>3. record \in [status : {"none", "pending", "scrubbing", "complete", "failed"},
                    cursor : [Table -> Event \cup {0, Done}]]
    BY <1>1
  <2>4. scrub \in [Scrubber -> [pc : {"idle", "load", "page", "finish"}, table : DOMAIN Tables,
                                cursor : Event \cup {0}]]
    BY <1>1, <1>2 DEF NoScrub
  <2>5. child \in [Table \X Month -> {"none", "freestanding", "attached"}]
    BY <1>1
  <2> QED
    BY <1>1, <1>2, <2>1, <2>2, <2>3, <2>4, <2>5 DEF TypeOK
<1>4. HorizonKept
  BY <1>1 DEF HorizonKept, NoUpkeep
<1>5. ChildrenFound /\ OwedInReach
  BY <1>1 DEF ChildrenFound, OwedInReach
<1>6. CursorsVouch
  BY <1>1 DEF CursorsVouch, Vouches, NoScrub
<1>7. RequestFits
  BY <1>1 DEF RequestFits, NoScrub
<1> QED
  BY <1>3, <1>4, <1>5, <1>6, <1>7 DEF StoreInv

LEMMA StoreInvStep == StoreInv /\ [Next]_vars => StoreInv'
<1> SUFFICES ASSUME StoreInv, [Next]_vars PROVE StoreInv'
  OBVIOUS
<1>1. ASSUME NEW e \in Event, Ingest(e) PROVE StoreInv'
  BY <1>1, IngestStep
<1>2. CASE MonthPasses \/ StartUpkeep \/ EnsureMonth \/ EndUpkeep
  BY <1>2, UpkeepSteps
<1>3. ASSUME NEW p \in Table \X Month, DropPartition(p) PROVE StoreInv'
  BY <1>3, DropPartitionStep
<1>4. CASE \/ StartRelocation \/ MoveBatch \/ AttachChild \/ RelocationFails
           \/ \E p \in Table \X Month : CreateChild(p)
  BY <1>4, RelocationSteps
<1>5. CASE DeleteContact
  BY <1>5, DeleteContactStep
<1>6. ASSUME NEW s \in Scrubber, LoadCursor(s) PROVE StoreInv'
  BY <1>6, LoadCursorStep
<1>7. ASSUME NEW s \in Scrubber, ScrubPage(s) PROVE StoreInv'
  BY <1>7, ScrubPageStep
<1>8. ASSUME NEW s \in Scrubber, BeginScrub(s) \/ FinishScrub(s) \/ ScrubFails(s) PROVE StoreInv'
  BY <1>8, ScrubEnds
<1>9. CASE ReclaimErasure \/ JobExpires \/ UNCHANGED vars
  BY <1>9, JobSteps
<1> QED
  BY <1>1, <1>2, <1>3, <1>4, <1>5, <1>6, <1>7, <1>8, <1>9 DEF Next, ScrubStep

LEMMA StoreInvariant == Spec => []StoreInv
<1> QED
  BY StoreInvInit, StoreInvStep, PTL DEF Spec

\* Partitions, runs, records and cursors stay in their types.
THEOREM TypeCorrect == Spec => []TypeOK
<1>1. StoreInv => TypeOK
  BY DEF StoreInv
<1> QED
  BY <1>1, StoreInvariant, PTL

\* No event is dropped inside the horizon, and one that the parent table does
\* not show lies where the relocation works or was cut off, whatever
\* maintenance runs, ingestion and the relocation do to the same months
\* (findExpiredPartitions with the run's own month, attachPartitionCheckFirst).
THEOREM EventsStayReachableTheorem == Spec => []EventsStayReachable
<1>1. StoreInv => EventsStayReachable
  BY DEF StoreInv, HorizonKept, ChildrenFound, EventsStayReachable, Visible
<1> QED
  BY <1>1, StoreInvariant, PTL

\* A complete erasure has scrubbed or outlived every event it owes, however
\* often the scrub was cut off, repeated or run twice at once, and however the
\* rows moved between partitions (rows and cursor in one transaction, keyset
\* pages in the order of the events).
THEOREM ErasureScrubsAllTheorem == Spec => []ErasureScrubsAll
<1>1. StoreInv => ErasureScrubsAll
  BY DEF StoreInv, RequestFits, Covered, ErasureScrubsAll
<1> QED
  BY <1>1, StoreInvariant, PTL
=============================================================================

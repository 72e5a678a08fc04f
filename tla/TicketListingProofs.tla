------------------------- MODULE TicketListingProofs -------------------------
(***************************************************************************)
(* For any number of tickets, any limit and any cap: a walk through the    *)
(* pages of getTickets shows no ticket twice and leaves none out, and the  *)
(* counts of getTicketStats are all of the time of the request.            *)
(***************************************************************************)
EXTENDS TicketListing, FiniteSetTheorems, TLAPS

\* What a walk has shown is what is not older than its cursor, and it has shown
\* of that all that matched since the walk began.
WalkInv ==
  /\ walk.state = "none" => \A i \in Ids : shown[i] = 0
  /\ walk.state = "none" => walk.cursor = Null
  /\ steady \subseteq Matching(tickets, walk.filter)
  /\ walk.state \in {"find", "error"} =>
       \A i \in Ids : shown[i] > 0 => walk.cursor # Null /\ i >= walk.cursor
  /\ walk.state \in {"find", "error"} /\ walk.cursor # Null =>
       \A i \in steady : i >= walk.cursor => shown[i] = 1

\* Each aggregation holds what was there when the request arrived, under the key
\* the ticket had when it was served.
StatsInv ==
  /\ stats.byStatus # Null =>
       /\ \A i \in asked : \E s \in Statuses : i \in stats.byStatus[s]
       /\ \A s \in Statuses : stats.byStatus[s] \subseteq DOMAIN tickets
  /\ stats.byPriority # Null =>
       \A p \in Priorities :
         LET now == {i \in DOMAIN tickets : tickets[i].priority = p}
         IN  now \cap asked \subseteq stats.byPriority[p] /\ stats.byPriority[p] \subseteq now
  /\ stats.state = "none" => stats.byStatus = Null /\ stats.byPriority = Null

Inv == /\ TypeOK /\ WalkInv /\ StatsInv
       /\ ShownOnce /\ NoneLeftOut /\ FailsOnlyOnOddLimit

\* The pages of getTickets: what may be shown next, and what it is old enough for.
LEMMA ShowPage ==
  ASSUME Inv, walk.state = "find", NEW page \in SUBSET Query, Show(page)
  PROVE  /\ shown' \in [Ids -> Nat]
         /\ \A i \in Ids : shown'[i] <= 1
         /\ \A i \in page : shown'[i] = 1
         /\ \A i \in Ids \ page : shown'[i] = shown[i]
<1>1. \A i \in page : i \in Ids /\ shown[i] = 0
  <2> SUFFICES ASSUME NEW i \in page PROVE i \in Ids /\ shown[i] = 0
    OBVIOUS
  <2>1. i \in Ids /\ (walk.cursor = Null \/ i < walk.cursor)
    BY Zenon DEF Query, Matching, Inv, TypeOK
  <2>2. shown[i] \in Nat /\ walk.cursor \in Ids \cup {Null}
    BY <2>1, Zenon DEF Inv, TypeOK, Walk
  <2>3. shown[i] > 0 => walk.cursor # Null /\ i >= walk.cursor
    BY <2>1, Zenon DEF Inv, WalkInv
  <2>4. i \in Nat /\ (walk.cursor # Null => walk.cursor \in Nat)
    BY <2>1, <2>2, ListingAssumption, Zenon
  <2>5. ~(shown[i] > 0)
    BY <2>1, <2>3, <2>4
  <2> QED BY <2>1, <2>2, <2>5
<1>2. shown \in [Ids -> Nat] /\ \A i \in Ids : shown[i] <= 1
  BY Zenon DEF Inv, TypeOK, ShownOnce
<1> QED BY <1>1, <1>2 DEF Show

LEMMA QueryFinite == ASSUME Inv PROVE IsFiniteSet(Query) /\ Query \subseteq Ids
<1>1. Query \subseteq Ids
  BY Zenon DEF Query, Matching, Inv, TypeOK
<1> QED BY <1>1, FS_Subset, ListingAssumption, Zenon

\* The cases of the limit.
LEMMA PageLimits ==
  ASSUME Inv, pageLimit # NaN
  PROVE  /\ walk.limit \in Int /\ pageLimit \in Int
         /\ walk.limit >= 1 => pageLimit >= 1
<1>1. walk.limit \in Int \cup {NaN}
  BY ListingAssumption, Zenon DEF Inv, TypeOK, Walk
<1>2. CASE walk.limit = NaN
  BY <1>2, Zenon DEF pageLimit
<1>3. CASE walk.limit # NaN
  BY <1>1, <1>3, ListingAssumption DEF pageLimit
<1> QED BY <1>2, <1>3, Zenon

\* A page without an extra document is the rest of the list.
LEMMA LastPageIsRest ==
  ASSUME Inv, pageLimit # NaN, NEW found \in Newest(Query, pageLimit + 1), ~hasMore(found)
  PROVE  found = Query
<1>1. pageLimit \in Int
  BY PageLimits, Zenon
<1>2. found \in SUBSET Query /\ IsFiniteSet(found) /\ Cardinality(found) \in Nat
  BY QueryFinite, FS_Subset, FS_CardinalityType, Zenon DEF Newest
<1>3. Cardinality(found) <= pageLimit
  BY <1>1, <1>2 DEF hasMore
<1>4. SUFFICES ASSUME found # Query PROVE FALSE
  OBVIOUS
<1>5. pageLimit + 1 > 0
  BY <1>1, <1>2, <1>3
<1>6. Cardinality(found) = pageLimit + 1
  BY <1>1, <1>4, <1>5 DEF Newest
<1> QED BY <1>1, <1>3, <1>6

\* The page of getTickets that a cursor is taken from: what is selected and not
\* older than the cursor is on it.
LEMMA PageIsClosed ==
  ASSUME Inv, pageLimit # NaN, NEW found \in Newest(Query, pageLimit + 1),
         NEW page \in Popped(found), NEW c \in NextCursors(page)
  PROVE  /\ page \in SUBSET Query /\ c \in page
         /\ \A i \in page : i >= c
         /\ \A i \in Query : i >= c => i \in page
<1>1. found \in SUBSET Query /\ \A i \in found, j \in Query \ found : i > j
  BY Zenon DEF Newest
<1>2. PICK oldest \in found : page = found \ {oldest} /\ \A i \in found : oldest <= i
  BY Zenon DEF Popped
<1>3. c \in page /\ \A j \in page : c <= j
  BY Zenon DEF NextCursors
<1>4. Query \subseteq Nat
  BY QueryFinite, ListingAssumption, Zenon
<1>5. page \in SUBSET Query
  BY <1>1, <1>2, Zenon
<1>6. \A i \in page : i >= c
  BY <1>3, <1>4, <1>5, Zenon
<1>7. ASSUME NEW i \in Query, i >= c PROVE i \in page
  <2>1. c \in found /\ c # oldest /\ oldest <= c
    BY <1>2, <1>3, Zenon
  <2>2. i \in found
    BY <1>1, <1>4, <1>7, <2>1
  <2>3. i # oldest
    BY <1>1, <1>4, <1>7, <2>1
  <2> QED BY <1>2, <2>2, <2>3, Zenon
<1> QED BY <1>3, <1>5, <1>6, <1>7, Zenon

\* With a limit of at least 1 the page is not empty when there is an extra document.
LEMMA ExtraLeavesOne ==
  ASSUME Inv, pageLimit # NaN, NEW found \in Newest(Query, pageLimit + 1), hasMore(found),
         walk.limit >= 1
  PROVE  found # {} /\ \A page \in Popped(found) : page # {}
<1>1. pageLimit \in Int /\ pageLimit >= 1
  BY PageLimits, Zenon
<1>2. IsFiniteSet(found) /\ Cardinality(found) \in Nat
  BY QueryFinite, FS_Subset, FS_CardinalityType, Zenon DEF Newest
<1>3. Cardinality(found) >= 2
  BY <1>1, <1>2 DEF hasMore
<1>4. found # {}
  BY <1>3, FS_EmptySet
<1>5. ASSUME NEW page \in Popped(found) PROVE page # {}
  <2>1. PICK oldest \in found : page = found \ {oldest}
    BY Zenon DEF Popped
  <2>2. Cardinality(page) = Cardinality(found) - 1
    BY <1>2, <2>1, FS_RemoveElement, Zenon
  <2>3. Cardinality(page) # 0
    BY <1>2, <1>3, <2>2
  <2>4. Cardinality({}) = 0
    BY FS_EmptySet, Zenon
  <2> QED BY <2>3, <2>4, Zenon
<1> QED BY <1>4, <1>5, Zenon

LEMMA InitInv == Init => Inv
<1> SUFFICES ASSUME Init PROVE Inv
  OBVIOUS
<1>1. PICK there \in SUBSET Ids : tickets \in [there -> Doc]
  BY Zenon DEF Init
<1>2. PICK l \in Limits :
        walk = [state |-> "none", filter |-> NoFilter, limit |-> l, cursor |-> Null]
  BY Zenon DEF Init
<1>3. walk \in Walk
  BY <1>2, Zenon DEF Walk, Filter, NoFilter
<1>4. stats \in Stats
  BY Zenon DEF Init, Stats
<1>5. TypeOK
  BY <1>1, <1>3, <1>4, Zenon DEF Init, TypeOK
<1>6. WalkInv /\ ShownOnce /\ NoneLeftOut /\ FailsOnlyOnOddLimit
  BY <1>2 DEF Init, WalkInv, ShownOnce, NoneLeftOut, FailsOnlyOnOddLimit
<1>7. StatsInv
  BY Zenon DEF Init, StatsInv
<1> QED BY <1>5, <1>6, <1>7, Zenon DEF Inv

LEMMA StartWalkInv == ASSUME Inv, StartWalk PROVE Inv'
<1>1. PICK f \in Filter : /\ walk' = [walk EXCEPT !.state = "find", !.filter = f]
                          /\ steady' = Matching(tickets, f)
  BY Zenon DEF StartWalk
<1>2. /\ walk \in Walk /\ walk.state = "none"
      /\ tickets' = tickets /\ shown' = shown /\ stats' = stats /\ asked' = asked
  BY Zenon DEF StartWalk, Inv, TypeOK, statsVars
<1>3. /\ walk' \in Walk /\ walk'.state = "find" /\ walk'.filter = f
      /\ walk'.cursor = walk.cursor /\ walk'.limit = walk.limit
  BY <1>1, <1>2, Zenon DEF Walk
<1>4. TypeOK'
  BY <1>1, <1>2, <1>3, Zenon DEF Inv, TypeOK, Matching
<1>5. WalkInv' /\ NoneLeftOut' /\ FailsOnlyOnOddLimit'
  BY <1>1, <1>2, <1>3 DEF Inv, TypeOK, WalkInv, NoneLeftOut, FailsOnlyOnOddLimit, Matching
<1>6. ShownOnce' /\ StatsInv'
  BY <1>2, Zenon DEF Inv, ShownOnce, StatsInv
<1> QED BY <1>4, <1>5, <1>6, Zenon DEF Inv

\* The ways a page of getTickets goes out.
LEMMA FailedInv ==
  ASSUME Inv, walk.state = "find", walk.limit = NaN \/ walk.limit < 1,
         Failed, UNCHANGED <<tickets, steady, statsVars>>
  PROVE  Inv'
<1>1. /\ walk \in Walk /\ shown' = shown /\ tickets' = tickets /\ steady' = steady
      /\ stats' = stats /\ asked' = asked /\ walk' = [walk EXCEPT !.state = "failed"]
  BY Zenon DEF Inv, TypeOK, Failed, statsVars
<1>2. /\ walk' \in Walk /\ walk'.state = "failed" /\ walk'.filter = walk.filter
      /\ walk'.cursor = walk.cursor /\ walk'.limit = walk.limit
  BY <1>1, Zenon DEF Walk
<1>3. TypeOK'
  BY <1>1, <1>2, Zenon DEF Inv, TypeOK
<1>4. WalkInv' /\ NoneLeftOut' /\ FailsOnlyOnOddLimit'
  BY <1>1, <1>2, Zenon DEF Inv, WalkInv, NoneLeftOut, FailsOnlyOnOddLimit, Matching
<1>5. ShownOnce' /\ StatsInv'
  BY <1>1, Zenon DEF Inv, ShownOnce, StatsInv
<1> QED BY <1>3, <1>4, <1>5, Zenon DEF Inv

\* The database fails, or the client asks again: the walk is where it was.
LEMMA SamePageInv ==
  ASSUME Inv, walk.state \in {"find", "error"}, NEW to \in {"find", "error"},
         walk' = [walk EXCEPT !.state = to], UNCHANGED <<shown, tickets, steady, statsVars>>
  PROVE  Inv'
<1>1. /\ walk \in Walk /\ shown' = shown /\ tickets' = tickets /\ steady' = steady
      /\ stats' = stats /\ asked' = asked
  BY Zenon DEF Inv, TypeOK, statsVars
<1>2. /\ walk' \in Walk /\ walk'.state = to /\ walk'.filter = walk.filter
      /\ walk'.cursor = walk.cursor /\ walk'.limit = walk.limit
  BY <1>1 DEF Walk
<1>3. TypeOK'
  BY <1>1, <1>2, Zenon DEF Inv, TypeOK
<1>4. to # "none" /\ to # "done" /\ to # "failed"
  OBVIOUS
<1>5. WalkInv'
  BY <1>1, <1>2, <1>4, Zenon DEF Inv, WalkInv, Matching
<1>6. NoneLeftOut' /\ FailsOnlyOnOddLimit'
  BY <1>2, <1>4, Zenon DEF NoneLeftOut, FailsOnlyOnOddLimit
<1>7. ShownOnce' /\ StatsInv'
  BY <1>1, Zenon DEF Inv, ShownOnce, StatsInv
<1> QED BY <1>3, <1>5, <1>6, <1>7, Zenon DEF Inv

LEMMA RetryPageInv == ASSUME Inv, RetryPage PROVE Inv'
BY SamePageInv, Zenon DEF RetryPage

LEMMA LastPageInv ==
  ASSUME Inv, walk.state = "find", LastPage(Query), UNCHANGED <<tickets, steady, statsVars>>
  PROVE  Inv'
<1>1. /\ walk \in Walk /\ tickets' = tickets /\ steady' = steady
      /\ stats' = stats /\ asked' = asked /\ walk' = [walk EXCEPT !.state = "done"]
  BY Zenon DEF Inv, TypeOK, LastPage, statsVars
<1>2. /\ walk' \in Walk /\ walk'.state = "done" /\ walk'.filter = walk.filter
      /\ walk'.cursor = walk.cursor /\ walk'.limit = walk.limit
  BY <1>1, Zenon DEF Walk
<1>3. /\ shown' \in [Ids -> Nat]
      /\ \A i \in Ids : shown'[i] <= 1
      /\ \A i \in Query : shown'[i] = 1
      /\ \A i \in Ids \ Query : shown'[i] = shown[i]
  BY ShowPage, Zenon DEF LastPage
<1>4. \A i \in steady : shown'[i] = 1
  <2> SUFFICES ASSUME NEW i \in steady, i \notin Query PROVE shown'[i] = 1
    BY <1>3, Zenon
  <2>1. i \in Matching(tickets, walk.filter) /\ i \in Ids /\ walk.cursor \in Ids \cup {Null}
    BY Zenon DEF Inv, WalkInv, TypeOK, Walk
  <2>2. walk.cursor # Null /\ ~(i < walk.cursor)
    BY <2>1, Zenon DEF Query
  <2>3. i \in Nat /\ walk.cursor \in Nat
    BY <2>1, <2>2, ListingAssumption, Zenon
  <2>4. i >= walk.cursor
    BY <2>2, <2>3
  <2>5. shown[i] = 1
    BY <2>2, <2>4, Zenon DEF Inv, WalkInv
  <2> QED BY <1>3, <2>1, <2>5, Zenon
<1>5. TypeOK'
  BY <1>1, <1>2, <1>3, Zenon DEF Inv, TypeOK
<1>6. WalkInv' /\ NoneLeftOut' /\ FailsOnlyOnOddLimit'
  BY <1>1, <1>2, <1>4, Zenon DEF Inv, WalkInv, NoneLeftOut, FailsOnlyOnOddLimit, Matching
<1>7. ShownOnce' /\ StatsInv'
  BY <1>1, <1>3 DEF Inv, ShownOnce, StatsInv
<1> QED BY <1>5, <1>6, <1>7, Zenon DEF Inv

LEMMA NextPageInv ==
  ASSUME Inv, walk.state = "find", pageLimit # NaN,
         NEW found \in Newest(Query, pageLimit + 1),
         NEW page \in Popped(found), NEW c \in NextCursors(page),
         walk' = [walk EXCEPT !.cursor = c], Show(page),
         UNCHANGED <<tickets, steady, statsVars>>
  PROVE  Inv'
<1>1. /\ walk \in Walk /\ tickets' = tickets /\ steady' = steady
      /\ stats' = stats /\ asked' = asked
  BY Zenon DEF Inv, TypeOK, statsVars
<1>2. /\ page \in SUBSET Query /\ c \in page
      /\ \A i \in page : i >= c
      /\ \A i \in Query : i >= c => i \in page
  BY PageIsClosed, Zenon
<1>3. c \in Ids /\ c # Null /\ page \subseteq Ids
  BY <1>2, QueryFinite, ListingAssumption, Zenon
<1>4. /\ walk' \in Walk /\ walk'.state = "find" /\ walk'.filter = walk.filter
      /\ walk'.cursor = c /\ walk'.limit = walk.limit
  BY <1>1, <1>3, Zenon DEF Walk
<1>5. /\ shown' \in [Ids -> Nat]
      /\ \A i \in Ids : shown'[i] <= 1
      /\ \A i \in page : shown'[i] = 1
      /\ \A i \in Ids \ page : shown'[i] = shown[i]
  BY <1>2, ShowPage, Zenon
<1>6. walk.cursor # Null => walk.cursor \in Nat /\ c \in Nat /\ c < walk.cursor
  BY <1>1, <1>2, <1>3, ListingAssumption, Zenon DEF Query, Walk
<1>7. \A i \in Ids : shown'[i] > 0 => i >= c
  <2> SUFFICES ASSUME NEW i \in Ids, i \notin page, shown'[i] > 0 PROVE i >= c
    BY <1>2, Zenon
  <2>1. walk.cursor # Null /\ i >= walk.cursor
    BY <1>5, Zenon DEF Inv, WalkInv
  <2>2. i \in Nat
    BY ListingAssumption, Zenon
  <2> QED BY <1>6, <2>1, <2>2
<1>8. \A i \in steady : i >= c => shown'[i] = 1
  <2> SUFFICES ASSUME NEW i \in steady, i >= c, i \notin page PROVE shown'[i] = 1
    BY <1>5, Zenon
  <2>1. i \in Matching(tickets, walk.filter) /\ i \in Ids /\ i \notin Query
    BY <1>2, Zenon DEF Inv, WalkInv, TypeOK
  <2>2. walk.cursor # Null /\ ~(i < walk.cursor)
    BY <2>1, Zenon DEF Query
  <2>3. i \in Nat /\ walk.cursor \in Nat
    BY <1>6, <2>1, <2>2, ListingAssumption, Zenon
  <2>4. i >= walk.cursor
    BY <2>2, <2>3
  <2>5. shown[i] = 1
    BY <2>2, <2>4, Zenon DEF Inv, WalkInv
  <2> QED BY <1>5, <2>1, <2>5, Zenon
<1>9. TypeOK'
  BY <1>1, <1>4, <1>5, Zenon DEF Inv, TypeOK
<1>10. WalkInv' /\ NoneLeftOut' /\ FailsOnlyOnOddLimit'
  BY <1>1, <1>3, <1>4, <1>7, <1>8, Zenon DEF Inv, WalkInv, NoneLeftOut, FailsOnlyOnOddLimit,
    Matching
<1>11. ShownOnce' /\ StatsInv'
  BY <1>1, <1>5 DEF Inv, ShownOnce, StatsInv
<1> QED BY <1>9, <1>10, <1>11, Zenon DEF Inv

LEMMA getTicketsInv == ASSUME Inv, getTickets PROVE Inv'
<1> walk.state = "find" /\ UNCHANGED <<tickets, steady, statsVars>>
  BY Zenon DEF getTickets
<1>0. CASE DatabaseError
  BY <1>0, SamePageInv, Zenon DEF DatabaseError
<1>1. CASE pageLimit = NaN /\ ~DatabaseError
  <2>1. walk.limit = NaN
    BY <1>1, ListingAssumption DEF pageLimit
  <2>2. LastPage(Query) \/ Failed
    BY <1>1, Zenon DEF getTickets
  <2> QED BY <2>1, <2>2, LastPageInv, FailedInv, Zenon
<1>2. CASE pageLimit # NaN /\ ~DatabaseError
  <2>1. PICK found \in Newest(Query, pageLimit + 1) :
          \/ ~hasMore(found) /\ LastPage(found)
          \/ /\ hasMore(found)
             /\ IF found = {} THEN MorePages({})
                              ELSE \E page \in Popped(found) : MorePages(page)
    BY <1>2, Zenon DEF getTickets
  <2>2. CASE ~hasMore(found) /\ LastPage(found)
    BY <1>2, <2>2, LastPageIsRest, LastPageInv, Zenon
  <2>3. CASE hasMore(found)
    <3>1. ASSUME found = {} \/ {} \in Popped(found), Failed PROVE Inv'
      <4>1. ~(walk.limit >= 1)
        BY <1>2, <2>3, <3>1, ExtraLeavesOne, Zenon
      <4>2. walk.limit < 1
        BY <1>2, <4>1, PageLimits
      <4> QED BY <3>1, <4>2, FailedInv, Zenon
    <3>2. CASE found = {}
      BY <2>1, <2>3, <3>1, <3>2, Zenon DEF MorePages, NextCursors
    <3>3. CASE found # {}
      <4>1. PICK page \in Popped(found) : MorePages(page)
        BY <2>1, <2>3, <3>3, Zenon
      <4>2. CASE page = {} /\ Failed
        BY <3>1, <4>2, Zenon
      <4>3. ASSUME NEW c \in NextCursors(page), walk' = [walk EXCEPT !.cursor = c], Show(page)
            PROVE  Inv'
        BY <1>2, <4>3, NextPageInv, Zenon
      <4> QED BY <4>1, <4>2, <4>3, Zenon DEF MorePages
    <3> QED BY <3>2, <3>3, Zenon
  <2> QED BY <2>1, <2>2, <2>3, Zenon
<1> QED BY <1>0, <1>1, <1>2, Zenon

LEMMA StatsStepInv ==
  ASSUME Inv, AskStats \/ AggregateStatus \/ AggregatePriority \/ SendStats \/ FailStats
  PROVE  Inv'
<1>1. tickets' = tickets /\ walk' = walk /\ shown' = shown /\ steady' = steady
  BY Zenon DEF AskStats, AggregateStatus, AggregatePriority, SendStats, FailStats, walkVars
<1>2. WalkInv' /\ ShownOnce' /\ NoneLeftOut' /\ FailsOnlyOnOddLimit'
  BY <1>1, Zenon DEF Inv, WalkInv, ShownOnce, NoneLeftOut, FailsOnlyOnOddLimit, Matching
<1>3. ASSUME stats' \in Stats, asked' \subseteq DOMAIN tickets,
             stats'.state = "sent" => stats'.byStatus # Null /\ stats'.byPriority # Null
      PROVE  TypeOK'
  BY <1>1, <1>3, Zenon DEF Inv, TypeOK
<1>4. /\ stats \in Stats /\ asked \subseteq DOMAIN tickets /\ DOMAIN tickets \subseteq Ids
      /\ \A i \in DOMAIN tickets : tickets[i] \in Doc
  BY Zenon DEF Inv, TypeOK
<1>5. CASE AskStats
  <2>1. /\ stats.state = "none" /\ stats' = [stats EXCEPT !.state = "aggregate"]
        /\ asked' = DOMAIN tickets
    BY <1>5, Zenon DEF AskStats
  <2>2. /\ stats' \in Stats /\ stats'.state = "aggregate"
        /\ stats'.byStatus = Null /\ stats'.byPriority = Null
    BY <1>4, <2>1, Zenon DEF Stats, Inv, StatsInv
  <2> QED BY <1>2, <1>3, <2>1, <2>2, Zenon DEF Inv, StatsInv
<1>6. CASE AggregateStatus
  <2> DEFINE groups == [s \in Statuses |-> {i \in DOMAIN tickets : tickets[i].status = s}]
  <2>1. /\ stats.state = "aggregate" /\ stats' = [stats EXCEPT !.byStatus = groups]
        /\ asked' = asked
    BY <1>6, Zenon DEF AggregateStatus, GroupByStatus
  <2>2. groups \in Groups(Statuses)
    BY <1>4, Zenon DEF Groups
  <2>3. /\ \A i \in asked : \E s \in Statuses : i \in groups[s]
        /\ \A s \in Statuses : groups[s] \subseteq DOMAIN tickets
    BY <1>4, Zenon DEF Doc
  <2> HIDE DEF groups
  <2>4. /\ stats' \in Stats /\ stats'.state = "aggregate"
        /\ stats'.byStatus = groups /\ stats'.byPriority = stats.byPriority
    BY <1>4, <2>1, <2>2, Zenon DEF Stats
  <2> QED BY <1>1, <1>2, <1>3, <1>4, <2>1, <2>3, <2>4, Zenon DEF Inv, StatsInv
<1>7. CASE AggregatePriority
  <2> DEFINE groups == [p \in Priorities |-> {i \in DOMAIN tickets : tickets[i].priority = p}]
  <2>1. /\ stats.state = "aggregate" /\ stats' = [stats EXCEPT !.byPriority = groups]
        /\ asked' = asked
    BY <1>7, Zenon DEF AggregatePriority, GroupByPriority
  <2>2. groups \in Groups(Priorities)
    BY <1>4, Zenon DEF Groups
  <2>3. \A p \in Priorities : groups[p] = {i \in DOMAIN tickets : tickets[i].priority = p}
    OBVIOUS
  <2> HIDE DEF groups
  <2>4. /\ stats' \in Stats /\ stats'.state = "aggregate"
        /\ stats'.byPriority = groups /\ stats'.byStatus = stats.byStatus
    BY <1>4, <2>1, <2>2, Zenon DEF Stats
  <2> QED BY <1>1, <1>2, <1>3, <1>4, <2>1, <2>3, <2>4 DEF Inv, StatsInv
<1>8. CASE SendStats
  <2>1. /\ stats.byStatus # Null /\ stats.byPriority # Null
        /\ stats' = [stats EXCEPT !.state = "sent"] /\ asked' = asked
    BY <1>8, Zenon DEF SendStats
  <2>2. /\ stats' \in Stats /\ stats'.state = "sent"
        /\ stats'.byStatus = stats.byStatus /\ stats'.byPriority = stats.byPriority
    BY <1>4, <2>1, Zenon DEF Stats
  <2> QED BY <1>1, <1>2, <1>3, <1>4, <2>1, <2>2, Zenon DEF Inv, StatsInv
<1>9. CASE FailStats
  <2>1. stats' = [stats EXCEPT !.state = "error"] /\ asked' = asked
    BY <1>9, Zenon DEF FailStats
  <2>2. /\ stats' \in Stats /\ stats'.state = "error"
        /\ stats'.byStatus = stats.byStatus /\ stats'.byPriority = stats.byPriority
    BY <1>4, <2>1 DEF Stats
  <2>3. "error" # "sent" /\ "error" # "none"
    OBVIOUS
  <2> QED BY <1>1, <1>2, <1>3, <1>4, <2>1, <2>2, <2>3, Zenon DEF Inv, StatsInv
<1> QED BY <1>5, <1>6, <1>7, <1>8, <1>9, Zenon

\* A write keeps the tickets there are, with their priorities.
LEMMA StoreInv ==
  ASSUME Inv, NEW ts, Store(ts),
         DOMAIN tickets \subseteq DOMAIN ts, DOMAIN ts \subseteq Ids, ts \in [DOMAIN ts -> Doc],
         \A i \in DOMAIN tickets : ts[i].priority = tickets[i].priority
  PROVE  Inv'
<1>1. /\ tickets' = ts /\ steady' = steady \cap Matching(ts, walk.filter)
      /\ walk' = walk /\ shown' = shown /\ stats' = stats /\ asked' = asked
  BY Zenon DEF Store, statsVars
<1>2. TypeOK'
  BY <1>1, Zenon DEF Inv, TypeOK
<1>3. WalkInv' /\ ShownOnce' /\ NoneLeftOut' /\ FailsOnlyOnOddLimit'
  BY <1>1, Zenon DEF Inv, WalkInv, ShownOnce, NoneLeftOut, FailsOnlyOnOddLimit
<1>4. StatsInv'
  <2>1. asked \subseteq DOMAIN tickets
    BY Zenon DEF Inv, TypeOK
  <2>2. ASSUME stats.byPriority # Null, NEW p \in Priorities
        PROVE  LET now == {i \in DOMAIN ts : ts[i].priority = p}
               IN  now \cap asked \subseteq stats.byPriority[p] /\ stats.byPriority[p] \subseteq now
    BY <2>1, <2>2, Zenon DEF Inv, StatsInv
  <2> QED BY <1>1, <2>2, Zenon DEF Inv, StatsInv
<1> QED BY <1>2, <1>3, <1>4, Zenon DEF Inv

LEMMA InsertInv == ASSUME Inv, NEW i \in Ids, Insert(i) PROVE Inv'
<1>1. tickets \in [DOMAIN tickets -> Doc] /\ DOMAIN tickets \subseteq Ids
  BY Zenon DEF Inv, TypeOK
<1>2. PICK p \in Priorities :
        Store([j \in DOMAIN tickets \cup {i} |->
                IF j = i THEN [status |-> "Open", priority |-> p] ELSE tickets[j]])
  BY Zenon DEF Insert
<1> DEFINE ts == [j \in DOMAIN tickets \cup {i} |->
                    IF j = i THEN [status |-> "Open", priority |-> p] ELSE tickets[j]]
<1>3. /\ DOMAIN ts = DOMAIN tickets \cup {i}
      /\ ts \in [DOMAIN ts -> Doc]
      /\ \A j \in DOMAIN tickets : ts[j].priority = tickets[j].priority
  BY <1>1, ListingAssumption, Zenon DEF Doc, Insert
<1> HIDE DEF ts
<1>4. Store(ts)
  BY <1>2, Zenon DEF ts
<1> QED BY <1>1, <1>3, <1>4, StoreInv, Zenon

LEMMA SetStatusInv == ASSUME Inv, NEW i \in Ids, SetStatus(i) PROVE Inv'
<1>1. tickets \in [DOMAIN tickets -> Doc] /\ DOMAIN tickets \subseteq Ids /\ i \in DOMAIN tickets
  BY Zenon DEF Inv, TypeOK, SetStatus
<1>2. PICK s \in Statuses \ {"Open"} : Store([tickets EXCEPT ![i].status = s])
  BY Zenon DEF SetStatus
<1> DEFINE ts == [tickets EXCEPT ![i].status = s]
<1>3. /\ DOMAIN ts = DOMAIN tickets
      /\ ts \in [DOMAIN ts -> Doc]
      /\ \A j \in DOMAIN tickets : ts[j].priority = tickets[j].priority
  BY <1>1, Zenon DEF Doc
<1> HIDE DEF ts
<1>4. Store(ts)
  BY <1>2, Zenon DEF ts
<1> QED BY <1>1, <1>3, <1>4, StoreInv, Zenon

LEMMA Invariant == Spec => []Inv
<1>1. Inv /\ [Next]_vars => Inv'
  <2> SUFFICES ASSUME Inv, [Next]_vars PROVE Inv'
    OBVIOUS
  <2>1. CASE UNCHANGED vars
    BY <2>1 DEF vars, Inv, TypeOK, WalkInv, StatsInv, ShownOnce, NoneLeftOut,
                FailsOnlyOnOddLimit, Matching
  <2>2. CASE Next
    BY <2>2, StartWalkInv, getTicketsInv, RetryPageInv, StatsStepInv, InsertInv, SetStatusInv, Zenon
      DEF Next
  <2> QED BY <2>1, <2>2, Zenon
<1> QED BY InitInv, <1>1, PTL DEF Spec

\* Types are kept, and the statistics are sent with both counts.
THEOREM TypeCorrect == Spec => []TypeOK
BY Invariant, PTL DEF Inv

\* No walk through the pages of getTickets shows a ticket twice.
THEOREM NeverTwice == Spec => []ShownOnce
BY Invariant, PTL DEF Inv

\* A walk that ends has shown every ticket that matched from its start to its end.
THEOREM WalkComplete == Spec => []NoneLeftOut
BY Invariant, PTL DEF Inv

\* getTickets takes its cursor from an empty page only for a limit below 1 or NaN.
THEOREM CursorThere == Spec => []FailsOnlyOnOddLimit
BY Invariant, PTL DEF Inv

\* The counts of one reply of getTicketStats are all of the time of the request.
THEOREM CountsOfTheRequest == Spec => []StatsBracketed
<1>1. Inv => StatsBracketed
  BY Zenon DEF Inv, TypeOK, StatsInv, StatsBracketed
<1> QED BY <1>1, Invariant, PTL
=============================================================================

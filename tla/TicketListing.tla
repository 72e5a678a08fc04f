---------------------------- MODULE TicketListing ----------------------------
(***************************************************************************)
(* The reading side of controllers/ticketController.js: getTickets, paged  *)
(* by a cursor, and getTicketStats, three aggregations at a time, while    *)
(* tickets are created and change their status.                            *)
(*                                                                         *)
(* An _id is a number: _ids are compared, and nothing else.  It is made    *)
(* before the insert, so tickets need not appear in the order of their     *)
(* _ids.  The priority stands for all that is filtered on and never        *)
(* changes (priority, tags, the words of the text index).                  *)
(***************************************************************************)
EXTENDS Integers, FiniteSets

CONSTANTS Ids,         \* the _ids of all tickets that are ever created
          Statuses, Priorities,
          Any,         \* a filter that is not given
          Limits,      \* what parseInt(limit) may return
          NaN,         \* parseInt of what is no number
          Cap,         \* 100
          Null         \* no cursor, no result yet

ASSUME ListingAssumption ==
  /\ Ids \subseteq Nat /\ IsFiniteSet(Ids)
  /\ NaN \notin Int /\ Limits \subseteq Int \cup {NaN}
  /\ Cap \in Nat \ {0}
  /\ Null \notin Ids
  /\ "Open" \in Statuses
  /\ Any \notin Statuses /\ Any \notin Priorities

VARIABLES
  tickets,  \* the collection: _id -> document, for the tickets that exist
  walk,     \* a client that follows nextCursor from page to page
  shown,    \* _id -> how often the pages of the walk showed it, counted up to twice
  steady,   \* history: the tickets that matched the filter since the walk began
  stats,    \* a request for the statistics, and what its aggregations returned
  asked     \* history: the tickets there were when it arrived

vars == <<tickets, walk, shown, steady, stats, asked>>
walkVars == <<walk, shown, steady>>
statsVars == <<stats, asked>>

Doc == [status: Statuses, priority: Priorities]
Filter == [status: Statuses \cup {Any}, priority: Priorities \cup {Any}]
Walk == [state: {"none", "find", "error", "done", "failed"}, filter: Filter, limit: Limits,
         cursor: Ids \cup {Null}]

\* What an aggregation returned: the _ids it grouped under each key.
Groups(keys) == [keys -> SUBSET Ids]

Stats == [state: {"none", "aggregate", "error", "sent"},
          byStatus: Groups(Statuses) \cup {Null},
          byPriority: Groups(Priorities) \cup {Null}]

\* The data types of the state; the statistics are sent with both counts.
TypeOK ==
  /\ DOMAIN tickets \subseteq Ids
  /\ tickets \in [DOMAIN tickets -> Doc]
  /\ walk \in Walk
  /\ shown \in [Ids -> Nat]
  /\ steady \subseteq Ids
  /\ stats \in Stats
  /\ asked \subseteq DOMAIN tickets
  /\ stats.state = "sent" => stats.byStatus # Null /\ stats.byPriority # Null

NoFilter == [status |-> Any, priority |-> Any]

Init ==
  /\ \E there \in SUBSET Ids : tickets \in [there -> Doc]
  /\ \E l \in Limits :
       walk = [state |-> "none", filter |-> NoFilter, limit |-> l, cursor |-> Null]
  /\ shown = [i \in Ids |-> 0]
  /\ steady = {}
  /\ stats = [state |-> "none", byStatus |-> Null, byPriority |-> Null]
  /\ asked = {}
-----------------------------------------------------------------------------
(* getTickets *)

Matches(doc, filter) == /\ filter.status \in {Any, doc.status}
                        /\ filter.priority \in {Any, doc.priority}

Matching(ts, filter) == {i \in DOMAIN ts : Matches(ts[i], filter)}

\* Mutant of Query: $lte for $lt.
QueryInclusive == {i \in Matching(tickets, walk.filter) : walk.cursor = Null \/ i <= walk.cursor}

\* The query: what matches and, with a cursor, is older than the cursor.
Query == {i \in Matching(tickets, walk.filter) : walk.cursor = Null \/ i < walk.cursor}

\* What find().sort({ _id: -1 }).limit(n) may return of what the query selects:
\* all of it for n = 0, else the |n| newest.  MongoDB refuses NaN or reads it as 0.
Newest(selected, n) ==
  LET size == IF n < 0 THEN -n ELSE n
  IN  {found \in SUBSET selected :
         /\ \A i \in found, j \in selected \ found : i > j
         /\ n # 0 => Cardinality(found) <= size
         /\ found # selected => n # 0 /\ Cardinality(found) = size}

pageLimit == IF walk.limit # NaN /\ walk.limit > Cap THEN Cap ELSE walk.limit

\* Mutant of Popped: shift() for pop().
PoppedNewest(found) ==
  {page \in SUBSET found :
     \E newest \in found : /\ page = found \ {newest}
                           /\ \A i \in found : i <= newest}

\* tickets.pop(): the oldest of what was found goes.
Popped(found) ==
  {page \in SUBSET found :
     \E oldest \in found : /\ page = found \ {oldest}
                           /\ \A i \in found : oldest <= i}

\* tickets[tickets.length - 1]._id, which throws when the page is empty.
NextCursors(page) == {i \in page : \A j \in page : i <= j}

Show(page) ==
  shown' = [i \in Ids |-> IF i \in page /\ shown[i] < 2 THEN shown[i] + 1 ELSE shown[i]]

\* A client asks for the first page.
StartWalk ==
  /\ walk.state = "none"
  /\ \E f \in Filter : /\ walk' = [walk EXCEPT !.state = "find", !.filter = f]
                       /\ steady' = Matching(tickets, f)
  /\ UNCHANGED <<tickets, shown, statsVars>>

Failed == /\ walk' = [walk EXCEPT !.state = "failed"]
          /\ UNCHANGED shown

LastPage(page) == /\ walk' = [walk EXCEPT !.state = "done"]
                  /\ Show(page)

\* Mutant of MorePages: an empty page gives no cursor.
MorePagesAgain(page) ==
  \/ /\ page = {}
     /\ walk' = [walk EXCEPT !.cursor = Null] /\ Show(page)
  \/ \E c \in NextCursors(page) :
       walk' = [walk EXCEPT !.cursor = c] /\ Show(page)

\* The client goes on with nextCursor; without one the handler answers 500.
MorePages(page) ==
  \/ page = {} /\ Failed
  \/ \E c \in NextCursors(page) :
       walk' = [walk EXCEPT !.cursor = c] /\ Show(page)

\* Mutant of hasMore: a full page counts as one with an extra document.
hasMoreWhenFull(found) == Cardinality(found) >= pageLimit

hasMore(found) == Cardinality(found) > pageLimit

\* The database fails, and the handler answers 500.
DatabaseError == /\ walk' = [walk EXCEPT !.state = "error"]
                 /\ UNCHANGED shown

\* getTickets, the client asking for the next page as long as there is one.
getTickets ==
  /\ walk.state = "find"
  /\ \/ DatabaseError
     \/ /\ pageLimit = NaN
        /\ LastPage(Query) \/ Failed
     \/ /\ pageLimit # NaN
        /\ \E found \in Newest(Query, pageLimit + 1) :
             \/ ~hasMore(found) /\ LastPage(found)
             \/ /\ hasMore(found)
                /\ IF found = {} THEN MorePages({})
                                 ELSE \E page \in Popped(found) : MorePages(page)
  /\ UNCHANGED <<tickets, steady, statsVars>>

\* After a 500 the client may ask for the same page again.
RetryPage ==
  /\ walk.state = "error"
  /\ walk' = [walk EXCEPT !.state = "find"]
  /\ UNCHANGED <<tickets, shown, steady, statsVars>>
-----------------------------------------------------------------------------
(* getTicketStats *)

\* $group: what there is, by the value of a field.
GroupByStatus == [s \in Statuses |-> {i \in DOMAIN tickets : tickets[i].status = s}]
GroupByPriority == [p \in Priorities |-> {i \in DOMAIN tickets : tickets[i].priority = p}]

AskStats ==
  /\ stats.state = "none"
  /\ stats' = [stats EXCEPT !.state = "aggregate"]
  /\ asked' = DOMAIN tickets
  /\ UNCHANGED <<tickets, walkVars>>

\* The aggregations of Promise.all, in whatever order they are served.
AggregateStatus ==
  /\ stats.state = "aggregate" /\ stats.byStatus = Null
  /\ stats' = [stats EXCEPT !.byStatus = GroupByStatus]
  /\ UNCHANGED <<tickets, walkVars, asked>>

\* Mutant of AggregatePriority: what is resolved is left out.
AggregatePriorityOpen ==
  /\ stats.state = "aggregate" /\ stats.byPriority = Null
  /\ stats' = [stats EXCEPT !.byPriority =
       [p \in Priorities |-> {i \in DOMAIN tickets : /\ tickets[i].priority = p
                                                    /\ tickets[i].status # "Resolved"}]]
  /\ UNCHANGED <<tickets, walkVars, asked>>

AggregatePriority ==
  /\ stats.state = "aggregate" /\ stats.byPriority = Null
  /\ stats' = [stats EXCEPT !.byPriority = GroupByPriority]
  /\ UNCHANGED <<tickets, walkVars, asked>>

\* Mutant of SendStats: Promise.all is not waited for.
SendStatsEarly ==
  /\ stats.state = "aggregate"
  /\ stats' = [stats EXCEPT !.state = "sent"]
  /\ UNCHANGED <<tickets, walkVars, asked>>

SendStats ==
  /\ stats.state = "aggregate"
  /\ stats.byStatus # Null /\ stats.byPriority # Null
  /\ stats' = [stats EXCEPT !.state = "sent"]
  /\ UNCHANGED <<tickets, walkVars, asked>>

\* One of the aggregations fails, and with it Promise.all: the reply is a 500.
FailStats ==
  /\ stats.state = "aggregate"
  /\ stats' = [stats EXCEPT !.state = "error"]
  /\ UNCHANGED <<tickets, walkVars, asked>>
-----------------------------------------------------------------------------
(* What the other handlers do meanwhile *)

Store(ts) == /\ tickets' = ts
             /\ steady' = steady \cap Matching(ts, walk.filter)
             /\ UNCHANGED <<walk, shown, statsVars>>

\* createTicket inserts a document.
Insert(i) ==
  /\ i \notin DOMAIN tickets
  /\ \E p \in Priorities :
       Store([j \in DOMAIN tickets \cup {i} |->
                IF j = i THEN [status |-> "Open", priority |-> p] ELSE tickets[j]])

\* assignTicket and resolveTicket change the status.
SetStatus(i) ==
  /\ i \in DOMAIN tickets
  /\ \E s \in Statuses \ {"Open"} : Store([tickets EXCEPT ![i].status = s])

Next ==
  \/ StartWalk \/ getTickets \/ RetryPage
  \/ AskStats \/ AggregateStatus \/ AggregatePriority \/ SendStats \/ FailStats
  \/ \E i \in Ids : Insert(i) \/ SetStatus(i)

Spec == Init /\ [][Next]_vars

\* A client that has asked for a page is answered, and asks for the next one.
FairSpec == Spec /\ WF_vars(getTickets)
-----------------------------------------------------------------------------
\* No ticket is on two pages of a walk, whatever is created or changes its status
\* between the pages (the cursor of getTickets).
ShownOnce == \A i \in Ids : shown[i] <= 1

\* When a walk ends it has shown every ticket that matched the filter all along:
\* the tickets that join or leave the list meanwhile push none of them out.
NoneLeftOut ==
  walk.state = "done" => \A i \in steady : shown[i] = 1

\* Unless the database fails, only a limit below 1, or none that is a number, makes
\* getTickets answer 500: the extra document means that the page has one more to
\* take its cursor from.
FailsOnlyOnOddLimit ==
  walk.state = "failed" => walk.limit = NaN \/ walk.limit < 1

\* A walk ends, unless the database fails, although tickets are created all the
\* time: the cursor only goes to older tickets.
WalkEnds == (walk.state = "find") ~> (walk.state \in {"done", "failed", "error"})

\* The counts of one reply are of different moments, but all of the time the request
\* took: a ticket that was there when it arrived is counted under a status and under
\* its priority, and no count is higher than what there is when the reply is sent.
StatsBracketed ==
  stats.state = "sent" =>
    /\ \A i \in asked : \E s \in Statuses : i \in stats.byStatus[s]
    /\ \A s \in Statuses : stats.byStatus[s] \subseteq DOMAIN tickets
    /\ \A p \in Priorities :
         LET now == {i \in DOMAIN tickets : tickets[i].priority = p}
         IN  now \cap asked \subseteq stats.byPriority[p] /\ stats.byPriority[p] \subseteq now
=============================================================================

------------------------------- MODULE Listing -------------------------------
(***************************************************************************)
(* The list of surveys (List of survey.go, ListSurveysByOwner and          *)
(* ListAllSurveys of methods.go): a page of rows and the total, two        *)
(* queries one after the other, read by clients that follow the pages      *)
(* while surveys are created and change.  Of the table surveys it keeps    *)
(* the columns that the two queries look at.                               *)
(***************************************************************************)
EXTENDS Integers, FiniteSets, Rbac

CONSTANTS
  SurveyIds,
  Users,
  RoleOf,           \* users.role
  Facets,           \* what the filters look at: title, type and status
  Filters,          \* a filter is the set of facets it lets through; none is Facets
  Inserts,          \* CreateSurvey statements run at the same time
  Readers,          \* clients that page through their list
  Limits, Pages,    \* the numbers asked for, as strconv.Atoi reads them
  DefaultPageSize, MaxPageSize, SearchLimit,
  MaxInt32, MaxInt64,   \* the largest values of the two widths
  MaxClock          \* bound of the clock, for TLC

ASSUME ListingAssumption ==
  /\ RoleOf \in [Users -> Roles]
  /\ Filters \subseteq SUBSET Facets
  /\ Limits \subseteq Int /\ Pages \subseteq Int
  /\ {DefaultPageSize, SearchLimit} \subseteq 1..MaxPageSize
  /\ MaxPageSize \in Nat /\ MaxInt32 \in Nat /\ MaxInt64 \in Nat /\ MaxClock \in Nat
  /\ MaxPageSize <= MaxInt32 /\ MaxInt32 <= MaxInt64
  /\ IsFiniteSet(SurveyIds) /\ Cardinality(SurveyIds) <= MaxInt32

VARIABLES
  table,        \* surveys, by survey_id
  clock,        \* the last created_at given out
  pending,      \* the INSERT in progress in each slot
  reader        \* the request of each client, and the walk it belongs to

vars == <<table, clock, pending, reader>>

\* created orders the rows as (created_at, id) does.
Rows == [owner : Users, facet : Facets, created : Nat \ {0}]

NoRow == [created |-> 0]

Inserted == [id : SurveyIds, owner : Users, facet : Facets, created : Nat \ {0}]

NoInsert == [created |-> 0]

\* A request waits for its rows, then for its total, then is answered.  page
\* and limit are the client's; filter and searching its filters; offset is
\* computed once.  History of the walk over the pages: base is what the list
\* had to show when it began, seen what its pages showed; top says that it
\* began with the first page; kept that no survey has left the list since.
Busy ==
  [pc : {"rows", "count", "reply"}, user : Users, filter : Filters,
   searching : BOOLEAN, limit : Limits, page : Int, offset : -MaxInt32 - 1..MaxInt32,
   rows : SUBSET SurveyIds, total : Nat,
   base : SUBSET SurveyIds, seen : SUBSET SurveyIds, top : BOOLEAN, kept : BOOLEAN]

NoRequest == [pc |-> "idle"]

Init ==
  /\ table = [id \in SurveyIds |-> NoRow]
  /\ clock = 0
  /\ pending = [i \in Inserts |-> NoInsert]
  /\ reader = [c \in Readers |-> NoRequest]

-----------------------------------------------------------------------------
\* List: page number, page size and offset.

\* A conversion to a signed width whose largest value is max.
Wrap(x, max) ==
  IF -max - 1 <= x /\ x <= max THEN x
  ELSE ((x + max + 1) % (2 * (max + 1))) - (max + 1)

PageNumber(page) == IF page < 1 THEN 1 ELSE page

PageSize(limit, searching) ==
  CASE searching -> SearchLimit
    [] ~searching /\ limit <= 0 -> DefaultPageSize
    [] ~searching /\ limit > MaxPageSize -> MaxPageSize
    [] OTHER -> limit

\* The rows before the page.
Before(limit, page, searching) ==
  IF searching THEN 0 ELSE (PageNumber(page) - 1) * PageSize(limit, searching)

\* Faulty variants: computed in 32 bits; not cut off.
Offset_Int32(limit, page, searching) == Wrap(Before(limit, page, searching), MaxInt32)

Offset_Unclamped(limit, page, searching) ==
  Wrap(Before(limit, page, searching), MaxInt64)

\* Computed in 64 bits, clamped from above, converted to 32.
Offset(limit, page, searching) ==
  LET product == Wrap(Before(limit, page, searching), MaxInt64) IN
    IF product > MaxInt32 THEN MaxInt32 ELSE Wrap(product, MaxInt32)

-----------------------------------------------------------------------------
\* The queries.

Newer(i, j) == table[i].created > table[j].created

\* The rows the WHERE clauses let through, for an admin or for an owner.
Matching(u, filter) ==
  {id \in SurveyIds :
     /\ table[id] # NoRow
     /\ IsAdmin(RoleOf[u]) \/ table[id].owner = u
     /\ table[id].facet \in filter}

\* The place of a row in the order of the list, from 0.
Rank(id, S) == Cardinality({j \in S : Newer(j, id)})

\* LIMIT and OFFSET.
Slice(S, offset, size) == {id \in S : offset <= Rank(id, S) /\ Rank(id, S) < offset + size}

At(c, stage) == reader[c].pc = stage

Request(user, filter, searching, limit, page) ==
  [pc |-> "rows", user |-> user, filter |-> filter, searching |-> searching,
   limit |-> limit, page |-> page, offset |-> Offset(limit, page, searching),
   rows |-> {}, total |-> 0,
   base |-> Matching(user, filter), seen |-> {},
   top |-> PageNumber(page) = 1 /\ ~searching, kept |-> TRUE]

\* A client asks for a page of its list, behind RequireAuth.
Ask(c) ==
  /\ At(c, "idle")
  /\ \E user \in Users, filter \in Filters, searching \in BOOLEAN,
        limit \in Limits, page \in Pages :
       /\ Can(RoleOf[user], "survey:list")
       /\ reader' = [reader EXCEPT ![c] = Request(user, filter, searching, limit, page)]
  /\ UNCHANGED <<table, clock, pending>>

ReadRows(c) ==
  /\ At(c, "rows") /\ reader[c].offset >= 0
  /\ LET r == reader[c]
         rows == Slice(Matching(r.user, r.filter), r.offset, PageSize(r.limit, r.searching))
     IN reader' = [reader EXCEPT ![c].pc = "count", ![c].rows = rows,
                                 ![c].seen = r.seen \cup rows]
  /\ UNCHANGED <<table, clock, pending>>

\* Faulty variant: COUNT(*) OVER (), which comes with the rows.
ReadCount_Window(c) ==
  /\ At(c, "count")
  /\ LET r == reader[c] IN
       reader' = [reader EXCEPT ![c].pc = "reply",
         ![c].total = IF r.rows = {} THEN 0 ELSE Cardinality(Matching(r.user, r.filter))]
  /\ UNCHANGED <<table, clock, pending>>

ReadCount(c) ==
  /\ At(c, "count")
  /\ LET r == reader[c] IN
       reader' = [reader EXCEPT ![c].pc = "reply",
                                ![c].total = Cardinality(Matching(r.user, r.filter))]
  /\ UNCHANGED <<table, clock, pending>>

\* A page after which the total leaves nothing to ask for.
LastPage(r) ==
  r.searching \/ PageNumber(r.page) * PageSize(r.limit, r.searching) >= r.total

\* The client goes on to the next page, or is done.
Follow(c) ==
  /\ At(c, "reply") /\ ~LastPage(reader[c])
  /\ LET r == reader[c]
         next == PageNumber(r.page) + 1
     IN reader' = [reader EXCEPT ![c] =
          [r EXCEPT !.pc = "rows", !.page = next, !.rows = {}, !.total = 0,
                    !.offset = Offset(r.limit, next, r.searching)]]
  /\ UNCHANGED <<table, clock, pending>>

Done(c) ==
  /\ At(c, "reply")
  /\ reader' = [reader EXCEPT ![c] = NoRequest]
  /\ UNCHANGED <<table, clock, pending>>

\* A query fails (a negative OFFSET, say), or the client goes away.
ListFails(c) ==
  /\ At(c, "rows") \/ At(c, "count")
  /\ reader' = [reader EXCEPT ![c] = NoRequest]
  /\ UNCHANGED <<table, clock, pending>>

-----------------------------------------------------------------------------
\* What happens to the table meanwhile.  Rows are never deleted.

Free(id) ==
  /\ table[id] = NoRow
  /\ \A i \in Inserts : pending[i] # NoInsert => pending[i].id # id

\* Create and Copy: created_at is taken when the statement starts, the row is
\* seen when it has committed.  Ids that are taken are SurveyService's matter.
BeginInsert(i) ==
  /\ pending[i] = NoInsert /\ clock < MaxClock
  /\ clock' = clock + 1
  /\ \E id \in SurveyIds, user \in Users, facet \in Facets :
       /\ Free(id)
       /\ pending' = [pending EXCEPT ![i] =
            [id |-> id, owner |-> user, facet |-> facet, created |-> clock + 1]]
  /\ UNCHANGED <<table, reader>>

CommitInsert(i) ==
  /\ pending[i] # NoInsert
  /\ LET p == pending[i] IN
       table' = [table EXCEPT ![p.id] =
         [owner |-> p.owner, facet |-> p.facet, created |-> p.created]]
  /\ pending' = [pending EXCEPT ![i] = NoInsert]
  /\ UNCHANGED <<clock, reader>>

InsertFails(i) ==
  /\ pending[i] # NoInsert
  /\ pending' = [pending EXCEPT ![i] = NoInsert]
  /\ UNCHANGED <<table, clock, reader>>

\* Which walks keep their list when id gets this facet.
Keeping(id, facet) ==
  [c \in Readers |->
     IF ~At(c, "idle") /\ id \in Matching(reader[c].user, reader[c].filter)
                       /\ facet \notin reader[c].filter
       THEN [reader[c] EXCEPT !.kept = FALSE]
       ELSE reader[c]]

\* Faulty variant: the list is in the order of the last change.
Change_MovesUp(id) ==
  /\ table[id] # NoRow /\ clock < MaxClock
  /\ clock' = clock + 1
  /\ \E facet \in Facets :
       /\ table' = [table EXCEPT ![id].facet = facet, ![id].created = clock + 1]
       /\ reader' = Keeping(id, facet)
  /\ UNCHANGED pending

\* UpdateDraft, SetStatus, SetPublished: title, type or status change; neither
\* created_at nor id does.
Change(id) ==
  /\ table[id] # NoRow
  /\ \E facet \in Facets :
       /\ table' = [table EXCEPT ![id].facet = facet]
       /\ reader' = Keeping(id, facet)
  /\ UNCHANGED <<clock, pending>>

Reading(c) ==
  Ask(c) \/ ReadRows(c) \/ ReadCount(c) \/ Follow(c) \/ Done(c) \/ ListFails(c)

Inserting(i) == BeginInsert(i) \/ CommitInsert(i) \/ InsertFails(i)

Next ==
  \/ \E c \in Readers : Reading(c)
  \/ \E i \in Inserts : Inserting(i)
  \/ \E id \in SurveyIds : Change(id)

Spec == Init /\ [][Next]_vars

-----------------------------------------------------------------------------
\* Types; an offset fits the 32 bits of the parameter it is passed in.
TypeOK ==
  /\ table \in [SurveyIds -> Rows \cup {NoRow}]
  /\ clock \in Nat
  /\ pending \in [Inserts -> Inserted \cup {NoInsert}]
  /\ reader \in [Readers -> Busy \cup {NoRequest}]

\* The offset is the number of rows before the page, cut off at what 32 bits
\* can say: it never wraps into a negative or a wrong one (survey.go:141-148).
OffsetIsThePage ==
  \A c \in Readers :
    ~At(c, "idle") =>
      LET r == reader[c]
          before == Before(r.limit, r.page, r.searching)
      IN r.offset = IF before > MaxInt32 THEN MaxInt32 ELSE before

\* Unless a survey has left the list since the walk began, the total covers
\* what was there when it began, on pages past the end too, and everything up
\* to the last row of the page, although it is counted by a query of its own
\* (methods.go:116-117).
TotalCoversPage ==
  \A c \in Readers :
    LET r == reader[c] IN
      At(c, "reply") /\ r.kept =>
        /\ r.total >= Cardinality(r.base)
        /\ r.rows # {} => r.total >= r.offset + Cardinality(r.rows)

\* A client that follows the pages until the total says there are no more has
\* seen every survey that was in its list when it began, unless one left the
\* list meanwhile: surveys created during the walk only push others back
\* (survey.go:106-170).
WalkSeesAll ==
  \A c \in Readers :
    LET r == reader[c] IN
      At(c, "reply") /\ r.top /\ r.kept /\ LastPage(r) => r.base \subseteq r.seen
=============================================================================

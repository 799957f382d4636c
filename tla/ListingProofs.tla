---------------------------- MODULE ListingProofs ----------------------------
(***************************************************************************)
(* Proofs about the list of surveys, for any numbers of surveys, readers   *)
(* and concurrent inserts, any filters and any widths of the integers.     *)
(***************************************************************************)
EXTENDS Listing, TLAPS, FiniteSetTheorems, WellFoundedInduction

-----------------------------------------------------------------------------
\* Page numbers, page sizes, offsets.

LEMMA Widths ==
  /\ MaxPageSize \in Nat /\ MaxInt32 \in Nat /\ MaxInt64 \in Nat
  /\ MaxPageSize <= MaxInt32 /\ MaxInt32 <= MaxInt64
BY ListingAssumption

LEMMA PageSizeType ==
  ASSUME NEW limit \in Int, NEW searching
  PROVE  PageSize(limit, searching) \in 1..MaxPageSize
BY ListingAssumption DEF PageSize

LEMMA PageNumberType ==
  ASSUME NEW page \in Int PROVE PageNumber(page) \in Nat \ {0}
BY DEF PageNumber

LEMMA BeforeType ==
  ASSUME NEW limit \in Int, NEW page \in Int, NEW searching
  PROVE  Before(limit, page, searching) \in Nat
<1>1. \A a, b \in Nat : a * b \in Nat
  OBVIOUS
<1>2. PageSize(limit, searching) \in Nat /\ PageNumber(page) - 1 \in Nat
  BY PageSizeType, PageNumberType, ListingAssumption
<1>3. QED
  BY <1>1, <1>2 DEF Before

\* A conversion fits its width.
LEMMA WrapType ==
  ASSUME NEW x \in Int, NEW max \in Nat PROVE Wrap(x, max) \in -max - 1..max
<1> DEFINE n == 2 * (max + 1)
<1>1. n \in Nat /\ n > 0 /\ n = 2 * max + 2
  OBVIOUS
<1> HIDE DEF n
<1>2. (x + max + 1) % n \in 0..n - 1
  BY <1>1
<1>3. ((x + max + 1) % n) - (max + 1) \in -max - 1..max
  BY <1>1, <1>2
<1>4. QED
  BY <1>3 DEF Wrap, n

LEMMA OffsetType ==
  ASSUME NEW limit \in Int, NEW page \in Int, NEW searching
  PROVE  Offset(limit, page, searching) \in -MaxInt32 - 1..MaxInt32
<1>1. Wrap(Before(limit, page, searching), MaxInt64) \in Int
  BY BeforeType, WrapType, ListingAssumption
<1>2. \A x \in Int : Wrap(x, MaxInt32) \in -MaxInt32 - 1..MaxInt32
  BY WrapType, ListingAssumption
<1>3. QED
  BY <1>1, <1>2, ListingAssumption DEF Offset

\* A product that fits 64 bits is cut off at 32 and never wraps.
LEMMA OffsetIs ==
  ASSUME NEW limit \in Int, NEW page \in Int, NEW searching,
         Before(limit, page, searching) <= MaxInt64
  PROVE  Offset(limit, page, searching) =
           IF Before(limit, page, searching) > MaxInt32 THEN MaxInt32
           ELSE Before(limit, page, searching)
<1>1. Before(limit, page, searching) \in Nat
  BY BeforeType
<1>2. QED
  BY <1>1, ListingAssumption DEF Offset, Wrap

LEMMA FirstPage ==
  ASSUME NEW limit \in Int, NEW page \in Int, PageNumber(page) = 1
  PROVE  Offset(limit, page, FALSE) = 0 /\ Before(limit, page, FALSE) = 0
<1> DEFINE S == PageSize(limit, FALSE)
           B == Before(limit, page, FALSE)
<1>1. S \in 1..MaxPageSize
  BY PageSizeType
<1>2. B = (1 - 1) * S
  BY DEF Before
<1>3. Offset(limit, page, FALSE) =
        IF Wrap(B, MaxInt64) > MaxInt32 THEN MaxInt32 ELSE Wrap(Wrap(B, MaxInt64), MaxInt32)
  BY DEF Offset
<1> HIDE DEF S, B
<1>4. B = 0
  BY <1>1, <1>2, Widths
<1>5. Wrap(0, MaxInt64) = 0 /\ Wrap(0, MaxInt32) = 0 /\ ~(0 > MaxInt32)
  BY Widths DEF Wrap
<1>6. QED
  BY <1>3, <1>4, <1>5 DEF B

\* The rows before the next page are those before this one and this one's.
LEMMA NextBefore ==
  ASSUME NEW limit \in Int, NEW page \in Int
  PROVE  /\ Before(limit, PageNumber(page) + 1, FALSE) =
              PageNumber(page) * PageSize(limit, FALSE)
         /\ Before(limit, PageNumber(page) + 1, FALSE) =
              Before(limit, page, FALSE) + PageSize(limit, FALSE)
<1> DEFINE P == PageNumber(page)
           S == PageSize(limit, FALSE)
<1>1. P \in Nat \ {0} /\ S \in Nat
  <2>1. P \in Nat \ {0}
    BY PageNumberType
  <2>2. FALSE \in BOOLEAN
    OBVIOUS
  <2>3. S \in 1..MaxPageSize
    BY <2>2, PageSizeType
  <2>4. MaxPageSize \in Nat
    BY ListingAssumption
  <2> HIDE DEF P, S
  <2>5. QED
    BY <2>1, <2>3, <2>4
<1>2. PageNumber(P + 1) = P + 1
  BY <1>1 DEF PageNumber
<1>3. Before(limit, P + 1, FALSE) = ((P + 1) - 1) * S /\ Before(limit, page, FALSE) = (P - 1) * S
  BY <1>2 DEF Before
<1> HIDE DEF P, S
<1>4. (P + 1) - 1 = P /\ P * S = (P - 1) * S + S
  <2>1. \A q, m \in Int : (q + 1) * m = q * m + m
    OBVIOUS
  <2>2. P - 1 \in Int /\ (P - 1) + 1 = P /\ (P + 1) - 1 = P
    BY <1>1
  <2>3. QED
    BY <1>1, <2>1, <2>2
<1>5. QED
  BY <1>3, <1>4 DEF P, S

-----------------------------------------------------------------------------
\* Ranks.

Tables == [SurveyIds -> Rows \cup {NoRow}]

LEMMA RowIsSomething == \A row \in Rows : row # NoRow
BY DEF Rows, NoRow

LEMMA RankType ==
  ASSUME NEW S \in SUBSET SurveyIds, NEW id
  PROVE  Rank(id, S) \in Nat
<1>1. IsFiniteSet({j \in S : Newer(j, id)})
  BY FS_Subset, ListingAssumption
<1>2. QED
  BY <1>1, FS_CardinalityType DEF Rank

\* A row of a list is not the last of all the rows and one more.
LEMMA RankBound ==
  ASSUME table \in Tables, NEW S \in SUBSET SurveyIds, NEW id \in S
  PROVE  Rank(id, S) < Cardinality(S)
<1> DEFINE N == {j \in S : Newer(j, id)}
<1>1. IsFiniteSet(S) /\ IsFiniteSet(N)
  BY FS_Subset, ListingAssumption
<1>2. table[id].created \in Nat
  BY DEF Tables, Rows, NoRow
<1>3. id \notin N
  BY <1>2 DEF Newer
<1>4. N \subseteq S \ {id}
  BY <1>3
<1>5. IsFiniteSet(S \ {id}) /\ Cardinality(S \ {id}) = Cardinality(S) - 1
  BY <1>1, FS_RemoveElement
<1>6. Cardinality(N) <= Cardinality(S \ {id})
  BY <1>4, <1>5, FS_Subset
<1>7. Cardinality(N) \in Nat /\ Cardinality(S) \in Nat
  BY <1>1, FS_CardinalityType
<1> HIDE DEF N
<1>8. Cardinality(N) < Cardinality(S)
  BY <1>5, <1>6, <1>7
<1>9. QED
  BY <1>8 DEF Rank, N

\* Of some rows, one has no other before it.
LEMMA FirstOfRows ==
  ASSUME table \in Tables, NEW S \in SUBSET SurveyIds, NEW T \in SUBSET S, T # {}
  PROVE  \E id \in T : \A j \in T : ~Newer(j, id)
<1> DEFINE Less == OpToRel(<, Nat)
           ranks == {Rank(id, S) : id \in T}
<1>1. \A id \in T : Rank(id, S) \in Nat
  BY RankType
<1>2. ranks \subseteq Nat /\ ranks # {}
  BY <1>1
<1>3. IsWellFoundedOn(Less, Nat)
  BY NatLessThanWellFounded
<1> HIDE DEF ranks, Less
<1>4. \E x \in ranks : \A y \in ranks : <<y, x>> \notin Less
  BY <1>2, <1>3, WFMin
<1>5. PICK id \in T : \A j \in T : <<Rank(j, S), Rank(id, S)>> \notin Less
  BY <1>4 DEF ranks
<1>6. \A j \in T : ~(Rank(j, S) < Rank(id, S))
  BY <1>1, <1>5 DEF Less, OpToRel
<1>7. ASSUME NEW j \in T, Newer(j, id) PROVE FALSE
  <2> DEFINE N == {k \in S : Newer(k, j)}
             M == {k \in S : Newer(k, id)}
  <2>1. \A k \in S : table[k].created \in Nat
    BY DEF Tables, Rows, NoRow
  <2>2. N \subseteq M /\ j \in M /\ j \notin N
    BY <1>7, <2>1 DEF Newer
  <2>3. IsFiniteSet(M)
    BY FS_Subset, ListingAssumption
  <2>4. IsFiniteSet(N) /\ Cardinality(N) <= Cardinality(M) /\ Cardinality(N) # Cardinality(M)
    BY <2>2, <2>3, FS_Subset
  <2>5. Cardinality(N) = Rank(j, S) /\ Cardinality(M) = Rank(id, S)
    BY DEF Rank
  <2> HIDE DEF N, M
  <2>6. QED
    BY <1>1, <1>6, <2>4, <2>5
<1>8. QED
  BY <1>7

\* The rows of a page come after as many others as the offset says.
LEMMA SliceFits ==
  ASSUME table \in Tables, NEW S \in SUBSET SurveyIds,
         NEW offset \in Int, NEW size \in Nat, Slice(S, offset, size) # {}
  PROVE  Cardinality(S) >= offset + Cardinality(Slice(S, offset, size))
<1> DEFINE R == Slice(S, offset, size)
<1>1. R \in SUBSET S /\ \A id \in R : offset <= Rank(id, S)
  BY DEF Slice
<1> HIDE DEF R
<1>2. PICK id \in R : \A j \in R : ~Newer(j, id)
  BY <1>1, FirstOfRows DEF R
<1> DEFINE N == {j \in S : Newer(j, id)}
<1>3. IsFiniteSet(S) /\ IsFiniteSet(N) /\ IsFiniteSet(R)
  BY <1>1, FS_Subset, ListingAssumption
<1>4. N \cap R = {} /\ N \cup R \in SUBSET S
  BY <1>1, <1>2
<1>5. Cardinality(N) = Rank(id, S) /\ offset <= Rank(id, S)
  BY <1>1 DEF Rank
<1> HIDE DEF N
<1>6. Cardinality(N \cup R) = Cardinality(N) + Cardinality(R) - Cardinality(N \cap R)
  BY <1>3, FS_Union
<1>7. Cardinality(N \cap R) = 0
  BY <1>4, FS_EmptySet
<1>8. Cardinality(N \cup R) <= Cardinality(S)
  BY <1>3, <1>4, FS_Subset
<1>9. Cardinality(N) \in Nat /\ Cardinality(R) \in Nat /\ Cardinality(S) \in Nat
  BY <1>3, FS_CardinalityType
<1>10. Cardinality(S) >= offset + Cardinality(R)
  BY <1>5, <1>6, <1>7, <1>8, <1>9
<1>11. QED
  BY <1>10 DEF R
-----------------------------------------------------------------------------
\* The inductive invariant.

\* The list a client pages through, and the place of a row in it.
MyList(c) == Matching(reader[c].user, reader[c].filter)

Place(c, id) == Rank(id, MyList(c))

Size(c) == PageSize(reader[c].limit, reader[c].searching)

Unseen(c) == reader[c].base \ reader[c].seen

\* What a walk has not seen yet is still to come: not before the page asked
\* for, and once that page has been read, behind it.
StillAhead(c) ==
  /\ At(c, "rows") => \A id \in Unseen(c) : Place(c, id) >= reader[c].offset
  /\ reader[c].pc \in {"count", "reply"} =>
       \A id \in Unseen(c) : Place(c, id) >= reader[c].offset + Size(c)

\* There are, and later there were, as many rows as the page reaches.
PageOK(c) ==
  reader[c].rows # {} =>
    /\ At(c, "count") =>
         Cardinality(MyList(c)) >= reader[c].offset + Cardinality(reader[c].rows)
    /\ At(c, "reply") =>
         reader[c].total >= reader[c].offset + Cardinality(reader[c].rows)

\* The offset of a walk is exact, and the total says what is ahead.
WalkOK(c) ==
  ~At(c, "idle") /\ reader[c].kept =>
    /\ reader[c].base \subseteq MyList(c)
    /\ PageOK(c)
    /\ At(c, "reply") => reader[c].total >= Cardinality(reader[c].base)
    /\ reader[c].top =>
         /\ reader[c].searching = FALSE
         /\ reader[c].offset = Before(reader[c].limit, reader[c].page, FALSE)
         /\ StillAhead(c)
         /\ At(c, "reply") /\ Unseen(c) # {} =>
              reader[c].total > reader[c].offset + Size(c)

TotalOK(c) == At(c, "reply") => reader[c].total <= Cardinality(SurveyIds)

\* An INSERT in progress is for an id of its own that no row has.
PendingOK ==
  /\ \A i \in Inserts : pending[i] # NoInsert => table[pending[i].id] = NoRow
  /\ \A i, j \in Inserts :
       i # j /\ pending[i] # NoInsert /\ pending[j] # NoInsert => pending[i].id # pending[j].id

ListInv ==
  /\ TypeOK
  /\ PendingOK
  /\ \A c \in Readers : WalkOK(c) /\ TotalOK(c)

LEMMA BusyTypes ==
  ASSUME TypeOK, NEW c \in Readers, ~At(c, "idle")
  PROVE  /\ reader[c] \in Busy
         /\ reader[c].limit \in Int /\ reader[c].page \in Int
         /\ reader[c].offset \in Int
         /\ Size(c) \in 1..MaxPageSize /\ Size(c) \in Nat
         /\ reader[c].base \in SUBSET SurveyIds
         /\ reader[c].rows \in SUBSET SurveyIds
         /\ reader[c].total \in Nat
<1>1. reader[c] \in Busy \cup {NoRequest}
  BY DEF TypeOK
<1>2. reader[c] \in Busy
  BY <1>1 DEF NoRequest, At
<1>3. MaxInt32 \in Nat /\ MaxPageSize \in Nat /\ Limits \subseteq Int
  BY ListingAssumption
<1>4. reader[c].limit \in Limits /\ reader[c].page \in Int
      /\ reader[c].offset \in -MaxInt32 - 1..MaxInt32 /\ reader[c].total \in Nat
  BY <1>2 DEF Busy
<1>5. reader[c].base \in SUBSET SurveyIds /\ reader[c].rows \in SUBSET SurveyIds
  BY <1>2 DEF Busy
<1>6. reader[c].searching \in BOOLEAN
  BY <1>2 DEF Busy
<1>7. reader[c].limit \in Int /\ reader[c].offset \in Int
  <2>1. \A m \in Nat : -m - 1..m \subseteq Int
    OBVIOUS
  <2>2. -MaxInt32 - 1..MaxInt32 \subseteq Int
    BY <1>3, <2>1
  <2>3. QED
    BY <1>3, <1>4, <2>2, Zenon
<1>8. Size(c) \in 1..MaxPageSize
  BY <1>6, <1>7, PageSizeType DEF Size
<1>9. QED
  BY <1>2, <1>3, <1>4, <1>5, <1>7, <1>8

LEMMA MyListType ==
  ASSUME NEW c PROVE MyList(c) \in SUBSET SurveyIds
BY DEF MyList, Matching

\* Rows that join a list only push the others back.
LEMMA PlaceGrows ==
  ASSUME NEW c, NEW id \in MyList(c),
         MyList(c) \subseteq MyList(c)', MyList(c)' \subseteq SurveyIds,
         \A j \in MyList(c) : table'[j].created = table[j].created
  PROVE  Place(c, id)' >= Place(c, id)
<1> DEFINE N == {j \in MyList(c) : table[j].created > table[id].created}
           M == {j \in MyList(c)' : table'[j].created > table'[id].created}
<1>1. N \subseteq M
  OBVIOUS
<1>2. IsFiniteSet(M)
  BY FS_Subset, ListingAssumption
<1>3. Cardinality(N) <= Cardinality(M) /\ Cardinality(N) \in Nat /\ Cardinality(M) \in Nat
  BY <1>1, <1>2, FS_Subset, FS_CardinalityType
<1>4. Place(c, id) = Cardinality(N) /\ Place(c, id)' = Cardinality(M)
  BY DEF Place, Rank, Newer
<1> HIDE DEF N, M
<1>5. QED
  BY <1>3, <1>4

\* What a change of the table asks of a walk that still counts.
LEMMA WalkKept ==
  ASSUME ListInv, TypeOK', NEW c \in Readers, reader'[c] = reader[c],
         ~At(c, "idle") /\ reader[c].kept =>
           /\ MyList(c) \subseteq MyList(c)'
           /\ \A j \in MyList(c) : table'[j].created = table[j].created
  PROVE  WalkOK(c)' /\ TotalOK(c)'
<1>1. WalkOK(c) /\ TotalOK(c) /\ TypeOK
  BY DEF ListInv
<1>2. TotalOK(c)'
  BY <1>1 DEF TotalOK, At
<1>3. CASE At(c, "idle") \/ ~reader[c].kept
  BY <1>2, <1>3 DEF WalkOK, At
<1>4. CASE ~At(c, "idle") /\ reader[c].kept
  <2>1. MyList(c)' \subseteq SurveyIds
    BY DEF MyList, Matching
  <2>2. \A id \in reader[c].base : Place(c, id)' >= Place(c, id)
    BY <1>1, <1>4, <2>1, PlaceGrows DEF WalkOK
  <2>3. \A id \in reader[c].base : Place(c, id) \in Nat /\ Place(c, id)' \in Nat
    <3>1. \A S \in SUBSET SurveyIds : \A id :
            Cardinality({j \in S : table'[j].created > table'[id].created}) \in Nat
      BY FS_Subset, FS_CardinalityType, ListingAssumption
    <3>2. QED
      BY <2>1, <3>1, RankType, MyListType DEF Place, Rank, Newer
  <2>4. Unseen(c)' = Unseen(c) /\ Unseen(c) \subseteq reader[c].base /\ Size(c)' = Size(c)
    BY DEF Unseen, Size
  <2>5. reader[c].offset \in Int /\ Size(c) \in Nat
    BY <1>1, <1>4, BusyTypes
  <2>6. reader[c].base \subseteq MyList(c)'
    BY <1>1, <1>4 DEF WalkOK
  <2>7. StillAhead(c) => StillAhead(c)'
    <3>1. \A n \in Int, id \in reader[c].base : Place(c, id) >= n => Place(c, id)' >= n
      BY <2>2, <2>3
    <3>2. reader[c].offset + Size(c) \in Int
      BY <2>5
    <3> HIDE DEF Place, Unseen, Size
    <3>3. QED
      BY <2>4, <2>5, <3>1, <3>2 DEF StillAhead, At
  <2>8. PageOK(c) => PageOK(c)'
    <3>1. IsFiniteSet(MyList(c)')
      BY <2>1, FS_Subset, ListingAssumption
    <3>2. /\ Cardinality(MyList(c)) <= Cardinality(MyList(c)')
          /\ Cardinality(MyList(c)) \in Nat /\ Cardinality(MyList(c)') \in Nat
      BY <1>4, <3>1, FS_Subset, FS_CardinalityType
    <3>3. Cardinality(reader[c].rows) \in Nat
      BY <1>1, <1>4, BusyTypes, FS_Subset, FS_CardinalityType, ListingAssumption
    <3>4. \A n \in Int : Cardinality(MyList(c)) >= n => Cardinality(MyList(c)') >= n
      BY <3>2
    <3>5. reader[c].offset + Cardinality(reader[c].rows) \in Int
      BY <2>5, <3>3
    <3>6. QED
      BY <3>4, <3>5 DEF PageOK, At
  <2>9. QED
    BY <1>1, <1>2, <1>4, <2>4, <2>6, <2>7, <2>8 DEF WalkOK, At
<1>5. QED
  BY <1>3, <1>4

\* One client goes on over an unchanged table.
LEMMA ReaderMoves ==
  ASSUME ListInv, UNCHANGED <<table, clock, pending>>,
         NEW c \in Readers, NEW q \in Busy \cup {NoRequest},
         reader' = [reader EXCEPT ![c] = q], WalkOK(c)', TotalOK(c)'
  PROVE  ListInv'
<1>1. reader \in [Readers -> Busy \cup {NoRequest}]
  BY DEF ListInv, TypeOK
<1>2. /\ reader' \in [Readers -> Busy \cup {NoRequest}]
      /\ \A d \in Readers : d # c => reader'[d] = reader[d]
  BY <1>1
<1>3. TypeOK' /\ PendingOK'
  BY <1>2 DEF ListInv, TypeOK, PendingOK
<1>4. ASSUME NEW d \in Readers, d # c PROVE WalkOK(d)' /\ TotalOK(d)'
  <2>1. reader'[d] = reader[d] /\ table' = table
    BY <1>2, <1>4
  <2>2. MyList(d)' = MyList(d)
    BY <2>1 DEF MyList, Matching
  <2>3. QED
    BY <1>3, <2>1, <2>2, WalkKept
<1>5. QED
  BY <1>3, <1>4 DEF ListInv
-----------------------------------------------------------------------------
\* Steps of a reader.

LEMMA LeavesInv ==
  ASSUME ListInv, NEW c \in Readers, Done(c) \/ ListFails(c) PROVE ListInv'
<1>1. UNCHANGED <<table, clock, pending>> /\ reader' = [reader EXCEPT ![c] = NoRequest]
  BY DEF Done, ListFails
<1>2. At(c, "idle")'
  BY <1>1 DEF ListInv, TypeOK, At, NoRequest
<1>3. WalkOK(c)' /\ TotalOK(c)'
  BY <1>2 DEF WalkOK, TotalOK, At
<1>4. QED
  BY <1>1, <1>3, ReaderMoves

LEMMA TopIsBoolean ==
  ASSUME NEW n, NEW b PROVE (n = 1 /\ ~b) \in BOOLEAN
BY SMT

\* A walk begins with everything ahead of it.
LEMMA AskInv ==
  ASSUME ListInv, NEW c \in Readers, Ask(c) PROVE ListInv'
<1>1. PICK user \in Users, filter \in Filters, searching \in BOOLEAN,
           limit \in Limits, page \in Pages :
        reader' = [reader EXCEPT ![c] = Request(user, filter, searching, limit, page)]
  BY DEF Ask
<1> DEFINE top == PageNumber(page) = 1 /\ ~searching
           offset == Offset(limit, page, searching)
           base == Matching(user, filter)
           q == [pc |-> "rows", user |-> user, filter |-> filter, searching |-> searching,
                 limit |-> limit, page |-> page, offset |-> offset,
                 rows |-> {}, total |-> 0,
                 base |-> base, seen |-> {}, top |-> top, kept |-> TRUE]
<1>2. reader' = [reader EXCEPT ![c] = q] /\ UNCHANGED <<table, clock, pending>>
  BY <1>1 DEF Request, Ask
<1>3. top \in BOOLEAN
  BY TopIsBoolean, Zenon
<1>4. limit \in Int /\ page \in Int
  BY ListingAssumption
<1>5. offset \in -MaxInt32 - 1..MaxInt32
  BY <1>4, OffsetType
<1>6. top => searching = FALSE /\ PageNumber(page) = 1
  BY Zenon
<1>7. top => offset = Before(limit, page, FALSE) /\ offset = 0
  <2>1. SUFFICES ASSUME searching = FALSE, PageNumber(page) = 1
                 PROVE  Offset(limit, page, FALSE) = 0 /\ Before(limit, page, FALSE) = 0
    BY <1>6
  <2> HIDE DEF top, offset, base, q
  <2>2. QED
    BY <1>4, <2>1, FirstPage
<1>8. base \subseteq SurveyIds /\ Matching(user, filter)' = base
  BY <1>2 DEF Matching
<1> HIDE DEF top, offset, base
<1>9. q \in Busy
  BY <1>3, <1>4, <1>5, <1>8 DEF Busy
<1>10. /\ q.pc = "rows" /\ q.base = base /\ q.seen = {} /\ q.top = top /\ q.offset = offset
       /\ q.searching = searching /\ q.limit = limit /\ q.page = page
       /\ q.user = user /\ q.filter = filter
  OBVIOUS
<1> HIDE DEF q
<1>11. reader'[c] = q
  BY <1>2 DEF ListInv, TypeOK
<1>12. MyList(c)' = base
  BY <1>8, <1>10, <1>11 DEF MyList
<1>13. top => StillAhead(c)'
  <2>1. \A id : Place(c, id)' \in Nat
    <3>1. \A id : Rank(id, base) \in Nat
      BY <1>8, RankType
    <3>2. \A id : Place(c, id)' = Rank(id, base)
      BY <1>2, <1>12 DEF Place, Rank, Newer
    <3>3. QED
      BY <3>1, <3>2
  <2>2. SUFFICES ASSUME top PROVE StillAhead(c)'
    OBVIOUS
  <2>3. reader'[c].pc = "rows" /\ reader'[c].offset = 0
    BY <1>7, <1>10, <1>11, <2>2
  <2>4. QED
    BY <2>1, <2>3 DEF StillAhead, At
<1>14. WalkOK(c)'
  BY <1>6, <1>7, <1>10, <1>11, <1>12, <1>13 DEF WalkOK, PageOK, At
<1>15. TotalOK(c)'
  BY <1>10, <1>11 DEF TotalOK, At
<1>16. QED
  BY <1>2, <1>9, <1>14, <1>15, ReaderMoves

\* What the page shows was ahead; what it does not show is behind it.
LEMMA ReadRowsInv ==
  ASSUME ListInv, NEW c \in Readers, ReadRows(c) PROVE ListInv'
<1> DEFINE r == reader[c]
           rows == Slice(Matching(r.user, r.filter), r.offset, PageSize(r.limit, r.searching))
           q == [r EXCEPT !.pc = "count", !.rows = rows, !.seen = r.seen \cup rows]
<1>1. At(c, "rows") /\ UNCHANGED <<table, clock, pending>>
  BY DEF ReadRows
<1>2. reader' = [reader EXCEPT ![c] = q]
  BY DEF ReadRows, ListInv, TypeOK
<1>3. ~At(c, "idle") /\ TypeOK
  BY <1>1 DEF At, ListInv
<1>4. r \in Busy /\ r.offset \in Int /\ Size(c) \in Nat
  BY <1>3, BusyTypes
<1>5. rows \subseteq SurveyIds
  BY DEF Slice, Matching
<1>6. rows = {id \in MyList(c) : r.offset <= Place(c, id) /\ Place(c, id) < r.offset + Size(c)}
  BY DEF Slice, MyList, Place, Size
<1> HIDE DEF rows
<1>7. q \in Busy
  BY <1>4, <1>5 DEF Busy
<1>8. /\ q.pc = "count" /\ q.base = r.base /\ q.seen = r.seen \cup rows /\ q.top = r.top
      /\ q.offset = r.offset /\ q.searching = r.searching /\ q.limit = r.limit
      /\ q.page = r.page /\ q.user = r.user /\ q.filter = r.filter /\ q.kept = r.kept
      /\ q.rows = rows
  BY <1>4 DEF Busy
<1> HIDE DEF q
<1>9. reader'[c] = q
  BY <1>2, <1>3 DEF TypeOK
<1>10. /\ MyList(c)' = MyList(c) /\ Size(c)' = Size(c)
       /\ \A id : Place(c, id)' = Place(c, id)
       /\ Unseen(c)' = Unseen(c) \ rows
  BY <1>1, <1>8, <1>9 DEF MyList, Matching, Size, Place, Rank, Newer, Unseen
<1>11. WalkOK(c)
  BY DEF ListInv
<1>12. r.kept /\ r.top => StillAhead(c)'
  <2>1. SUFFICES ASSUME r.kept, r.top, NEW id \in Unseen(c) \ rows
                 PROVE  Place(c, id) >= r.offset + Size(c)
    BY <1>8, <1>9, <1>10 DEF StillAhead, At
  <2>2. id \in MyList(c) /\ Place(c, id) >= r.offset
    BY <1>1, <1>3, <1>11, <2>1 DEF WalkOK, StillAhead, Unseen
  <2>3. Place(c, id) \in Nat
    BY RankType, MyListType DEF Place
  <2>4. QED
    BY <1>4, <1>6, <2>1, <2>2, <2>3
<1>13. PageOK(c)'
  <2>1. table \in Tables
    BY <1>3 DEF TypeOK, Tables
  <2>2. rows = Slice(MyList(c), r.offset, Size(c))
    BY DEF rows, MyList, Size
  <2>3. rows # {} => Cardinality(MyList(c)) >= r.offset + Cardinality(rows)
    BY <1>4, <2>1, <2>2, MyListType, SliceFits
  <2>4. reader'[c].rows = rows /\ reader'[c].offset = r.offset /\ reader'[c].pc = "count"
    BY <1>8, <1>9
  <2>5. QED
    BY <1>10, <2>3, <2>4 DEF PageOK, At
<1>14. WalkOK(c)'
  BY <1>3, <1>8, <1>9, <1>10, <1>11, <1>12, <1>13 DEF WalkOK, At
<1>15. TotalOK(c)'
  BY <1>8, <1>9 DEF TotalOK, At
<1>16. QED
  BY <1>1, <1>2, <1>7, <1>14, <1>15, ReaderMoves

\* The total counts at least what was there when the walk began, and one more
\* than the place of anything that is still ahead.
LEMMA ReadCountInv ==
  ASSUME ListInv, NEW c \in Readers, ReadCount(c) PROVE ListInv'
<1> DEFINE r == reader[c]
           total == Cardinality(Matching(r.user, r.filter))
           q == [r EXCEPT !.pc = "reply", !.total = total]
<1>1. At(c, "count") /\ UNCHANGED <<table, clock, pending>>
  BY DEF ReadCount
<1>2. reader' = [reader EXCEPT ![c] = q]
  BY DEF ReadCount, ListInv, TypeOK
<1>3. ~At(c, "idle") /\ TypeOK
  BY <1>1 DEF At, ListInv
<1>4. r \in Busy /\ r.offset \in Int /\ Size(c) \in Nat /\ r.base \in SUBSET SurveyIds
  BY <1>3, BusyTypes
<1>5. total = Cardinality(MyList(c)) /\ IsFiniteSet(MyList(c)) /\ IsFiniteSet(SurveyIds)
  BY MyListType, FS_Subset, ListingAssumption DEF MyList
<1> HIDE DEF total
<1>6. total \in Nat /\ total <= Cardinality(SurveyIds)
  BY <1>5, MyListType, FS_CardinalityType, FS_Subset
<1>7. q \in Busy
  BY <1>4, <1>6 DEF Busy
<1>8. /\ q.pc = "reply" /\ q.base = r.base /\ q.seen = r.seen /\ q.top = r.top
      /\ q.offset = r.offset /\ q.searching = r.searching /\ q.limit = r.limit
      /\ q.page = r.page /\ q.user = r.user /\ q.filter = r.filter /\ q.kept = r.kept
      /\ q.total = total /\ q.rows = r.rows
  BY <1>4 DEF Busy
<1> HIDE DEF q
<1>9. reader'[c] = q
  BY <1>2, <1>3 DEF TypeOK
<1>10. /\ MyList(c)' = MyList(c) /\ Size(c)' = Size(c)
       /\ \A id : Place(c, id)' = Place(c, id)
       /\ Unseen(c)' = Unseen(c)
  BY <1>1, <1>8, <1>9 DEF MyList, Matching, Size, Place, Rank, Newer, Unseen
<1>11. WalkOK(c)
  BY DEF ListInv
<1>12. r.kept => r.base \subseteq MyList(c) /\ total >= Cardinality(r.base)
  <2>1. SUFFICES ASSUME r.kept PROVE r.base \subseteq MyList(c) /\ total >= Cardinality(r.base)
    OBVIOUS
  <2>2. r.base \subseteq MyList(c)
    BY <1>3, <1>11, <2>1 DEF WalkOK
  <2>3. Cardinality(r.base) <= Cardinality(MyList(c)) /\ Cardinality(r.base) \in Nat
    BY <1>5, <2>2, FS_Subset, FS_CardinalityType
  <2> HIDE DEF r
  <2>4. QED
    BY <1>5, <1>6, <2>2, <2>3
<1>13. r.kept /\ r.top =>
         /\ StillAhead(c)'
         /\ Unseen(c) # {} => total > r.offset + Size(c)
  <2>1. SUFFICES ASSUME r.kept, r.top
                 PROVE  StillAhead(c)' /\ (Unseen(c) # {} => total > r.offset + Size(c))
    OBVIOUS
  <2>2. \A id \in Unseen(c) : id \in MyList(c) /\ Place(c, id) >= r.offset + Size(c)
    BY <1>1, <1>3, <1>11, <2>1 DEF WalkOK, StillAhead, Unseen, At
  <2>3. \A id \in MyList(c) : Place(c, id) \in Nat /\ Place(c, id) < total
    <3>1. table \in Tables
      BY <1>3 DEF TypeOK, Tables
    <3>2. QED
      BY <1>5, <3>1, RankBound, RankType, MyListType DEF Place
  <2>4. StillAhead(c)'
    BY <1>8, <1>9, <1>10, <2>2 DEF StillAhead, At
  <2>5. \A id \in Unseen(c) : total > r.offset + Size(c)
    BY <1>4, <1>6, <2>2, <2>3
  <2>6. QED
    BY <2>4, <2>5
<1>14. r.kept => PageOK(c)'
  <2>1. r.kept => PageOK(c)
    BY <1>3, <1>11 DEF WalkOK
  <2>2. /\ reader'[c].rows = r.rows /\ reader'[c].offset = r.offset
        /\ reader'[c].pc = "reply" /\ reader'[c].total = total
    BY <1>8, <1>9
  <2>3. QED
    BY <1>1, <1>5, <2>1, <2>2 DEF PageOK, At
<1>15. WalkOK(c)'
  BY <1>3, <1>8, <1>9, <1>10, <1>11, <1>12, <1>13, <1>14 DEF WalkOK, At
<1>16. TotalOK(c)'
  BY <1>6, <1>8, <1>9 DEF TotalOK
<1>17. QED
  BY <1>1, <1>2, <1>7, <1>15, <1>16, ReaderMoves
\* A client goes on only while the total reaches past its pages: there the
\* offset is exact, and it is where this page ends.
LEMMA FollowOffset ==
  ASSUME ListInv, NEW c \in Readers, Follow(c)
  PROVE  /\ reader[c].searching = FALSE
         /\ Before(reader[c].limit, PageNumber(reader[c].page) + 1, FALSE) <= MaxInt32
         /\ Offset(reader[c].limit, PageNumber(reader[c].page) + 1, FALSE) =
              Before(reader[c].limit, PageNumber(reader[c].page) + 1, FALSE)
         /\ Before(reader[c].limit, PageNumber(reader[c].page) + 1, FALSE) =
              Before(reader[c].limit, reader[c].page, FALSE) + Size(c)
<1> DEFINE r == reader[c]
           P == PageNumber(r.page)
           S == PageSize(r.limit, FALSE)
           B == Before(r.limit, P + 1, FALSE)
<1>1. TypeOK /\ TotalOK(c) /\ At(c, "reply") /\ ~LastPage(r)
  BY DEF Follow, ListInv
<1>2. ~At(c, "idle")
  BY <1>1 DEF At
<1>3. r \in Busy /\ r.limit \in Int /\ r.page \in Int /\ r.total \in Nat
  BY <1>1, <1>2, BusyTypes
<1>4. r.searching \in BOOLEAN
  BY <1>3 DEF Busy
<1>5. r.searching = FALSE
  BY <1>1, <1>4 DEF LastPage
<1>6. ~(P * PageSize(r.limit, r.searching) >= r.total)
  BY <1>1 DEF LastPage
<1>7. ~(P * S >= r.total) /\ Size(c) = S
  BY <1>5, <1>6 DEF Size
<1>8. B = P * S /\ B = Before(r.limit, r.page, FALSE) + S
  BY <1>3, NextBefore
<1>9. r.total <= Cardinality(SurveyIds)
  BY <1>1 DEF TotalOK
<1>10. Cardinality(SurveyIds) <= MaxInt32 /\ Cardinality(SurveyIds) \in Nat
  BY ListingAssumption, FS_CardinalityType
<1>11. P + 1 \in Int /\ B \in Nat
  <2>1. P \in Nat \ {0}
    BY <1>3, PageNumberType
  <2>2. S \in Nat
    BY <1>1, <1>2, <1>7, BusyTypes
  <2> HIDE DEF P, S, B
  <2>3. \A a, b \in Nat : a * b \in Nat
    OBVIOUS
  <2>4. QED
    BY <1>8, <2>1, <2>2, <2>3
<1>12. Offset(r.limit, P + 1, FALSE) =
         IF Wrap(B, MaxInt64) > MaxInt32 THEN MaxInt32 ELSE Wrap(Wrap(B, MaxInt64), MaxInt32)
  BY DEF Offset
<1> HIDE DEF S, B, P
<1>13. B <= MaxInt32
  BY <1>3, <1>7, <1>8, <1>9, <1>10, <1>11, Widths
<1>14. Wrap(B, MaxInt64) = B /\ Wrap(B, MaxInt32) = B /\ ~(B > MaxInt32)
  BY <1>11, <1>13, Widths DEF Wrap
<1>15. Offset(r.limit, P + 1, FALSE) = B
  BY <1>12, <1>14
<1>16. QED
  BY <1>5, <1>7, <1>8, <1>13, <1>15 DEF B, P, S

LEMMA FollowInv ==
  ASSUME ListInv, NEW c \in Readers, Follow(c) PROVE ListInv'
<1> DEFINE r == reader[c]
           next == PageNumber(r.page) + 1
           offset == Offset(r.limit, next, r.searching)
           q == [r EXCEPT !.pc = "rows", !.page = next, !.rows = {}, !.total = 0,
                          !.offset = offset]
<1>1. At(c, "reply") /\ UNCHANGED <<table, clock, pending>>
  BY DEF Follow
<1>2. reader' = [reader EXCEPT ![c] = q]
  BY DEF Follow, ListInv, TypeOK
<1>3. ~At(c, "idle") /\ TypeOK
  BY <1>1 DEF At, ListInv
<1>4. r \in Busy /\ r.offset \in Int /\ Size(c) \in Nat /\ r.limit \in Int /\ r.page \in Int
  BY <1>3, BusyTypes
<1>5. next \in Int
  BY <1>4, PageNumberType
<1>6. offset \in -MaxInt32 - 1..MaxInt32
  BY <1>4, <1>5, OffsetType
<1>7. /\ r.searching = FALSE /\ offset = Before(r.limit, next, FALSE)
      /\ Before(r.limit, next, FALSE) = Before(r.limit, r.page, FALSE) + Size(c)
  BY FollowOffset
<1> HIDE DEF offset, next
<1>8. q \in Busy
  BY <1>4, <1>5, <1>6 DEF Busy
<1>9. /\ q.pc = "rows" /\ q.base = r.base /\ q.seen = r.seen /\ q.top = r.top
      /\ q.offset = offset /\ q.searching = r.searching /\ q.limit = r.limit
      /\ q.page = next /\ q.user = r.user /\ q.filter = r.filter /\ q.kept = r.kept
  BY <1>4 DEF Busy
<1> HIDE DEF q
<1>10. reader'[c] = q
  BY <1>2, <1>3 DEF TypeOK
<1>11. /\ MyList(c)' = MyList(c)
       /\ \A id : Place(c, id)' = Place(c, id)
       /\ Unseen(c)' = Unseen(c)
  BY <1>1, <1>9, <1>10 DEF MyList, Matching, Place, Rank, Newer, Unseen
<1>12. WalkOK(c)
  BY DEF ListInv
<1>13. r.kept /\ r.top => StillAhead(c)'
  <2>1. SUFFICES ASSUME r.kept, r.top, NEW id \in Unseen(c)
                 PROVE  Place(c, id) >= offset
    BY <1>9, <1>10, <1>11 DEF StillAhead, At
  <2>2. r.offset = Before(r.limit, r.page, FALSE)
    BY <1>3, <1>12, <2>1 DEF WalkOK
  <2>3. Place(c, id) >= r.offset + Size(c)
    BY <1>1, <1>3, <1>12, <2>1 DEF WalkOK, StillAhead, At
  <2>4. offset = r.offset + Size(c)
    BY <1>7, <2>2
  <2>5. QED
    BY <2>3, <2>4
<1>14. WalkOK(c)'
  <2>1. reader'[c].offset = Before(reader'[c].limit, reader'[c].page, FALSE)
    BY <1>7, <1>9, <1>10
  <2>2. QED
    BY <1>3, <1>7, <1>9, <1>10, <1>11, <1>12, <1>13, <2>1 DEF WalkOK, PageOK, At
<1>15. TotalOK(c)'
  BY <1>9, <1>10 DEF TotalOK, At
<1>16. QED
  BY <1>1, <1>2, <1>8, <1>14, <1>15, ReaderMoves

-----------------------------------------------------------------------------
\* Steps of the table.

\* The readers stay, or a walk is marked as one whose list lost a survey.
LEMMA TableMoves ==
  ASSUME ListInv, TypeOK', PendingOK',
         \A c \in Readers :
           \/ /\ reader'[c] = reader[c]
              /\ ~At(c, "idle") /\ reader[c].kept =>
                   /\ MyList(c) \subseteq MyList(c)'
                   /\ \A j \in MyList(c) : table'[j].created = table[j].created
           \/ ~At(c, "idle") /\ reader'[c] = [reader[c] EXCEPT !.kept = FALSE]
  PROVE  ListInv'
<1>1. ASSUME NEW c \in Readers PROVE WalkOK(c)' /\ TotalOK(c)'
  <2>1. CASE reader'[c] = reader[c] /\
             (~At(c, "idle") /\ reader[c].kept =>
                   /\ MyList(c) \subseteq MyList(c)'
                   /\ \A j \in MyList(c) : table'[j].created = table[j].created)
    BY <2>1, WalkKept
  <2>2. CASE ~At(c, "idle") /\ reader'[c] = [reader[c] EXCEPT !.kept = FALSE]
    <3>1. reader[c] \in Busy /\ TotalOK(c)
      BY <2>2, BusyTypes DEF ListInv
    <3>2. reader'[c].kept = FALSE /\ reader'[c].pc = reader[c].pc
          /\ reader'[c].total = reader[c].total
      BY <2>2, <3>1 DEF Busy
    <3>3. QED
      BY <3>1, <3>2 DEF WalkOK, TotalOK, At
  <2>3. QED
    BY <2>1, <2>2
<1>2. QED
  BY <1>1 DEF ListInv

LEMMA BeginInsertInv ==
  ASSUME ListInv, NEW i \in Inserts, BeginInsert(i) PROVE ListInv'
<1>1. PICK id \in SurveyIds, user \in Users, facet \in Facets :
        /\ Free(id)
        /\ pending' = [pending EXCEPT ![i] =
             [id |-> id, owner |-> user, facet |-> facet, created |-> clock + 1]]
  BY DEF BeginInsert
<1>2. clock' = clock + 1 /\ table' = table /\ reader' = reader
  BY DEF BeginInsert
<1>3. clock \in Nat /\ clock + 1 \in Nat \ {0} /\ TypeOK /\ PendingOK
  BY DEF ListInv, TypeOK
<1> DEFINE p == [id |-> id, owner |-> user, facet |-> facet, created |-> clock + 1]
<1>4. p \in Inserted /\ p.id = id
  BY <1>3 DEF Inserted
<1> HIDE DEF p
<1>5. pending' \in [Inserts -> Inserted \cup {NoInsert}] /\ pending'[i] = p
      /\ \A j \in Inserts : j # i => pending'[j] = pending[j]
  BY <1>1, <1>3, <1>4 DEF TypeOK, p
<1>6. TypeOK'
  BY <1>2, <1>3, <1>5 DEF TypeOK
<1>7. PendingOK'
  BY <1>1, <1>2, <1>3, <1>4, <1>5 DEF PendingOK, Free
<1>8. \A c \in Readers : MyList(c)' = MyList(c)
  BY <1>2 DEF MyList, Matching
<1>9. QED
  BY <1>2, <1>6, <1>7, <1>8, TableMoves

LEMMA InsertFailsInv ==
  ASSUME ListInv, NEW i \in Inserts, InsertFails(i) PROVE ListInv'
<1>1. table' = table /\ reader' = reader /\ clock' = clock
      /\ pending' = [pending EXCEPT ![i] = NoInsert]
  BY DEF InsertFails
<1>2. TypeOK' /\ PendingOK'
  BY <1>1 DEF ListInv, TypeOK, PendingOK
<1>3. \A c \in Readers : MyList(c)' = MyList(c)
  BY <1>1 DEF MyList, Matching
<1>4. QED
  BY <1>1, <1>2, <1>3, TableMoves

LEMMA CommitInsertInv ==
  ASSUME ListInv, NEW i \in Inserts, CommitInsert(i) PROVE ListInv'
<1> DEFINE p == pending[i]
           row == [owner |-> p.owner, facet |-> p.facet, created |-> p.created]
<1>1. pending[i] # NoInsert /\ reader' = reader /\ clock' = clock
      /\ table' = [table EXCEPT ![p.id] = row]
      /\ pending' = [pending EXCEPT ![i] = NoInsert]
  BY DEF CommitInsert
<1>2. TypeOK /\ PendingOK /\ p \in Inserted /\ table[p.id] = NoRow
  BY <1>1 DEF ListInv, TypeOK, PendingOK
<1>3. p.id \in SurveyIds /\ row \in Rows
  BY <1>2 DEF Inserted, Rows
<1> HIDE DEF p, row
<1>4. /\ table' \in [SurveyIds -> Rows \cup {NoRow}]
      /\ \A id \in SurveyIds : id # p.id => table'[id] = table[id]
  BY <1>1, <1>2, <1>3 DEF TypeOK
<1>5. pending' \in [Inserts -> Inserted \cup {NoInsert}] /\ pending'[i] = NoInsert
      /\ \A j \in Inserts : j # i => pending'[j] = pending[j]
  BY <1>1, <1>2 DEF TypeOK
<1>6. TypeOK'
  BY <1>1, <1>2, <1>4, <1>5 DEF TypeOK
<1>7. PendingOK'
  <2>1. \A j \in Inserts : j # i /\ pending[j] # NoInsert =>
          pending[j].id # p.id /\ pending[j].id \in SurveyIds /\ table[pending[j].id] = NoRow
    BY <1>1, <1>2 DEF PendingOK, TypeOK, Inserted, p
  <2>2. QED
    BY <1>2, <1>4, <1>5, <2>1 DEF PendingOK
<1>8. \A c \in Readers :
        /\ MyList(c) \subseteq MyList(c)'
        /\ \A j \in MyList(c) : table'[j].created = table[j].created
  BY <1>1, <1>2, <1>4 DEF MyList, Matching
<1>9. QED
  BY <1>1, <1>6, <1>7, <1>8, TableMoves

\* A change of title, type or status takes a survey out of a list only for the
\* walks it marks.
LEMMA ChangeInv ==
  ASSUME ListInv, NEW id \in SurveyIds, Change(id) PROVE ListInv'
<1>1. PICK facet \in Facets :
        /\ table' = [table EXCEPT ![id].facet = facet]
        /\ reader' = Keeping(id, facet)
  BY DEF Change
<1>2. table[id] # NoRow /\ clock' = clock /\ pending' = pending
  BY DEF Change
<1>3. TypeOK /\ PendingOK /\ table[id] \in Rows
  BY <1>2 DEF ListInv, TypeOK
<1> DEFINE row == [table[id] EXCEPT !.facet = facet]
<1>4. /\ row \in Rows /\ row.owner = table[id].owner /\ row.created = table[id].created
      /\ row.facet = facet
  BY <1>3 DEF Rows
<1>5. /\ table' \in [SurveyIds -> Rows \cup {NoRow}]
      /\ table'[id] = row
      /\ \A j \in SurveyIds : j # id => table'[j] = table[j]
  BY <1>1, <1>3, <1>4 DEF TypeOK
<1> HIDE DEF row
<1>6. row # NoRow
  BY <1>4, RowIsSomething
<1>7. ASSUME NEW c \in Readers
      PROVE  \/ /\ reader'[c] = reader[c]
                /\ ~(~At(c, "idle") /\ id \in MyList(c) /\ facet \notin reader[c].filter)
             \/ ~At(c, "idle") /\ reader'[c] = [reader[c] EXCEPT !.kept = FALSE]
  BY <1>1 DEF Keeping, MyList
<1>8. reader' \in [Readers -> Busy \cup {NoRequest}]
  <2>1. \A c \in Readers : reader'[c] \in Busy \cup {NoRequest}
    <3>1. SUFFICES ASSUME NEW c \in Readers PROVE reader'[c] \in Busy \cup {NoRequest}
      OBVIOUS
    <3>2. reader[c] \in Busy \cup {NoRequest}
      BY <1>3 DEF TypeOK
    <3>3. ~At(c, "idle") => [reader[c] EXCEPT !.kept = FALSE] \in Busy
      BY <1>3, BusyTypes DEF Busy
    <3>4. QED
      BY <1>7, <3>2, <3>3
  <2>2. QED
    BY <1>1, <2>1 DEF Keeping
<1>9. TypeOK' /\ PendingOK'
  <2>1. TypeOK'
    BY <1>2, <1>3, <1>5, <1>8 DEF TypeOK
  <2>2. \A i \in Inserts : pending[i] # NoInsert =>
          pending[i].id \in SurveyIds /\ pending[i].id # id
    BY <1>2, <1>3 DEF PendingOK, TypeOK, Inserted
  <2>3. QED
    BY <1>2, <1>3, <1>5, <2>1, <2>2 DEF PendingOK
<1>10. ASSUME NEW c \in Readers, reader'[c] = reader[c],
              ~(~At(c, "idle") /\ id \in MyList(c) /\ facet \notin reader[c].filter)
       PROVE  ~At(c, "idle") =>
                /\ MyList(c) \subseteq MyList(c)'
                /\ \A j \in MyList(c) : table'[j].created = table[j].created
  BY <1>4, <1>5, <1>6, <1>10 DEF MyList, Matching
<1>11. QED
  BY <1>7, <1>9, <1>10, TableMoves
LEMMA ListInit == Init => ListInv
<1> SUFFICES ASSUME Init PROVE ListInv
  OBVIOUS
<1>1. TypeOK
  BY DEF Init, TypeOK
<1>2. PendingOK
  BY DEF Init, PendingOK
<1>3. \A c \in Readers : At(c, "idle")
  BY DEF Init, At, NoRequest
<1>4. QED
  BY <1>1, <1>2, <1>3 DEF ListInv, WalkOK, TotalOK, At

LEMMA ListStep == ListInv /\ [Next]_vars => ListInv'
<1> SUFFICES ASSUME ListInv, [Next]_vars PROVE ListInv'
  OBVIOUS
<1>1. CASE \E c \in Readers : Reading(c)
  <2>1. PICK c \in Readers : Reading(c)
    BY <1>1
  <2>2. CASE Ask(c)
    BY <2>2, AskInv
  <2>3. CASE ReadRows(c)
    BY <2>3, ReadRowsInv
  <2>4. CASE ReadCount(c)
    BY <2>4, ReadCountInv
  <2>5. CASE Follow(c)
    BY <2>5, FollowInv
  <2>6. CASE Done(c) \/ ListFails(c)
    BY <2>6, LeavesInv
  <2>7. QED
    BY <2>1, <2>2, <2>3, <2>4, <2>5, <2>6 DEF Reading
<1>2. CASE \E i \in Inserts : Inserting(i)
  BY <1>2, BeginInsertInv, CommitInsertInv, InsertFailsInv DEF Inserting
<1>3. CASE \E id \in SurveyIds : Change(id)
  BY <1>3, ChangeInv
<1>4. CASE UNCHANGED vars
  <2>1. TypeOK' /\ PendingOK'
    BY <1>4 DEF ListInv, TypeOK, PendingOK, vars
  <2>2. table' = table /\ reader' = reader
    BY <1>4 DEF vars
  <2>3. \A c \in Readers : MyList(c)' = MyList(c)
    BY <2>2 DEF MyList, Matching
  <2>4. QED
    BY <2>1, <2>2, <2>3, TableMoves
<1>5. QED
  BY <1>1, <1>2, <1>3, <1>4 DEF Next

-----------------------------------------------------------------------------
\* The invariant holds in every state of the list (survey.go:110-170).
THEOREM ListInductive == Spec => []ListInv
BY ListInit, ListStep, PTL DEF Spec

\* Rows, requests and offsets keep their types: an offset fits the 32 bits of
\* the statement's parameter, however large the page asked for (survey.go:141-148).
THEOREM ListTypesCorrect == Spec => []TypeOK
<1>1. ListInv => TypeOK
  BY DEF ListInv
<1>2. QED
  BY <1>1, ListInductive, PTL

\* A client that follows the pages to the end sees every survey that its list
\* had at the start, whatever is created meanwhile (survey.go:106-170).
THEOREM WalksComplete == Spec => []WalkSeesAll
<1>1. ListInv => WalkSeesAll
  <2> SUFFICES ASSUME ListInv, NEW c \in Readers,
                      At(c, "reply"), reader[c].top, reader[c].kept, LastPage(reader[c])
               PROVE  reader[c].base \subseteq reader[c].seen
    BY DEF WalkSeesAll
  <2> DEFINE r == reader[c]
             P == PageNumber(r.page)
             B == Before(r.limit, P + 1, FALSE)
  <2>1. ~At(c, "idle") /\ TypeOK /\ WalkOK(c)
    BY DEF At, ListInv
  <2>2. /\ r.searching = FALSE /\ r.offset = Before(r.limit, r.page, FALSE)
        /\ Unseen(c) # {} => r.total > r.offset + Size(c)
    BY <2>1 DEF WalkOK
  <2>3. r.limit \in Int /\ r.page \in Int /\ r.total \in Nat /\ r.offset \in Int
        /\ Size(c) \in Nat
    BY <2>1, BusyTypes
  <2>4. B = P * PageSize(r.limit, FALSE) /\ B = Before(r.limit, r.page, FALSE) + PageSize(r.limit, FALSE)
    BY <2>3, NextBefore
  <2>5. P * PageSize(r.limit, FALSE) >= r.total /\ Size(c) = PageSize(r.limit, FALSE)
    BY <2>2 DEF LastPage, Size
  <2> HIDE DEF B, P
  <2>6. r.offset + Size(c) >= r.total
    BY <2>2, <2>4, <2>5
  <2>7. Unseen(c) = {}
    <3>1. r.offset + Size(c) \in Int
      BY <2>3
    <3>2. \A a, b \in Int : a >= b => ~(b > a)
      OBVIOUS
    <3>3. ~(r.total > r.offset + Size(c))
      BY <2>3, <2>6, <3>1, <3>2
    <3>4. QED
      BY <2>2, <3>3, Zenon
  <2>8. QED
    BY <2>7 DEF Unseen
<1>2. QED
  BY <1>1, ListInductive, PTL
\* The total covers what the list had when the walk began and everything up to
\* the last row of the page, although a query of its own counts it, after the
\* rows (methods.go:116-130).
THEOREM TotalsCover == Spec => []TotalCoversPage
<1>1. ListInv => TotalCoversPage
  BY DEF ListInv, WalkOK, PageOK, TotalCoversPage, At
<1>2. QED
  BY <1>1, ListInductive, PTL

-----------------------------------------------------------------------------
\* Offsets, when the pages that clients begin with are not too deep for the
\* 64 bits: following the total never leads to one that is.

OffsetOK(c) ==
  ~At(c, "idle") =>
    LET r == reader[c] IN
      /\ Before(r.limit, r.page, r.searching) <= MaxInt64
      /\ r.offset = Offset(r.limit, r.page, r.searching)

\* A step that leaves what a client asked for leaves its offset.
LEMMA OffsetKept ==
  ASSUME NEW c \in Readers, OffsetOK(c),
         \/ At(c, "idle")'
         \/ /\ ~At(c, "idle")
            /\ reader'[c].limit = reader[c].limit
            /\ reader'[c].page = reader[c].page
            /\ reader'[c].searching = reader[c].searching
            /\ reader'[c].offset = reader[c].offset
  PROVE  OffsetOK(c)'
BY DEF OffsetOK, At

LEMMA OffsetStep ==
  ASSUME \A limit \in Limits, page \in Pages, searching \in BOOLEAN :
           Before(limit, page, searching) <= MaxInt64,
         ListInv, \A c \in Readers : OffsetOK(c), [Next]_vars
  PROVE  \A c \in Readers : OffsetOK(c)'
<1>1. reader \in [Readers -> Busy \cup {NoRequest}]
  BY DEF ListInv, TypeOK
<1>2. ASSUME NEW c \in Readers, Reading(c) PROVE \A d \in Readers : OffsetOK(d)'
  <2>1. \A d \in Readers \ {c} : reader'[d] = reader[d]
    BY <1>1, <1>2 DEF Reading, Ask, ReadRows, ReadCount, Follow, Done, ListFails
  <2>2. \A d \in Readers \ {c} : OffsetOK(d)'
    BY <2>1 DEF OffsetOK, At
  <2> SUFFICES OffsetOK(c)'
    BY <2>2
  <2>3. CASE Ask(c)
    <3>1. PICK user \in Users, filter \in Filters, searching \in BOOLEAN,
               limit \in Limits, page \in Pages :
            reader' = [reader EXCEPT ![c] = Request(user, filter, searching, limit, page)]
      BY <2>3 DEF Ask
    <3>2. reader'[c] = Request(user, filter, searching, limit, page)
      BY <1>1, <3>1
    <3>3. /\ reader'[c].limit = limit /\ reader'[c].page = page
          /\ reader'[c].searching = searching
          /\ reader'[c].offset = Offset(limit, page, searching)
      BY <3>2 DEF Request
    <3>4. QED
      BY <3>3 DEF OffsetOK
  <2>4. CASE Follow(c)
    <3> DEFINE r == reader[c]
               next == PageNumber(r.page) + 1
    <3>1. /\ r.searching = FALSE
          /\ Before(r.limit, next, FALSE) <= MaxInt32
      BY <2>4, FollowOffset
    <3>2. ~At(c, "idle") /\ TypeOK
      BY <2>4 DEF Follow, At, ListInv
    <3>3. r \in Busy /\ r.limit \in Int /\ r.page \in Int
      BY <3>2, BusyTypes
    <3>4. next \in Int
      BY <3>3, PageNumberType
    <3>5. Before(r.limit, next, FALSE) \in Nat
      <4>1. FALSE \in BOOLEAN
        OBVIOUS
      <4> HIDE DEF next, r
      <4>2. QED
        BY <3>3, <3>4, <4>1, BeforeType
    <3>6. /\ reader'[c].limit = r.limit /\ reader'[c].page = next
          /\ reader'[c].searching = r.searching
          /\ reader'[c].offset = Offset(r.limit, next, r.searching)
      BY <1>1, <2>4, <3>3 DEF Follow, Busy
    <3>7. \A b \in Nat : b <= MaxInt32 => b <= MaxInt64
      BY Widths
    <3> HIDE DEF next, r
    <3>8. QED
      BY <3>1, <3>5, <3>6, <3>7 DEF OffsetOK
  <2>5. CASE ReadRows(c) \/ ReadCount(c)
    <3>1. ~At(c, "idle") /\ TypeOK
      BY <2>5 DEF ReadRows, ReadCount, At, ListInv
    <3>2. reader[c] \in Busy
      BY <3>1, BusyTypes
    <3>3. /\ reader'[c].limit = reader[c].limit
          /\ reader'[c].page = reader[c].page
          /\ reader'[c].searching = reader[c].searching
          /\ reader'[c].offset = reader[c].offset
      BY <1>1, <2>5, <3>2 DEF ReadRows, ReadCount, Busy
    <3>4. QED
      BY <3>1, <3>3, OffsetKept
  <2>6. CASE Done(c) \/ ListFails(c)
    <3>1. At(c, "idle")'
      BY <1>1, <2>6 DEF Done, ListFails, At, NoRequest
    <3>2. QED
      BY <3>1, OffsetKept
  <2>7. QED
    BY <1>2, <2>3, <2>4, <2>5, <2>6 DEF Reading
<1>3. CASE reader' = reader
  BY <1>3 DEF OffsetOK, At
<1>4. ASSUME NEW id \in SurveyIds, Change(id) PROVE \A c \in Readers : OffsetOK(c)'
  <2>1. SUFFICES ASSUME NEW c \in Readers PROVE OffsetOK(c)'
    OBVIOUS
  <2>2. \/ reader'[c] = reader[c]
        \/ ~At(c, "idle") /\ reader'[c] = [reader[c] EXCEPT !.kept = FALSE]
    BY <1>4 DEF Change, Keeping
  <2>3. CASE reader'[c] = reader[c]
    BY <2>3 DEF OffsetOK, At
  <2>4. CASE ~At(c, "idle") /\ reader'[c] = [reader[c] EXCEPT !.kept = FALSE]
    <3>1. reader[c] \in Busy
      BY <2>4, BusyTypes DEF ListInv
    <3>2. /\ reader'[c].limit = reader[c].limit
          /\ reader'[c].page = reader[c].page
          /\ reader'[c].searching = reader[c].searching
          /\ reader'[c].offset = reader[c].offset
      BY <2>4, <3>1 DEF Busy
    <3>3. QED
      BY <2>4, <3>2, OffsetKept
  <2>5. QED
    BY <2>2, <2>3, <2>4
<1>5. QED
  BY <1>2, <1>3, <1>4
     DEF Next, vars, Inserting, BeginInsert, CommitInsert, InsertFails

\* As long as no client begins with a page whose offset does not fit 64 bits,
\* every offset is exact, cut off at 32 bits (survey.go:141-148).
THEOREM OffsetsExact ==
  ASSUME \A limit \in Limits, page \in Pages, searching \in BOOLEAN :
           Before(limit, page, searching) <= MaxInt64
  PROVE  Spec => []OffsetIsThePage
<1> DEFINE OffInv == \A c \in Readers : OffsetOK(c)
<1>1. Init => OffInv
  BY DEF Init, OffsetOK, At, NoRequest
<1>2. ListInv /\ OffInv /\ [Next]_vars => OffInv'
  BY OffsetStep
<1>3. ListInv /\ OffInv => OffsetIsThePage
  <2> SUFFICES ASSUME ListInv, OffInv, NEW c \in Readers, ~At(c, "idle")
               PROVE  LET r == reader[c]
                          before == Before(r.limit, r.page, r.searching)
                      IN r.offset = IF before > MaxInt32 THEN MaxInt32 ELSE before
    BY DEF OffsetIsThePage
  <2>1. reader[c] \in Busy /\ reader[c].limit \in Int /\ reader[c].page \in Int
    BY BusyTypes DEF ListInv
  <2>2. reader[c].searching \in BOOLEAN
    BY <2>1 DEF Busy
  <2>3. QED
    BY <2>1, <2>2, OffsetIs DEF OffsetOK
<1>4. QED
  BY <1>1, <1>2, <1>3, ListInductive, PTL DEF Spec
=============================================================================

---------------------------- MODULE SurveyProofs ----------------------------
(***************************************************************************)
(* Proofs about the survey service, for any surveys, users, bodies and any *)
(* number of requests at a time.                                           *)
(***************************************************************************)
EXTENDS SurveyProperties, TLAPS

\* What the stage of a request says of the values it carries and of the row it
\* is about to write.
RequestOK(r) ==
  /\ AtOp(r, "write", "update") => req[r].payload \in Drafts
  /\ AtOp(r, "write", "create") => req[r].payload.body # "malformed"
  /\ AtOp(r, "write", "copy") => req[r].meta \in Rows
  /\ AtOp(r, "write", "setAccess") => req[r].mode \in AccessModes
  /\ AtOp(r, "write", "setDisplay") => req[r].mode \in DisplayModes
  /\ At(r, "load") =>
       /\ req[r].op # "create"
       /\ req[r].op = "setAccess" => req[r].mode \in AccessModes
       /\ req[r].op = "setDisplay" => req[r].mode \in DisplayModes
  /\ At(r, "write") /\ req[r].op # "create" => Exists(req[r].id)
  /\ req[r].pc \in {"max", "insert", "point", "commit"} =>
       req[r].op = "publish" /\ req[r].meta \in Rows /\ Exists(req[r].id)
  /\ req[r].pc \in {"insert", "point", "commit"} =>
       req[r].meta.draft.body # "null" /\ req[r].next > 0

TypeInv == TypeOK /\ \A r \in Slots : RequestOK(r)

\* published_version with NULL, and no row at all, as 0.
Pub(id) == IF Exists(id) THEN surveys[id].published ELSE 0

\* The tables between two steps: the version rows of a survey are exactly
\* 1..published_version, each stamped with its number, no two neighbours alike.
HistoryInv ==
  /\ \A id \in SurveyIds :
       Exists(id) => (surveys[id].status = "draft" <=> surveys[id].published = 0)
  /\ \A v \in versions : v.version <= Pub(v.survey) /\ v.schema.version = v.version
  /\ \A id \in SurveyIds : \A n \in 1..Pub(id) : HasVersion(id, n)
  /\ \A v, w \in versions : v.survey = w.survey /\ v.version = w.version => v = w
  /\ NoEmptyRelease

\* What a request decided on from an older read still holds: a status guard
\* that saw a published survey, and the number a publish computed, which is
\* never past the end of the list and is its end once the row is inserted.
PublisherInv(r) ==
  /\ AtOp(r, "write", "close") \/ AtOp(r, "write", "reopen") =>
       surveys[req[r].id].status # "draft"
  /\ At(r, "insert") => req[r].next <= Pub(req[r].id) + 1
  /\ req[r].pc \in {"point", "commit"} => req[r].next = Pub(req[r].id) + 1
  /\ req[r].pc \in {"insert", "point", "commit"} =>
       \A v \in VersionsOf(req[r].id) :
         v.version + 1 = req[r].next => ~EqIgnoringVersion(v.schema, req[r].meta.draft)

\* The inductive invariant.
IInv ==
  /\ TypeInv
  /\ HistoryInv
  /\ \A r \in Slots : PublisherInv(r)
  /\ OnePublisherPastInsert

-----------------------------------------------------------------------------
\* MaxVersion reads the pointer: COALESCE(MAX(version), 0) of 1..published.
LEMMA MaxVersionIsPub ==
  ASSUME IInv, NEW id \in SurveyIds
  PROVE  MaxVersion(id) = Pub(id) /\ MaxVersion(id) \in Nat
<1> DEFINE S == {0} \cup {v.version : v \in VersionsOf(id)}
           Top(m) == \A v \in VersionsOf(id) : v.version <= m
<1>1. Pub(id) \in Nat
  BY DEF IInv, TypeInv, TypeOK, Pub, Exists, Rows
<1>2. \A v \in VersionsOf(id) : v.version \in Nat /\ v.version <= Pub(id)
  BY DEF IInv, TypeInv, TypeOK, HistoryInv, VersionsOf, VersionRows
<1>3. Pub(id) \in S
  <2>1. CASE Pub(id) = 0
    BY <2>1
  <2>2. CASE Pub(id) # 0
    <3>1. HasVersion(id, Pub(id))
      BY <2>2, <1>1 DEF IInv, HistoryInv
    <3>2. QED
      BY <3>1 DEF HasVersion
  <2>3. QED
    BY <2>1, <2>2
<1>4. Top(Pub(id))
  BY <1>2
<1>5. \A m \in S : Top(m) => m = Pub(id)
  <2>1. SUFFICES ASSUME NEW m \in S, Top(m) PROVE m = Pub(id)
    OBVIOUS
  <2>2. m \in Nat /\ m <= Pub(id)
    BY <1>1, <1>2
  <2>3. Pub(id) <= m
    <3>1. CASE Pub(id) = 0
      BY <3>1, <2>2
    <3>2. CASE Pub(id) # 0
      <4>1. HasVersion(id, Pub(id))
        BY <3>2, <1>1 DEF IInv, HistoryInv
      <4>2. QED
        BY <4>1, <2>1 DEF HasVersion
    <3>3. QED
      BY <3>1, <3>2
  <2>4. QED
    BY <1>1, <2>2, <2>3
<1>6. MaxVersion(id) = CHOOSE m \in S : Top(m)
  BY DEF MaxVersion
<1>7. (CHOOSE m \in S : Top(m)) \in S /\ Top(CHOOSE m \in S : Top(m))
  <2> HIDE DEF S, Top
  <2>1. QED
    BY <1>3, <1>4
<1> HIDE DEF S, Top
<1>8. QED
  BY <1>1, <1>5, <1>6, <1>7

-----------------------------------------------------------------------------
\* A slot that has answered carries no request.
LEMMA AnswerOK ==
  ASSUME TypeInv,
         surveys' \in [SurveyIds -> Rows \cup {NoRow}],
         versions' \subseteq VersionRows,
         \A id \in SurveyIds : Exists(id) => Exists(id)',
         NEW r \in Slots, NEW reply \in Replies, NEW n \in Nat, AnswerVersion(r, reply, n)
  PROVE  TypeInv'
<1>1. req'[r] \in IdleSlots
  BY DEF AnswerVersion, TypeInv, TypeOK, IdleSlots
<1>2. TypeOK'
  BY <1>1 DEF AnswerVersion, TypeInv, TypeOK
<1>3. ASSUME NEW s \in Slots PROVE RequestOK(s)'
  <2>1. CASE s = r
    BY <2>1, <1>1 DEF RequestOK, At, AtOp, IdleSlots
  <2>2. CASE s # r
    <3>1. req'[s] = req[s] /\ req[s] \in IdleSlots \cup BusySlots
      BY <2>2 DEF AnswerVersion, TypeInv, TypeOK
    <3>2. req[s].pc # "idle" => req[s].id \in SurveyIds
      BY <3>1 DEF IdleSlots, BusySlots
    <3>3. QED
      BY <3>1, <3>2 DEF TypeInv, RequestOK, At, AtOp
  <2>3. QED
    BY <2>1, <2>2
<1>4. QED
  BY <1>2, <1>3 DEF TypeInv

\* A request that moves on while the tables stay as they are.
LEMMA MoveOK ==
  ASSUME TypeInv, UNCHANGED store, NEW r \in Slots,
         NEW q \in BusySlots, req' = [req EXCEPT ![r] = q], RequestOK(r)'
  PROVE  TypeInv'
<1>1. req'[r] = q /\ TypeOK'
  BY DEF TypeInv, TypeOK, store
<1>2. ASSUME NEW s \in Slots, s # r PROVE RequestOK(s)'
  <2>1. req'[s] = req[s]
    BY <1>2 DEF TypeInv, TypeOK
  <2>2. QED
    BY <2>1 DEF TypeInv, RequestOK, At, AtOp, Exists, store
<1>3. QED
  BY <1>1, <1>2 DEF TypeInv

-----------------------------------------------------------------------------
\* TypeInv, one group of actions at a time.

LEMMA ReadsType ==
  ASSUME IInv, NEW r \in Slots, Requests(r) \/ Reads(r) \/ Fail(r)
  PROVE  TypeInv'
<1> USE DEF Answer
<1>0. TypeInv /\ TypeOK /\ RequestOK(r)
  BY DEF IInv, TypeInv
<1>1. ASSUME UNCHANGED store, NEW reply \in Replies, NEW n \in Nat, AnswerVersion(r, reply, n)
      PROVE  TypeInv'
  <2>1. /\ surveys' \in [SurveyIds -> Rows \cup {NoRow}]
        /\ versions' \subseteq VersionRows
        /\ \A id \in SurveyIds : Exists(id) => Exists(id)'
    BY <1>0, <1>1 DEF TypeOK, store, Exists
  <2>2. QED
    BY <1>0, <1>1, <2>1, AnswerOK
<1>2. CASE Forbid(r)
  BY <1>2, <1>1 DEF Forbid, Replies
<1>3. CASE RefuseEarly(r)
  BY <1>3, <1>1 DEF RefuseEarly, Replies
<1>4. CASE Arrive(r)
  <2>1. PICK u \in Users, op \in Ops, id \in SurveyIds :
        \E p \in PayloadsFor(op), m \in ModesFor(op) :
          /\ ~RefusedEarly(op, p, m)
          /\ req' = [req EXCEPT ![r] =
               [pc |-> IF op = "create" THEN "write" ELSE "load",
                user |-> u, op |-> op, id |-> id, payload |-> p, mode |-> m,
                meta |-> NoRow, next |-> 0]]
    BY <1>4 DEF Arrive
  <2>2. PICK p \in PayloadsFor(op), m \in ModesFor(op) :
          /\ ~RefusedEarly(op, p, m)
          /\ req' = [req EXCEPT ![r] =
               [pc |-> IF op = "create" THEN "write" ELSE "load",
                user |-> u, op |-> op, id |-> id, payload |-> p, mode |-> m,
                meta |-> NoRow, next |-> 0]]
    BY <2>1
  <2> DEFINE q == [pc |-> IF op = "create" THEN "write" ELSE "load",
                   user |-> u, op |-> op, id |-> id, payload |-> p, mode |-> m,
                   meta |-> NoRow, next |-> 0]
  <2>3. op \in AllOps /\ p \in Payloads
    BY ServiceAssumption, StoreAssumption DEF PayloadsFor, NoPayload, Payloads
  <2>4. /\ m \in AllModes
        /\ op = "setAccess" => m \in AccessModes
        /\ op = "setDisplay" => m \in DisplayModes
    BY <2>2, <2>3 DEF ModesFor, AllModes, RefusedEarly, AccessModes, DisplayModes
  <2>5. q \in BusySlots
    BY <2>3, <2>4 DEF BusySlots, Stages
  <2>6. req'[r] = q /\ UNCHANGED store
    BY <1>0, <1>4, <2>2 DEF TypeOK, Arrive
  <2>7. RequestOK(r)'
    BY <2>2, <2>4, <2>6 DEF RequestOK, At, AtOp, RefusedEarly
  <2>8. QED
    BY <1>0, <2>2, <2>5, <2>6, <2>7, MoveOK
<1>5. CASE LoadMissing(r)
  BY <1>5, <1>1 DEF LoadMissing, Replies
<1>6. CASE LoadRefused(r)
  BY <1>6, <1>1 DEF LoadRefused, Replies
<1>7. CASE LoadRead(r)
  BY <1>7, <1>1 DEF LoadRead, Replies
<1>8. CASE Load(r)
  <2> DEFINE q == [req[r] EXCEPT
                     !.meta = Remembered(req[r].op, surveys[req[r].id]),
                     !.pc   = IF req[r].op = "publish" THEN "max" ELSE "write"]
  <2>1. /\ req[r].pc = "load" /\ Exists(req[r].id)
        /\ ~Unreadable(req[r].op, req[r].payload)
        /\ UNCHANGED store /\ req' = [req EXCEPT ![r] = q]
    BY <1>8, <1>0 DEF Load, At, Owned, TypeOK
  <2>2. req[r] \in BusySlots
    BY <1>0, <2>1 DEF TypeOK, IdleSlots
  <2>3. surveys[req[r].id] \in Rows
    BY <1>0, <2>1, <2>2 DEF TypeOK, Exists, BusySlots
  <2>4. q \in BusySlots
    BY <2>2, <2>3 DEF BusySlots, Remembered, Stages
  <2>5. req'[r] = q
    BY <1>0, <2>1 DEF TypeOK
  <2>6. req[r].op = "update" => req[r].payload \in Drafts
    BY <2>1, <2>2 DEF Unreadable, BusySlots, Payloads, Drafts
  <2>7. RequestOK(r)'
    <3>1. /\ q.op = req[r].op /\ q.payload = req[r].payload /\ q.mode = req[r].mode
          /\ q.id = req[r].id
          /\ q.pc = IF req[r].op = "publish" THEN "max" ELSE "write"
          /\ q.meta = Remembered(req[r].op, surveys[req[r].id])
      BY <2>2 DEF BusySlots
    <3>2. Exists(req[r].id)'
      BY <2>1 DEF Exists, store
    <3>3. req[r].op \in {"publish", "copy"} => q.meta \in Rows
      BY <2>3, <3>1 DEF Remembered
    <3>4. req[r].op # "create"
      BY <1>0, <2>1 DEF RequestOK, At
    <3> HIDE DEF q
    <3>5. QED
      BY <1>0, <2>1, <2>5, <2>6, <3>1, <3>2, <3>3, <3>4 DEF RequestOK, At, AtOp
  <2>8. QED
    BY <1>0, <2>1, <2>4, <2>7, MoveOK
<1>9. CASE PublishUnchanged(r)
  <2>1. At(r, "max")
    BY <1>9 DEF PublishUnchanged
  <2>2. req[r].id \in SurveyIds
    BY <1>0, <2>1 DEF TypeOK, At, IdleSlots, BusySlots
  <2>3. MaxVersion(req[r].id) \in Nat
    BY <2>2, MaxVersionIsPub
  <2>4. QED
    BY <1>9, <1>1, <2>3 DEF PublishUnchanged, Replies
<1>10. CASE PublishPanic(r)
  BY <1>10, <1>1 DEF PublishPanic, Replies
<1>11. CASE PublishNext(r)
  <2> DEFINE n == MaxVersion(req[r].id) + 1
             q == [req[r] EXCEPT !.pc = "insert", !.next = n]
  <2>1. At(r, "max") /\ UNCHANGED store /\ req' = [req EXCEPT ![r] = q]
        /\ req[r].meta.draft.body # "null"
    BY <1>11, <1>0 DEF PublishNext, TypeOK
  <2>2. req[r] \in BusySlots
    BY <1>0, <2>1 DEF TypeOK, IdleSlots, At
  <2>3. n \in Nat /\ n > 0
    BY <2>2, MaxVersionIsPub DEF BusySlots
  <2> HIDE DEF n
  <2>4. q \in BusySlots
    BY <2>2, <2>3 DEF BusySlots, Stages
  <2>5. req'[r] = q
    BY <1>0, <2>1 DEF TypeOK
  <2>6. RequestOK(r)'
    <3>1. q.pc = "insert" /\ q.op = req[r].op /\ q.meta = req[r].meta
          /\ q.id = req[r].id /\ q.next = n
      BY <2>2 DEF BusySlots
    <3> HIDE DEF q
    <3>2. QED
      BY <1>0, <2>1, <2>3, <2>5, <3>1 DEF RequestOK, At, AtOp, Exists, store
  <2>7. QED
    BY <1>0, <2>1, <2>4, <2>6, MoveOK
<1>12. CASE Fail(r)
  BY <1>12, <1>1 DEF Fail, Replies
<1>13. QED
  BY <1>2, <1>3, <1>4, <1>5, <1>6, <1>7, <1>8, <1>9, <1>10, <1>11, <1>12
     DEF Requests, Reads

LEMMA WritesType ==
  ASSUME IInv, NEW r \in Slots, Writes(r)
  PROVE  TypeInv'
<1> DEFINE q == req[r]
<1>0. TypeInv /\ TypeOK /\ RequestOK(r)
  BY DEF IInv, TypeInv
<1>1. q \in BusySlots
  BY <1>0 DEF Writes, Update, Close, Reopen, SetAnswerAccess, SetDisplayMode, Create, Copy,
              IdTaken, InsertVersion, InsertRefused, SetPublished, Commit, At, AtOp,
              TypeOK, IdleSlots
<1>2. ASSUME surveys' \in [SurveyIds -> Rows \cup {NoRow}],
             versions' \subseteq VersionRows,
             \A id \in SurveyIds : Exists(id) => Exists(id)',
             NEW reply \in Replies, NEW n \in Nat, AnswerVersion(r, reply, n)
      PROVE  TypeInv'
  BY <1>0, <1>2, AnswerOK
\* A write to the row of an existing survey.
<1>3. ASSUME NEW row \in Rows, Exists(q.id), surveys' = [surveys EXCEPT ![q.id] = row],
             UNCHANGED versions, AnswerWrite(r)
      PROVE  TypeInv'
  <2>1. /\ surveys' \in [SurveyIds -> Rows \cup {NoRow}]
        /\ versions' \subseteq VersionRows
        /\ \A id \in SurveyIds : Exists(id) => Exists(id)'
    BY <1>0, <1>1, <1>3, NoRowAssumption DEF TypeOK, Exists, BusySlots
  <2>2. QED
    BY <1>2, <1>3, <2>1 DEF AnswerWrite, Answer, Replies
<1>4. ASSUME Exists(q.id) PROVE surveys[q.id] \in Rows /\ q.id \in SurveyIds
  BY <1>0, <1>1, <1>4 DEF TypeOK, Exists, BusySlots
<1>5. CASE Update(r)
  <2>1. Exists(q.id) /\ q.payload \in Drafts
    BY <1>0, <1>5 DEF Update, RequestOK, AtOp
  <2>2. [surveys[q.id] EXCEPT !.draft = q.payload] \in Rows
    BY <1>4, <2>1 DEF Rows
  <2>3. surveys' = [surveys EXCEPT ![q.id] = [surveys[q.id] EXCEPT !.draft = q.payload]]
    BY <1>0, <1>4, <1>5, <2>1 DEF Update, SetDraft, TypeOK
  <2>4. QED
    BY <1>3, <1>5, <2>1, <2>2, <2>3 DEF Update, SetDraft
<1>6. CASE Close(r)
  <2>1. Exists(q.id)
    BY <1>0, <1>6 DEF Close, RequestOK, AtOp
  <2>2. [surveys[q.id] EXCEPT !.status = "closed"] \in Rows
    BY <1>4, <2>1 DEF Rows, Statuses
  <2>3. surveys' = [surveys EXCEPT ![q.id] = [surveys[q.id] EXCEPT !.status = "closed"]]
    BY <1>0, <1>4, <1>6, <2>1 DEF Close, SetStatus, TypeOK
  <2>4. QED
    BY <1>3, <1>6, <2>1, <2>2, <2>3 DEF Close, SetStatus
<1>7. CASE Reopen(r)
  <2>1. Exists(q.id)
    BY <1>0, <1>7 DEF Reopen, RequestOK, AtOp
  <2>2. [surveys[q.id] EXCEPT !.status = "live"] \in Rows
    BY <1>4, <2>1 DEF Rows, Statuses
  <2>3. surveys' = [surveys EXCEPT ![q.id] = [surveys[q.id] EXCEPT !.status = "live"]]
    BY <1>0, <1>4, <1>7, <2>1 DEF Reopen, SetStatus, TypeOK
  <2>4. QED
    BY <1>3, <1>7, <2>1, <2>2, <2>3 DEF Reopen, SetStatus
<1>8. CASE SetAnswerAccess(r)
  <2>1. Exists(q.id) /\ q.mode \in AccessModes
    BY <1>0, <1>8 DEF SetAnswerAccess, RequestOK, AtOp
  <2>2. [surveys[q.id] EXCEPT !.access = q.mode] \in Rows
    BY <1>4, <2>1 DEF Rows
  <2>3. surveys' = [surveys EXCEPT ![q.id] = [surveys[q.id] EXCEPT !.access = q.mode]]
    BY <1>0, <1>4, <1>8, <2>1 DEF SetAnswerAccess, SetAccess, TypeOK
  <2>4. QED
    BY <1>3, <1>8, <2>1, <2>2, <2>3 DEF SetAnswerAccess, SetAccess
<1>9. CASE SetDisplayMode(r)
  <2>1. Exists(q.id) /\ q.mode \in DisplayModes
    BY <1>0, <1>9 DEF SetDisplayMode, RequestOK, AtOp
  <2>2. [surveys[q.id] EXCEPT !.display = q.mode] \in Rows
    BY <1>4, <2>1 DEF Rows
  <2>3. surveys' = [surveys EXCEPT ![q.id] = [surveys[q.id] EXCEPT !.display = q.mode]]
    BY <1>0, <1>4, <1>9, <2>1 DEF SetDisplayMode, SetDisplay, TypeOK
  <2>4. QED
    BY <1>3, <1>9, <2>1, <2>2, <2>3 DEF SetDisplayMode, SetDisplay
\* A new row.
<1>10. ASSUME NEW id \in SurveyIds, NEW row \in Rows, InsertSurvey(id, row), AnswerWrite(r)
       PROVE  TypeInv'
  <2>1. /\ surveys' \in [SurveyIds -> Rows \cup {NoRow}]
        /\ versions' \subseteq VersionRows
        /\ \A i \in SurveyIds : Exists(i) => Exists(i)'
    BY <1>0, <1>10, NoRowAssumption DEF TypeOK, Exists, InsertSurvey
  <2>2. QED
    BY <1>2, <1>10, <2>1 DEF AnswerWrite, Answer, Replies
<1>11. CASE Create(r)
  <2>1. CreatedDraft(q.payload) \in Drafts
    <3>1. q.payload \in Payloads /\ q.payload.body # "malformed"
      BY <1>0, <1>1, <1>11 DEF Create, RequestOK, AtOp, BusySlots
    <3>2. CASE q.payload.body \in {"null", "absent"}
      BY <3>2, StoreAssumption DEF CreatedDraft, Drafts
    <3>3. CASE q.payload.body \notin {"null", "absent"}
      BY <3>1, <3>3 DEF CreatedDraft, Drafts, Payloads
    <3>4. QED
      BY <3>2, <3>3
  <2>2. NewRow(q.user, CreatedDraft(q.payload), "login_required", "single") \in Rows
    BY <1>1, <2>1 DEF NewRow, Rows, Statuses, AccessModes, DisplayModes, BusySlots
  <2>3. QED
    BY <1>1, <1>10, <1>11, <2>2 DEF Create, BusySlots
<1>12. CASE Copy(r)
  <2>1. q.meta \in Rows
    BY <1>0, <1>12 DEF Copy, RequestOK, AtOp
  <2>2. CopiedDraft(q.meta.draft) \in Drafts
    BY <2>1, StoreAssumption DEF CopiedDraft, Drafts, Rows
  <2>3. NewRow(q.user, CopiedDraft(q.meta.draft), q.meta.access, q.meta.display) \in Rows
    BY <1>1, <2>1, <2>2 DEF NewRow, Rows, Statuses, BusySlots
  <2>4. QED
    BY <1>10, <1>12, <2>3 DEF Copy
<1>13. ASSUME UNCHANGED store, Answer(r, "error")
       PROVE  TypeInv'
  <2>1. /\ surveys' \in [SurveyIds -> Rows \cup {NoRow}]
        /\ versions' \subseteq VersionRows
        /\ \A id \in SurveyIds : Exists(id) => Exists(id)'
    BY <1>0, <1>13 DEF TypeOK, store, Exists
  <2>2. QED
    BY <1>2, <1>13, <2>1 DEF Answer, Replies
<1>14. CASE IdTaken(r)
  BY <1>13, <1>14 DEF IdTaken
<1>15. CASE InsertRefused(r)
  BY <1>13, <1>15 DEF InsertRefused
<1>16. ASSUME NEW stage \in {"point", "commit"}, q.pc \in {"insert", "point"},
              Goto(r, stage), UNCHANGED store
       PROVE  TypeInv'
  <2> DEFINE p == [q EXCEPT !.pc = stage]
  <2>1. p \in BusySlots /\ req' = [req EXCEPT ![r] = p] /\ req'[r] = p
    BY <1>0, <1>1, <1>16 DEF Goto, BusySlots, Stages, TypeOK
  <2>2. RequestOK(r)'
    BY <1>0, <1>1, <1>16, <2>1 DEF RequestOK, At, AtOp, Exists, store, BusySlots
  <2>3. QED
    BY <1>0, <1>16, <2>1, <2>2, MoveOK
<1>17. CASE InsertVersion(r)
  BY <1>16, <1>17 DEF InsertVersion, At
<1>18. CASE SetPublished(r)
  BY <1>16, <1>18 DEF SetPublished, At
<1>19. CASE Commit(r)
  <2>1. /\ Exists(q.id) /\ q.meta \in Rows /\ q.meta.draft.body # "null"
        /\ q.next \in Nat /\ q.next > 0
    BY <1>0, <1>1, <1>19 DEF Commit, At, RequestOK, BusySlots
  <2>2. Stamp(q.meta.draft, q.next) \in Schemas
    BY <2>1 DEF Stamp, Schemas, Rows, Drafts
  <2>3. versions' \subseteq VersionRows
    BY <1>0, <1>1, <1>19, <2>1, <2>2
       DEF Commit, CommitRelease, TypeOK, VersionRows, BusySlots
  <2>4. [surveys[q.id] EXCEPT !.published = q.next, !.status = "live"] \in Rows
    BY <1>4, <2>1 DEF Rows, Statuses
  <2>5. surveys' = [surveys EXCEPT ![q.id] =
                      [surveys[q.id] EXCEPT !.published = q.next, !.status = "live"]]
    BY <1>0, <1>4, <1>19, <2>1 DEF Commit, CommitRelease, TypeOK
  <2>6. /\ surveys' \in [SurveyIds -> Rows \cup {NoRow}]
        /\ \A id \in SurveyIds : Exists(id) => Exists(id)'
    BY <1>0, <1>4, <2>1, <2>4, <2>5, NoRowAssumption DEF TypeOK, Exists
  <2>7. PICK reply \in {"ok", "error"} :
          AnswerVersion(r, reply, IF reply = "ok" THEN q.next ELSE 0)
    BY <1>19 DEF Commit
  <2>8. QED
    BY <1>2, <2>1, <2>3, <2>6, <2>7 DEF Replies
<1>20. QED
  BY <1>5, <1>6, <1>7, <1>8, <1>9, <1>11, <1>12, <1>14, <1>15, <1>17, <1>18, <1>19
     DEF Writes

-----------------------------------------------------------------------------
\* The rest of the inductive invariant.

\* No version row is added and no pointer moves.
Still ==
  /\ versions' = versions
  /\ \A id \in SurveyIds : Pub(id)' = Pub(id)
  /\ \A id \in SurveyIds :
       Exists(id) /\ surveys[id].status # "draft" => surveys'[id].status # "draft"
  /\ \A id \in SurveyIds :
       Exists(id)' => (surveys'[id].status = "draft" <=> surveys'[id].published = 0)

LEMMA HistoryKept ==
  ASSUME IInv, Still PROVE HistoryInv'
<1>1. \A v \in versions : v.survey \in SurveyIds
  BY DEF IInv, TypeInv, TypeOK, VersionRows
<1>2. \A id \in SurveyIds, n \in Int : HasVersion(id, n)' <=> HasVersion(id, n)
  BY DEF Still, HasVersion, VersionsOf
<1>3. \A id \in SurveyIds : \A n \in 1..Pub(id)' : HasVersion(id, n)'
  BY <1>2 DEF IInv, HistoryInv, Still
<1>4. NoEmptyRelease'
  BY DEF IInv, HistoryInv, Still, NoEmptyRelease
<1>5. QED
  BY <1>1, <1>3, <1>4 DEF IInv, HistoryInv, Still

\* A request that did not move keeps what it relied on.
LEMMA WaitingKept ==
  ASSUME IInv, Still, NEW s \in Slots, req'[s] = req[s]
  PROVE  PublisherInv(s)'
<1>1. RequestOK(s) /\ PublisherInv(s) /\ req[s] \in IdleSlots \cup BusySlots
  BY DEF IInv, TypeInv, TypeOK
<1>2. req[s].pc # "idle" => req[s].id \in SurveyIds
  BY <1>1 DEF IdleSlots, BusySlots
<1>3. AtOp(s, "write", "close") \/ AtOp(s, "write", "reopen")
        => surveys'[req[s].id].status # "draft"
  BY <1>1, <1>2 DEF PublisherInv, RequestOK, At, AtOp, Still
<1>4. req[s].pc # "idle" => VersionsOf(req[s].id)' = VersionsOf(req[s].id)
  BY DEF VersionsOf, Still
<1>5. QED
  BY <1>1, <1>2, <1>3, <1>4 DEF PublisherInv, At, AtOp, Still

\* An answer that left versions and pointers alone.
LEMMA AnsweredStill ==
  ASSUME IInv, TypeInv', Still, NEW r \in Slots, NEW reply, NEW n, AnswerVersion(r, reply, n)
  PROVE  IInv'
<1>1. req'[r].pc = "idle" /\ \A s \in Slots : s # r => req'[s] = req[s]
  BY DEF AnswerVersion, IInv, TypeInv, TypeOK
<1>2. ASSUME NEW s \in Slots PROVE PublisherInv(s)'
  <2>1. CASE s = r
    BY <1>1, <2>1 DEF PublisherInv, At, AtOp
  <2>2. CASE s # r
    BY <1>1, <2>2, WaitingKept
  <2>3. QED
    BY <2>1, <2>2
<1>3. OnePublisherPastInsert'
  BY <1>1 DEF IInv, OnePublisherPastInsert
<1>4. QED
  BY <1>2, <1>3, HistoryKept DEF IInv

LEMMA StoreStill ==
  ASSUME IInv, UNCHANGED store PROVE Still
BY DEF Still, store, IInv, HistoryInv, Pub, Exists

\* A request that moved on over unchanged tables.
LEMMA MovedStill ==
  ASSUME IInv, TypeInv', UNCHANGED store, NEW r \in Slots,
         \A s \in Slots : s # r => req'[s] = req[s],
         PublisherInv(r)', OnePublisherPastInsert'
  PROVE  IInv'
<1>1. Still
  BY StoreStill
<1>2. \A s \in Slots : PublisherInv(s)'
  BY <1>1, WaitingKept
<1>3. QED
  BY <1>1, <1>2, HistoryKept DEF IInv

\* GetVersionSchema returns the one row of that number.
LEMMA VersionSchemaIs ==
  ASSUME IInv, NEW v \in versions
  PROVE  VersionSchema(v.survey, v.version) = v.schema
<1> DEFINE w == CHOOSE w \in VersionsOf(v.survey) : w.version = v.version
<1>1. v \in VersionsOf(v.survey)
  BY DEF VersionsOf
<1>2. w \in VersionsOf(v.survey) /\ w.version = v.version
  BY <1>1
<1>3. w \in versions /\ w.survey = v.survey
  BY <1>2 DEF VersionsOf
<1> HIDE DEF w
<1>4. w = v
  BY <1>2, <1>3 DEF IInv, HistoryInv
<1>5. QED
  BY <1>4 DEF VersionSchema, w

LEMMA ReadsInv ==
  ASSUME IInv, NEW r \in Slots, Requests(r) \/ Reads(r) \/ Fail(r)
  PROVE  IInv'
<1> USE DEF Answer
<1>0. TypeInv' /\ TypeOK /\ RequestOK(r) /\ PublisherInv(r)
  BY ReadsType DEF IInv, TypeInv
<1>1. ASSUME UNCHANGED store, NEW reply, NEW n, AnswerVersion(r, reply, n)
      PROVE  IInv'
  BY <1>0, <1>1, StoreStill, AnsweredStill
<1>2. CASE Forbid(r)
  BY <1>2, <1>1 DEF Forbid
<1>3. CASE RefuseEarly(r)
  BY <1>3, <1>1 DEF RefuseEarly
<1>4. CASE Arrive(r)
  <2>1. UNCHANGED store /\ \A s \in Slots : s # r => req'[s] = req[s]
    BY <1>0, <1>4 DEF Arrive, TypeOK
  <2>2. req'[r].pc \in {"load", "write"} /\ (req'[r].pc = "write" => req'[r].op = "create")
    BY <1>0, <1>4 DEF Arrive, TypeOK
  <2>3. PublisherInv(r)' /\ OnePublisherPastInsert'
    BY <2>1, <2>2 DEF IInv, PublisherInv, OnePublisherPastInsert, At, AtOp
  <2>4. QED
    BY <1>0, <2>1, <2>3, MovedStill
<1>5. CASE LoadMissing(r)
  BY <1>5, <1>1 DEF LoadMissing
<1>6. CASE LoadRefused(r)
  BY <1>6, <1>1 DEF LoadRefused
<1>7. CASE LoadRead(r)
  BY <1>7, <1>1 DEF LoadRead
<1>8. CASE Load(r)
  <2>1. UNCHANGED store /\ \A s \in Slots : s # r => req'[s] = req[s]
    BY <1>0, <1>8 DEF Load, TypeOK
  <2>2. /\ req'[r].pc \in {"max", "write"}
        /\ req'[r].op = req[r].op /\ req'[r].id = req[r].id
        /\ StatusAllows(req[r].op, surveys[req[r].id])
    <3>1. req[r] \in BusySlots
      BY <1>0, <1>8 DEF Load, At, TypeOK, IdleSlots
    <3>2. QED
      BY <1>0, <1>8, <3>1 DEF Load, TypeOK, BusySlots
  <2>3. PublisherInv(r)'
    BY <2>1, <2>2 DEF PublisherInv, At, AtOp, StatusAllows, store
  <2>4. OnePublisherPastInsert'
    BY <2>1, <2>2 DEF IInv, OnePublisherPastInsert
  <2>5. QED
    BY <1>0, <2>1, <2>3, <2>4, MovedStill
<1>9. CASE PublishUnchanged(r)
  BY <1>9, <1>1 DEF PublishUnchanged
<1>10. CASE PublishPanic(r)
  BY <1>10, <1>1 DEF PublishPanic
<1>11. CASE PublishNext(r)
  <2>1. UNCHANGED store /\ \A s \in Slots : s # r => req'[s] = req[s]
    BY <1>0, <1>11 DEF PublishNext, TypeOK
  <2>2. req[r] \in BusySlots /\ req[r].id \in SurveyIds
    BY <1>0, <1>11 DEF PublishNext, At, TypeOK, IdleSlots, BusySlots
  <2> DEFINE id == req[r].id
             n  == MaxVersion(id)
  <2>3. n = Pub(id) /\ n \in Nat
    BY <2>2, MaxVersionIsPub
  <2>4. /\ req'[r].pc = "insert" /\ req'[r].id = id
        /\ req'[r].meta = req[r].meta /\ req'[r].next = n + 1
    BY <1>0, <1>11, <2>2 DEF PublishNext, TypeOK, BusySlots
  <2>5. ASSUME NEW v \in VersionsOf(id), v.version + 1 = n + 1
        PROVE  ~EqIgnoringVersion(v.schema, req[r].meta.draft)
    <3>1. v \in versions /\ v.survey = id /\ v.version \in Nat \ {0}
      BY <1>0, <2>5 DEF VersionsOf, TypeOK, VersionRows
    <3>2. v.version = n /\ n > 0
      BY <2>3, <2>5, <3>1
    <3>3. VersionSchema(id, n) = v.schema
      BY <3>1, <3>2, VersionSchemaIs
    <3>4. QED
      BY <1>11, <3>2, <3>3 DEF PublishNext, SameAsNewest, EqIgnoringVersion
  <2> HIDE DEF n
  <2>6. PublisherInv(r)'
    <3>1. VersionsOf(id)' = VersionsOf(id) /\ Pub(id)' = Pub(id)
      BY <2>1, <2>4 DEF VersionsOf, Pub, Exists, store
    <3>2. QED
      BY <2>3, <2>4, <2>5, <3>1 DEF PublisherInv, At, AtOp, EqIgnoringVersion
  <2>7. OnePublisherPastInsert'
    BY <2>1, <2>4 DEF IInv, OnePublisherPastInsert
  <2>8. QED
    BY <1>0, <2>1, <2>6, <2>7, MovedStill
<1>12. CASE Fail(r)
  BY <1>12, <1>1 DEF Fail
<1>13. QED
  BY <1>2, <1>3, <1>4, <1>5, <1>6, <1>7, <1>8, <1>9, <1>10, <1>11, <1>12
     DEF Requests, Reads

\* InsertVersion is where the publishes of one survey are put in order: past
\* it the number is the next free one, and the key keeps the others out.
LEMMA InsertInv ==
  ASSUME IInv, NEW r \in Slots, InsertVersion(r) \/ SetPublished(r)
  PROVE  IInv'
<1>0. TypeInv' /\ TypeOK /\ RequestOK(r) /\ PublisherInv(r)
  BY WritesType DEF IInv, TypeInv, Writes
<1>1. /\ UNCHANGED store /\ \A s \in Slots : s # r => req'[s] = req[s]
      /\ req[r] \in BusySlots /\ req[r].id \in SurveyIds
      /\ req[r].pc \in {"insert", "point"}
      /\ \E stage \in {"point", "commit"} : req'[r] = [req[r] EXCEPT !.pc = stage]
  <2>1. req[r].pc \in {"insert", "point"} /\ UNCHANGED store
        /\ \E stage \in {"point", "commit"} : Goto(r, stage)
    BY DEF InsertVersion, SetPublished, At
  <2>2. req[r] \in BusySlots
    BY <1>0, <2>1 DEF TypeOK, IdleSlots
  <2>3. req[r].id \in SurveyIds
    BY <2>2 DEF BusySlots
  <2>4. QED
    BY <1>0, <2>1, <2>2, <2>3 DEF Goto, TypeOK
<1>2. /\ req'[r].id = req[r].id /\ req'[r].meta = req[r].meta /\ req'[r].next = req[r].next
      /\ req'[r].pc \in {"point", "commit"}
  BY <1>1 DEF BusySlots
<1>3. VersionsOf(req[r].id)' = VersionsOf(req[r].id) /\ Pub(req[r].id)' = Pub(req[r].id)
  BY <1>1, <1>2 DEF VersionsOf, Pub, Exists, store
<1>4. req[r].next = Pub(req[r].id) + 1
  <2>1. CASE InsertVersion(r)
    <3>1. req[r].next <= Pub(req[r].id) + 1 /\ req[r].next > 0 /\ req[r].next \in Nat
      BY <1>0, <1>1, <2>1 DEF InsertVersion, PublisherInv, RequestOK, At, BusySlots
    <3>2. Pub(req[r].id) \in Nat
      BY <1>0, <1>1 DEF Pub, TypeOK, Exists, Rows
    <3>3. req[r].next \notin 1..Pub(req[r].id)
      BY <1>1, <2>1 DEF InsertVersion, IInv, HistoryInv
    <3>4. QED
      BY <3>1, <3>2, <3>3
  <2>2. CASE SetPublished(r)
    BY <1>0, <2>2 DEF SetPublished, PublisherInv, At
  <2>3. QED
    BY <2>1, <2>2
<1>5. PublisherInv(r)'
  BY <1>0, <1>1, <1>2, <1>3, <1>4 DEF PublisherInv, At, AtOp
<1>6. OnePublisherPastInsert'
  <2>1. ASSUME NEW s \in Slots, s # r, req[s].pc \in {"point", "commit"}
        PROVE  req[s].id # req[r].id
    <3>1. CASE InsertVersion(r)
      <4>1. req[s].next = Pub(req[s].id) + 1
        BY <2>1 DEF IInv, PublisherInv
      <4>2. QED
        BY <1>4, <2>1, <3>1, <4>1 DEF InsertVersion, KeyHeld
    <3>2. CASE SetPublished(r)
      BY <2>1, <3>2 DEF IInv, OnePublisherPastInsert, SetPublished, At
    <3>3. QED
      BY <3>1, <3>2
  <2>2. SUFFICES ASSUME NEW s \in Slots, NEW t \in Slots, s # t,
                        req'[s].pc \in {"point", "commit"}, req'[t].pc \in {"point", "commit"}
                 PROVE  req'[s].id # req'[t].id
    BY DEF OnePublisherPastInsert
  <2>3. CASE s = r
    BY <1>1, <1>2, <2>1, <2>2, <2>3
  <2>4. CASE t = r
    BY <1>1, <1>2, <2>1, <2>2, <2>4
  <2>5. CASE s # r /\ t # r
    BY <1>1, <2>2, <2>5 DEF IInv, OnePublisherPastInsert
  <2>6. QED
    BY <2>3, <2>4, <2>5
<1>7. QED
  BY <1>0, <1>1, <1>5, <1>6, MovedStill

\* A write that leaves published_version and draft-or-not as they are.
LEMMA RowWrittenStill ==
  ASSUME IInv, NEW id \in SurveyIds, Exists(id), NEW row \in Rows,
         surveys' = [surveys EXCEPT ![id] = row], UNCHANGED versions,
         row.published = surveys[id].published,
         row.status = "draft" <=> surveys[id].status = "draft"
  PROVE  Still
<1>1. /\ surveys'[id] = row /\ row # NoRow
      /\ \A i \in SurveyIds : i # id => surveys'[i] = surveys[i]
  BY NoRowAssumption DEF IInv, TypeInv, TypeOK
<1>2. \A i \in SurveyIds :
        Exists(i) => (surveys[i].status = "draft" <=> surveys[i].published = 0)
  BY DEF IInv, HistoryInv
<1>3. QED
  BY <1>1, <1>2 DEF Still, Pub, Exists

LEMMA InsertedStill ==
  ASSUME IInv, NEW id \in SurveyIds, NEW row \in Rows, InsertSurvey(id, row),
         row.published = 0, row.status = "draft"
  PROVE  Still
<1>1. /\ surveys'[id] = row /\ row # NoRow
      /\ \A i \in SurveyIds : i # id => surveys'[i] = surveys[i]
  BY NoRowAssumption DEF IInv, TypeInv, TypeOK, InsertSurvey
<1>2. \A i \in SurveyIds :
        Exists(i) => (surveys[i].status = "draft" <=> surveys[i].published = 0)
  BY DEF IInv, HistoryInv
<1>3. QED
  BY <1>1, <1>2 DEF Still, Pub, Exists, InsertSurvey

\* The commit of a publish: one more version, and nobody else was relying on
\* there being none.
LEMMA CommitInv ==
  ASSUME IInv, NEW r \in Slots, Commit(r)
  PROVE  IInv'
<1> DEFINE id == req[r].id
           n  == req[r].next
           d  == req[r].meta.draft
           new == [survey |-> id, version |-> n, schema |-> Stamp(d, n)]
<1>0. /\ TypeInv' /\ TypeOK /\ RequestOK(r) /\ PublisherInv(r)
      /\ req[r].pc = "commit" /\ req[r] \in BusySlots
  <2>1. TypeInv'
    BY WritesType DEF Writes
  <2>2. QED
    BY <2>1 DEF IInv, TypeInv, TypeOK, Commit, At, IdleSlots
<1>1. /\ id \in SurveyIds /\ n \in Nat /\ n > 0 /\ Exists(id) /\ d \in Drafts
      /\ surveys[id] \in Rows
  BY <1>0 DEF RequestOK, BusySlots, Rows, TypeOK, Exists
<1>2. /\ n = Pub(id) + 1 /\ Pub(id) \in Nat
      /\ \A v \in VersionsOf(id) : v.version + 1 = n => ~EqIgnoringVersion(v.schema, d)
  BY <1>0, <1>1 DEF PublisherInv, Pub, Rows
<1>3. versions' = versions \cup {new}
  BY DEF Commit, CommitRelease
<1>4. surveys' = [surveys EXCEPT ![id] = [surveys[id] EXCEPT !.published = n, !.status = "live"]]
  BY <1>0, <1>1 DEF Commit, CommitRelease, TypeOK
<1>5. /\ req'[r].pc = "idle"
      /\ \A s \in Slots : s # r => req'[s] = req[s]
  BY <1>0 DEF Commit, AnswerVersion, TypeOK
<1>6. new.survey = id /\ new.version = n /\ new.schema = Stamp(d, n)
  OBVIOUS
<1>7. Stamp(d, n).version = n /\ Stamp(d, n).body = d.body
  BY <1>1 DEF Stamp, Drafts
<1>8. /\ surveys'[id].published = n /\ surveys'[id].status = "live" /\ surveys'[id] # NoRow
      /\ \A i \in SurveyIds : i # id => surveys'[i] = surveys[i]
  <2>1. [surveys[id] EXCEPT !.published = n, !.status = "live"] \in Rows
    BY <1>1 DEF Rows, Statuses
  <2>2. QED
    BY <1>0, <1>1, <1>4, <2>1, NoRowAssumption DEF TypeOK, Rows
<1> HIDE DEF new, d, n, id
<1>9. \A i \in SurveyIds : IF i = id THEN Pub(i)' = n ELSE Pub(i)' = Pub(i)
  BY <1>1, <1>8 DEF Pub, Exists
<1>10. \A v \in versions : /\ v.survey \in SurveyIds /\ v.version \in Nat
                           /\ v.version <= Pub(v.survey) /\ v.schema.version = v.version
  BY <1>0 DEF IInv, HistoryInv, TypeOK, VersionRows
<1>11. \A v \in versions : v.survey = id => v.version < n
  BY <1>1, <1>2, <1>10
<1>12. HistoryInv'
  <2>1. \A i \in SurveyIds :
          Exists(i)' => (surveys'[i].status = "draft" <=> surveys'[i].published = 0)
    <3>1. SUFFICES ASSUME NEW i \in SurveyIds, Exists(i)'
                   PROVE  surveys'[i].status = "draft" <=> surveys'[i].published = 0
      OBVIOUS
    <3>2. CASE i = id
      BY <1>1, <1>8, <3>2
    <3>3. CASE i # id
      BY <1>8, <3>1, <3>3 DEF IInv, HistoryInv, Exists
    <3>4. QED
      BY <3>2, <3>3
  <2>2. \A v \in versions' : v.version <= Pub(v.survey)' /\ v.schema.version = v.version
    <3>1. SUFFICES ASSUME NEW v \in versions'
                   PROVE  v.version <= Pub(v.survey)' /\ v.schema.version = v.version
      OBVIOUS
    <3>2. CASE v = new
      BY <1>1, <1>6, <1>7, <1>9, <3>2
    <3>3. CASE v \in versions /\ v.survey = id
      BY <1>1, <1>9, <1>10, <1>11, <3>3
    <3>4. CASE v \in versions /\ v.survey # id
      BY <1>9, <1>10, <3>4
    <3>5. QED
      BY <1>3, <3>1, <3>2, <3>3, <3>4
  <2>3. \A i \in SurveyIds : \A m \in 1..Pub(i)' : HasVersion(i, m)'
    <3>1. SUFFICES ASSUME NEW i \in SurveyIds, NEW m \in 1..Pub(i)'
                   PROVE  HasVersion(i, m)'
      OBVIOUS
    <3>2. CASE i = id /\ m = n
      BY <1>3, <1>6, <3>2 DEF HasVersion, VersionsOf
    <3>3. CASE ~(i = id /\ m = n)
      <4>1. m \in 1..Pub(i)
        BY <1>1, <1>2, <1>9, <3>1, <3>3
      <4>2. HasVersion(i, m)
        BY <4>1 DEF IInv, HistoryInv
      <4>3. QED
        BY <1>3, <4>2 DEF HasVersion, VersionsOf
    <3>4. QED
      BY <3>2, <3>3
  <2>4. \A v, w \in versions' : v.survey = w.survey /\ v.version = w.version => v = w
    <3>1. SUFFICES ASSUME NEW v \in versions', NEW w \in versions',
                          v.survey = w.survey, v.version = w.version, v # w
                   PROVE  FALSE
      OBVIOUS
    <3>2. CASE v \in versions /\ w \in versions
      BY <3>1, <3>2 DEF IInv, HistoryInv
    <3>3. CASE v = new /\ w \in versions
      BY <1>1, <1>6, <1>10, <1>11, <3>1, <3>3
    <3>4. CASE v \in versions /\ w = new
      BY <1>1, <1>6, <1>10, <1>11, <3>1, <3>4
    <3>5. QED
      BY <1>3, <3>1, <3>2, <3>3, <3>4
  <2>5. NoEmptyRelease'
    <3>1. SUFFICES ASSUME NEW v \in versions', NEW w \in versions',
                          v.survey = w.survey, w.version = v.version + 1
                   PROVE  v.schema.body # w.schema.body
      BY DEF NoEmptyRelease, EqIgnoringVersion
    <3>2. CASE v \in versions /\ w \in versions
      BY <3>1, <3>2 DEF IInv, HistoryInv, NoEmptyRelease, EqIgnoringVersion
    <3>3. CASE v \in versions /\ w = new
      BY <1>2, <1>6, <1>7, <3>1, <3>3 DEF VersionsOf, EqIgnoringVersion
    <3>4. CASE v = new
      BY <1>1, <1>3, <1>6, <1>10, <1>11, <3>1, <3>4
    <3>5. QED
      BY <1>3, <3>1, <3>2, <3>3, <3>4
  <2>6. QED
    BY <2>1, <2>2, <2>3, <2>4, <2>5 DEF HistoryInv
<1>13. ASSUME NEW s \in Slots PROVE PublisherInv(s)'
  <2>1. CASE s = r
    BY <1>5, <2>1 DEF PublisherInv, At, AtOp
  <2>2. CASE s # r
    <3> DEFINE j == req[s].id
    <3>1. /\ req'[s] = req[s] /\ RequestOK(s) /\ PublisherInv(s)
          /\ req[s].pc # "idle" => req[s] \in BusySlots
      BY <1>0, <1>5, <2>2 DEF IInv, TypeInv, TypeOK, IdleSlots
    <3>2. req[s].pc # "idle" => j \in SurveyIds /\ req[s].next \in Nat
      BY <3>1 DEF BusySlots
    <3>3. req[s].pc \in {"point", "commit"} => j # id
      BY <1>0, <2>2 DEF IInv, OnePublisherPastInsert, id
    <3>4. AtOp(s, "write", "close") \/ AtOp(s, "write", "reopen")
            => surveys'[j].status # "draft"
      BY <1>8, <3>1, <3>2 DEF PublisherInv, At, AtOp
    <3>5. At(s, "insert") => req[s].next <= Pub(j)' + 1
      <4>1. Pub(j) \in Nat \/ ~At(s, "insert")
        BY <1>0, <3>2 DEF TypeOK, Pub, Exists, Rows, At
      <4>2. QED
        BY <1>1, <1>2, <1>9, <3>1, <3>2, <4>1 DEF PublisherInv, At
    <3>6. req[s].pc \in {"point", "commit"} => req[s].next = Pub(j)' + 1
      BY <1>9, <3>1, <3>2, <3>3 DEF PublisherInv
    <3>7. ASSUME req[s].pc \in {"insert", "point", "commit"}, NEW v \in versions',
                 v.survey = j, v.version + 1 = req[s].next
          PROVE  ~EqIgnoringVersion(v.schema, req[s].meta.draft)
      <4>1. CASE v \in versions
        BY <3>1, <3>7, <4>1 DEF PublisherInv, VersionsOf
      <4>2. CASE v = new
        <5>1. j = id /\ v.version = n
          BY <1>6, <3>7, <4>2
        <5>2. req[s].pc = "insert"
          BY <3>3, <3>7, <5>1
        <5>3. req[s].next <= n
          BY <1>2, <3>1, <5>1, <5>2 DEF PublisherInv, At
        <5>4. QED
          BY <1>1, <3>2, <3>7, <5>1, <5>3
      <4>3. QED
        BY <1>3, <3>7, <4>1, <4>2
    <3> HIDE DEF j
    <3>8. \A v \in VersionsOf(j)' : v \in versions' /\ v.survey = j'
      BY DEF VersionsOf
    <3>9. j' = j
      BY <3>1 DEF j
    <3>10. QED
      BY <3>1, <3>4, <3>5, <3>6, <3>7, <3>8, <3>9 DEF PublisherInv, At, AtOp, j, EqIgnoringVersion
  <2>3. QED
    BY <2>1, <2>2
<1>14. OnePublisherPastInsert'
  BY <1>5 DEF IInv, OnePublisherPastInsert
<1>15. QED
  BY <1>0, <1>12, <1>13, <1>14 DEF IInv

LEMMA WritesInv ==
  ASSUME IInv, NEW r \in Slots, Writes(r)
  PROVE  IInv'
<1> DEFINE q == req[r]
<1>0. TypeInv' /\ TypeOK /\ RequestOK(r) /\ PublisherInv(r)
  BY WritesType DEF IInv, TypeInv
<1>1. q \in BusySlots
  BY <1>0 DEF Writes, Update, Close, Reopen, SetAnswerAccess, SetDisplayMode, Create, Copy,
              IdTaken, InsertVersion, InsertRefused, SetPublished, Commit, At, AtOp,
              TypeOK, IdleSlots
<1>2. ASSUME Still, NEW reply, NEW n, AnswerVersion(r, reply, n)
      PROVE  IInv'
  BY <1>0, <1>2, AnsweredStill
<1>3. ASSUME Still, AnswerWrite(r) PROVE IInv'
  BY <1>2, <1>3 DEF AnswerWrite, Answer
<1>4. ASSUME Exists(q.id) PROVE surveys[q.id] \in Rows /\ q.id \in SurveyIds
  BY <1>0, <1>1, <1>4 DEF TypeOK, Exists, BusySlots
\* An UPDATE of one column that keeps the pointer, and a draft a draft.
<1>5. ASSUME Exists(q.id), NEW row \in Rows, surveys' = [surveys EXCEPT ![q.id] = row],
             UNCHANGED versions, AnswerWrite(r), row.published = surveys[q.id].published,
             row.status = "draft" <=> surveys[q.id].status = "draft"
      PROVE  IInv'
  BY <1>3, <1>4, <1>5, RowWrittenStill
<1>6. CASE Update(r)
  <2> DEFINE row == [surveys[q.id] EXCEPT !.draft = q.payload]
  <2>1. Exists(q.id) /\ q.payload \in Drafts
    BY <1>0, <1>6 DEF Update, RequestOK, AtOp
  <2>2. /\ row \in Rows /\ row.published = surveys[q.id].published
        /\ row.status = surveys[q.id].status
    BY <1>4, <2>1 DEF Rows
  <2>3. surveys' = [surveys EXCEPT ![q.id] = row]
    BY <1>0, <1>4, <1>6, <2>1 DEF Update, SetDraft, TypeOK
  <2> HIDE DEF row
  <2>4. QED
    BY <1>5, <1>6, <2>1, <2>2, <2>3 DEF Update, SetDraft
<1>7. CASE Close(r)
  <2> DEFINE row == [surveys[q.id] EXCEPT !.status = "closed"]
  <2>1. Exists(q.id) /\ surveys[q.id].status # "draft"
    BY <1>0, <1>7 DEF Close, RequestOK, PublisherInv, AtOp
  <2>2. /\ row \in Rows /\ row.published = surveys[q.id].published
        /\ row.status = "closed"
    BY <1>4, <2>1 DEF Rows, Statuses
  <2>3. surveys' = [surveys EXCEPT ![q.id] = row]
    BY <1>0, <1>4, <1>7, <2>1 DEF Close, SetStatus, TypeOK
  <2> HIDE DEF row
  <2>4. QED
    BY <1>5, <1>7, <2>1, <2>2, <2>3 DEF Close, SetStatus
<1>8. CASE Reopen(r)
  <2> DEFINE row == [surveys[q.id] EXCEPT !.status = "live"]
  <2>1. Exists(q.id) /\ surveys[q.id].status # "draft"
    BY <1>0, <1>8 DEF Reopen, RequestOK, PublisherInv, AtOp
  <2>2. /\ row \in Rows /\ row.published = surveys[q.id].published
        /\ row.status = "live"
    BY <1>4, <2>1 DEF Rows, Statuses
  <2>3. surveys' = [surveys EXCEPT ![q.id] = row]
    BY <1>0, <1>4, <1>8, <2>1 DEF Reopen, SetStatus, TypeOK
  <2> HIDE DEF row
  <2>4. QED
    BY <1>5, <1>8, <2>1, <2>2, <2>3 DEF Reopen, SetStatus
<1>9. CASE SetAnswerAccess(r)
  <2> DEFINE row == [surveys[q.id] EXCEPT !.access = q.mode]
  <2>1. Exists(q.id) /\ q.mode \in AccessModes
    BY <1>0, <1>9 DEF SetAnswerAccess, RequestOK, AtOp
  <2>2. /\ row \in Rows /\ row.published = surveys[q.id].published
        /\ row.status = surveys[q.id].status
    BY <1>4, <2>1 DEF Rows
  <2>3. surveys' = [surveys EXCEPT ![q.id] = row]
    BY <1>0, <1>4, <1>9, <2>1 DEF SetAnswerAccess, SetAccess, TypeOK
  <2> HIDE DEF row
  <2>4. QED
    BY <1>5, <1>9, <2>1, <2>2, <2>3 DEF SetAnswerAccess, SetAccess
<1>10. CASE SetDisplayMode(r)
  <2> DEFINE row == [surveys[q.id] EXCEPT !.display = q.mode]
  <2>1. Exists(q.id) /\ q.mode \in DisplayModes
    BY <1>0, <1>10 DEF SetDisplayMode, RequestOK, AtOp
  <2>2. /\ row \in Rows /\ row.published = surveys[q.id].published
        /\ row.status = surveys[q.id].status
    BY <1>4, <2>1 DEF Rows
  <2>3. surveys' = [surveys EXCEPT ![q.id] = row]
    BY <1>0, <1>4, <1>10, <2>1 DEF SetDisplayMode, SetDisplay, TypeOK
  <2> HIDE DEF row
  <2>4. QED
    BY <1>5, <1>10, <2>1, <2>2, <2>3 DEF SetDisplayMode, SetDisplay
<1>11. ASSUME NEW id \in SurveyIds, NEW u \in Users, NEW d \in Drafts,
              NEW a \in AccessModes, NEW b \in DisplayModes,
              InsertSurvey(id, NewRow(u, d, a, b)), AnswerWrite(r)
       PROVE  IInv'
  <2>1. /\ NewRow(u, d, a, b) \in Rows
        /\ NewRow(u, d, a, b).published = 0 /\ NewRow(u, d, a, b).status = "draft"
    BY DEF NewRow, Rows, Statuses
  <2>2. QED
    BY <1>3, <1>11, <2>1, InsertedStill
<1>12. CASE Create(r)
  <2>1. q.payload \in Payloads /\ q.payload.body # "malformed"
    BY <1>0, <1>1, <1>12 DEF Create, RequestOK, AtOp, BusySlots
  <2>2. CreatedDraft(q.payload) \in Drafts
    <3>1. CASE q.payload.body \in {"null", "absent"}
      BY <3>1, StoreAssumption DEF CreatedDraft, Drafts
    <3>2. CASE q.payload.body \notin {"null", "absent"}
      BY <2>1, <3>2 DEF CreatedDraft, Drafts, Payloads
    <3>3. QED
      BY <3>1, <3>2
  <2>3. QED
    BY <1>1, <1>11, <1>12, <2>2 DEF Create, BusySlots, AccessModes, DisplayModes
<1>13. CASE Copy(r)
  <2>1. q.meta \in Rows
    BY <1>0, <1>13 DEF Copy, RequestOK, AtOp
  <2>2. CopiedDraft(q.meta.draft) \in Drafts
    BY <2>1, StoreAssumption DEF CopiedDraft, Drafts, Rows
  <2>3. q.user \in Users /\ q.meta.access \in AccessModes /\ q.meta.display \in DisplayModes
    BY <1>1, <2>1 DEF BusySlots, Rows
  <2>4. QED
    BY <1>11, <1>13, <2>2, <2>3 DEF Copy
<1>14. CASE IdTaken(r)
  BY <1>2, <1>14, StoreStill DEF IdTaken, Answer
<1>15. CASE InsertRefused(r)
  BY <1>2, <1>15, StoreStill DEF InsertRefused, Answer
<1>16. QED
  BY <1>6, <1>7, <1>8, <1>9, <1>10, <1>12, <1>13, <1>14, <1>15, InsertInv, CommitInv
     DEF Writes

LEMMA InitInv == Init => IInv
<1> SUFFICES ASSUME Init PROVE IInv
  OBVIOUS
<1>1. \A r \in Slots : req[r] = [pc |-> "idle", reply |-> "none", version |-> 0]
  BY DEF Init
<1>2. \A id \in SurveyIds : ~Exists(id)
  BY DEF Init, StoreInit, Exists
<1>3. TypeOK
  BY DEF Init, StoreInit, TypeOK, IdleSlots, Replies
<1>4. \A r \in Slots : RequestOK(r) /\ PublisherInv(r)
  BY <1>1 DEF RequestOK, PublisherInv, At, AtOp
<1>5. HistoryInv
  BY <1>2 DEF Init, StoreInit, HistoryInv, Pub, NoEmptyRelease
<1>6. OnePublisherPastInsert
  BY <1>1 DEF OnePublisherPastInsert
<1>7. QED
  BY <1>3, <1>4, <1>5, <1>6 DEF IInv, TypeInv

\* A step that changes nothing of the survey service: also every step of the
\* modules that run beside it.
LEMMA StutterInv ==
  ASSUME IInv, UNCHANGED vars PROVE IInv'
<1>1. surveys' = surveys /\ versions' = versions /\ req' = req
  BY DEF vars
<1>2. UNCHANGED store /\ Still
  BY <1>1, StoreStill DEF store
<1>3. TypeInv'
  BY <1>1 DEF IInv, TypeInv, TypeOK, RequestOK, At, AtOp, Exists
<1>4. \A s \in Slots : PublisherInv(s)'
  BY <1>1, <1>2, WaitingKept
<1>5. OnePublisherPastInsert'
  BY <1>1 DEF IInv, OnePublisherPastInsert
<1>6. QED
  BY <1>2, <1>3, <1>4, <1>5, HistoryKept DEF IInv

LEMMA StepInv ==
  ASSUME IInv, [Next]_vars PROVE IInv'
<1>1. CASE Next
  BY <1>1, ReadsInv, WritesInv DEF Next
<1>2. CASE UNCHANGED vars
  BY <1>2, StutterInv
<1>3. QED
  BY <1>1, <1>2

-----------------------------------------------------------------------------
\* Theorems.

\* The inductive invariant holds in every reachable state, whatever the number
\* of surveys, users, contents and concurrent requests.
THEOREM Inductive == Spec => []IInv
<1>1. Init => IInv
  BY InitInv
<1>2. IInv /\ [Next]_vars => IInv'
  BY StepInv
<1>3. QED
  BY <1>1, <1>2, PTL DEF Spec

\* Every table row and every request in progress keeps its type, the modes
\* that no CHECK of the migration guards included (survey.go:316, 333).
THEOREM TypeCorrect == Spec => []TypeOK
<1>1. IInv => TypeOK
  BY DEF IInv, TypeInv
<1>2. QED
  BY <1>1, Inductive, PTL

\* published_version is the newest version row between any two statements of
\* any number of concurrent requests (dao.go:110).
THEOREM PointerCorrect == Spec => []PointerIsNewest
<1>1. IInv => PointerIsNewest
  <2>1. SUFFICES ASSUME IInv, NEW id \in SurveyIds
                 PROVE  /\ \A v \in VersionsOf(id) : v.version <= Pub(id)
                        /\ Pub(id) > 0 => HasVersion(id, Pub(id))
    BY DEF PointerIsNewest, Pub
  <2>2. Pub(id) \in Nat
    BY <2>1 DEF IInv, TypeInv, TypeOK, Pub, Exists, Rows
  <2>3. QED
    BY <2>1, <2>2 DEF IInv, HistoryInv, VersionsOf
<1>2. QED
  BY <1>1, Inductive, PTL

\* A survey is a draft exactly as long as it has no version, although Close
\* and Reopen decide on a status they read earlier (status.go:5-8).
THEOREM DraftCorrect == Spec => []DraftUntilReleased
<1>1. IInv => DraftUntilReleased
  <2>1. SUFFICES ASSUME IInv, NEW id \in SurveyIds, Exists(id)
                 PROVE  surveys[id].status = "draft" <=> VersionsOf(id) = {}
    BY DEF DraftUntilReleased
  <2>2. Pub(id) = surveys[id].published /\ Pub(id) \in Nat
    BY <2>1 DEF IInv, TypeInv, TypeOK, Pub, Exists, Rows
  <2>3. surveys[id].status = "draft" <=> Pub(id) = 0
    BY <2>1, <2>2 DEF IInv, HistoryInv
  <2>4. CASE Pub(id) = 0
    <3>1. \A v \in VersionsOf(id) : v.version \in Nat \ {0} /\ v.version <= 0
      BY <2>1, <2>4 DEF IInv, TypeInv, TypeOK, HistoryInv, VersionsOf, VersionRows
    <3>2. QED
      BY <2>3, <2>4, <3>1
  <2>5. CASE Pub(id) # 0
    BY <2>1, <2>2, <2>3, <2>5 DEF IInv, HistoryInv, HasVersion
  <2>6. QED
    BY <2>4, <2>5
<1>2. QED
  BY <1>1, Inductive, PTL

\* Snapshots are numbered 1, 2, ... and carry their own number, whatever the
\* drafts said and however publishes interleave (dao.go:127-129).
THEOREM NumberingCorrect == Spec => []SnapshotsNumbered
<1>1. IInv => SnapshotsNumbered
  <2>1. SUFFICES ASSUME IInv, NEW id \in SurveyIds
                 PROVE  /\ \A v \in VersionsOf(id) : v.schema.version = v.version
                        /\ \A v, w \in VersionsOf(id) : v.version = w.version => v = w
                        /\ \A v \in VersionsOf(id) :
                             v.version > 1 => HasVersion(id, v.version - 1)
    BY DEF SnapshotsNumbered
  <2>2. ASSUME NEW v \in VersionsOf(id), v.version > 1
        PROVE  HasVersion(id, v.version - 1)
    <3>1. v.version \in Nat /\ v.version <= Pub(id) /\ Pub(id) \in Nat
      BY <2>1, <2>2 DEF IInv, TypeInv, TypeOK, HistoryInv, VersionsOf, VersionRows,
                        Pub, Exists, Rows
    <3>2. v.version - 1 \in 1..Pub(id)
      BY <2>2, <3>1
    <3>3. QED
      BY <2>1, <3>2 DEF IInv, HistoryInv
  <2>3. QED
    BY <2>1, <2>2 DEF IInv, HistoryInv, VersionsOf
<1>2. QED
  BY <1>1, Inductive, PTL

\* No two consecutive snapshots are alike, for any number of publishes of one
\* survey at a time (dao.go:97-98).
THEOREM ReleasesDiffer == Spec => []NoEmptyRelease
<1>1. IInv => NoEmptyRelease
  BY DEF IInv, HistoryInv
<1>2. QED
  BY <1>1, Inductive, PTL

\* At most one publish of a survey is past its INSERT, so none waits for the
\* row lock of another one that waits for it (dao.go:134-143).
THEOREM PublishersInOrder == Spec => []OnePublisherPastInsert
<1>1. IInv => OnePublisherPastInsert
  BY DEF IInv
<1>2. QED
  BY <1>1, Inductive, PTL
=============================================================================

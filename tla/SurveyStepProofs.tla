--------------------------- MODULE SurveyStepProofs ---------------------------
(***************************************************************************)
(* What a step of the survey service may never do, and that its statements *)
(* add up to the life of a survey in VersionHistory; for any surveys,      *)
(* users, bodies and any number of requests at a time.                     *)
(***************************************************************************)
EXTENDS SurveyProofs, Sequences

\* The request in slot r is answered.
Done(r) == ~Idle(r) /\ req'[r].pc = "idle"

OthersWait(r) == \A s \in Slots : s # r => req'[s] = req[s]

\* What an UPDATE or a commit by request r does to the table: one row changes,
\* its owner never does, and a mode only by its own operation.
WroteRow(r) ==
  LET q == req[r]
      old == surveys[q.id]
      new == surveys'[q.id]
  IN  /\ (At(r, "write") /\ q.op # "create") \/ At(r, "commit")
      /\ q.id \in SurveyIds /\ Exists(q.id) /\ new \in Rows
      /\ \A id \in SurveyIds : id # q.id => surveys'[id] = surveys[id]
      /\ new.owner = old.owner
      /\ new.access # old.access => q.op = "setAccess" /\ new.access = q.mode
      /\ new.display # old.display => q.op = "setDisplay" /\ new.display = q.mode

\* ... to status and versions, when it is not a commit: a survey that is no
\* draft may be closed or opened.
KeptHistory(r) ==
  LET old == surveys[req[r].id]
      new == surveys'[req[r].id]
  IN  /\ versions' = versions
      /\ new.published = old.published
      /\ new.status # old.status => old.status # "draft" /\ new.status \in {"live", "closed"}

\* What an INSERT by request r does: a draft appears under an id that was free.
InsertedSurvey(r) ==
  /\ At(r, "write") /\ req[r].op \in {"create", "copy"}
  /\ versions' = versions
  /\ \E id \in SurveyIds, d \in [body : Bodies, version : Nat],
        a \in AccessModes, b \in DisplayModes :
       /\ ~Exists(id)
       /\ surveys' = [surveys EXCEPT ![id] = NewRow(req[r].user, d, a, b)]
       /\ req[r].op = "copy" => d.body # req[r].meta.draft.body

-----------------------------------------------------------------------------
\* Requests take turns.

LEMMA BusyRequest ==
  ASSUME TypeOK, NEW r \in Slots, ~Idle(r)
  PROVE  req[r] \in BusySlots /\ req[r].id \in SurveyIds /\ req[r].user \in Users
<1>1. req[r] \in BusySlots
  BY DEF TypeOK, Idle, IdleSlots
<1>2. QED
  BY <1>1 DEF BusySlots

LEMMA AnsweredDone ==
  ASSUME TypeOK, NEW r \in Slots, NEW reply, NEW n, AnswerVersion(r, reply, n)
  PROVE  /\ req'[r] = [pc |-> "idle", reply |-> reply, version |-> n]
         /\ req'[r].pc = "idle" /\ req'[r].reply = reply /\ req'[r].version = n
         /\ OthersWait(r)
BY DEF TypeOK, AnswerVersion, OthersWait

LEMMA OneMoves ==
  ASSUME TypeOK, NEW r \in Slots, Requests(r) \/ Reads(r) \/ Writes(r) \/ Fail(r)
  PROVE  OthersWait(r)
<1>1. ASSUME NEW q, req' = [req EXCEPT ![r] = q]
      PROVE  OthersWait(r)
  BY <1>1 DEF TypeOK, OthersWait
<1>2. ASSUME NEW reply, NEW n, AnswerVersion(r, reply, n)
      PROVE  OthersWait(r)
  BY <1>2, AnsweredDone
<1>3. CASE Requests(r) \/ Fail(r)
  BY <1>1, <1>2, <1>3 DEF Requests, Forbid, RefuseEarly, Arrive, Fail, Answer
<1>4. CASE Reads(r)
  BY <1>1, <1>2, <1>4 DEF Reads, LoadMissing, LoadRefused, LoadRead, Load, PublishUnchanged,
                          PublishPanic, PublishNext, Answer
<1>5. CASE Writes(r)
  BY <1>1, <1>2, <1>5 DEF Writes, Update, Close, Reopen, SetAnswerAccess, SetDisplayMode, Create,
                          Copy, IdTaken, InsertVersion, InsertRefused, SetPublished, Commit,
                          Goto, AnswerWrite, Answer
<1>6. QED
  BY <1>3, <1>4, <1>5

\* Arrivals, reads and failures leave the tables alone.
LEMMA ReadsLeaveStore ==
  ASSUME NEW r \in Slots, Requests(r) \/ Reads(r) \/ Fail(r)
  PROVE  UNCHANGED store
BY DEF Requests, Forbid, RefuseEarly, Arrive, Reads, LoadMissing, LoadRefused, LoadRead, Load,
       PublishUnchanged, PublishPanic, PublishNext, Fail

LEMMA WritersBusy ==
  ASSUME NEW r \in Slots, Writes(r)
  PROVE  ~Idle(r)
BY DEF Writes, Update, Close, Reopen, SetAnswerAccess, SetDisplayMode, Create, Copy,
       IdTaken, InsertVersion, InsertRefused, SetPublished, Commit, At, AtOp, Idle

\* What a statement that writes has done.
LEMMA WriteEffects ==
  ASSUME IInv, NEW r \in Slots, Writes(r)
  PROVE  \/ UNCHANGED store
         \/ Done(r) /\ WroteRow(r) /\ (KeptHistory(r) \/ Commit(r))
         \/ Done(r) /\ InsertedSurvey(r)
<1> DEFINE q == req[r]
<1>0. TypeOK /\ RequestOK(r) /\ PublisherInv(r)
  BY DEF IInv, TypeInv
<1>1. q \in BusySlots /\ q.id \in SurveyIds /\ q.user \in Users /\ ~Idle(r)
  BY <1>0, BusyRequest, WritersBusy
<1>2. AnswerWrite(r) => Done(r)
  BY <1>0, <1>1, AnsweredDone DEF AnswerWrite, Answer, Done
<1>3. ASSUME Exists(q.id) PROVE surveys[q.id] \in Rows
  BY <1>0, <1>1, <1>3 DEF TypeOK, Exists
\* An UPDATE of one column.
<1>4. ASSUME NEW row \in Rows, Exists(q.id), At(r, "write"), q.op # "create",
             surveys' = [surveys EXCEPT ![q.id] = row], UNCHANGED versions,
             row.owner = surveys[q.id].owner, row.published = surveys[q.id].published,
             row.status # surveys[q.id].status =>
               surveys[q.id].status # "draft" /\ row.status \in {"live", "closed"},
             row.access # surveys[q.id].access => q.op = "setAccess" /\ row.access = q.mode,
             row.display # surveys[q.id].display => q.op = "setDisplay" /\ row.display = q.mode
      PROVE  WroteRow(r) /\ KeptHistory(r)
  <2>1. /\ surveys'[q.id] = row
        /\ \A id \in SurveyIds : id # q.id => surveys'[id] = surveys[id]
    BY <1>0, <1>1, <1>4 DEF TypeOK
  <2>2. QED
    BY <1>1, <1>4, <2>1 DEF WroteRow, KeptHistory
<1>5. CASE Update(r)
  <2> DEFINE row == [surveys[q.id] EXCEPT !.draft = q.payload]
  <2>1. Exists(q.id) /\ q.payload \in Drafts /\ At(r, "write") /\ q.op = "update"
    BY <1>0, <1>5 DEF Update, RequestOK, AtOp
  <2>2. /\ row \in Rows /\ row.owner = surveys[q.id].owner
        /\ row.published = surveys[q.id].published /\ row.status = surveys[q.id].status
        /\ row.access = surveys[q.id].access /\ row.display = surveys[q.id].display
    BY <1>3, <2>1 DEF Rows
  <2>3. surveys' = [surveys EXCEPT ![q.id] = row] /\ UNCHANGED versions
    BY <1>0, <1>1, <1>5 DEF Update, SetDraft, TypeOK
  <2> HIDE DEF row
  <2>4. QED
    BY <1>2, <1>4, <1>5, <2>1, <2>2, <2>3 DEF Update
<1>6. CASE Close(r)
  <2> DEFINE row == [surveys[q.id] EXCEPT !.status = "closed"]
  <2>1. Exists(q.id) /\ At(r, "write") /\ q.op = "close" /\ surveys[q.id].status # "draft"
    BY <1>0, <1>6 DEF Close, RequestOK, AtOp, PublisherInv
  <2>2. /\ row \in Rows /\ row.owner = surveys[q.id].owner
        /\ row.published = surveys[q.id].published /\ row.status = "closed"
        /\ row.access = surveys[q.id].access /\ row.display = surveys[q.id].display
    BY <1>3, <2>1 DEF Rows, Statuses
  <2>3. surveys' = [surveys EXCEPT ![q.id] = row] /\ UNCHANGED versions
    BY <1>0, <1>1, <1>6 DEF Close, SetStatus, TypeOK
  <2> HIDE DEF row
  <2>4. QED
    BY <1>2, <1>4, <1>6, <2>1, <2>2, <2>3 DEF Close
<1>7. CASE Reopen(r)
  <2> DEFINE row == [surveys[q.id] EXCEPT !.status = "live"]
  <2>1. Exists(q.id) /\ At(r, "write") /\ q.op = "reopen" /\ surveys[q.id].status # "draft"
    BY <1>0, <1>7 DEF Reopen, RequestOK, AtOp, PublisherInv
  <2>2. /\ row \in Rows /\ row.owner = surveys[q.id].owner
        /\ row.published = surveys[q.id].published /\ row.status = "live"
        /\ row.access = surveys[q.id].access /\ row.display = surveys[q.id].display
    BY <1>3, <2>1 DEF Rows, Statuses
  <2>3. surveys' = [surveys EXCEPT ![q.id] = row] /\ UNCHANGED versions
    BY <1>0, <1>1, <1>7 DEF Reopen, SetStatus, TypeOK
  <2> HIDE DEF row
  <2>4. QED
    BY <1>2, <1>4, <1>7, <2>1, <2>2, <2>3 DEF Reopen
<1>8. CASE SetAnswerAccess(r)
  <2> DEFINE row == [surveys[q.id] EXCEPT !.access = q.mode]
  <2>1. /\ Exists(q.id) /\ At(r, "write") /\ q.op = "setAccess" /\ q.mode \in AccessModes
    BY <1>0, <1>8 DEF SetAnswerAccess, RequestOK, AtOp
  <2>2. /\ row \in Rows /\ row.owner = surveys[q.id].owner
        /\ row.published = surveys[q.id].published /\ row.status = surveys[q.id].status
        /\ row.access = q.mode /\ row.display = surveys[q.id].display
    BY <1>3, <2>1 DEF Rows
  <2>3. surveys' = [surveys EXCEPT ![q.id] = row] /\ UNCHANGED versions
    BY <1>0, <1>1, <1>8 DEF SetAnswerAccess, SetAccess, TypeOK
  <2> HIDE DEF row
  <2>4. QED
    BY <1>2, <1>4, <1>8, <2>1, <2>2, <2>3 DEF SetAnswerAccess
<1>9. CASE SetDisplayMode(r)
  <2> DEFINE row == [surveys[q.id] EXCEPT !.display = q.mode]
  <2>1. /\ Exists(q.id) /\ At(r, "write") /\ q.op = "setDisplay" /\ q.mode \in DisplayModes
    BY <1>0, <1>9 DEF SetDisplayMode, RequestOK, AtOp
  <2>2. /\ row \in Rows /\ row.owner = surveys[q.id].owner
        /\ row.published = surveys[q.id].published /\ row.status = surveys[q.id].status
        /\ row.access = surveys[q.id].access /\ row.display = q.mode
    BY <1>3, <2>1 DEF Rows
  <2>3. surveys' = [surveys EXCEPT ![q.id] = row] /\ UNCHANGED versions
    BY <1>0, <1>1, <1>9 DEF SetDisplayMode, SetDisplay, TypeOK
  <2> HIDE DEF row
  <2>4. QED
    BY <1>2, <1>4, <1>9, <2>1, <2>2, <2>3 DEF SetDisplayMode
<1>10. CASE Create(r)
  <2>1. q.payload \in Payloads /\ q.payload.body # "malformed"
    BY <1>0, <1>1, <1>10 DEF Create, RequestOK, AtOp, BusySlots
  <2>2. CreatedDraft(q.payload) \in [body : Bodies, version : Nat]
    <3>1. CASE q.payload.body \in {"null", "absent"}
      BY <3>1, StoreAssumption DEF CreatedDraft
    <3>2. CASE q.payload.body \notin {"null", "absent"}
      BY <2>1, <3>2 DEF CreatedDraft, Payloads
    <3>3. QED
      BY <3>1, <3>2
  <2>3. "login_required" \in AccessModes /\ "single" \in DisplayModes
    BY DEF AccessModes, DisplayModes
  <2>4. InsertedSurvey(r)
    BY <1>1, <1>10, <2>2, <2>3 DEF Create, InsertSurvey, InsertedSurvey, AtOp
  <2>5. QED
    BY <1>2, <1>10, <2>4 DEF Create
<1>11. CASE Copy(r)
  <2>1. q.meta \in Rows
    BY <1>0, <1>11 DEF Copy, RequestOK, AtOp
  <2>2. q.meta.draft \in Drafts /\ q.meta.access \in AccessModes /\ q.meta.display \in DisplayModes
    BY <2>1 DEF Rows
  <2>3. /\ CopiedDraft(q.meta.draft) \in [body : Bodies, version : Nat]
        /\ CopiedDraft(q.meta.draft).body # q.meta.draft.body
    BY <2>2, StoreAssumption DEF CopiedDraft, Drafts
  <2>4. InsertedSurvey(r)
    BY <1>1, <1>11, <2>2, <2>3 DEF Copy, InsertSurvey, InsertedSurvey, AtOp
  <2>5. QED
    BY <1>2, <1>11, <2>4 DEF Copy
<1>12. CASE Commit(r)
  <2> DEFINE row == [surveys[q.id] EXCEPT !.published = q.next, !.status = "live"]
  <2>1. Exists(q.id) /\ At(r, "commit") /\ q.next \in Nat
    BY <1>0, <1>1, <1>12 DEF Commit, RequestOK, At, BusySlots
  <2>2. /\ row \in Rows /\ row.owner = surveys[q.id].owner
        /\ row.access = surveys[q.id].access /\ row.display = surveys[q.id].display
    BY <1>3, <2>1 DEF Rows, Statuses
  <2>3. surveys' = [surveys EXCEPT ![q.id] = row]
    BY <1>0, <1>1, <1>12 DEF Commit, CommitRelease, TypeOK
  <2> HIDE DEF row
  <2>4. /\ surveys'[q.id] = row
        /\ \A id \in SurveyIds : id # q.id => surveys'[id] = surveys[id]
    BY <1>0, <1>1, <2>3 DEF TypeOK
  <2>5. WroteRow(r)
    BY <1>1, <2>1, <2>2, <2>4 DEF WroteRow
  <2>6. Done(r)
    BY <1>0, <1>1, <1>12, AnsweredDone DEF Commit, Done
  <2>7. QED
    BY <1>12, <2>5, <2>6
<1>13. CASE IdTaken(r) \/ InsertVersion(r) \/ InsertRefused(r) \/ SetPublished(r)
  BY <1>13 DEF IdTaken, InsertVersion, InsertRefused, SetPublished
<1>14. QED
  BY <1>5, <1>6, <1>7, <1>8, <1>9, <1>10, <1>11, <1>12, <1>13 DEF Writes

\* The row of an existing survey differs after a step only when the request that
\* is answered in it wrote that row.
LEMMA RowChanges ==
  ASSUME IInv, [Next]_vars, NEW id \in SurveyIds, Exists(id), surveys'[id] # surveys[id]
  PROVE  \E r \in Slots : Done(r) /\ WroteRow(r) /\ req[r].id = id
<1>1. PICK r \in Slots : Requests(r) \/ Reads(r) \/ Writes(r) \/ Fail(r)
  BY DEF Next, vars
<1>2. ~UNCHANGED store
  BY DEF store
<1>3. Writes(r)
  BY <1>1, <1>2, ReadsLeaveStore
<1>4. CASE Done(r) /\ WroteRow(r)
  BY <1>4 DEF WroteRow
<1>5. CASE InsertedSurvey(r)
  <2>1. PICK new \in SurveyIds : /\ ~Exists(new)
                                  /\ \E row : surveys' = [surveys EXCEPT ![new] = row]
    BY <1>5 DEF InsertedSurvey
  <2>2. QED
    BY <2>1 DEF IInv, TypeInv, TypeOK
<1>6. QED
  BY <1>2, <1>3, <1>4, <1>5, WriteEffects

\* A row appears only when a create or a copy is answered.
LEMMA RowAppears ==
  ASSUME IInv, [Next]_vars, NEW id \in SurveyIds, ~Exists(id), Exists(id)'
  PROVE  \E r \in Slots :
           /\ Done(r) /\ At(r, "write") /\ req[r].op \in {"create", "copy"}
           /\ \E d \in [body : Bodies, version : Nat], a \in AccessModes, b \in DisplayModes :
                /\ surveys'[id] = NewRow(req[r].user, d, a, b)
                /\ req[r].op = "copy" => d.body # req[r].meta.draft.body
<1>1. PICK r \in Slots : Requests(r) \/ Reads(r) \/ Writes(r) \/ Fail(r)
  BY DEF Next, vars, Exists
<1>2. ~UNCHANGED store
  BY DEF store, Exists
<1>3. Writes(r)
  BY <1>1, <1>2, ReadsLeaveStore
<1>4. CASE Done(r) /\ WroteRow(r)
  BY <1>4 DEF WroteRow, Exists
<1>5. CASE Done(r) /\ InsertedSurvey(r)
  <2>1. PICK new \in SurveyIds, d \in [body : Bodies, version : Nat],
             a \in AccessModes, b \in DisplayModes :
          /\ surveys' = [surveys EXCEPT ![new] = NewRow(req[r].user, d, a, b)]
          /\ req[r].op = "copy" => d.body # req[r].meta.draft.body
    BY <1>5 DEF InsertedSurvey
  <2>2. surveys \in [SurveyIds -> Rows \cup {NoRow}]
    BY DEF IInv, TypeInv, TypeOK
  <2>3. new = id /\ surveys'[id] = NewRow(req[r].user, d, a, b)
    BY <2>1, <2>2 DEF Exists
  <2>4. QED
    BY <1>5, <2>1, <2>3 DEF InsertedSurvey
<1>6. QED
  BY <1>2, <1>3, <1>4, <1>5, WriteEffects

-----------------------------------------------------------------------------
\* Nobody writes back a mode or an owner that was read earlier.
LEMMA ModesStep ==
  ASSUME IInv, [Next]_vars, NEW id \in SurveyIds, Exists(id)
  PROVE  /\ surveys'[id] # NoRow /\ surveys'[id].owner = surveys[id].owner
         /\ surveys'[id].access # surveys[id].access =>
              \E r \in Slots : Answers(r, "setAccess") /\ req[r].mode = surveys'[id].access
         /\ surveys'[id].display # surveys[id].display =>
              \E r \in Slots : Answers(r, "setDisplay") /\ req[r].mode = surveys'[id].display
<1>1. CASE surveys'[id] = surveys[id]
  BY <1>1 DEF Exists
<1>2. CASE surveys'[id] # surveys[id]
  <2>1. PICK r \in Slots : Done(r) /\ WroteRow(r) /\ req[r].id = id
    BY <1>2, RowChanges
  <2>2. QED
    BY <2>1, NoRowAssumption DEF WroteRow, Done, Answers
<1>3. QED
  BY <1>1, <1>2

\* The owner of a survey never changes, and its modes only by their own
\* operations and to the value asked for, although every request works on a row
\* it read earlier (survey.go:312-343, dao.go:94-96).
THEOREM ModesKept == Spec => NoLostMode
<1>1. IInv /\ [Next]_vars =>
        [\A id \in SurveyIds :
           Exists(id) =>
             /\ surveys'[id] # NoRow /\ surveys'[id].owner = surveys[id].owner
             /\ surveys'[id].access # surveys[id].access =>
                  \E r \in Slots :
                    Answers(r, "setAccess") /\ req[r].mode = surveys'[id].access
             /\ surveys'[id].display # surveys[id].display =>
                  \E r \in Slots :
                    Answers(r, "setDisplay") /\ req[r].mode = surveys'[id].display]_vars
  BY ModesStep
<1>2. QED
  BY <1>1, Inductive, PTL DEF Spec, NoLostMode

-----------------------------------------------------------------------------
\* Whose survey.

\* What a request was admitted for stays true while it waits: its role, and,
\* once owned has found the row, its right to that survey.
OwnerInv(r) ==
  ~Idle(r) =>
    /\ Admitted(req[r].user, req[r].op)
    /\ ~At(r, "load") /\ ~AtOp(r, "write", "create") =>
         Exists(req[r].id) /\ OwnedBy(req[r].user, surveys[req[r].id])

OwnersInv == \A r \in Slots : OwnerInv(r)

\* A request that does not move keeps its right: owners never change.
LEMMA RightKept ==
  ASSUME IInv, [Next]_vars, NEW r \in Slots, OwnerInv(r), ~Idle(r), ~Idle(r)',
         req'[r].user = req[r].user, req'[r].op = req[r].op, req'[r].id = req[r].id,
         ~At(r, "load") /\ ~AtOp(r, "write", "create")
  PROVE  OwnerInv(r)'
<1>1. req[r].id \in SurveyIds
  BY BusyRequest DEF IInv, TypeInv
<1>2. surveys'[req[r].id].owner = surveys[req[r].id].owner /\ Exists(req[r].id)'
  BY <1>1, ModesStep DEF OwnerInv, Exists
<1>3. QED
  BY <1>2 DEF OwnerInv, OwnedBy, Admitted, Exists

LEMMA RightOfMover ==
  ASSUME IInv, NEW r \in Slots, OwnerInv(r), [Next]_vars,
         Requests(r) \/ Reads(r) \/ Writes(r) \/ Fail(r)
  PROVE  OwnerInv(r)'
<1>0. TypeOK
  BY DEF IInv, TypeInv
<1>1. ASSUME NEW reply, NEW n, AnswerVersion(r, reply, n)
      PROVE  OwnerInv(r)'
  BY <1>0, <1>1, AnsweredDone DEF OwnerInv, Idle
<1>2. CASE Arrive(r)
  <2>1. PICK u \in Users, op \in Ops, id \in SurveyIds :
          /\ Admitted(u, op)
          /\ \E p, m : req' = [req EXCEPT ![r] =
               [pc |-> IF op = "create" THEN "write" ELSE "load",
                user |-> u, op |-> op, id |-> id, payload |-> p, mode |-> m,
                meta |-> NoRow, next |-> 0]]
    BY <1>2 DEF Arrive
  <2>2. /\ req'[r].pc = IF op = "create" THEN "write" ELSE "load"
        /\ req'[r].user = u /\ req'[r].op = op
    BY <1>0, <2>1 DEF TypeOK
  <2>3. QED
    BY <2>1, <2>2 DEF OwnerInv, At, AtOp, Admitted
<1>3. CASE Load(r)
  <2>1. req[r] \in BusySlots /\ ~Idle(r)
    BY <1>0, <1>3, BusyRequest DEF Load, At, Idle
  <2>2. /\ req'[r].user = req[r].user /\ req'[r].op = req[r].op /\ req'[r].id = req[r].id
    BY <1>0, <1>3, <2>1 DEF Load, TypeOK, BusySlots
  <2>3. Owned(r) /\ surveys' = surveys
    BY <1>3 DEF Load, store
  <2>4. QED
    BY <2>1, <2>2, <2>3 DEF OwnerInv, Owned, OwnedBy, Admitted, Exists
\* A publish on its way through its transaction.
<1>4. ASSUME req[r].pc \in {"max", "insert", "point"}, ~Idle(r)',
             req'[r].user = req[r].user, req'[r].op = req[r].op, req'[r].id = req[r].id
      PROVE  OwnerInv(r)'
  BY <1>4, RightKept DEF Idle, At, AtOp
<1>5. CASE PublishNext(r)
  <2>1. req[r] \in BusySlots /\ req[r].pc = "max"
    BY <1>0, <1>5, BusyRequest DEF PublishNext, At, Idle
  <2>2. /\ req'[r].user = req[r].user /\ req'[r].op = req[r].op /\ req'[r].id = req[r].id
        /\ req'[r].pc = "insert"
    BY <1>0, <1>5, <2>1 DEF PublishNext, TypeOK, BusySlots
  <2>3. QED
    BY <1>4, <2>1, <2>2 DEF Idle
<1>6. CASE InsertVersion(r) \/ SetPublished(r)
  <2>1. /\ req[r] \in BusySlots /\ req[r].pc \in {"insert", "point"}
        /\ \E stage \in {"point", "commit"} : Goto(r, stage)
    BY <1>0, <1>6, BusyRequest DEF InsertVersion, SetPublished, At, Idle
  <2>2. /\ req'[r].user = req[r].user /\ req'[r].op = req[r].op /\ req'[r].id = req[r].id
        /\ req'[r].pc \in {"point", "commit"}
    BY <1>0, <2>1 DEF Goto, TypeOK, BusySlots
  <2>3. QED
    BY <1>4, <2>1, <2>2 DEF Idle
<1>7. CASE Forbid(r) \/ RefuseEarly(r) \/ Fail(r)
  BY <1>1, <1>7 DEF Forbid, RefuseEarly, Fail, Answer
<1>8. CASE LoadMissing(r) \/ LoadRefused(r) \/ LoadRead(r)
           \/ PublishUnchanged(r) \/ PublishPanic(r)
  BY <1>1, <1>8 DEF LoadMissing, LoadRefused, LoadRead, PublishUnchanged, PublishPanic, Answer
<1>9. CASE Update(r) \/ Close(r) \/ Reopen(r) \/ SetAnswerAccess(r) \/ SetDisplayMode(r)
           \/ Create(r) \/ Copy(r) \/ IdTaken(r) \/ InsertRefused(r) \/ Commit(r)
  BY <1>1, <1>9 DEF Update, Close, Reopen, SetAnswerAccess, SetDisplayMode, Create, Copy,
                    IdTaken, InsertRefused, Commit, AnswerWrite, Answer
<1>10. QED
  BY <1>2, <1>3, <1>5, <1>6, <1>7, <1>8, <1>9 DEF Requests, Reads, Writes

LEMMA OwnersStep ==
  ASSUME IInv, OwnersInv, [Next]_vars
  PROVE  OwnersInv'
<1>1. CASE UNCHANGED vars
  BY <1>1 DEF vars, OwnersInv, OwnerInv, Idle, At, AtOp, Exists, OwnedBy, Admitted
<1>2. ASSUME NEW r \in Slots, Requests(r) \/ Reads(r) \/ Writes(r) \/ Fail(r)
      PROVE  OwnersInv'
  <2>1. OwnerInv(r)' /\ OthersWait(r)
    BY <1>2, RightOfMover, OneMoves DEF OwnersInv, IInv, TypeInv
  <2>2. ASSUME NEW s \in Slots, s # r
        PROVE  OwnerInv(s)'
    <3>1. req'[s] = req[s] /\ OwnerInv(s)
      BY <2>1, <2>2 DEF OthersWait, OwnersInv
    <3>2. CASE Idle(s) \/ At(s, "load") \/ AtOp(s, "write", "create")
      BY <3>1, <3>2 DEF OwnerInv, Idle, At, AtOp, Admitted
    <3>3. CASE ~Idle(s) /\ ~At(s, "load") /\ ~AtOp(s, "write", "create")
      BY <3>1, <3>3, RightKept DEF Idle
    <3>4. QED
      BY <3>2, <3>3
  <2>3. QED
    BY <2>1, <2>2 DEF OwnersInv
<1>3. QED
  BY <1>1, <1>2 DEF Next

\* In every reachable state a request past owned still has its right to the
\* survey it is about to change, whatever happened since it read the row
\* (survey.go:82-97).
THEOREM RightsHold == Spec => []OwnersInv
<1>1. Init => OwnersInv
  BY DEF Init, OwnersInv, OwnerInv, Idle
<1>2. IInv /\ OwnersInv /\ [Next]_vars => OwnersInv'
  BY OwnersStep
<1>3. QED
  BY <1>1, <1>2, Inductive, PTL DEF Spec

\* Only the owner or an admin, with the capability of the operation, changes an
\* existing survey (survey.go:82-97, server.go:72-83).
THEOREM OwnersOnly == Spec => OnlyOwnersChange
<1>1. IInv /\ OwnersInv /\ [Next]_vars =>
        [\A id \in SurveyIds :
           Exists(id) /\ surveys'[id] # surveys[id] =>
             \E r \in Slots :
               /\ ~Idle(r) /\ req'[r].pc = "idle"
               /\ req[r].id = id
               /\ OwnedBy(req[r].user, surveys[id])
               /\ Admitted(req[r].user, req[r].op)]_vars
  <2>1. SUFFICES ASSUME IInv, OwnersInv, [Next]_vars, NEW id \in SurveyIds,
                        Exists(id), surveys'[id] # surveys[id]
                 PROVE  \E r \in Slots :
                          /\ ~Idle(r) /\ req'[r].pc = "idle"
                          /\ req[r].id = id
                          /\ OwnedBy(req[r].user, surveys[id])
                          /\ Admitted(req[r].user, req[r].op)
    OBVIOUS
  <2>2. PICK r \in Slots : Done(r) /\ WroteRow(r) /\ req[r].id = id
    BY <2>1, RowChanges
  <2>3. ~At(r, "load") /\ ~AtOp(r, "write", "create")
    BY <2>2 DEF WroteRow, At, AtOp
  <2>4. QED
    BY <2>1, <2>2, <2>3 DEF OwnersInv, OwnerInv, Done
<1>2. QED
  BY <1>1, Inductive, RightsHold, PTL DEF Spec, OnlyOwnersChange

\* A new survey is an unpublished draft of the user who asked for it, and a copy
\* is made only for someone who may read the original (survey.go:191-265).
THEOREM NewSurveysFresh == Spec => NewSurveysAreFreshDrafts
<1>1. IInv /\ OwnersInv /\ [Next]_vars =>
        [\A id \in SurveyIds :
           surveys'[id] # NoRow /\ surveys[id] = NoRow =>
             /\ surveys'[id].status = "draft" /\ surveys'[id].published = 0
             /\ surveys'[id].draft.body # "null"
             /\ \E r \in Slots :
                  /\ Answers(r, "create") \/ Answers(r, "copy")
                  /\ surveys'[id].owner = req[r].user
                  /\ req[r].op = "copy" =>
                       /\ OwnedBy(req[r].user, surveys[req[r].id])
                       /\ surveys'[id].draft.body # req[r].meta.draft.body]_vars
  <2>1. SUFFICES ASSUME IInv, OwnersInv, [Next]_vars, NEW id \in SurveyIds,
                        surveys'[id] # NoRow, surveys[id] = NoRow
                 PROVE  /\ surveys'[id].status = "draft" /\ surveys'[id].published = 0
                        /\ surveys'[id].draft.body # "null"
                        /\ \E r \in Slots :
                             /\ Answers(r, "create") \/ Answers(r, "copy")
                             /\ surveys'[id].owner = req[r].user
                             /\ req[r].op = "copy" =>
                                  /\ OwnedBy(req[r].user, surveys[req[r].id])
                                  /\ surveys'[id].draft.body # req[r].meta.draft.body
    OBVIOUS
  <2>2. PICK r \in Slots :
          /\ Done(r) /\ At(r, "write") /\ req[r].op \in {"create", "copy"}
          /\ \E d \in [body : Bodies, version : Nat], a \in AccessModes, b \in DisplayModes :
               /\ surveys'[id] = NewRow(req[r].user, d, a, b)
               /\ req[r].op = "copy" => d.body # req[r].meta.draft.body
    BY <2>1, RowAppears DEF Exists
  <2>3. PICK d \in [body : Bodies, version : Nat], a \in AccessModes, b \in DisplayModes :
          /\ surveys'[id] = NewRow(req[r].user, d, a, b)
          /\ req[r].op = "copy" => d.body # req[r].meta.draft.body
    BY <2>2
  <2>4. /\ surveys'[id].status = "draft" /\ surveys'[id].published = 0
        /\ surveys'[id].draft = d /\ surveys'[id].owner = req[r].user
    BY <2>3 DEF NewRow
  <2>5. d.body # "null"
    BY StoreAssumption
  <2>6. req[r].op = "copy" => OwnedBy(req[r].user, surveys[req[r].id])
    BY <2>1, <2>2 DEF OwnersInv, OwnerInv, Done, At, AtOp
  <2>7. QED
    BY <2>2, <2>3, <2>4, <2>5, <2>6 DEF Done, Answers
<1>2. QED
  BY <1>1, Inductive, RightsHold, PTL DEF Spec, NewSurveysAreFreshDrafts

-----------------------------------------------------------------------------
\* Publish tells the truth.

\* Version n of survey id, as it is after the step, holds the draft d.
Releases(id, n, d, v) ==
  /\ v \in versions' /\ v.survey = id /\ v.version = n
  /\ EqIgnoringVersion(v.schema, d)
  /\ \A w \in versions' : w.survey = v.survey => w.version <= v.version

\* Unchanged names the newest version, which says what the draft says.
LEMMA UnchangedTruthful ==
  ASSUME IInv, NEW r \in Slots, PublishUnchanged(r)
  PROVE  \E v \in versions : Releases(req[r].id, MaxVersion(req[r].id), req[r].meta.draft, v)
<1> DEFINE id == req[r].id
           n  == MaxVersion(id)
<1>1. id \in SurveyIds
  BY BusyRequest DEF PublishUnchanged, At, Idle, IInv, TypeInv
<1>2. n = Pub(id) /\ n \in Nat /\ n > 0 /\ versions' = versions
  BY <1>1, MaxVersionIsPub DEF PublishUnchanged, SameAsNewest, store
<1>3. PICK v \in versions : v.survey = id /\ v.version = n
  BY <1>1, <1>2 DEF IInv, HistoryInv, HasVersion, VersionsOf
<1>4. EqIgnoringVersion(v.schema, req[r].meta.draft)
  <2>1. EqIgnoringVersion(req[r].meta.draft, VersionSchema(id, n))
    BY DEF PublishUnchanged, SameAsNewest
  <2>2. VersionSchema(id, n) = v.schema
    BY <1>3, VersionSchemaIs
  <2>3. QED
    BY <2>1, <2>2 DEF EqIgnoringVersion
<1>5. \A w \in versions : w.survey = id => w.version <= n
  BY <1>2 DEF IInv, HistoryInv
<1> HIDE DEF n
<1>6. QED
  BY <1>2, <1>3, <1>4, <1>5 DEF Releases, n

\* A commit adds the version it answers with, past all that were there.
LEMMA CommitTruthful ==
  ASSUME IInv, NEW r \in Slots, Commit(r)
  PROVE  /\ req[r].next = Pub(req[r].id) + 1
         /\ \E v : /\ versions' = versions \cup {v} /\ v \notin versions
                   /\ v.schema.body = req[r].meta.draft.body
                   /\ Releases(req[r].id, req[r].next, req[r].meta.draft, v)
<1> DEFINE id == req[r].id
           n  == req[r].next
           d  == req[r].meta.draft
           v  == [survey |-> id, version |-> n, schema |-> Stamp(d, n)]
<1>1. RequestOK(r) /\ PublisherInv(r) /\ req[r].pc = "commit" /\ req[r] \in BusySlots
  BY BusyRequest DEF IInv, TypeInv, Commit, At, Idle
<1>2. id \in SurveyIds /\ n \in Nat /\ d \in Drafts
  BY <1>1 DEF RequestOK, BusySlots, Rows
<1>3. n = Pub(id) + 1 /\ Pub(id) \in Nat
  BY <1>1, <1>2 DEF PublisherInv, IInv, TypeInv, TypeOK, Pub, Exists, Rows
<1>4. Stamp(d, n).body = d.body
  BY <1>2 DEF Stamp, Drafts
<1>5. versions' = versions \cup {v}
  BY DEF Commit, CommitRelease
<1>6. v.survey = id /\ v.version = n /\ v.schema = Stamp(d, n)
  OBVIOUS
<1> HIDE DEF v, n, d, id
<1>7. \A w \in versions : w.survey = id => w.version <= Pub(id) /\ w.version \in Nat
  BY DEF IInv, HistoryInv, TypeInv, TypeOK, VersionRows
<1>8. v \notin versions
  BY <1>3, <1>6, <1>7
<1>9. \A w \in versions' : w.survey = id => w.version <= n
  BY <1>2, <1>3, <1>5, <1>6, <1>7
<1>10. Releases(id, n, d, v)
  BY <1>4, <1>5, <1>6, <1>9 DEF Releases, EqIgnoringVersion
<1>11. QED
  BY <1>3, <1>4, <1>5, <1>6, <1>8, <1>10 DEF id, n, d

\* Every other answer to a publish is an error or a refusal.
LEMMA OtherAnswers ==
  ASSUME IInv, NEW r \in Slots, Answers(r, "publish"), req'[r].reply \in {"ok", "unchanged"},
         Requests(r) \/ Reads(r) \/ Writes(r) \/ Fail(r)
  PROVE  PublishUnchanged(r) \/ Commit(r)
<1>0. TypeOK /\ ~Idle(r) /\ req[r].op = "publish" /\ req'[r].pc = "idle" /\ RequestOK(r)
  BY DEF IInv, TypeInv, Answers
<1>1. ASSUME NEW reply, NEW n, AnswerVersion(r, reply, n), reply \notin {"ok", "unchanged"}
      PROVE  FALSE
  BY <1>0, <1>1, AnsweredDone
<1>2. req[r] \in BusySlots
  BY <1>0, BusyRequest
<1>3. CASE LoadMissing(r) \/ LoadRefused(r) \/ PublishPanic(r) \/ InsertRefused(r) \/ Fail(r)
           \/ IdTaken(r)
  BY <1>1, <1>3 DEF LoadMissing, LoadRefused, PublishPanic, InsertRefused, Fail, IdTaken, Answer
<1>4. CASE Load(r) \/ PublishNext(r)
  BY <1>0, <1>2, <1>4 DEF Load, PublishNext, TypeOK, BusySlots
<1>5. CASE InsertVersion(r) \/ SetPublished(r)
  BY <1>0, <1>2, <1>5 DEF InsertVersion, SetPublished, Goto, TypeOK, BusySlots
<1>6. QED
  BY <1>0, <1>3, <1>4, <1>5
     DEF Requests, Forbid, RefuseEarly, Arrive, Reads, LoadRead, Writes, Update, Close, Reopen,
         SetAnswerAccess, SetDisplayMode, Create, Copy, AtOp

\* A publish that answers with version n means it: n is the newest snapshot and
\* says what the draft said, made by this request or, for unchanged, there
\* before (survey.go:297, dao.go:91-98).
THEOREM PublishTruthful == Spec => PublishAnswersTruthfully
<1>1. IInv /\ [Next]_vars =>
        [\A r \in Slots :
           Answers(r, "publish") /\ req'[r].reply \in {"ok", "unchanged"} =>
             \E v \in versions' :
               /\ v.survey = req[r].id
               /\ v.version = req'[r].version
               /\ EqIgnoringVersion(v.schema, req[r].meta.draft)
               /\ (v \in versions) <=> (req'[r].reply = "unchanged")
               /\ \A w \in versions' : w.survey = v.survey => w.version <= v.version]_vars
  <2>1. SUFFICES ASSUME IInv, Next, NEW r \in Slots,
                        Answers(r, "publish"), req'[r].reply \in {"ok", "unchanged"}
                 PROVE  \E v \in versions' :
                          /\ Releases(req[r].id, req'[r].version, req[r].meta.draft, v)
                          /\ (v \in versions) <=> (req'[r].reply = "unchanged")
    BY DEF Releases
  <2>2. PICK s \in Slots : Requests(s) \/ Reads(s) \/ Writes(s) \/ Fail(s)
    BY <2>1 DEF Next
  <2>0. TypeOK
    BY <2>1 DEF IInv, TypeInv
  <2>3. s = r
    BY <2>0, <2>1, <2>2, OneMoves DEF OthersWait, Answers, Idle
  <2>4. PublishUnchanged(r) \/ Commit(r)
    BY <2>1, <2>2, <2>3, OtherAnswers
  <2>5. CASE PublishUnchanged(r)
    <3>1. req'[r].version = MaxVersion(req[r].id) /\ req'[r].reply = "unchanged"
      BY <2>0, <2>5 DEF PublishUnchanged, AnswerVersion, TypeOK
    <3>2. QED
      BY <2>1, <2>5, <3>1, UnchangedTruthful DEF Releases
  <2>6. CASE Commit(r)
    <3>1. PICK reply \in {"ok", "error"} :
            AnswerVersion(r, reply, IF reply = "ok" THEN req[r].next ELSE 0)
      BY <2>6 DEF Commit
    <3>2. req'[r].reply = "ok" /\ req'[r].version = req[r].next
      BY <2>0, <2>1, <3>1 DEF AnswerVersion, TypeOK
    <3>3. QED
      BY <2>1, <2>6, <3>2, CommitTruthful DEF Releases
  <2>7. QED
    BY <2>4, <2>5, <2>6
<1>2. QED
  BY <1>1, Inductive, PTL DEF Spec, PublishAnswersTruthfully

-----------------------------------------------------------------------------
\* The statements add up to VersionHistory.

LEMMA HistoryIs ==
  /\ History = [id \in SurveyIds |-> [n \in 1..Pub(id) |-> VersionSchema(id, n).body]]
  /\ History' = [id \in SurveyIds |-> [n \in 1..Pub(id)' |-> VersionSchema(id, n)'.body]]
BY DEF History, Pub

\* A step that adds no version leaves the abstract history alone.
LEMMA HistoryKeeps ==
  ASSUME versions' = versions, \A id \in SurveyIds : Pub(id)' = Pub(id)
  PROVE  History' = History
<1>1. ASSUME NEW id, NEW n PROVE VersionSchema(id, n)' = VersionSchema(id, n)
  BY DEF VersionSchema, VersionsOf
<1>2. QED
  BY <1>1, HistoryIs

\* The history of a survey as a sequence: one content for each version up to
\* the pointer, that of the row with its number.
HistoryTyped ==
  \A id \in SurveyIds :
    /\ Pub(id) \in Nat
    /\ History[id] \in Seq(Bodies) /\ Len(History[id]) = Pub(id)
    /\ \A v \in versions : v.survey = id => History[id][v.version] = v.schema.body

LEMMA HistoryType == IInv => HistoryTyped
<1> SUFFICES ASSUME IInv, NEW id \in SurveyIds
             PROVE  /\ Pub(id) \in Nat
                    /\ History[id] \in Seq(Bodies) /\ Len(History[id]) = Pub(id)
                    /\ \A v \in versions :
                         v.survey = id => History[id][v.version] = v.schema.body
  BY DEF HistoryTyped
<1>1. Pub(id) \in Nat
  BY DEF IInv, TypeInv, TypeOK, Pub, Exists, Rows
<1>2. History[id] = [n \in 1..Pub(id) |-> VersionSchema(id, n).body]
  BY HistoryIs
<1>3. ASSUME NEW n \in 1..Pub(id)
      PROVE  VersionSchema(id, n).body \in Bodies
  <2>1. PICK v \in versions : v.survey = id /\ v.version = n
    BY DEF IInv, HistoryInv, HasVersion, VersionsOf
  <2>2. VersionSchema(id, n) = v.schema
    BY <2>1, VersionSchemaIs
  <2>3. v.schema \in Schemas
    BY DEF IInv, TypeInv, TypeOK, VersionRows
  <2>4. QED
    BY <2>2, <2>3 DEF Schemas
<1>4. History[id] \in Seq(Bodies) /\ Len(History[id]) = Pub(id)
  BY <1>1, <1>2, <1>3
<1>5. ASSUME NEW v \in versions, v.survey = id
      PROVE  History[id][v.version] = v.schema.body
  <2>1. v.version \in 1..Pub(id)
    BY <1>1, <1>5 DEF IInv, HistoryInv, TypeInv, TypeOK, VersionRows
  <2>2. VersionSchema(id, v.version) = v.schema
    BY <1>5, VersionSchemaIs
  <2>3. QED
    BY <1>2, <2>1, <2>2
<1>6. QED
  BY <1>1, <1>4, <1>5

LEMMA HistoryTypeNext == IInv' => HistoryTyped'
BY HistoryType, PTL

\* A commit appends the draft that was read to the history of its survey.
LEMMA CommitAppends ==
  ASSUME IInv, IInv', NEW r \in Slots, Commit(r), WroteRow(r),
         NEW id, id = req[r].id, NEW c, c = req[r].meta.draft.body
  PROVE  /\ History' = [History EXCEPT ![id] = Append(@, c)]
         /\ c \in Bodies
<1>1. HistoryTyped /\ HistoryTyped'
  BY HistoryType, HistoryTypeNext
<1>2. id \in SurveyIds /\ \A i \in SurveyIds : i # id => Pub(i)' = Pub(i)
  BY DEF WroteRow, Pub, Exists
<1>3. PICK v : /\ versions' = versions \cup {v} /\ v \notin versions
               /\ v.schema.body = c /\ v \in versions' /\ v.survey = id
               /\ v.version = Pub(id) + 1
  BY CommitTruthful DEF Releases
<1>4. surveys'[id].published = req[r].next /\ req[r].next = Pub(id) + 1
  <2>1. surveys[id] \in Rows /\ id \in SurveyIds
    BY DEF WroteRow, IInv, TypeInv, TypeOK, Exists
  <2>2. surveys' = [surveys EXCEPT ![id] =
                      [surveys[id] EXCEPT !.published = req[r].next, !.status = "live"]]
    BY <2>1 DEF Commit, CommitRelease, IInv, TypeInv, TypeOK
  <2>3. surveys'[id] = [surveys[id] EXCEPT !.published = req[r].next, !.status = "live"]
    BY <2>1, <2>2 DEF IInv, TypeInv, TypeOK
  <2>4. QED
    BY <2>1, <2>3, CommitTruthful DEF Rows
<1>5. Pub(id)' = Pub(id) + 1
  <2>1. surveys'[id] # NoRow
    BY NoRowAssumption DEF WroteRow
  <2>2. QED
    BY <1>4, <2>1 DEF Pub, Exists
<1>6. ASSUME NEW i \in SurveyIds, NEW n \in 1..Pub(i)
      PROVE  History'[i][n] = History[i][n]
  <2>1. PICK w \in versions : w.survey = i /\ w.version = n
    BY DEF IInv, HistoryInv, HasVersion, VersionsOf
  <2>2. History[i][n] = w.schema.body /\ History'[i][n] = w.schema.body
    BY <1>1, <1>3, <2>1 DEF HistoryTyped
  <2>3. QED
    BY <2>2
<1>7. ASSUME NEW i \in SurveyIds, i # id
      PROVE  History'[i] = History[i]
  BY <1>1, <1>2, <1>6, <1>7 DEF HistoryTyped
<1>8. History'[id] = Append(History[id], c)
  <2>1. /\ History[id] \in Seq(Bodies) /\ Len(History[id]) = Pub(id) /\ Pub(id) \in Nat
        /\ History'[id] \in Seq(Bodies) /\ Len(History'[id]) = Pub(id) + 1
    BY <1>1, <1>2, <1>5 DEF HistoryTyped
  <2>2. History'[id][Pub(id) + 1] = c
    BY <1>1, <1>2, <1>3 DEF HistoryTyped
  <2>3. \A n \in 1..Pub(id) : History'[id][n] = History[id][n]
    BY <1>2, <1>6
  <2>4. c \in Bodies
    BY <2>1, <2>2
  <2>5. QED
    BY <2>1, <2>2, <2>3, <2>4
<1>9. c \in Bodies
  BY <1>1, <1>2, <1>3, <1>5 DEF HistoryTyped
<1>10. QED
  BY <1>2, <1>7, <1>8, <1>9, HistoryIs

\* What the abstract survey is before the commit of a publish: there, a draft
\* just as long as nothing was released, and its newest release is not the
\* content that comes now.
LEMMA CommitEnabled ==
  ASSUME IInv, NEW r \in Slots, Commit(r), WroteRow(r),
         NEW id, id = req[r].id, NEW c, c = req[r].meta.draft.body
  PROVE  /\ Phase[id] # "none"
         /\ Phase[id] = "draft" <=> History[id] = <<>>
         /\ History[id] # <<>> => History[id][Len(History[id])] # c
<1>1. HistoryTyped /\ TypeOK
  BY HistoryType DEF IInv, TypeInv
<1>2. id \in SurveyIds /\ Exists(id) /\ surveys[id] \in Rows
  BY <1>1 DEF WroteRow, Exists, TypeOK
<1>3. Phase[id] = surveys[id].status /\ surveys[id].status \in Statuses
  BY <1>2 DEF Phase, Rows
<1>4. surveys[id].status = "draft" <=> Pub(id) = 0
  BY <1>2 DEF IInv, HistoryInv, Pub
<1>5. /\ History[id] \in Seq(Bodies) /\ Len(History[id]) = Pub(id) /\ Pub(id) \in Nat
      /\ History[id] = <<>> <=> Pub(id) = 0
  BY <1>1, <1>2 DEF HistoryTyped
<1>6. ASSUME Pub(id) # 0
      PROVE  History[id][Pub(id)] # c
  <2>1. PICK v \in versions : v.survey = id /\ v.version = Pub(id)
    BY <1>2, <1>5, <1>6 DEF IInv, HistoryInv, HasVersion, VersionsOf
  <2>2. req[r].next = Pub(id) + 1 /\ PublisherInv(r) /\ At(r, "commit")
    BY CommitTruthful DEF Commit, IInv
  <2>3. v.schema.body # c
    BY <2>1, <2>2 DEF PublisherInv, VersionsOf, EqIgnoringVersion, At
  <2>4. QED
    BY <1>1, <1>2, <2>1, <2>3 DEF HistoryTyped
<1>7. QED
  BY <1>3, <1>4, <1>5, <1>6 DEF Statuses

\* Every step of the service is a step of VersionHistory or changes nothing there.
LEMMA StepRefines ==
  ASSUME IInv, IInv', [Next]_vars
  PROVE  [Abstract!Next]_<<Phase, History>>
<1>1. ASSUME UNCHANGED store PROVE UNCHANGED <<Phase, History>>
  <2>1. surveys' = surveys /\ versions' = versions
    BY <1>1 DEF store
  <2>2. \A id \in SurveyIds : Pub(id)' = Pub(id)
    BY <2>1 DEF Pub, Exists
  <2>3. QED
    BY <2>1, <2>2, HistoryKeeps DEF Phase, Exists
<1>2. CASE UNCHANGED vars
  BY <1>1, <1>2 DEF vars, store
<1>3. ASSUME NEW r \in Slots, Writes(r), ~UNCHANGED store
      PROVE  [Abstract!Next]_<<Phase, History>>
  <2>1. \/ WroteRow(r) /\ KeptHistory(r)
        \/ WroteRow(r) /\ Commit(r)
        \/ InsertedSurvey(r)
    BY <1>3, WriteEffects
  <2>2. CASE WroteRow(r) /\ KeptHistory(r)
    <3>0. PICK id : id = req[r].id
      OBVIOUS
    <3> DEFINE old == surveys[id].status
               new == surveys'[id].status
    <3>1. id \in SurveyIds /\ Exists(id) /\ Exists(id)' /\ surveys[id] \in Rows
      BY <2>2, <3>0, NoRowAssumption DEF WroteRow, Exists, IInv, TypeInv, TypeOK
    <3>2. History' = History
      BY <2>2, <3>0, <3>1, HistoryKeeps DEF WroteRow, KeptHistory, Pub, Exists
    <3>3. Phase[id] = old /\ Phase' = [Phase EXCEPT ![id] = new]
      BY <2>2, <3>0, <3>1 DEF Phase, WroteRow, Exists
    <3>4. old \in Statuses /\ (new = old \/ (old # "draft" /\ new \in {"live", "closed"}))
      BY <2>2, <3>0, <3>1 DEF KeptHistory, Rows
    <3> HIDE DEF old, new
    <3>5. \/ Phase' = Phase
          \/ old = "live" /\ new = "closed"
          \/ old = "closed" /\ new = "live"
      BY <3>1, <3>3, <3>4 DEF Statuses, Phase
    <3>6. QED
      BY <3>1, <3>2, <3>3, <3>5 DEF Abstract!Next, Abstract!Close, Abstract!Reopen
  <2>3. CASE WroteRow(r) /\ Commit(r)
    <3>0. PICK id, c : id = req[r].id /\ c = req[r].meta.draft.body
      OBVIOUS
    <3>1. id \in SurveyIds /\ Exists(id)' /\ surveys'[id].status = "live"
      <4>1. id \in SurveyIds /\ surveys[id] \in Rows
        BY <2>3, <3>0 DEF WroteRow, IInv, TypeInv, TypeOK, Exists
      <4>2. surveys'[id] = [surveys[id] EXCEPT !.published = req[r].next, !.status = "live"]
        BY <2>3, <3>0, <4>1 DEF Commit, CommitRelease, IInv, TypeInv, TypeOK
      <4>3. QED
        BY <2>3, <3>0, <4>1, <4>2, NoRowAssumption DEF WroteRow, Rows, Exists
    <3>2. Phase' = [Phase EXCEPT ![id] = "live"]
      BY <2>3, <3>0, <3>1 DEF Phase, WroteRow, Exists
    <3>3. History' = [History EXCEPT ![id] = Append(@, c)] /\ c \in Bodies
      BY <2>3, <3>0, CommitAppends
    <3>4. Abstract!Release(id, c)
      BY <2>3, <3>0, <3>2, <3>3, CommitEnabled DEF Abstract!Release, Abstract!Newest
    <3>5. QED
      BY <3>1, <3>3, <3>4 DEF Abstract!Next
  <2>4. CASE InsertedSurvey(r)
    <3>1. PICK id \in SurveyIds, d \in [body : Bodies, version : Nat],
               a \in AccessModes, b \in DisplayModes :
            /\ ~Exists(id)
            /\ surveys' = [surveys EXCEPT ![id] = NewRow(req[r].user, d, a, b)]
      BY <2>4 DEF InsertedSurvey
    <3>2. /\ surveys'[id].status = "draft" /\ surveys'[id].published = 0
          /\ \A i \in SurveyIds : i # id => surveys'[i] = surveys[i]
      BY <3>1 DEF NewRow, IInv, TypeInv, TypeOK
    <3>3. Exists(id)'
      <4>1. surveys'[id] = NewRow(req[r].user, d, a, b) /\ req[r].user \in Users
        BY <1>3, <3>1, WritersBusy, BusyRequest DEF IInv, TypeInv, TypeOK
      <4>2. NewRow(req[r].user, d, a, b) \in Rows
        BY <4>1 DEF NewRow, Rows, Statuses, Drafts
      <4>3. QED
        BY <4>1, <4>2, NoRowAssumption DEF Exists
    <3>4. Phase[id] = "none" /\ Phase' = [Phase EXCEPT ![id] = "draft"]
      <4>1. Phase[id] = "none"
        BY <3>1 DEF Phase
      <4>2. \A i \in SurveyIds : i # id => (Exists(i)' <=> Exists(i)) /\ surveys'[i] = surveys[i]
        BY <3>2 DEF Exists
      <4>3. QED
        BY <3>2, <3>3, <4>1, <4>2 DEF Phase
    <3>5. History' = History
      BY <2>4, <3>1, <3>2, <3>3, HistoryKeeps DEF InsertedSurvey, Pub, Exists
    <3>6. QED
      BY <3>4, <3>5 DEF Abstract!Next, Abstract!Draft
  <2>5. QED
    BY <2>1, <2>2, <2>3, <2>4
<1>4. QED
  BY <1>1, <1>2, <1>3, ReadsLeaveStore DEF Next

\* The requests of any number of users, cut into statements, never make a survey
\* go through anything but the life VersionHistory describes: releases are only
\* appended, each unlike the one before, and a survey that was published is
\* never a draft again (status.go:5-8, dao.go:91-143).
THEOREM ServiceRefinesHistory == Spec => RefinesVersionHistory
<1>1. Init => Abstract!Init
  <2>1. SUFFICES ASSUME Init PROVE Abstract!Init
    OBVIOUS
  <2>2. \A id \in SurveyIds : ~Exists(id) /\ Pub(id) = 0
    BY <2>1 DEF Init, StoreInit, Exists, Pub
  <2>3. \A id \in SurveyIds : History[id] = <<>>
    BY <2>2, HistoryIs
  <2>4. QED
    BY <2>2, <2>3, HistoryIs DEF Abstract!Init, Phase
<1>2. IInv /\ IInv' /\ [Next]_vars => [Abstract!Next]_<<Phase, History>>
  BY StepRefines
<1>3. QED
  BY <1>1, <1>2, Inductive, PTL DEF Spec, RefinesVersionHistory, Abstract!Spec
=============================================================================

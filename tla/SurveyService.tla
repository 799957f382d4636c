---------------------------- MODULE SurveyService ----------------------------
(***************************************************************************)
(* The survey service (internal/service/survey) over the store: requests   *)
(* of several users, each running one SQL statement after another while    *)
(* the others do the same.  There is no lock in the program; what keeps    *)
(* the requests apart is Postgres: the UNIQUE keys, and the row lock that  *)
(* an UPDATE inside a transaction holds until the transaction ends.        *)
(*                                                                         *)
(* A request slot is a request being served.  The row a request has read   *)
(* stays in its record while other slots change the table.                 *)
(***************************************************************************)
EXTENDS SurveyStore

CONSTANTS
  Slots,            \* requests served at the same time
  Ops,              \* operations the clients of this instance call
  ClientPayloads    \* the bodies they send

AllOps ==
  {"create", "copy", "read", "update", "publish", "close", "reopen",
   "setAccess", "setDisplay"}

ASSUME ServiceAssumption ==
  /\ Ops \subseteq AllOps
  /\ ClientPayloads \subseteq Payloads

VARIABLE
  req           \* the request in each slot

vars == <<surveys, versions, req>>

\* The capability each route asks RequireAuth for (server.go).
Capability ==
  [create |-> "survey:create", copy |-> "survey:copy", read |-> "survey:read",
   update |-> "survey:update", publish |-> "survey:publish",
   close |-> "survey:close", reopen |-> "survey:reopen",
   setAccess |-> "survey:update", setDisplay |-> "survey:update"]

Replies ==
  {"none", "ok", "unchanged", "forbidden", "badRequest", "notFound", "conflict", "error"}

\* The body, and the access or display mode, in a request of operation op.
NoPayload == [body |-> "absent", version |-> 0]

PayloadsFor(op) == IF op \in {"create", "update"} THEN ClientPayloads ELSE {NoPayload}

ModesFor(op) ==
  CASE op = "setAccess"  -> AccessModes \cup {"invalid"}
    [] op = "setDisplay" -> DisplayModes \cup {"invalid"}
    [] OTHER -> {"none"}

AllModes == AccessModes \cup DisplayModes \cup {"none"}

\* A slot between two requests keeps the last reply it sent, and the version
\* number in it when the reply was Publish's.
IdleSlots == [pc : {"idle"}, reply : Replies, version : Nat]

\* pc is the statement the request runs next: owned's SELECT; the one write of
\* most operations; and in Publish the MaxVersion query, InsertVersion,
\* SetPublished and COMMIT.
Stages == {"load", "write", "max", "insert", "point", "commit"}

\* meta is the row owned returned, kept where the code still uses its columns;
\* next is the version Publish is about to insert.
BusySlots ==
  [pc : Stages, user : Users, op : AllOps, id : SurveyIds,
   payload : Payloads, mode : AllModes, meta : Rows \cup {NoRow}, next : Nat]

Init ==
  /\ StoreInit
  /\ req = [r \in Slots |-> [pc |-> "idle", reply |-> "none", version |-> 0]]

-----------------------------------------------------------------------------
Idle(r) == req[r].pc = "idle"

At(r, stage) == req[r].pc = stage

AtOp(r, stage, op) == At(r, stage) /\ req[r].op = op

Goto(r, stage) == req' = [req EXCEPT ![r].pc = stage]

AnswerVersion(r, reply, n) ==
  req' = [req EXCEPT ![r] = [pc |-> "idle", reply |-> reply, version |-> n]]

Answer(r, reply) == AnswerVersion(r, reply, 0)

\* A write whose statement took effect is answered with success, or with an
\* error when the connection or the context is lost before the result is read.
AnswerWrite(r) == \E reply \in {"ok", "error"} : Answer(r, reply)

\* The row lock of a publish that has run SetPublished and not yet committed.
RowLocked(id) == \E r \in Slots : At(r, "commit") /\ req[r].id = id

\* The index entry of a version row inserted and not yet committed.
KeyHeld(id, n) ==
  \E r \in Slots :
    req[r].pc \in {"point", "commit"} /\ req[r].id = id /\ req[r].next = n

-----------------------------------------------------------------------------
\* A request arrives.

Admitted(u, op) == Can(RoleOf[u], Capability[op])

\* RequireAuth: the role lacks the capability, 403.
Forbid(r) ==
  /\ Idle(r)
  /\ \E u \in Users, op \in Ops : ~Admitted(u, op)
  /\ Answer(r, "forbidden")
  /\ UNCHANGED store

\* Faulty variant: the mode is left to the column's CHECK, which is missing.
RefusedEarly_AnyMode(op, payload, mode) == op = "create" /\ payload.body = "malformed"

\* The checks made before anything is read: the whitelists of SetAnswerAccess
\* and SetDisplayMode, and Create's json.Unmarshal.
RefusedEarly(op, payload, mode) ==
  \/ mode = "invalid"
  \/ op = "create" /\ payload.body = "malformed"

RefuseEarly(r) ==
  /\ Idle(r)
  /\ \E u \in Users, op \in Ops : \E p \in PayloadsFor(op), m \in ModesFor(op) :
       Admitted(u, op) /\ RefusedEarly(op, p, m)
  /\ Answer(r, "badRequest")
  /\ UNCHANGED store

\* Every other request goes on to its first statement; id is the survey it
\* names or, for Create, the id that id.New() drew.
Arrive(r) ==
  /\ Idle(r)
  /\ \E u \in Users, op \in Ops, id \in SurveyIds :
     \E p \in PayloadsFor(op), m \in ModesFor(op) :
       /\ Admitted(u, op)
       /\ ~RefusedEarly(op, p, m)
       /\ req' = [req EXCEPT ![r] =
            [pc |-> IF op = "create" THEN "write" ELSE "load",
             user |-> u, op |-> op, id |-> id, payload |-> p, mode |-> m,
             meta |-> NoRow, next |-> 0]]
  /\ UNCHANGED store

-----------------------------------------------------------------------------
\* owned: GetSurvey, the ownership check, and the guards on the row it read.

OwnedBy(u, row) == IsAdmin(RoleOf[u]) \/ row.owner = u

\* Faulty variant: the row is found, nobody asks whose it is.
Owned_Anyones(r) == Exists(req[r].id)

Owned(r) == Exists(req[r].id) /\ OwnedBy(req[r].user, surveys[req[r].id])

\* Faulty variant: Close without its guard on live.
StatusAllows_CloseAny(op, row) ==
  CASE op = "update" -> row.status = "draft"
    [] op = "reopen" -> row.status = "closed" /\ row.published # 0
    [] OTHER -> TRUE

\* The status each operation wants to read.
StatusAllows(op, row) ==
  CASE op = "update" -> row.status = "draft"
    [] op = "close"  -> row.status = "live"
    [] op = "reopen" -> row.status = "closed" /\ row.published # 0
    [] OTHER -> TRUE

\* Update parses its body after the status guard; an empty one does not parse.
Unreadable(op, payload) == op = "update" /\ payload.body \in {"malformed", "absent"}

\* The operations that use columns of the row after owned.
Remembered(op, row) == IF op \in {"publish", "copy"} THEN row ELSE NoRow

LoadMissing(r) ==
  /\ At(r, "load") /\ ~Owned(r)
  /\ Answer(r, "notFound")
  /\ UNCHANGED store

LoadRefused(r) ==
  /\ At(r, "load") /\ Owned(r)
  /\ LET row == surveys[req[r].id] IN
     \/ ~StatusAllows(req[r].op, row) /\ Answer(r, "conflict")
     \/ /\ StatusAllows(req[r].op, row)
        /\ Unreadable(req[r].op, req[r].payload)
        /\ Answer(r, "badRequest")
  /\ UNCHANGED store

\* Get answers with the draft it read.
LoadRead(r) ==
  /\ AtOp(r, "load", "read") /\ Owned(r)
  /\ Answer(r, "ok")
  /\ UNCHANGED store

Load(r) ==
  /\ At(r, "load") /\ Owned(r) /\ req[r].op # "read"
  /\ StatusAllows(req[r].op, surveys[req[r].id])
  /\ ~Unreadable(req[r].op, req[r].payload)
  /\ req' = [req EXCEPT
       ![r].meta = Remembered(req[r].op, surveys[req[r].id]),
       ![r].pc   = IF req[r].op = "publish" THEN "max" ELSE "write"]
  /\ UNCHANGED store

-----------------------------------------------------------------------------
\* The operations of one write.  An UPDATE waits for the row lock.

Update(r) ==
  /\ AtOp(r, "write", "update") /\ ~RowLocked(req[r].id)
  /\ SetDraft(req[r].id, req[r].payload)
  /\ AnswerWrite(r)

Close(r) ==
  /\ AtOp(r, "write", "close") /\ ~RowLocked(req[r].id)
  /\ SetStatus(req[r].id, "closed")
  /\ AnswerWrite(r)

Reopen(r) ==
  /\ AtOp(r, "write", "reopen") /\ ~RowLocked(req[r].id)
  /\ SetStatus(req[r].id, "live")
  /\ AnswerWrite(r)

SetAnswerAccess(r) ==
  /\ AtOp(r, "write", "setAccess") /\ ~RowLocked(req[r].id)
  /\ SetAccess(req[r].id, req[r].mode)
  /\ AnswerWrite(r)

SetDisplayMode(r) ==
  /\ AtOp(r, "write", "setDisplay") /\ ~RowLocked(req[r].id)
  /\ SetDisplay(req[r].id, req[r].mode)
  /\ AnswerWrite(r)

\* Create: defaults for what the client left out.
CreatedDraft(payload) ==
  IF payload.body \in {"null", "absent"}
    THEN [body |-> Minimal, version |-> 1]
    ELSE [payload EXCEPT !.version = IF @ = 0 THEN 1 ELSE @]

\* Copy: the copy mark on the title, version 1.
CopiedDraft(d) ==
  [body |-> MarkCopy[IF d.body = "null" THEN Blank ELSE d.body], version |-> 1]

NewRow(u, draft, access, display) ==
  [owner |-> u, status |-> "draft", draft |-> draft, published |-> 0,
   access |-> access, display |-> display]

Create(r) ==
  /\ AtOp(r, "write", "create")
  /\ InsertSurvey(req[r].id,
       NewRow(req[r].user, CreatedDraft(req[r].payload), "login_required", "single"))
  /\ AnswerWrite(r)

\* Faulty variant: the copy goes to the source's owner.
Copy_KeepsOwner(r) ==
  /\ AtOp(r, "write", "copy")
  /\ LET row == req[r].meta IN
     \E id \in SurveyIds :
       InsertSurvey(id, NewRow(row.owner, CopiedDraft(row.draft), row.access, row.display))
  /\ AnswerWrite(r)

\* The copy belongs to whoever asked for it, under an id drawn here.
Copy(r) ==
  /\ AtOp(r, "write", "copy")
  /\ LET row == req[r].meta IN
     \E id \in SurveyIds :
       InsertSurvey(id, NewRow(req[r].user, CopiedDraft(row.draft), row.access, row.display))
  /\ AnswerWrite(r)

\* The id drawn is taken: surveys_survey_id_key refuses the row.
IdTaken(r) ==
  /\ \/ AtOp(r, "write", "create") /\ Exists(req[r].id)
     \/ AtOp(r, "write", "copy") /\ \E id \in SurveyIds : Exists(id)
  /\ Answer(r, "error")
  /\ UNCHANGED store

-----------------------------------------------------------------------------
\* Publish (Store.Publish): one transaction over the draft that owned read.
\* MaxVersion and GetVersionSchema are one step: no version row ever changes,
\* so the second returns the same row whenever it runs.

\* Faulty variant: compares with the version that was current when the row
\* was read, not with the newest one now.
SameAsNewest_AsRead(r) ==
  LET n == req[r].meta.published IN
    n > 0 /\ EqIgnoringVersion(req[r].meta.draft, VersionSchema(req[r].id, n))

SameAsNewest(r) ==
  LET n == MaxVersion(req[r].id) IN
    n > 0 /\ EqIgnoringVersion(req[r].meta.draft, VersionSchema(req[r].id, n))

PublishUnchanged(r) ==
  /\ At(r, "max") /\ SameAsNewest(r)
  /\ AnswerVersion(r, "unchanged", MaxVersion(req[r].id))
  /\ UNCHANGED store

\* stampVersion of a JSON null assigns to a nil map: the recovery middleware
\* turns the panic into a 500 and the deferred Rollback ends the transaction.
PublishPanic(r) ==
  /\ At(r, "max") /\ ~SameAsNewest(r) /\ req[r].meta.draft.body = "null"
  /\ Answer(r, "error")
  /\ UNCHANGED store

PublishNext(r) ==
  /\ At(r, "max") /\ ~SameAsNewest(r) /\ req[r].meta.draft.body # "null"
  /\ req' = [req EXCEPT ![r].pc = "insert", ![r].next = MaxVersion(req[r].id) + 1]
  /\ UNCHANGED store

\* Faulty variant: survey_versions without its UNIQUE key.
InsertVersion_NoKey(r) ==
  /\ At(r, "insert")
  /\ Goto(r, "point")
  /\ UNCHANGED store

\* InsertVersion waits while another transaction holds the same key, and is
\* refused when that key is committed.
InsertVersion(r) ==
  /\ At(r, "insert") /\ ~KeyHeld(req[r].id, req[r].next)
  /\ ~HasVersion(req[r].id, req[r].next)
  /\ Goto(r, "point")
  /\ UNCHANGED store

\* Faulty variants: a refused key is tried again with the same number; it is
\* taken for an unchanged draft.
InsertRefused_TryAgain(r) ==
  /\ At(r, "insert") /\ ~KeyHeld(req[r].id, req[r].next)
  /\ HasVersion(req[r].id, req[r].next)
  /\ UNCHANGED vars

InsertRefused_Unchanged(r) ==
  /\ At(r, "insert") /\ ~KeyHeld(req[r].id, req[r].next)
  /\ HasVersion(req[r].id, req[r].next)
  /\ AnswerVersion(r, "unchanged", req[r].next)
  /\ UNCHANGED store

InsertRefused(r) ==
  /\ At(r, "insert") /\ ~KeyHeld(req[r].id, req[r].next)
  /\ HasVersion(req[r].id, req[r].next)
  /\ Answer(r, "error")
  /\ UNCHANGED store

\* SetPublished takes the row lock.
SetPublished(r) ==
  /\ At(r, "point") /\ ~RowLocked(req[r].id)
  /\ Goto(r, "commit")
  /\ UNCHANGED store

\* Faulty variant: SetPublished writes back the whole row that owned read.
Commit_WholeRow(r) ==
  /\ At(r, "commit")
  /\ versions' = versions \cup
       {[survey |-> req[r].id, version |-> req[r].next,
         schema |-> Stamp(req[r].meta.draft, req[r].next)]}
  /\ surveys' = [surveys EXCEPT ![req[r].id] =
       [req[r].meta EXCEPT !.published = req[r].next, !.status = "live"]]
  /\ AnswerVersion(r, "ok", req[r].next)

Commit(r) ==
  /\ At(r, "commit")
  /\ CommitRelease(req[r].id, req[r].next, Stamp(req[r].meta.draft, req[r].next))
  /\ \E reply \in {"ok", "error"} : AnswerVersion(r, reply, IF reply = "ok" THEN req[r].next ELSE 0)

-----------------------------------------------------------------------------
\* Faulty variant: Publish without a transaction, so the version row that was
\* inserted stays.
Fail_KeepsInsert(r) ==
  /\ ~Idle(r)
  /\ Answer(r, "error")
  /\ versions' = versions \cup
       {[survey |-> q.id, version |-> q.next, schema |-> Stamp(q.meta.draft, q.next)] :
          q \in {req[s] : s \in {s \in {r} : req[s].pc \in {"point", "commit"}}}}
  /\ UNCHANGED surveys

\* A statement fails, the client goes away (its context cancels the query) or
\* the server stops: an open transaction is rolled back, nothing is written.
Fail(r) ==
  /\ ~Idle(r)
  /\ Answer(r, "error")
  /\ UNCHANGED store

Requests(r) == Forbid(r) \/ RefuseEarly(r) \/ Arrive(r)

Reads(r) ==
  \/ LoadMissing(r) \/ LoadRefused(r) \/ LoadRead(r) \/ Load(r)
  \/ PublishUnchanged(r) \/ PublishPanic(r) \/ PublishNext(r)

\* The statements that may have to wait for a lock.
Writes(r) ==
  \/ Update(r) \/ Close(r) \/ Reopen(r) \/ SetAnswerAccess(r) \/ SetDisplayMode(r)
  \/ Create(r) \/ Copy(r) \/ IdTaken(r)
  \/ InsertVersion(r) \/ InsertRefused(r) \/ SetPublished(r) \/ Commit(r)

Next == \E r \in Slots : Requests(r) \/ Reads(r) \/ Writes(r) \/ Fail(r)

Spec == Init /\ [][Next]_vars
=============================================================================

------------------------------ MODULE PoolProofs ------------------------------
(***************************************************************************)
(* The server on its connection pool does nothing the two services alone   *)
(* would not do, so what is proved of them holds of it; and connections    *)
(* are accounted for, whatever the size of the pool.                       *)
(***************************************************************************)
EXTENDS ConnectionPool, SubmissionProofs, SurveyStepProofs

LEMMA StepOfServices ==
  ASSUME [PoolNext]_poolVars PROVE [SubNext]_allVars
<1>1. CASE UNCHANGED poolVars
  BY <1>1 DEF poolVars, allVars
<1>2. ASSUME NEW x, Acquire(x) PROVE UNCHANGED allVars
  BY <1>2 DEF Acquire
<1>3. ASSUME NEW r \in Slots, SelectAlone(r) \/ RequestStatement(r) PROVE SubNext
  BY <1>3 DEF SelectAlone, RequestStatement, SubNext, Next
<1>4. ASSUME NEW r \in Slots, RequestArrives(r) \/ RequestFails(r) PROVE SubNext
  BY <1>4 DEF RequestArrives, RequestFails, SubNext, Next
<1>5. ASSUME NEW c \in Clients,
             \/ SubmissionReads(c) \/ SubmissionStatement(c)
             \/ SubmissionArrives(c) \/ SubmissionFails(c)
      PROVE  SubNext
  BY <1>5 DEF SubmissionReads, SubmissionStatement, SubmissionArrives, SubmissionFails,
              SubNext, SubStep
<1>6. QED
  BY <1>1, <1>2, <1>3, <1>4, <1>5 DEF PoolNext, RequestProgress

\* The server with its pool implements the services without one.
THEOREM PoolImplementsServices == PoolSpec => SubSpec
<1>1. PoolInit => SubInit
  BY DEF PoolInit
<1>2. [PoolNext]_poolVars => [SubNext]_allVars
  BY StepOfServices
<1>3. QED
  BY <1>1, <1>2, PTL DEF PoolSpec, SubSpec

\* Requests and rows keep their types on a pool of any size, the modes that no
\* CHECK guards included (survey.go:316, 333).
THEOREM PoolTypesCorrect == PoolSpec => []TypeOK
<1>1. SubInv => TypeOK
  BY DEF SubInv, IInv, TypeInv
<1>2. QED
  BY <1>1, PoolImplementsServices, SubInductive, PTL

\* A submission never touches what the survey service works on.
LEMMA SubmissionsLeaveSurveys ==
  ASSUME NEW c \in Clients, SubStep(c) PROVE UNCHANGED vars
BY DEF SubStep, OpenPage, SendAnswers, PassGate, RefuseAtGate, LoadSchema, NoSchema,
       InsertResponse, InsertRow, Save, SubFail, SubReply, vars

\* Behind the pool and next to any submissions, the survey service still does
\* nothing but its own statements: connections delay them and change none
\* (dao.go:37-61).
THEOREM PoolImplementsSurveyService == PoolSpec => Spec
<1>1. SubInit => Init
  BY DEF SubInit
<1>2. ASSUME [SubNext]_allVars PROVE [Next]_vars
  BY <1>2, SubmissionsLeaveSurveys DEF SubNext, allVars, vars
<1>3. QED
  BY <1>1, <1>2, PoolImplementsServices, PTL DEF SubSpec, Spec

\* So on a pool of any size no request writes back a mode that another one set
\* (survey.go:312-343).
THEOREM PoolKeepsModes == PoolSpec => NoLostMode
BY PoolImplementsSurveyService, ModesKept, PTL

\* And every survey lives the life VersionHistory describes (dao.go:91-143).
THEOREM PoolRefinesHistory == PoolSpec => RefinesVersionHistory
BY PoolImplementsSurveyService, ServiceRefinesHistory, PTL

-----------------------------------------------------------------------------
\* Connections.

PoolInv == SubInv /\ NoConnectionLeaks

\* Where a request stands before and after a step of its own.
LEMMA RequestMoves ==
  ASSUME SubInv, NEW r \in Slots
  PROVE  /\ \A q : req' = [req EXCEPT ![r] = q] =>
              req'[r] = q /\ \A s \in Slots : s # r => req'[s] = req[s]
         /\ \A stage : Goto(r, stage) =>
              req'[r].pc = stage /\ \A s \in Slots : s # r => req'[s] = req[s]
         /\ \A reply, n : AnswerVersion(r, reply, n) =>
              req'[r].pc = "idle" /\ \A s \in Slots : s # r => req'[s] = req[s]
<1>1. req \in [Slots -> IdleSlots \cup BusySlots]
  BY DEF SubInv, IInv, TypeInv, TypeOK
<1>2. \A stage : [req[r] EXCEPT !.pc = stage].pc = stage
  BY <1>1 DEF IdleSlots, BusySlots
<1>3. \A q : req' = [req EXCEPT ![r] = q] =>
        req'[r] = q /\ \A s \in Slots : s # r => req'[s] = req[s]
  BY <1>1
<1>4. ASSUME NEW stage, Goto(r, stage)
      PROVE  req'[r].pc = stage /\ \A s \in Slots : s # r => req'[s] = req[s]
  BY <1>1, <1>2, <1>4 DEF Goto
<1>5. ASSUME NEW reply, NEW n, AnswerVersion(r, reply, n)
      PROVE  req'[r].pc = "idle" /\ \A s \in Slots : s # r => req'[s] = req[s]
  BY <1>1, <1>5 DEF AnswerVersion
<1>6. QED
  BY <1>3, <1>4, <1>5

LEMMA StatementMoves ==
  ASSUME SubInv, NEW r \in Slots, Reads(r) \/ Writes(r), ~At(r, "load")
  PROVE  /\ req'[r].pc \in {"idle", "insert", "point", "commit"}
         /\ \A s \in Slots : s # r => req'[s] = req[s]
<1>1. CASE PublishNext(r)
  <2>1. req \in [Slots -> IdleSlots \cup BusySlots]
    BY DEF SubInv, IInv, TypeInv, TypeOK
  <2>2. req[r] \in BusySlots
    BY <1>1, <2>1 DEF PublishNext, At, IdleSlots
  <2>3. QED
    BY <1>1, <2>1, <2>2 DEF PublishNext, BusySlots
<1>2. CASE PublishUnchanged(r) \/ PublishPanic(r)
  BY <1>2, RequestMoves DEF PublishUnchanged, PublishPanic, Answer
<1>3. CASE InsertVersion(r) \/ SetPublished(r)
  BY <1>3, RequestMoves DEF InsertVersion, SetPublished
<1>4. CASE Commit(r) \/ InsertRefused(r) \/ IdTaken(r)
  BY <1>4, RequestMoves DEF Commit, InsertRefused, IdTaken, Answer
<1>5. CASE \/ Update(r) \/ Close(r) \/ Reopen(r) \/ SetAnswerAccess(r) \/ SetDisplayMode(r)
           \/ Create(r) \/ Copy(r)
  BY <1>5, RequestMoves DEF Update, Close, Reopen, SetAnswerAccess, SetDisplayMode, Create,
                            Copy, AnswerWrite, Answer
<1>6. QED
  BY <1>1, <1>2, <1>3, <1>4, <1>5 DEF Reads, Writes, LoadMissing, LoadRefused, LoadRead, Load,
     AtOp, At

\* A first read takes a request to an answer, or to where it asks for a
\* connection to keep.
LEMMA LoadMoves ==
  ASSUME SubInv, NEW r \in Slots, Reads(r), At(r, "load")
  PROVE  /\ req'[r].pc \in {"idle", "write", "max"}
         /\ \A s \in Slots : s # r => req'[s] = req[s]
<1>1. CASE LoadMissing(r) \/ LoadRefused(r) \/ LoadRead(r)
  BY <1>1, RequestMoves DEF LoadMissing, LoadRefused, LoadRead, Answer
<1>2. CASE Load(r)
  <2>1. req \in [Slots -> IdleSlots \cup BusySlots]
    BY DEF SubInv, IInv, TypeInv, TypeOK
  <2>2. req[r] \in BusySlots
    BY <2>1 DEF At, IdleSlots
  <2>3. QED
    BY <1>2, <2>1, <2>2 DEF Load, BusySlots
<1>3. QED
  BY <1>1, <1>2 DEF Reads, PublishUnchanged, PublishPanic, PublishNext, At

LEMMA ArrivalMoves ==
  ASSUME SubInv, NEW r \in Slots, Requests(r)
  PROVE  /\ Idle(r) /\ req'[r].pc \in {"idle", "write", "load"}
         /\ \A s \in Slots : s # r => req'[s] = req[s]
<1>1. CASE Forbid(r) \/ RefuseEarly(r)
  BY <1>1, RequestMoves DEF Forbid, RefuseEarly, Answer
<1>2. CASE Arrive(r)
  <2>1. PICK u \in Users, op \in Ops, id \in SurveyIds :
        \E p \in PayloadsFor(op), m \in ModesFor(op) :
          req' = [req EXCEPT ![r] =
            [pc |-> IF op = "create" THEN "write" ELSE "load",
             user |-> u, op |-> op, id |-> id, payload |-> p, mode |-> m,
             meta |-> NoRow, next |-> 0]]
    BY <1>2 DEF Arrive
  <2>2. PICK p \in PayloadsFor(op), m \in ModesFor(op) :
          req' = [req EXCEPT ![r] =
            [pc |-> IF op = "create" THEN "write" ELSE "load",
             user |-> u, op |-> op, id |-> id, payload |-> p, mode |-> m,
             meta |-> NoRow, next |-> 0]]
    BY <2>1
  <2> DEFINE q == [pc |-> IF op = "create" THEN "write" ELSE "load",
                   user |-> u, op |-> op, id |-> id, payload |-> p, mode |-> m,
                   meta |-> NoRow, next |-> 0]
  <2>3. q.pc \in {"write", "load"} /\ req' = [req EXCEPT ![r] = q]
    BY <2>2
  <2> HIDE DEF q
  <2>4. QED
    BY <1>2, <2>3, RequestMoves DEF Arrive
<1>3. QED
  BY <1>1, <1>2 DEF Requests
LEMMA SubmissionMoves ==
  ASSUME SubInv, NEW c \in Clients
  PROVE  /\ \A q : sub' = [sub EXCEPT ![c] = q] =>
              sub'[c] = q /\ \A d \in Clients : d # c => sub'[d] = sub[d]
         /\ \A reply : SubReply(c, reply) =>
              sub'[c].pc = "idle" /\ \A d \in Clients : d # c => sub'[d] = sub[d]
<1>1. sub \in [Clients -> Subs]
  BY DEF SubInv, SubTypes
<1>2. \A q : sub' = [sub EXCEPT ![c] = q] =>
        sub'[c] = q /\ \A d \in Clients : d # c => sub'[d] = sub[d]
  BY <1>1
<1>3. ASSUME NEW reply, SubReply(c, reply)
      PROVE  sub'[c].pc = "idle" /\ \A d \in Clients : d # c => sub'[d] = sub[d]
  BY <1>1, <1>3 DEF SubReply
<1>4. QED
  BY <1>2, <1>3

LEMMA SubReadMoves ==
  ASSUME SubInv, NEW c \in Clients, SubmissionReads(c)
  PROVE  /\ sub[c].pc \in {"idle", "gate", "schema"}
         /\ sub'[c].pc \in {"idle", "schema", "response"}
         /\ \A d \in Clients : d # c => sub'[d] = sub[d]
<1>1. CASE OpenPage(c)
  BY <1>1 DEF OpenPage, SubAt
<1>2. CASE PassGate(c)
  <2>1. sub \in [Clients -> Subs] /\ sub[c].pc = "gate"
    BY <1>2 DEF PassGate, SubAt, SubInv, SubTypes
  <2>2. QED
    BY <1>2, <2>1 DEF PassGate, Subs, IdleSubs, GateSubs, ReadySubs, RowSubs
<1>3. CASE RefuseAtGate(c) \/ NoSchema(c)
  BY <1>3, SubmissionMoves DEF RefuseAtGate, NoSchema, SubAt
<1>4. CASE LoadSchema(c)
  <2> DEFINE schema == VersionSchema(sub[c].id, LoadedVersion(sub[c]))
             q == [pc |-> "response", id |-> sub[c].id, version |-> schema.version,
                   raw |-> sub[c].sheet, todo |-> Normalized(schema.body, sub[c].sheet)]
  <2>1. sub' = [sub EXCEPT ![c] = q] \/ SubReply(c, "refused")
    BY <1>4 DEF LoadSchema, Validated
  <2>2. q.pc = "response"
    OBVIOUS
  <2> HIDE DEF q
  <2>3. QED
    BY <1>4, <2>1, <2>2, SubmissionMoves DEF LoadSchema, SubAt
<1>5. QED
  BY <1>1, <1>2, <1>3, <1>4 DEF SubmissionReads

LEMMA SubStatementMoves ==
  ASSUME SubInv, NEW c \in Clients, InsertResponse(c) \/ InsertRow(c) \/ Save(c)
  PROVE  /\ sub'[c].pc \in {"idle", "rows"}
         /\ \A d \in Clients : d # c => sub'[d] = sub[d]
<1>1. CASE InsertResponse(c)
  <2>1. PICK rid \in ResponseIds : SubReply(c, "error") \/ Inserted(c, rid)
    BY <1>1 DEF InsertResponse
  <2> DEFINE q == [pc |-> "rows", id |-> sub[c].id, version |-> sub[c].version,
                   raw |-> sub[c].raw, todo |-> sub[c].todo, rid |-> rid, done |-> {}]
  <2>2. sub' = [sub EXCEPT ![c] = q] \/ SubReply(c, "error")
    BY <2>1 DEF Inserted
  <2>3. q.pc = "rows"
    OBVIOUS
  <2> HIDE DEF q
  <2>4. QED
    BY <2>2, <2>3, SubmissionMoves
<1>2. CASE InsertRow(c)
  <2>1. sub \in [Clients -> Subs] /\ sub[c].pc = "rows"
    BY <1>2 DEF InsertRow, SubAt, SubInv, SubTypes
  <2>2. QED
    BY <1>2, <2>1 DEF InsertRow, Subs, IdleSubs, GateSubs, ReadySubs, RowSubs
<1>3. CASE Save(c)
  BY <1>3, SubmissionMoves DEF Save
<1>4. QED
  BY <1>1, <1>2, <1>3

\* One request or submission moves and gives its connection back or not.
LEMMA Accounted ==
  ASSUME NoConnectionLeaks, NEW x \in Slots \cup Clients, held' \in {held, held \ {x}},
         \A y \in Slots \cup Clients :
           y # x => (Writing(y)' <=> Writing(y)) /\ (InTx(y)' <=> InTx(y)),
         x \in held' => Writing(x)' \/ InTx(x)',
         InTx(x)' => x \in held'
  PROVE  NoConnectionLeaks'
<1>1. IsFiniteSet(held)
  BY PoolAssumption, FS_Union, FS_Subset DEF NoConnectionLeaks
<1>2. held' \subseteq held
  OBVIOUS
<1>3. Cardinality(held') <= PoolSize
  <2>1. /\ Cardinality(held) \in Nat /\ Cardinality(held') \in Nat
        /\ Cardinality(held') <= Cardinality(held)
    BY <1>1, <1>2, FS_Subset, FS_CardinalityType
  <2>2. QED
    BY <2>1, PoolAssumption DEF NoConnectionLeaks
<1>4. held' \subseteq {y \in Slots \cup Clients : Writing(y)' \/ InTx(y)'}
  BY <1>2 DEF NoConnectionLeaks
<1>5. \A y \in Slots \cup Clients : InTx(y)' => y \in held'
  BY DEF NoConnectionLeaks
<1>6. QED
  BY <1>3, <1>4, <1>5 DEF NoConnectionLeaks

LEMMA RequestAccounted ==
  ASSUME NoConnectionLeaks, NEW r \in Slots, sub' = sub,
         \A s \in Slots : s # r => req'[s] = req[s], held' \in {held, held \ {r}},
         r \in held' => req'[r].pc \in {"write", "max", "insert", "point", "commit"},
         req'[r].pc \in {"insert", "point", "commit"} => r \in held'
  PROVE  NoConnectionLeaks'
<1>1. ASSUME NEW y \in Slots \cup Clients, y # r
      PROVE  (Writing(y)' <=> Writing(y)) /\ (InTx(y)' <=> InTx(y))
  BY <1>1 DEF Writing, InTx, RequestInTx, SubmissionInTx, At, SubAt
<1>2. r \in held' => Writing(r)' \/ InTx(r)'
  BY DEF Writing, InTx, RequestInTx, At
<1>3. InTx(r)' => r \in held'
  BY DEF InTx, RequestInTx
<1>4. QED
  BY <1>1, <1>2, <1>3, Accounted

LEMMA SubmissionAccounted ==
  ASSUME NoConnectionLeaks, NEW c \in Clients, req' = req,
         \A d \in Clients : d # c => sub'[d] = sub[d], held' \in {held, held \ {c}},
         c \in held' => sub'[c].pc \in {"response", "rows"},
         sub'[c].pc = "rows" => c \in held'
  PROVE  NoConnectionLeaks'
<1>1. c \notin Slots
  BY PoolAssumption
<1>2. ASSUME NEW y \in Slots \cup Clients, y # c
      PROVE  (Writing(y)' <=> Writing(y)) /\ (InTx(y)' <=> InTx(y))
  BY <1>2 DEF Writing, InTx, RequestInTx, SubmissionInTx, At, SubAt
<1>3. c \in held' => Writing(c)' \/ InTx(c)'
  BY <1>1 DEF Writing, InTx, SubmissionInTx, SubAt
<1>4. InTx(c)' => c \in held'
  BY <1>1 DEF InTx, SubmissionInTx, SubAt
<1>5. QED
  BY <1>2, <1>3, <1>4, Accounted

LEMMA AcquireAccounted ==
  ASSUME NoConnectionLeaks, NEW x \in Slots \cup Clients, Acquire(x)
  PROVE  NoConnectionLeaks'
<1>1. req' = req /\ sub' = sub /\ held' = held \cup {x} /\ x \notin held /\ Writing(x) /\ Free
  BY DEF Acquire, allVars
<1>2. \A y \in Slots \cup Clients : (Writing(y)' <=> Writing(y)) /\ (InTx(y)' <=> InTx(y))
  BY <1>1 DEF Writing, InTx, RequestInTx, SubmissionInTx, At, SubAt
<1>3. IsFiniteSet(held)
  BY PoolAssumption, FS_Union, FS_Subset DEF NoConnectionLeaks
<1>4. Cardinality(held \cup {x}) = Cardinality(held) + 1 /\ Cardinality(held) \in Nat
  BY <1>1, <1>3, FS_AddElement, FS_CardinalityType
<1>5. Cardinality(held') <= PoolSize
  BY <1>1, <1>4, PoolAssumption DEF Free
<1>6. held' \subseteq {y \in Slots \cup Clients : Writing(y)' \/ InTx(y)'}
  BY <1>1, <1>2 DEF NoConnectionLeaks
<1>7. \A y \in Slots \cup Clients : InTx(y)' => y \in held'
  BY <1>1, <1>2 DEF NoConnectionLeaks
<1>8. QED
  BY <1>5, <1>6, <1>7 DEF NoConnectionLeaks

LEMMA RequestStepAccounted ==
  ASSUME PoolInv, NEW r \in Slots,
         SelectAlone(r) \/ RequestStatement(r) \/ RequestArrives(r) \/ RequestFails(r)
  PROVE  NoConnectionLeaks'
<1>1. sub' = sub
  BY DEF SelectAlone, RequestStatement, RequestArrives, RequestFails, answering
<1>2. At(r, "load") \/ Idle(r) => r \notin held
  BY PoolAssumption DEF PoolInv, NoConnectionLeaks, Writing, InTx, RequestInTx, At, Idle
<1>3. CASE SelectAlone(r)
  BY <1>1, <1>2, <1>3, LoadMoves, RequestAccounted DEF SelectAlone, PoolInv
<1>4. CASE RequestStatement(r)
  <2>1. /\ req'[r].pc \in {"idle", "insert", "point", "commit"}
        /\ \A s \in Slots : s # r => req'[s] = req[s]
    BY <1>4, StatementMoves DEF RequestStatement, PoolInv
  <2>2. QED
    BY <1>1, <1>4, <2>1, RequestAccounted
       DEF RequestStatement, OnConnection, ReleaseRequest, PoolInv
<1>5. CASE RequestArrives(r)
  BY <1>1, <1>2, <1>5, ArrivalMoves, RequestAccounted DEF RequestArrives, PoolInv
<1>6. CASE RequestFails(r)
  BY <1>1, <1>6, RequestMoves, RequestAccounted
     DEF RequestFails, Fail, Answer, ReleaseRequest, PoolInv
<1>7. QED
  BY <1>3, <1>4, <1>5, <1>6

LEMMA SubmissionStepAccounted ==
  ASSUME PoolInv, NEW c \in Clients,
         \/ SubmissionReads(c) \/ SubmissionStatement(c)
         \/ SubmissionArrives(c) \/ SubmissionFails(c)
  PROVE  NoConnectionLeaks'
<1>1. req' = req
  BY DEF SubmissionReads, SubmissionStatement, SubmissionArrives, SubmissionFails, OpenPage,
         PassGate, RefuseAtGate, LoadSchema, NoSchema, InsertResponse, InsertRow, Save,
         SendAnswers, SubFail, vars
<1>2. sub[c].pc \in {"idle", "gate", "schema"} => c \notin held
  BY PoolAssumption DEF PoolInv, NoConnectionLeaks, Writing, InTx, SubmissionInTx, SubAt
<1>3. CASE SubmissionReads(c)
  <2>1. held' = held
    BY <1>3 DEF SubmissionReads
  <2>2. QED
    BY <1>1, <1>2, <1>3, <2>1, SubReadMoves, SubmissionAccounted DEF PoolInv
<1>4. CASE SubmissionStatement(c)
  <2>1. sub'[c].pc \in {"idle", "rows"} /\ \A d \in Clients : d # c => sub'[d] = sub[d]
    BY <1>4, SubStatementMoves DEF SubmissionStatement, PoolInv
  <2>2. QED
    BY <1>1, <1>4, <2>1, SubmissionAccounted
       DEF SubmissionStatement, OnConnection, ReleaseSubmission, PoolInv
<1>5. CASE SubmissionArrives(c)
  <2>1. PICK id \in SurveyIds, authed \in BOOLEAN, sheet \in ClientAnswers :
        \E pin \in {0, UnknownPin} \cup
                   (IF page[c].survey = id THEN {page[c].version} ELSE {}) :
          sub' = [sub EXCEPT ![c] =
            [pc |-> "gate", id |-> id, authed |-> authed, pin |-> pin, sheet |-> sheet]]
    BY <1>5 DEF SubmissionArrives, SendAnswers
  <2>2. sub'[c].pc = "gate" /\ \A d \in Clients : d # c => sub'[d] = sub[d]
    <3>1. PICK pin \in {0, UnknownPin} \cup
                     (IF page[c].survey = id THEN {page[c].version} ELSE {}) :
          sub' = [sub EXCEPT ![c] =
            [pc |-> "gate", id |-> id, authed |-> authed, pin |-> pin, sheet |-> sheet]]
      BY <2>1
    <3> DEFINE q == [pc |-> "gate", id |-> id, authed |-> authed, pin |-> pin,
                     sheet |-> sheet]
    <3>2. q.pc = "gate" /\ sub' = [sub EXCEPT ![c] = q]
      BY <3>1
    <3> HIDE DEF q
    <3>3. QED
      BY <3>2, SubmissionMoves DEF PoolInv
  <2>3. c \notin held /\ held' = held
    BY <1>2, <1>5 DEF SubmissionArrives, SendAnswers, SubAt
  <2>4. QED
    BY <1>1, <2>2, <2>3, SubmissionAccounted DEF PoolInv
<1>6. CASE SubmissionFails(c)
  BY <1>1, <1>6, SubmissionMoves, SubmissionAccounted
     DEF SubmissionFails, SubFail, ReleaseSubmission, PoolInv
<1>7. QED
  BY <1>3, <1>4, <1>5, <1>6

\* Every connection that is out is out for a request about to write or in a
\* transaction, every open transaction has its own, and the pool is never
\* overdrawn, whatever fails or panics (dao.go:57-61, 101-105).
THEOREM ConnectionsAccounted == PoolSpec => []NoConnectionLeaks
<1>1. PoolInit => PoolInv
  <2>1. SUFFICES ASSUME PoolInit PROVE PoolInv
    OBVIOUS
  <2>2. \A x \in Slots \cup Clients : ~InTx(x)
    BY <2>1 DEF PoolInit, SubInit, Init, InTx, RequestInTx, SubmissionInTx, SubAt, NoSub
  <2>3. Cardinality(held) <= PoolSize
    BY <2>1, PoolAssumption, FS_EmptySet DEF PoolInit
  <2>4. QED
    BY <2>1, <2>2, <2>3, SubInitInv DEF PoolInit, PoolInv, NoConnectionLeaks
<1>2. PoolInv /\ [PoolNext]_poolVars => PoolInv'
  <2>1. SUFFICES ASSUME PoolInv, [PoolNext]_poolVars PROVE PoolInv'
    OBVIOUS
  <2>2. SubInv'
    BY <2>1, StepOfServices, SubNextInv DEF PoolInv
  <2>3. CASE UNCHANGED poolVars
    <3>1. req' = req /\ sub' = sub /\ held' = held
      BY <2>3 DEF poolVars
    <3>2. \A x : (Writing(x)' <=> Writing(x)) /\ (InTx(x)' <=> InTx(x))
      BY <3>1 DEF Writing, InTx, RequestInTx, SubmissionInTx, At, SubAt
    <3>3. NoConnectionLeaks'
      BY <2>1, <3>1, <3>2 DEF PoolInv, NoConnectionLeaks
    <3>4. QED
      BY <2>2, <3>3 DEF PoolInv
  <2>4. ASSUME NEW x \in Slots \cup Clients, Acquire(x) PROVE NoConnectionLeaks'
    BY <2>1, <2>4, AcquireAccounted DEF PoolInv
  <2>5. ASSUME NEW r \in Slots, RequestProgress(r) \/ RequestArrives(r) \/ RequestFails(r)
        PROVE  NoConnectionLeaks'
    BY <2>1, <2>4, <2>5, RequestStepAccounted DEF RequestProgress
  <2>6. ASSUME NEW c \in Clients,
               \/ Acquire(c) \/ SubmissionReads(c) \/ SubmissionStatement(c)
               \/ SubmissionArrives(c) \/ SubmissionFails(c)
        PROVE  NoConnectionLeaks'
    BY <2>1, <2>4, <2>6, SubmissionStepAccounted
  <2>7. QED
    BY <2>1, <2>2, <2>3, <2>5, <2>6 DEF PoolInv, PoolNext
<1>3. PoolInv => NoConnectionLeaks
  BY DEF PoolInv
<1>4. QED
  BY <1>1, <1>2, <1>3, PTL DEF PoolSpec
=============================================================================

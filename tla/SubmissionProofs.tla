---------------------------- MODULE SubmissionProofs ----------------------------
(***************************************************************************)
(* Proofs about the submission service beside the survey service, for any  *)
(* numbers of clients, questions, rules and versions.                      *)
(***************************************************************************)
EXTENDS Submission, SurveyProofs, FiniteSetTheorems

IdleSubs == [pc : {"idle"}, reply : SubReplies]

\* Before validation, before InsertResponse, and inside the transaction.
GateSubs ==
  [pc : {"gate", "schema"}, id : SurveyIds, authed : BOOLEAN, pin : Nat,
   sheet : AnswerSheets]

ReadySubs ==
  [pc : {"response"}, id : SurveyIds, version : Nat \ {0}, raw : AnswerSheets,
   todo : SUBSET Questions]

RowSubs ==
  [pc : {"rows"}, id : SurveyIds, version : Nat \ {0}, raw : AnswerSheets,
   todo : SUBSET Questions, rid : ResponseIds, done : SUBSET Questions]

Subs == IdleSubs \cup GateSubs \cup ReadySubs \cup RowSubs

SubTypes ==
  /\ responses \subseteq Responses
  /\ answerRows \subseteq AnswerRows
  /\ page \in [Clients -> [survey : SurveyIds \cup {"none"}, version : Nat]]
  /\ sub \in [Clients -> Subs]

\* Some version row of this number accepts these answers and makes these rows
\* of them.
Faithful(id, n, raw, qs) ==
  \E v \in versions :
    /\ v.survey = id /\ v.version = n
    /\ Accepts(v.schema.body, raw)
    /\ qs = Normalized(v.schema.body, raw)

\* What a submission past validation has in its hands.
Carries(c) ==
  /\ SubAt(c, "response") => Faithful(sub[c].id, sub[c].version, sub[c].raw, sub[c].todo)
  /\ SubAt(c, "rows") =>
       /\ Faithful(sub[c].id, sub[c].version, sub[c].raw, sub[c].todo \cup sub[c].done)
       /\ ~RidTaken(sub[c].rid)

\* Two open transactions never insert the same response id.
OneHolder ==
  \A c, d \in Clients :
    c # d /\ SubAt(c, "rows") /\ SubAt(d, "rows") => sub[c].rid # sub[d].rid

\* The rows of a response p for the questions qs.
RowsFor(p, qs) ==
  {[rid |-> p.rid, survey |-> p.survey, version |-> p.version, qid |-> q] : q \in qs}

SavedInv ==
  /\ \A p \in responses : \E qs \in SUBSET Questions :
       /\ Faithful(p.survey, p.version, p.raw, qs)
       /\ {w \in answerRows : w.rid = p.rid} = RowsFor(p, qs)
  /\ \A w \in answerRows : \E p \in responses : p.rid = w.rid

\* The inductive invariant, beside that of the survey service.
SubInv ==
  /\ IInv
  /\ SubTypes
  /\ \A c \in Clients : Carries(c)
  /\ OneHolder
  /\ SavedInv
  /\ PagesStayValid

-----------------------------------------------------------------------------
\* No version row is ever removed or changed.
LEMMA VersionsGrow ==
  ASSUME [Next]_vars PROVE versions \subseteq versions'
<1>1. CASE UNCHANGED vars
  BY <1>1 DEF vars
<1>2. ASSUME NEW r \in Slots, Requests(r) PROVE versions' = versions
  BY <1>2 DEF Requests, Forbid, RefuseEarly, Arrive, store
<1>3. ASSUME NEW r \in Slots, Reads(r) \/ Fail(r) PROVE versions' = versions
  BY <1>3 DEF Reads, Fail, LoadMissing, LoadRefused, LoadRead, Load, PublishUnchanged,
              PublishPanic, PublishNext, store
<1>4. ASSUME NEW r \in Slots, Writes(r) PROVE versions \subseteq versions'
  BY <1>4 DEF Writes, Update, Close, Reopen, SetAnswerAccess, SetDisplayMode, Create, Copy,
              IdTaken, InsertVersion, InsertRefused, SetPublished, Commit, SetDraft,
              SetStatus, SetAccess, SetDisplay, InsertSurvey, CommitRelease, store
<1>5. QED
  BY <1>1, <1>2, <1>3, <1>4 DEF Next

\* The rows of the normal form are questions of the survey.
LEMMA NormalizedType ==
  ASSUME NEW b \in Bodies, NEW raw PROVE Normalized(b, raw) \in SUBSET Questions
BY SubmissionAssumption DEF Normalized, Visible

\* What was faithful stays so when versions are added.
LEMMA BesideInv ==
  ASSUME SubInv, IInv', versions \subseteq versions', UNCHANGED answering
  PROVE  SubInv'
<1>1. responses' = responses /\ answerRows' = answerRows /\ page' = page /\ sub' = sub
  BY DEF answering
<1>2. \A id, n, raw, qs :
        Faithful(id, n, raw, qs) =>
          \E v \in versions' :
            /\ v.survey = id /\ v.version = n
            /\ Accepts(v.schema.body, raw)
            /\ qs = Normalized(v.schema.body, raw)
  BY DEF Faithful
<1>3. SubTypes' /\ OneHolder'
  BY <1>1 DEF SubInv, SubTypes, OneHolder, SubAt
<1>4. ASSUME NEW c \in Clients PROVE Carries(c)'
  <2>1. Carries(c)
    BY DEF SubInv
  <2>2. QED
    BY <1>1, <1>2, <2>1 DEF Carries, SubAt, RidTaken, Faithful
<1>5. SavedInv'
  BY <1>1, <1>2 DEF SubInv, SavedInv, RowsFor, Faithful
<1>6. PagesStayValid'
  BY <1>1 DEF SubInv, PagesStayValid, HasVersion, VersionsOf
<1>7. QED
  BY <1>3, <1>4, <1>5, <1>6 DEF SubInv

\* A submission that goes on over tables that stay.
LEMMA GoesOn ==
  ASSUME SubInv, IInv', UNCHANGED <<responses, answerRows, page, vars>>,
         NEW c \in Clients, NEW q \in Subs, sub' = [sub EXCEPT ![c] = q], Carries(c)',
         q.pc = "rows" =>
           \A d \in Clients : d # c /\ SubAt(d, "rows") => sub[d].rid # q.rid
  PROVE  SubInv'
<1>1. responses' = responses /\ answerRows' = answerRows /\ page' = page
      /\ versions' = versions
  BY DEF vars
<1>2. sub' \in [Clients -> Subs] /\ sub'[c] = q
      /\ \A d \in Clients : d # c => sub'[d] = sub[d]
  BY DEF SubInv, SubTypes
<1>3. SubTypes'
  BY <1>1, <1>2 DEF SubInv, SubTypes
<1>4. ASSUME NEW d \in Clients, d # c PROVE Carries(d)'
  BY <1>1, <1>2, <1>4 DEF SubInv, Carries, SubAt, RidTaken, Faithful
<1>5. OneHolder'
  BY <1>2 DEF SubInv, OneHolder, SubAt
<1>6. SavedInv' /\ PagesStayValid'
  BY <1>1 DEF SubInv, SavedInv, RowsFor, Faithful, PagesStayValid, HasVersion, VersionsOf
<1>7. QED
  BY <1>3, <1>4, <1>5, <1>6 DEF SubInv

LEMMA Replied ==
  ASSUME SubInv, IInv', UNCHANGED <<responses, answerRows, page, vars>>,
         NEW c \in Clients, NEW reply \in SubReplies, SubReply(c, reply)
  PROVE  SubInv'
<1> DEFINE q == [pc |-> "idle", reply |-> reply]
<1>1. q \in Subs /\ sub' = [sub EXCEPT ![c] = q]
  BY DEF SubReply, Subs, IdleSubs
<1>2. Carries(c)'
  BY <1>1 DEF Carries, SubAt, SubInv, SubTypes
<1>3. q.pc # "rows"
  OBVIOUS
<1> HIDE DEF q
<1>4. QED
  BY <1>1, <1>2, <1>3, GoesOn
-----------------------------------------------------------------------------
\* The steps of a submission.

LEMMA PublishedIs ==
  ASSUME IInv, NEW id \in SurveyIds, NEW n, HasVersion(id, n)
  PROVE  /\ VersionSchema(id, n) \in Schemas
         /\ VersionSchema(id, n).version = n
         /\ n \in Nat \ {0}
         /\ \E v \in versions :
              v.survey = id /\ v.version = n /\ v.schema = VersionSchema(id, n)
<1>1. PICK v \in versions : v.survey = id /\ v.version = n
  BY DEF HasVersion, VersionsOf
<1>2. VersionSchema(id, n) = v.schema
  BY <1>1, VersionSchemaIs
<1>3. v \in VersionRows /\ v.schema.version = v.version
  BY DEF IInv, TypeInv, TypeOK, HistoryInv
<1>4. QED
  BY <1>1, <1>2, <1>3 DEF VersionRows

LEMMA OpenPageInv ==
  ASSUME SubInv, IInv', NEW c \in Clients, OpenPage(c) PROVE SubInv'
<1>1. responses' = responses /\ answerRows' = answerRows /\ sub' = sub
      /\ versions' = versions /\ surveys' = surveys
  BY DEF OpenPage, vars
<1>2. PICK id \in SurveyIds :
        /\ HasPublished(id)
        /\ page' = [page EXCEPT ![c] =
             [survey |-> id, version |-> VersionSchema(id, surveys[id].published).version]]
  BY DEF OpenPage
<1>3. /\ HasVersion(id, surveys[id].published)
      /\ VersionSchema(id, surveys[id].published).version = surveys[id].published
      /\ surveys[id].published \in Nat
  BY <1>2, PublishedIs DEF HasPublished, SubInv
<1>4. SubTypes'
  BY <1>1, <1>2, <1>3 DEF SubInv, SubTypes
<1>5. \A d \in Clients : Carries(d)'
  BY <1>1 DEF SubInv, Carries, SubAt, RidTaken, Faithful
<1>6. OneHolder' /\ SavedInv'
  BY <1>1 DEF SubInv, OneHolder, SubAt, SavedInv, RowsFor, Faithful
<1>7. PagesStayValid'
  BY <1>1, <1>2, <1>3 DEF SubInv, SubTypes, PagesStayValid, HasVersion, VersionsOf
<1>8. QED
  BY <1>4, <1>5, <1>6, <1>7 DEF SubInv

LEMMA SendAnswersInv ==
  ASSUME SubInv, IInv', NEW c \in Clients, SendAnswers(c) PROVE SubInv'
<1>1. PICK id \in SurveyIds, authed \in BOOLEAN, sheet \in ClientAnswers :
      \E pin \in {0, UnknownPin} \cup
                 (IF page[c].survey = id THEN {page[c].version} ELSE {}) :
        sub' = [sub EXCEPT ![c] =
          [pc |-> "gate", id |-> id, authed |-> authed, pin |-> pin, sheet |-> sheet]]
  BY DEF SendAnswers
<1>2. PICK pin \in {0, UnknownPin} \cup
                   (IF page[c].survey = id THEN {page[c].version} ELSE {}) :
        sub' = [sub EXCEPT ![c] =
          [pc |-> "gate", id |-> id, authed |-> authed, pin |-> pin, sheet |-> sheet]]
  BY <1>1
<1> DEFINE q == [pc |-> "gate", id |-> id, authed |-> authed, pin |-> pin, sheet |-> sheet]
<1>3. pin \in Nat /\ sheet \in AnswerSheets
  BY SubmissionAssumption DEF SubInv, SubTypes
<1>4. q \in Subs /\ q.pc # "rows" /\ q.pc # "response"
  BY <1>3 DEF Subs, GateSubs
<1>5. sub' = [sub EXCEPT ![c] = q]
  BY <1>2
<1> HIDE DEF q
<1>6. Carries(c)'
  BY <1>4, <1>5 DEF Carries, SubAt, SubInv, SubTypes
<1>7. QED
  BY <1>4, <1>5, <1>6, GoesOn DEF SendAnswers

LEMMA PassGateInv ==
  ASSUME SubInv, IInv', NEW c \in Clients, PassGate(c) PROVE SubInv'
<1> DEFINE q == [sub[c] EXCEPT !.pc = "schema"]
<1>1. sub' = [sub EXCEPT ![c] = q]
  BY DEF PassGate
<1>2. sub[c] \in Subs /\ sub[c].pc = "gate"
  BY DEF PassGate, SubAt, SubInv, SubTypes
<1>3. sub[c] \in GateSubs
  BY <1>2 DEF Subs, IdleSubs, GateSubs, ReadySubs, RowSubs
<1>4. q \in GateSubs /\ q.pc = "schema"
  BY <1>3 DEF GateSubs
<1> HIDE DEF q
<1>5. Carries(c)'
  BY <1>1, <1>4 DEF Carries, SubAt, SubInv, SubTypes
<1>6. QED
  BY <1>1, <1>4, <1>5, GoesOn DEF PassGate, Subs

LEMMA LoadSchemaInv ==
  ASSUME SubInv, IInv', NEW c \in Clients, LoadSchema(c) PROVE SubInv'
<1> DEFINE n == LoadedVersion(sub[c])
           schema == VersionSchema(sub[c].id, n)
           q == [pc |-> "response", id |-> sub[c].id, version |-> schema.version,
                 raw |-> sub[c].sheet, todo |-> Normalized(schema.body, sub[c].sheet)]
<1>1. sub[c] \in GateSubs
  BY DEF LoadSchema, SubAt, SubInv, SubTypes, Subs, IdleSubs, GateSubs, ReadySubs, RowSubs
<1>2. sub[c].id \in SurveyIds /\ sub[c].sheet \in AnswerSheets
  BY <1>1 DEF GateSubs
<1>3. HasVersion(sub[c].id, n)
  BY DEF LoadSchema, SchemaFound, LoadedVersion, HasPublished
<1>4. /\ schema \in Schemas /\ schema.version = n /\ n \in Nat \ {0}
      /\ \E v \in versions : v.survey = sub[c].id /\ v.version = n /\ v.schema = schema
  BY <1>2, <1>3, PublishedIs DEF SubInv
<1>5. UNCHANGED <<responses, answerRows, page, vars>>
  BY DEF LoadSchema
<1>6. CASE Accepts(schema.body, sub[c].sheet)
  <2>1. sub' = [sub EXCEPT ![c] = q]
    BY <1>6 DEF LoadSchema, Validated
  <2>2. schema.body \in Bodies
    BY <1>4 DEF Schemas
  <2>3. q \in ReadySubs
    BY <1>2, <1>4, <2>2, NormalizedType DEF ReadySubs
  <2>4. Faithful(q.id, q.version, q.raw, q.todo)
    BY <1>4, <1>6 DEF Faithful
  <2>5. q.pc = "response"
    OBVIOUS
  <2> HIDE DEF q
  <2>6. sub'[c] = q /\ versions' = versions
    BY <1>5, <2>1 DEF SubInv, SubTypes, vars
  <2>7. Carries(c)'
    BY <2>4, <2>5, <2>6 DEF Carries, SubAt, Faithful
  <2>8. QED
    BY <1>5, <2>1, <2>3, <2>5, <2>7, GoesOn DEF Subs
<1>7. CASE ~Accepts(schema.body, sub[c].sheet)
  BY <1>5, <1>7, Replied DEF LoadSchema, Validated, SubReplies
<1>8. QED
  BY <1>6, <1>7

LEMMA InsertResponseInv ==
  ASSUME SubInv, IInv', NEW c \in Clients, InsertResponse(c) PROVE SubInv'
<1>1. UNCHANGED <<responses, answerRows, page, vars>>
  BY DEF InsertResponse
<1>2. PICK rid \in ResponseIds :
        /\ ~RidHeld(rid)
        /\ IF RidTaken(rid) THEN SubReply(c, "error") ELSE Inserted(c, rid)
  BY DEF InsertResponse
<1>3. sub[c] \in ReadySubs /\ SubAt(c, "response")
  BY DEF InsertResponse, SubAt, SubInv, SubTypes, Subs, IdleSubs, GateSubs, ReadySubs,
         RowSubs
<1>4. CASE RidTaken(rid)
  BY <1>1, <1>2, <1>4, Replied DEF SubReplies
<1>5. CASE ~RidTaken(rid)
  <2> DEFINE q == [pc |-> "rows", id |-> sub[c].id, version |-> sub[c].version,
                   raw |-> sub[c].raw, todo |-> sub[c].todo, rid |-> rid, done |-> {}]
  <2>1. sub' = [sub EXCEPT ![c] = q]
    BY <1>2, <1>5 DEF Inserted
  <2>2. q \in RowSubs
    BY <1>3 DEF ReadySubs, RowSubs
  <2>3. Faithful(q.id, q.version, q.raw, q.todo \cup q.done)
    BY <1>3 DEF SubInv, Carries, Faithful
  <2>4. \A d \in Clients : d # c /\ SubAt(d, "rows") => sub[d].rid # q.rid
    BY <1>2 DEF RidHeld
  <2>5. q.pc = "rows" /\ q.rid = rid
    OBVIOUS
  <2> HIDE DEF q
  <2>6. sub'[c] = q /\ versions' = versions /\ responses' = responses
    BY <1>1, <2>1 DEF SubInv, SubTypes, vars
  <2>7. Carries(c)'
    BY <1>5, <2>3, <2>5, <2>6 DEF Carries, SubAt, Faithful, RidTaken
  <2>8. QED
    BY <1>1, <2>1, <2>2, <2>4, <2>7, GoesOn DEF Subs
<1>6. QED
  BY <1>4, <1>5

LEMMA InsertRowInv ==
  ASSUME SubInv, IInv', NEW c \in Clients, InsertRow(c) PROVE SubInv'
<1>1. UNCHANGED <<responses, answerRows, page, vars>>
  BY DEF InsertRow
<1>2. sub[c] \in RowSubs /\ SubAt(c, "rows")
  BY DEF InsertRow, SubAt, SubInv, SubTypes, Subs, IdleSubs, GateSubs, ReadySubs, RowSubs
<1>3. PICK x \in sub[c].todo :
        sub' = [sub EXCEPT ![c].todo = @ \ {x}, ![c].done = @ \cup {x}]
  BY DEF InsertRow
<1> DEFINE q == [sub[c] EXCEPT !.todo = @ \ {x}, !.done = @ \cup {x}]
<1>4. sub' = [sub EXCEPT ![c] = q]
  BY <1>3 DEF SubInv, SubTypes
<1>5. q \in RowSubs /\ q.id = sub[c].id /\ q.version = sub[c].version /\ q.raw = sub[c].raw
      /\ q.rid = sub[c].rid /\ q.pc = "rows"
      /\ q.todo \cup q.done = sub[c].todo \cup sub[c].done
  BY <1>2, <1>3 DEF RowSubs
<1> HIDE DEF q
<1>6. sub'[c] = q /\ versions' = versions /\ responses' = responses
  BY <1>1, <1>4 DEF SubInv, SubTypes, vars
<1>7. Carries(c)'
  BY <1>2, <1>5, <1>6 DEF SubInv, Carries, SubAt, Faithful, RidTaken
<1>8. \A d \in Clients : d # c /\ SubAt(d, "rows") => sub[d].rid # q.rid
  BY <1>2, <1>5 DEF SubInv, OneHolder
<1>9. QED
  BY <1>1, <1>4, <1>5, <1>7, <1>8, GoesOn DEF Subs
\* The commit: one response under a response id nobody else has, its rows with
\* it.
LEMMA SaveInv ==
  ASSUME SubInv, IInv', NEW c \in Clients, Save(c) PROVE SubInv'
<1> DEFINE s == sub[c]
           p == [rid |-> s.rid, survey |-> s.id, version |-> s.version, raw |-> s.raw]
<1>1. s \in RowSubs /\ SubAt(c, "rows") /\ s.todo = {}
  BY DEF Save, SubAt, SubInv, SubTypes, Subs, IdleSubs, GateSubs, ReadySubs, RowSubs
<1>2. /\ responses' = responses \cup {p}
      /\ answerRows' = answerRows \cup RowsOf(s)
      /\ page' = page /\ versions' = versions
  BY DEF Save, vars
<1>3. PICK reply \in SubReplies : sub' = [sub EXCEPT ![c] = [pc |-> "idle", reply |-> reply]]
  BY DEF Save, SubReply, SubReplies
<1>4. RowsOf(s) = RowsFor(p, s.done)
  BY DEF RowsOf, RowsFor
<1>5. p \in Responses /\ p.rid = s.rid
  BY <1>1 DEF RowSubs, Responses
<1>6. RowsFor(p, s.done) \subseteq AnswerRows /\ \A w \in RowsFor(p, s.done) : w.rid = s.rid
  BY <1>1 DEF RowSubs, RowsFor, AnswerRows
<1>7. SubTypes'
  BY <1>2, <1>3, <1>4, <1>5, <1>6 DEF SubInv, SubTypes, Subs, IdleSubs
<1>8. /\ Faithful(p.survey, p.version, p.raw, s.done)
      /\ \A r \in responses : r.rid # s.rid
  BY <1>1 DEF SubInv, Carries, RidTaken
<1>9. \A w \in answerRows : w.rid # s.rid
  BY <1>8 DEF SubInv, SavedInv
<1>10. /\ sub'[c].pc = "idle"
       /\ \A d \in Clients : d # c => sub'[d] = sub[d]
  BY <1>3 DEF SubInv, SubTypes
<1>11. ASSUME NEW d \in Clients PROVE Carries(d)'
  <2>1. CASE d = c
    BY <1>10, <2>1 DEF Carries, SubAt
  <2>2. CASE d # c
    <3>1. sub'[d] = sub[d] /\ (SubAt(d, "rows") => sub[d].rid # s.rid)
      BY <1>1, <1>10, <2>2 DEF SubInv, OneHolder
    <3>2. Carries(d)
      BY DEF SubInv
    <3>3. QED
      BY <1>2, <1>5, <3>1, <3>2 DEF Carries, SubAt, RidTaken, Faithful
  <2>3. QED
    BY <2>1, <2>2
<1>12. OneHolder'
  BY <1>10 DEF SubInv, OneHolder, SubAt
<1> HIDE DEF s, p
<1>13. SavedInv'
  <2>1. ASSUME NEW r \in responses'
        PROVE  \E qs \in SUBSET Questions :
                 /\ Faithful(r.survey, r.version, r.raw, qs)'
                 /\ {w \in answerRows' : w.rid = r.rid} = RowsFor(r, qs)
    <3>1. CASE r = p
      <4>1. {w \in answerRows' : w.rid = p.rid} = RowsFor(p, s.done)
        BY <1>2, <1>4, <1>5, <1>6, <1>9
      <4>2. s.done \in SUBSET Questions
        BY <1>1 DEF RowSubs
      <4>3. QED
        BY <1>2, <1>8, <3>1, <4>1, <4>2 DEF Faithful
    <3>2. CASE r \in responses
      <4>1. PICK qs \in SUBSET Questions :
              /\ Faithful(r.survey, r.version, r.raw, qs)
              /\ {w \in answerRows : w.rid = r.rid} = RowsFor(r, qs)
        BY <3>2 DEF SubInv, SavedInv
      <4>2. {w \in answerRows' : w.rid = r.rid} = {w \in answerRows : w.rid = r.rid}
        BY <1>2, <1>4, <1>6, <1>8, <3>2
      <4>3. QED
        BY <1>2, <4>1, <4>2 DEF Faithful
    <3>3. QED
      BY <1>2, <2>1, <3>1, <3>2
  <2>2. \A w \in answerRows' : \E r \in responses' : r.rid = w.rid
    BY <1>2, <1>4, <1>5, <1>6 DEF SubInv, SavedInv
  <2>3. QED
    BY <2>1, <2>2 DEF SavedInv, RowsFor
<1>14. PagesStayValid'
  BY <1>2 DEF SubInv, PagesStayValid, HasVersion, VersionsOf
<1>15. QED
  BY <1>7, <1>11, <1>12, <1>13, <1>14 DEF SubInv

LEMMA SubStepInv ==
  ASSUME SubInv, IInv', NEW c \in Clients, SubStep(c) PROVE SubInv'
<1>1. CASE RefuseAtGate(c)
  BY <1>1, Replied DEF RefuseAtGate, SubReplies
<1>2. CASE NoSchema(c)
  BY <1>2, Replied DEF NoSchema, SubReplies
<1>3. CASE SubFail(c)
  BY <1>3, Replied DEF SubFail, SubReplies
<1>4. QED
  BY <1>1, <1>2, <1>3, OpenPageInv, SendAnswersInv, PassGateInv, LoadSchemaInv,
     InsertResponseInv, InsertRowInv, SaveInv DEF SubStep

LEMMA SubInitInv == SubInit => SubInv
<1> SUFFICES ASSUME SubInit PROVE SubInv
  OBVIOUS
<1>1. IInv
  BY InitInv DEF SubInit
<1>2. SubTypes
  BY DEF SubInit, SubTypes, NoPage, NoSub, Subs, IdleSubs, SubReplies
<1>3. \A c \in Clients : Carries(c)
  BY DEF SubInit, Carries, SubAt, NoSub
<1>4. OneHolder /\ SavedInv /\ PagesStayValid
  BY DEF SubInit, OneHolder, SubAt, NoSub, SavedInv, PagesStayValid, NoPage
<1>5. QED
  BY <1>1, <1>2, <1>3, <1>4 DEF SubInv

LEMMA SubNextInv ==
  ASSUME SubInv, [SubNext]_allVars PROVE SubInv'
<1>1. CASE Next /\ UNCHANGED answering
  <2>1. IInv' /\ versions \subseteq versions'
    BY <1>1, StepInv, VersionsGrow DEF SubInv
  <2>2. QED
    BY <1>1, <2>1, BesideInv
<1>2. ASSUME NEW c \in Clients, SubStep(c) PROVE SubInv'
  <2>1. UNCHANGED vars
    BY <1>2 DEF SubStep, OpenPage, SendAnswers, PassGate, RefuseAtGate, LoadSchema, NoSchema,
                InsertResponse, InsertRow, Save, SubFail
  <2>2. IInv'
    BY <2>1, StutterInv DEF SubInv
  <2>3. QED
    BY <1>2, <2>2, SubStepInv
<1>3. CASE UNCHANGED allVars
  <2>1. UNCHANGED vars /\ UNCHANGED answering
    BY <1>3 DEF allVars, vars, answering
  <2>2. IInv' /\ versions' = versions
    BY <2>1, StutterInv DEF SubInv, vars
  <2>3. QED
    BY <2>1, <2>2, BesideInv
<1>4. QED
  BY <1>1, <1>2, <1>3 DEF SubNext

\* No step but Save ends a submission with success or writes a response.
LEMMA OnlySaveSucceeds ==
  ASSUME SubInv, NEW d \in Clients, SubStep(d), ~Save(d)
  PROVE  /\ responses' = responses
         /\ \A c \in Clients :
              sub'[c] = sub[c] \/ sub'[c].pc # "idle" \/ sub'[c].reply # "ok"
<1>1. responses' = responses
  BY DEF SubStep, OpenPage, SendAnswers, PassGate, RefuseAtGate, LoadSchema,
         NoSchema, InsertResponse, InsertRow, SubFail
<1>2. sub \in [Clients -> Subs]
  BY DEF SubInv, SubTypes
<1>3. ASSUME NEW reply, SubReply(d, reply), reply # "ok", NEW c \in Clients
      PROVE  sub'[c] = sub[c] \/ sub'[c].pc # "idle" \/ sub'[c].reply # "ok"
  BY <1>2, <1>3 DEF SubReply
<1>4. ASSUME NEW q, sub' = [sub EXCEPT ![d] = q], q.pc # "idle", NEW c \in Clients
      PROVE  sub'[c] = sub[c] \/ sub'[c].pc # "idle" \/ sub'[c].reply # "ok"
  BY <1>2, <1>4
<1>5. CASE OpenPage(d)
  BY <1>1, <1>5 DEF OpenPage
<1>6. CASE SendAnswers(d)
  <2>1. PICK id \in SurveyIds, authed \in BOOLEAN, sheet \in ClientAnswers :
        \E pin \in {0, UnknownPin} \cup
                   (IF page[d].survey = id THEN {page[d].version} ELSE {}) :
          sub' = [sub EXCEPT ![d] =
            [pc |-> "gate", id |-> id, authed |-> authed, pin |-> pin, sheet |-> sheet]]
    BY <1>6 DEF SendAnswers
  <2>2. QED
    BY <1>1, <1>4, <2>1
<1>7. CASE PassGate(d)
  BY <1>1, <1>2, <1>7 DEF PassGate, SubAt, Subs, IdleSubs, GateSubs, ReadySubs, RowSubs
<1>8. CASE RefuseAtGate(d) \/ NoSchema(d) \/ SubFail(d)
  BY <1>1, <1>3, <1>8 DEF RefuseAtGate, NoSchema, SubFail
<1>9. CASE LoadSchema(d)
  <2> DEFINE schema == VersionSchema(sub[d].id, LoadedVersion(sub[d]))
             q == [pc |-> "response", id |-> sub[d].id, version |-> schema.version,
                   raw |-> sub[d].sheet, todo |-> Normalized(schema.body, sub[d].sheet)]
  <2>1. sub' = [sub EXCEPT ![d] = q] \/ SubReply(d, "refused")
    BY <1>9 DEF LoadSchema, Validated
  <2>2. q.pc # "idle"
    OBVIOUS
  <2> HIDE DEF q
  <2>3. QED
    BY <1>1, <1>3, <1>4, <2>1, <2>2
<1>10. CASE InsertResponse(d)
  <2>1. PICK rid \in ResponseIds : SubReply(d, "error") \/ Inserted(d, rid)
    BY <1>10 DEF InsertResponse
  <2> DEFINE q == [pc |-> "rows", id |-> sub[d].id, version |-> sub[d].version,
                   raw |-> sub[d].raw, todo |-> sub[d].todo, rid |-> rid, done |-> {}]
  <2>2. sub' = [sub EXCEPT ![d] = q] \/ SubReply(d, "error")
    BY <2>1 DEF Inserted
  <2>3. q.pc # "idle"
    OBVIOUS
  <2> HIDE DEF q
  <2>4. QED
    BY <1>1, <1>3, <1>4, <2>2, <2>3
<1>11. CASE InsertRow(d)
  BY <1>1, <1>2, <1>11 DEF InsertRow, SubAt, Subs, IdleSubs, GateSubs, ReadySubs, RowSubs
<1>12. QED
  BY <1>5, <1>6, <1>7, <1>8, <1>9, <1>10, <1>11 DEF SubStep

-----------------------------------------------------------------------------
\* Theorems.

\* The inductive invariant holds in every reachable state, whatever the number
\* of clients, studio requests, questions and rules.
THEOREM SubInductive == SubSpec => []SubInv
<1>1. SubInv /\ [SubNext]_allVars => SubInv'
  BY SubNextInv
<1>2. QED
  BY <1>1, SubInitInv, PTL DEF SubSpec

\* The tables of answers and the submissions in progress keep their types
\* (submission.go:81-149, 001_init.sql).
THEOREM SubTypesCorrect == SubSpec => []SubTypeOK
<1>1. SubInv => SubTypeOK
  BY DEF SubInv, SubTypes, SubTypeOK, Subs, IdleSubs, GateSubs, ReadySubs, RowSubs, SubStages
<1>2. QED
  BY <1>1, SubInductive, PTL

\* Every response names a version that exists, without a foreign key
\* (submission.go:131, dao.go:127-129).
THEOREM ResponsesAnchored == SubSpec => []ResponsesHaveTheirSnapshot
<1>1. SubInv => ResponsesHaveTheirSnapshot
  BY DEF SubInv, SavedInv, Faithful, ResponsesHaveTheirSnapshot, HasVersion, VersionsOf
<1>2. QED
  BY <1>1, SubInductive, PTL

\* A page that was served is never stale (submission.go:151-161).
THEOREM PagesValid == SubSpec => []PagesStayValid
<1>1. SubInv => PagesStayValid
  BY DEF SubInv
<1>2. QED
  BY <1>1, SubInductive, PTL

\* Responses and answer rows agree under the schema of the response's own
\* version, all or nothing (dao.go:52-89).
THEOREM RowsCorrect == SubSpec => []RowsAreTheResponse
<1>1. ASSUME SubInv, NEW p \in responses
      PROVE  LET body == VersionSchema(p.survey, p.version).body IN
               /\ Accepts(body, p.raw)
               /\ {w \in answerRows : w.rid = p.rid} =
                    {[rid |-> p.rid, survey |-> p.survey, version |-> p.version, qid |-> q] :
                       q \in Normalized(body, p.raw)}
  <2>1. PICK qs \in SUBSET Questions :
          /\ Faithful(p.survey, p.version, p.raw, qs)
          /\ {w \in answerRows : w.rid = p.rid} = RowsFor(p, qs)
    BY <1>1 DEF SubInv, SavedInv
  <2>2. PICK v \in versions :
          /\ v.survey = p.survey /\ v.version = p.version
          /\ Accepts(v.schema.body, p.raw)
          /\ qs = Normalized(v.schema.body, p.raw)
    BY <2>1 DEF Faithful
  <2>3. VersionSchema(p.survey, p.version) = v.schema
    BY <1>1, <2>2, VersionSchemaIs DEF SubInv
  <2>4. QED
    BY <2>1, <2>2, <2>3 DEF RowsFor
<1>2. SubInv => \A w \in answerRows : \E p \in responses : p.rid = w.rid
  BY DEF SubInv, SavedInv
<1>3. SubInv => RowsAreTheResponse
  BY <1>1, <1>2 DEF RowsAreTheResponse
<1>4. QED
  BY <1>3, SubInductive, PTL
\* Only its own commit ends a submission with success, and it adds exactly one
\* response (submission.go:81-149).
THEOREM SubmitTruthful == SubSpec => SubmitAnswersTruthfully
<1> DEFINE Truthful(c) ==
      ~SubAt(c, "idle") /\ sub'[c].pc = "idle" =>
        /\ sub'[c].reply = "ok" => Cardinality(responses' \ responses) = 1
        /\ sub'[c].reply \in {"refused", "stale"} => responses' = responses
<1>1. ASSUME SubInv, [SubNext]_allVars, NEW c \in Clients PROVE Truthful(c)
  <2>1. CASE sub'[c] = sub[c]
    BY <2>1 DEF SubAt
  <2>2. CASE sub'[c] # sub[c]
    <3>1. PICK d \in Clients : SubStep(d)
      BY <1>1, <2>2 DEF SubNext, answering, allVars
    <3>2. sub \in [Clients -> Subs]
      BY <1>1 DEF SubInv, SubTypes
    <3>3. \A reply : SubReply(d, reply) =>
            sub'[d] = [pc |-> "idle", reply |-> reply] /\ \A e \in Clients : e # d => sub'[e] = sub[e]
      BY <3>2 DEF SubReply
    <3>4. CASE Save(d)
      <4>1. c = d
        BY <2>2, <3>3, <3>4 DEF Save
      <4>2. sub'[c].reply \in {"ok", "error"}
        <5>1. PICK reply \in {"ok", "error"} : SubReply(d, reply)
          BY <3>4 DEF Save
        <5>2. sub'[d] = [pc |-> "idle", reply |-> reply]
          BY <3>3, <5>1
        <5>3. QED
          BY <4>1, <5>2
      <4> DEFINE p == [rid |-> sub[c].rid, survey |-> sub[c].id, version |-> sub[c].version,
                       raw |-> sub[c].raw]
      <4>3. responses' = responses \cup {p} /\ p.rid = sub[c].rid
        BY <3>4, <4>1 DEF Save
      <4>4. \A r \in responses : r.rid # sub[c].rid
        BY <1>1, <3>4, <4>1 DEF Save, SubInv, Carries, RidTaken
      <4> HIDE DEF p
      <4>5. responses' \ responses = {p}
        BY <4>3, <4>4
      <4>6. QED
        BY <4>2, <4>5, FS_Singleton
    <3>5. CASE ~Save(d)
      BY <1>1, <2>2, <3>1, <3>5, OnlySaveSucceeds
    <3>6. QED
      BY <3>4, <3>5
  <2>3. QED
    BY <2>1, <2>2
<1>2. SubInv /\ [SubNext]_allVars => [\A c \in Clients : Truthful(c)]_allVars
  BY <1>1
<1>3. QED
  BY <1>2, SubInductive, PTL DEF SubSpec, SubmitAnswersTruthfully
=============================================================================

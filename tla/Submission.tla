----------------------------- MODULE Submission -----------------------------
(***************************************************************************)
(* The submission service (internal/service/submission) beside the survey  *)
(* service: clients fetch the published snapshot and send answers while    *)
(* owners publish, close and change modes.  SaveSubmission (dao.go:54-89)  *)
(* writes a response and its answer rows in one transaction.               *)
(***************************************************************************)
EXTENDS SurveyService

CONSTANTS
  Clients,        \* clients answering at the same time
  ResponseIds,    \* what id.New() can return: response_id
  Questions,      \* question ids
  Asks,           \* the questions of each body, of types the registry knows
  Demands,        \* those of them that are required
  Rules,          \* its logic rules, each with one condition "answered"
  ClientAnswers,  \* the answers clients send
  UnknownPin      \* a version number a client may send without having seen it

\* What a client sends for a question: nothing, a value its handler accepts,
\* or one it refuses.
AnswerSheets == [Questions -> {"none", "valid", "invalid"}]

ASSUME SubmissionAssumption ==
  /\ Asks \in [Bodies -> SUBSET Questions]
  /\ Demands \in [Bodies -> SUBSET Questions]
  /\ Rules \in [Bodies -> SUBSET [type : {"hide", "show"}, when : Questions, target : Questions]]
  /\ ClientAnswers \subseteq AnswerSheets
  /\ UnknownPin \in Nat \ {0}

VARIABLES
  responses,      \* table responses, a set of rows
  answerRows,     \* table answer_rows, a set of rows
  page,           \* the page a client has open: a survey and a version, or none
  sub             \* the submission of each client

answering == <<responses, answerRows, page, sub>>

allVars == <<surveys, versions, req, responses, answerRows, page, sub>>

Responses ==
  [rid : ResponseIds, survey : SurveyIds, version : Nat \ {0}, raw : AnswerSheets]

AnswerRows ==
  [rid : ResponseIds, survey : SurveyIds, version : Nat \ {0}, qid : Questions]

NoPage == [survey |-> "none", version |-> 0]

NoSub == [pc |-> "idle", reply |-> "none"]

SubReplies == {"none", "ok", "refused", "stale", "error"}

\* pc: GetSurvey and the gates; loadSchema, then validation; the transaction's
\* InsertResponse, its InsertAnswerRows, and its commit.
SubStages == {"gate", "schema", "response", "rows"}

SubInit ==
  /\ Init
  /\ responses = {}
  /\ answerRows = {}
  /\ page = [c \in Clients |-> NoPage]
  /\ sub = [c \in Clients |-> NoSub]

-----------------------------------------------------------------------------
\* The pure part, as the program runs it: validate.go, normalize.go.

\* The targets of the rules of one type that fire on these answers; answers to
\* hidden questions fire rules like any other.
Targets(b, sheet, type) ==
  {r.target : r \in {r \in Rules[b] : r.type = type /\ sheet[r.when] # "none"}}

\* Evaluate: show overrides hide.
Hidden(b, sheet) == Targets(b, sheet, "hide") \ Targets(b, sheet, "show")

Visible(b, sheet) == Asks[b] \ Hidden(b, sheet)

\* ValidateSurvey finds nothing wrong.
Accepts(b, sheet) ==
  \A q \in Visible(b, sheet) :
    /\ q \in Demands[b] => sheet[q] # "none"
    /\ sheet[q] # "invalid"

\* NormalizeSurvey: rows for the visible questions that are answered.  The rows
\* of one question (one per option or matrix line) are taken together.
Normalized(b, sheet) == {q \in Visible(b, sheet) : sheet[q] # "none"}

-----------------------------------------------------------------------------
SubAt(c, stage) == sub[c].pc = stage

SubReply(c, reply) == sub' = [sub EXCEPT ![c] = [pc |-> "idle", reply |-> reply]]

HasPublished(id) ==
  /\ Exists(id) /\ surveys[id].status = "live"
  /\ HasVersion(id, surveys[id].published)

\* Faulty variant: the page is served from the draft.
OpenPage_Draft(c) ==
  /\ SubAt(c, "idle")
  /\ \E id \in SurveyIds :
       /\ HasPublished(id)
       /\ page' = [page EXCEPT ![c] = [survey |-> id, version |-> surveys[id].draft.version]]
  /\ UNCHANGED <<responses, answerRows, sub, vars>>

\* GetPublished: the snapshot the pointer names, for a live survey.  The page
\* learns the version from the JSON.
OpenPage(c) ==
  /\ SubAt(c, "idle")
  /\ \E id \in SurveyIds :
       /\ HasPublished(id)
       /\ page' = [page EXCEPT ![c] =
            [survey |-> id, version |-> VersionSchema(id, surveys[id].published).version]]
  /\ UNCHANGED <<responses, answerRows, sub, vars>>

\* A client sends answers: pinned to the version of its page, to a version it
\* did not see, or without a pin; with a session or without.  Requests the rate
\* limiter or the capability check turns away never get here.
SendAnswers(c) ==
  /\ SubAt(c, "idle")
  /\ \E id \in SurveyIds, authed \in BOOLEAN, sheet \in ClientAnswers :
     \E pin \in {0, UnknownPin} \cup
                (IF page[c].survey = id THEN {page[c].version} ELSE {}) :
       sub' = [sub EXCEPT ![c] =
         [pc |-> "gate", id |-> id, authed |-> authed, pin |-> pin, sheet |-> sheet]]
  /\ UNCHANGED <<responses, answerRows, page, vars>>

\* Submit's reading of the survey: it must exist and be live, and its access
\* mode must be that of the path the answers came by.
GateOpen(id, authed) ==
  /\ Exists(id)
  /\ surveys[id].status = "live"
  /\ authed <=> surveys[id].access = "login_required"

PassGate(c) ==
  /\ SubAt(c, "gate") /\ GateOpen(sub[c].id, sub[c].authed)
  /\ sub' = [sub EXCEPT ![c].pc = "schema"]
  /\ UNCHANGED <<responses, answerRows, page, vars>>

RefuseAtGate(c) ==
  /\ SubAt(c, "gate") /\ ~GateOpen(sub[c].id, sub[c].authed)
  /\ SubReply(c, "refused")
  /\ UNCHANGED <<responses, answerRows, page, vars>>

\* loadSchema finds the pinned version whatever the status is now, and the
\* current one only while the survey is live.
SchemaFound(q) == IF q.pin > 0 THEN HasVersion(q.id, q.pin) ELSE HasPublished(q.id)

LoadedVersion(q) == IF q.pin > 0 THEN q.pin ELSE surveys[q.id].published

\* Where a submission goes once schema is loaded and version is to be recorded.
Validated(c, schema, version) ==
  IF Accepts(schema.body, sub[c].sheet)
    THEN sub' = [sub EXCEPT ![c] =
           [pc |-> "response", id |-> sub[c].id, version |-> version, raw |-> sub[c].sheet,
            todo |-> Normalized(schema.body, sub[c].sheet)]]
    ELSE SubReply(c, "refused")

\* Faulty variants: the version recorded is the client's pin; it is the one
\* published now.
LoadSchema_Pin(c) ==
  /\ SubAt(c, "schema") /\ SchemaFound(sub[c])
  /\ Validated(c, VersionSchema(sub[c].id, LoadedVersion(sub[c])), sub[c].pin)
  /\ UNCHANGED <<responses, answerRows, page, vars>>

LoadSchema_Current(c) ==
  /\ SubAt(c, "schema") /\ SchemaFound(sub[c])
  /\ Validated(c, VersionSchema(sub[c].id, LoadedVersion(sub[c])),
               surveys[sub[c].id].published)
  /\ UNCHANGED <<responses, answerRows, page, vars>>

\* The version recorded is the one inside the snapshot's JSON.
LoadSchema(c) ==
  /\ SubAt(c, "schema") /\ SchemaFound(sub[c])
  /\ LET schema == VersionSchema(sub[c].id, LoadedVersion(sub[c])) IN
       Validated(c, schema, schema.version)
  /\ UNCHANGED <<responses, answerRows, page, vars>>

\* The pin is of no version of the survey (400), or nothing is published (404).
NoSchema(c) ==
  /\ SubAt(c, "schema") /\ ~SchemaFound(sub[c])
  /\ SubReply(c, IF sub[c].pin > 0 THEN "stale" ELSE "refused")
  /\ UNCHANGED <<responses, answerRows, page, vars>>

-----------------------------------------------------------------------------
\* SaveSubmission.

RidHeld(rid) == \E d \in Clients : SubAt(d, "rows") /\ sub[d].rid = rid

RidTaken(rid) == \E p \in responses : p.rid = rid

\* The transaction goes on with the rows of a response inserted as rid.
Inserted(c, rid) ==
  sub' = [sub EXCEPT ![c] =
    [pc |-> "rows", id |-> sub[c].id, version |-> sub[c].version, raw |-> sub[c].raw,
     todo |-> sub[c].todo, rid |-> rid, done |-> {}]]

\* Faulty variant: ON CONFLICT DO NOTHING.
InsertResponse_IgnoreConflict(c) ==
  /\ SubAt(c, "response")
  /\ \E rid \in ResponseIds : ~RidHeld(rid) /\ Inserted(c, rid)
  /\ UNCHANGED <<responses, answerRows, page, vars>>

\* InsertResponse under the response id drawn; responses_response_id_key
\* refuses one that is taken.
InsertResponse(c) ==
  /\ SubAt(c, "response")
  /\ \E rid \in ResponseIds :
       /\ ~RidHeld(rid)
       /\ IF RidTaken(rid) THEN SubReply(c, "error") ELSE Inserted(c, rid)
  /\ UNCHANGED <<responses, answerRows, page, vars>>

\* InsertAnswerRow, one row after another.
InsertRow(c) ==
  /\ SubAt(c, "rows")
  /\ \E q \in sub[c].todo :
       sub' = [sub EXCEPT ![c].todo = @ \ {q}, ![c].done = @ \cup {q}]
  /\ UNCHANGED <<responses, answerRows, page, vars>>

RowsOf(s) ==
  {[rid |-> s.rid, survey |-> s.id, version |-> s.version, qid |-> q] : q \in s.done}

\* Commit: response and rows appear together; the reply may be lost.
Save(c) ==
  LET s == sub[c] IN
  /\ SubAt(c, "rows") /\ s.todo = {}
  /\ responses' = responses \cup
       {[rid |-> s.rid, survey |-> s.id, version |-> s.version, raw |-> s.raw]}
  /\ answerRows' = answerRows \cup RowsOf(s)
  /\ \E reply \in {"ok", "error"} : SubReply(c, reply)
  /\ UNCHANGED <<page, vars>>

\* A statement fails or the client goes away: the transaction is rolled back.
SubFail(c) ==
  /\ ~SubAt(c, "idle")
  /\ SubReply(c, "error")
  /\ UNCHANGED <<responses, answerRows, page, vars>>

SubStep(c) ==
  \/ OpenPage(c) \/ SendAnswers(c) \/ PassGate(c) \/ RefuseAtGate(c)
  \/ LoadSchema(c) \/ NoSchema(c)
  \/ InsertResponse(c) \/ InsertRow(c) \/ Save(c) \/ SubFail(c)

SubNext ==
  \/ Next /\ UNCHANGED answering
  \/ \E c \in Clients : SubStep(c)

SubSpec == SubInit /\ [][SubNext]_allVars

-----------------------------------------------------------------------------
\* Types of the tables and of the submissions in progress.
SubTypeOK ==
  /\ responses \subseteq Responses
  /\ answerRows \subseteq AnswerRows
  /\ \A c \in Clients : sub[c].pc \in SubStages => sub[c].id \in SurveyIds

\* Every response is to a version that exists, though no foreign key says so:
\* the number is the one inside the snapshot that validated it, published
\* before and never removed (submission.go:131, dao.go:127-129).
ResponsesHaveTheirSnapshot ==
  \A p \in responses : HasVersion(p.survey, p.version)

\* Every response was accepted by its own version's schema, and its answer rows
\* are what that schema makes of the raw answers, no row more or less, none
\* without a response: whatever was published, closed or lost while it was
\* being saved (dao.go:52, all or nothing; validate.go, normalize.go).
RowsAreTheResponse ==
  /\ \A p \in responses :
       LET body == VersionSchema(p.survey, p.version).body IN
         /\ Accepts(body, p.raw)
         /\ {w \in answerRows : w.rid = p.rid} =
              {[rid |-> p.rid, survey |-> p.survey, version |-> p.version, qid |-> q] :
                 q \in Normalized(body, p.raw)}
  /\ \A w \in answerRows : \E p \in responses : p.rid = w.rid

\* The version of a page that was served stays valid: answers pinned to it are
\* never turned away as stale, however many versions follow (submission.go:79,
\* 151-161).
PagesStayValid ==
  \A c \in Clients :
    page[c].version > 0 => HasVersion(page[c].survey, page[c].version)

\* Success is reported for exactly one new response, and a refusal for none
\* (submission.go:81-149).
SubmitAnswersTruthfully ==
  [][\A c \in Clients :
       ~SubAt(c, "idle") /\ sub'[c].pc = "idle" =>
         /\ sub'[c].reply = "ok" => Cardinality(responses' \ responses) = 1
         /\ sub'[c].reply \in {"refused", "stale"} => responses' = responses]_allVars

\* What a comment promises and an interleaving refutes: answers are taken only
\* from live surveys, closing stops them (submission.go:91).
NoAnswersAfterClose ==
  [][\A p \in responses' \ responses : surveys[p.survey].status = "live"]_allVars
=============================================================================

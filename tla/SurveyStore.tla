----------------------------- MODULE SurveyStore -----------------------------
(***************************************************************************)
(* The tables surveys and survey_versions (db/migrations/001_init.sql) and *)
(* the statements internal/dao runs on them.  Each statement is atomic and *)
(* sees what is committed when it runs (READ COMMITTED); a transaction is  *)
(* several of them, with other requests in between.                        *)
(***************************************************************************)
EXTENDS Integers, FiniteSets, Rbac

CONSTANTS
  SurveyIds,    \* what id.New() can return: survey_id
  Users,        \* users.user_id
  RoleOf,       \* users.role, which no endpoint changes
  Bodies,       \* what a schema says (title, type, questions, rules), its
                \* id and version fields aside
  Minimal,      \* the body Create fills in when the client sends none
  Blank,        \* the zero SurveySchema: what Copy reads a JSON null as
  MarkCopy,     \* the same schema with the copy mark appended to its title
  NoRow         \* "no rows" of a SELECT

ASSUME StoreAssumption ==
  /\ RoleOf \in [Users -> Roles]
  /\ {Minimal, Blank} \subseteq Bodies
  /\ MarkCopy \in [Bodies -> Bodies]
  /\ \A b \in Bodies : MarkCopy[b] # b
  /\ Bodies \cap {"null", "malformed", "absent"} = {}

Statuses     == {"draft", "live", "closed"}
AccessModes  == {"anonymous", "login_required"}
DisplayModes == {"paged", "single"}

\* A SurveySchema document.  version is the field inside the JSON, which the
\* client may fill in as it likes.
Schemas == [body : Bodies, version : Nat]

\* What PUT /api/surveys/:id can leave in draft_schema: a document, or the
\* JSON null, which json.Unmarshal accepts into a struct without an error.
Drafts == [body : Bodies \cup {"null"}, version : Nat]

\* A request body before it is parsed.
Payloads == [body : Bodies \cup {"null", "malformed", "absent"}, version : Nat]

\* A row of surveys; published_version NULL is 0.
Rows ==
  [owner : Users, status : Statuses, draft : Drafts, published : Nat,
   access : AccessModes, display : DisplayModes]

ASSUME NoRowAssumption == NoRow \notin Rows

\* A row of survey_versions.
VersionRows == [survey : SurveyIds, version : Nat \ {0}, schema : Schemas]

VARIABLES
  surveys,      \* surveys, by survey_id
  versions      \* survey_versions, a set of rows

store == <<surveys, versions>>

StoreInit ==
  /\ surveys = [id \in SurveyIds |-> NoRow]
  /\ versions = {}

-----------------------------------------------------------------------------
\* Queries.

VersionsOf(id) == {v \in versions : v.survey = id}

\* MaxVersion: COALESCE(MAX(version), 0).
MaxVersion(id) ==
  CHOOSE m \in {0} \cup {v.version : v \in VersionsOf(id)} :
    \A v \in VersionsOf(id) : v.version <= m

HasVersion(id, n) == \E v \in VersionsOf(id) : v.version = n

\* GetVersionSchema, when there is such a row.
VersionSchema(id, n) == (CHOOSE v \in VersionsOf(id) : v.version = n).schema

\* GetSurvey finds a row.
Exists(id) == surveys[id] # NoRow

-----------------------------------------------------------------------------
\* Schema conversions.

\* schemaEqualIgnoringVersion.
EqIgnoringVersion(a, b) == a.body = b.body

\* Faulty variant: the snapshot keeps the client's number.
Stamp_AsSent(d, n) == d

\* stampVersion: the document with its version field overwritten.
Stamp(d, n) == [d EXCEPT !.version = n]

-----------------------------------------------------------------------------
\* Statements that write.

\* CreateSurvey: INSERT INTO surveys, on an id that is free.
InsertSurvey(id, row) ==
  /\ ~Exists(id)
  /\ surveys' = [surveys EXCEPT ![id] = row]
  /\ UNCHANGED versions

\* UpdateDraft, SetStatus, SetAnswerAccess, SetDisplayMode: one column each,
\* so a write never carries back the other columns of the row that was read.
SetDraft(id, d) ==
  /\ surveys' = [surveys EXCEPT ![id].draft = d]
  /\ UNCHANGED versions

SetStatus(id, s) ==
  /\ surveys' = [surveys EXCEPT ![id].status = s]
  /\ UNCHANGED versions

SetAccess(id, m) ==
  /\ surveys' = [surveys EXCEPT ![id].access = m]
  /\ UNCHANGED versions

SetDisplay(id, m) ==
  /\ surveys' = [surveys EXCEPT ![id].display = m]
  /\ UNCHANGED versions

\* The commit of Store.Publish: the rows of InsertVersion and SetPublished
\* become visible together.
CommitRelease(id, n, schema) ==
  /\ versions' = versions \cup {[survey |-> id, version |-> n, schema |-> schema]}
  /\ surveys' = [surveys EXCEPT ![id].published = n, ![id].status = "live"]

=============================================================================

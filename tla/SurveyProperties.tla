-------------------------- MODULE SurveyProperties --------------------------
(***************************************************************************)
(* What the survey service keeps true while requests interleave.           *)
(***************************************************************************)
EXTENDS SurveyService

\* Types: every row a column CHECK and a whitelist allows, every request at a
\* statement of its operation (001_init.sql, survey.go).
TypeOK ==
  /\ surveys \in [SurveyIds -> Rows \cup {NoRow}]
  /\ versions \subseteq VersionRows
  /\ req \in [Slots -> IdleSlots \cup BusySlots]

\* published_version is the newest version row, although the row is inserted
\* and the pointer moved by two statements and nothing locks the survey in
\* between (dao.go:110, the premise of the unchanged check).
PointerIsNewest ==
  \A id \in SurveyIds :
    LET n == IF Exists(id) THEN surveys[id].published ELSE 0 IN
      /\ \A v \in VersionsOf(id) : v.version <= n
      /\ n > 0 => HasVersion(id, n)

\* A survey is a draft exactly as long as it has no version: Close and Reopen
\* write a status they decided on from an older read, and still never take a
\* survey that was never published out of draft, nor a published one back
\* (status.go:5-8, the state machine).
DraftUntilReleased ==
  \A id \in SurveyIds :
    Exists(id) => (surveys[id].status = "draft" <=> VersionsOf(id) = {})

\* Version rows are numbered 1, 2, ... without a gap or a duplicate, and each
\* snapshot carries its own row's number, whatever the draft's JSON said
\* (dao.go:127-129: row version = JSON version = survey_version of answers).
SnapshotsNumbered ==
  \A id \in SurveyIds :
    /\ \A v \in VersionsOf(id) :
         v.schema.version = v.version
    /\ \A v, w \in VersionsOf(id) : v.version = w.version => v = w
    /\ \A v \in VersionsOf(id) : v.version > 1 => HasVersion(id, v.version - 1)

\* Two consecutive snapshots differ: concurrent publishes of one draft, each
\* of which compared it with a version list without the other's, do not both
\* succeed (dao.go:97-98, no empty versions).
NoEmptyRelease ==
  \A v, w \in versions :
    v.survey = w.survey /\ w.version = v.version + 1
      => ~EqIgnoringVersion(v.schema, w.schema)

\* Of the transactions publishing one survey, at most one is past its INSERT:
\* SetPublished never waits for a lock whose owner waits for it, so publishes
\* cannot deadlock in the database (dao.go:134-143).
OnePublisherPastInsert ==
  \A r, s \in Slots :
    /\ r # s
    /\ req[r].pc \in {"point", "commit"}
    /\ req[s].pc \in {"point", "commit"}
    => req[r].id # req[s].id

-----------------------------------------------------------------------------
\* Steps.

Answers(r, op) == ~Idle(r) /\ req[r].op = op /\ req'[r].pc = "idle"

\* A publish that answers with version n tells the truth: at that moment
\* version n is a snapshot of the draft the request read, freshly made or, for
\* unchanged, the newest there is (survey.go:297, dao.go:91-98).
PublishAnswersTruthfully ==
  [][\A r \in Slots :
       Answers(r, "publish") /\ req'[r].reply \in {"ok", "unchanged"} =>
         \E v \in versions' :
           /\ v.survey = req[r].id
           /\ v.version = req'[r].version
           /\ EqIgnoringVersion(v.schema, req[r].meta.draft)
           /\ (v \in versions) <=> (req'[r].reply = "unchanged")
           /\ \A w \in versions' : w.survey = v.survey => w.version <= v.version]_vars

\* Every request that is admitted is answered: the waits for the version key
\* and for the row lock all end (dao.go, Publish; the methods that UPDATE).
EveryRequestAnswered ==
  \A r \in Slots : ~Idle(r) ~> Idle(r)

-----------------------------------------------------------------------------
\* Whose survey.

\* Only the owner or an admin, and only with the capability of the operation,
\* changes an existing survey: of the requests that are being answered in the
\* step one is such a request (survey.go:82-97, server.go:72-83).
OnlyOwnersChange ==
  [][\A id \in SurveyIds :
       Exists(id) /\ surveys'[id] # surveys[id] =>
         \E r \in Slots :
           /\ ~Idle(r) /\ req'[r].pc = "idle"
           /\ req[r].id = id
           /\ OwnedBy(req[r].user, surveys[id])
           /\ Admitted(req[r].user, req[r].op)]_vars

\* A new survey belongs to the user who asked for it, starts as a draft with
\* no published version, and never takes the place of another; a copy of a
\* survey is made only for someone who may read that survey (survey.go:191-265).
NewSurveysAreFreshDrafts ==
  [][\A id \in SurveyIds :
       surveys'[id] # NoRow /\ surveys[id] = NoRow =>
         /\ surveys'[id].status = "draft" /\ surveys'[id].published = 0
         /\ surveys'[id].draft.body # "null"
         /\ \E r \in Slots :
              /\ Answers(r, "create") \/ Answers(r, "copy")
              /\ surveys'[id].owner = req[r].user
              /\ req[r].op = "copy" =>
                   /\ OwnedBy(req[r].user, surveys[req[r].id])
                   /\ surveys'[id].draft.body # req[r].meta.draft.body]_vars

\* The owner of a survey never changes, and access and display change only by
\* their own operations and to the value asked for: no request that read the
\* row earlier writes an old mode back (survey.go:312-343; dao.go:94-96,
\* publish does not touch them).
NoLostMode ==
  [][\A id \in SurveyIds :
       Exists(id) =>
         /\ surveys'[id] # NoRow /\ surveys'[id].owner = surveys[id].owner
         /\ surveys'[id].access # surveys[id].access =>
              \E r \in Slots :
                Answers(r, "setAccess") /\ req[r].mode = surveys'[id].access
         /\ surveys'[id].display # surveys[id].display =>
              \E r \in Slots :
                Answers(r, "setDisplay") /\ req[r].mode = surveys'[id].display]_vars

-----------------------------------------------------------------------------
\* Refinement.

Phase == [id \in SurveyIds |-> IF Exists(id) THEN surveys[id].status ELSE "none"]

History ==
  [id \in SurveyIds |->
     [n \in 1..(IF Exists(id) THEN surveys[id].published ELSE 0) |->
        VersionSchema(id, n).body]]

Abstract == INSTANCE VersionHistory WITH
  Surveys  <- SurveyIds,
  Contents <- Bodies,
  phase    <- Phase,
  history  <- History

\* The statements of concurrent requests add up to the life of a survey that
\* VersionHistory describes: releases only appended, never rewritten, a
\* published survey never a draft again.
RefinesVersionHistory == Abstract!Spec

-----------------------------------------------------------------------------
\* What comments and docs say of the program, and its interleavings refute.

\* The content of a published survey is frozen: an update past the guard of
\* drafts does not reach it, and a publish freezes the draft as it is then, so
\* that draft and newest snapshot say the same (survey.go:282-286, dao.go:93).
PublishedContentFrozen ==
  \A id \in SurveyIds :
    Exists(id) /\ surveys[id].status # "draft" =>
      EqIgnoringVersion(surveys[id].draft, VersionSchema(id, surveys[id].published))
=============================================================================

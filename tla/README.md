# A formal model of wenjuandiaocha_backend

TLA+ modules, TLC configurations and TLAPS proofs for the survey backend in
`src/`: a Go server (gin, pgx, sqlc) over PostgreSQL with which creators edit,
publish and close surveys and respondents answer them. Nothing in the program
takes a lock except the rate limiter; its correctness under concurrency rests on
the order of SQL statements, on UNIQUE keys and on the row locks of PostgreSQL.
That is what the modules are about.

To check a run: `tlc -workers 2 -config Lifecycle.cfg MCLifecycle.tla`; to check
the proofs: `tlapm SurveyProofs.tla`, and so for the other seven `*Proofs` modules.

## 1. The system

| Component | State | Operations | Talks to |
|---|---|---|---|
| Survey service (`service/survey`, `server/http/surveys.go`) | none of its own | Create, Copy, Get, Update, Publish, SetAnswerAccess, SetDisplayMode, Close, Reopen, List, Stats | store |
| Store (`dao`) | tables `surveys`, `survey_versions`, `responses`, `answer_rows`, `sessions`, `users` | one method per statement, and the transactions Publish and SaveSubmission | PostgreSQL |
| Submission service (`service/submission`, `server/http/public.go`) | none | GetPublished, Submit | store, domain, rate limiter |
| Domain (`domain`, `domain/qtype`) | none | Evaluate, ValidateSurvey, NormalizeSurvey, one handler per question type | - |
| Auth (`service/auth`, `server/http/auth.go`, `middleware/auth`) | none (sessions in the store) | Login, Logout, Me, ValidateSession, RequireAuth | store, RBAC |
| RBAC (`rbac`) | constant matrix | Can, IsAdmin | - |
| Rate limiter (`lib/ratelimit`) | map address -> bucket, under a mutex | Allow | clock |
| Identifiers (`lib/id`) | - | New | random source |
| Connection pool (`dao.New`, pgxpool) | a fixed number of connections | acquire and release, Begin to Commit or Rollback | PostgreSQL |
| HTTP, envelope, middleware, config, wiring, seed, deploy | - | routing, rendering, recovery of panics | all |

A request runs in a goroutine of its own: RequireAuth reads the session and the
role, the handler calls one service method, the method runs a few statements.
Requests meet only in the tables. A client that goes away cancels its context,
and with it the statement being run; a transaction that is not committed is
rolled back by a `defer`.

What is hard here, and what makes each component correct:

- *Survey service.* Every operation reads the row (`owned`) and writes later,
  without a transaction around the two, and the write names the survey by id
  alone. Publish makes a version row and moves a pointer in one transaction, but
  over a draft read before it began. Right is: versions numbered 1, 2, ...; the
  pointer at the newest; consecutive versions different; the status machine
  draft - live - closed kept; no column written back by a request that meant
  another; only owners and admins write; nobody waits for ever.
- *List.* The rows and the total are two queries, pages are cut by offset out of a
  list that grows at its head, and the offset is a product of numbers the client
  chose, computed in 64 bits and passed in 32. Right is: the page is the one asked
  for, the total covers it, and who follows the pages misses nothing.
- *Connection pool.* Transactions keep their connection while they wait for each
  other's keys. Right is: no connection is lost to a refusal, a panic or a
  cancelled request, and nobody waits for a connection for ever.
- *Submission.* Four reads at four moments (survey, schema, then the
  transaction's inserts), while the survey may be published anew, closed or
  switched. Right is: a response always belongs to an existing version, was
  accepted by it, and its rows are what that version makes of its answers.
- *Sessions.* Read, clock and purge are separate; errors of deletions are
  dropped. Right is: no admission after expiry or after a logout that took
  effect, and no session lost to the purge of another.
- *Rate limiter.* Right is: never more than burst + rate in any window, and
  never a refusal below it.
- *Domain.* Validation and normalisation are separate walks over the same
  answers, per question type. Right is: what one accepts the other stores, in
  full, no more often than asked for, and within what the question offers; required
  questions really answered; hidden ones without effect; show over hide whatever the
  order. All of that for any survey that decodes: nothing in the backend looks for
  repeated ids or empty values.

`PROJECT.json` lists the hazards line by line, each with the properties that
cover it or the reason why none does.

## 2. The modules

| Module | Models | State |
|---|---|---|
| `Rbac` | `rbac.go`: matrix, Can, IsAdmin | - |
| `SurveyStore` | tables `surveys`, `survey_versions` and the statements on them | `surveys`, `versions` |
| `SurveyService` | the operations of `survey.go` and `Store.Publish`, statement by statement | the store and `req` |
| `SurveyProperties` | the properties of the survey service | - |
| `VersionHistory` | abstract: a survey is a phase and a growing list of releases | `phase`, `history` |
| `Submission` | `submission.go`, `Store.SaveSubmission`, validate, normalise, show/hide rules | adds `responses`, `answerRows`, `page`, `sub` |
| `ConnectionPool` | the two services on a pool of connections (`dao.New`, `Begin`, the deferred Rollback) | adds `held` |
| `Listing` | `List`, its two queries, the clients that page, the table under them | `table`, `clock`, `pending`, `reader` |
| `Questionnaire` | `domain` and `domain/qtype`: conditions, rules, the twelve handlers, ValidateSurvey, NormalizeSurvey | `case`, `phase`, `rows` |
| `Sessions` | `service/auth`, `RequireAuth`, table `sessions`, a clock | `sessions`, `conn`, `now`, ... |
| `RateLimiter` | `ratelimit.go`, the key it is given | `buckets`, `now`, ... |
| `SurveyProofs`, `SurveyStepProofs`, `SubmissionProofs`, `PoolProofs`, `ListingProofs`, `QuestionnaireProofs`, `SessionsProofs`, `RateLimiterProofs` | theorems | - |
| `MC*` | the instances for TLC | - |

`SurveyService` extends `SurveyStore` (which extends `Rbac`); `Submission` extends
`SurveyService` and interleaves with it over the same tables; `ConnectionPool`
extends `Submission` and lets every statement of both run only on a connection;
`SurveyProperties` instantiates `VersionHistory`. `Questionnaire` is the detail of what `Submission`
keeps of the domain: its `none` is an unanswered value, its `valid` one that the
handler accepts and has rows for, its `invalid` one the handler refuses; the other
way round, `Submission` is where the two walks meet versions that change. (An
optional array or matrix sent empty is accepted without rows, which `Submission`
counts as `none`; the text stored in `raw` is not looked at there.) `Listing`,
`Sessions` and `RateLimiter` stand alone. `Listing` keeps of the table what its two
queries look at, and its inserts and changes are any that the survey service may
make. What the other two hand on to the services (an admitted user, a request let
through) is in the services' modules any request with any user.

### How code becomes actions

*One statement, one step.* `req[r]` is a request being served; its `pc` is the
statement it runs next and `meta` the row `owned` read, kept only by the
operations that use it later (Publish, Copy). A step reads or writes the tables
atomically, sees what is committed then (READ COMMITTED), and carries the Go code
up to the next statement with it: `Load` is `GetSurvey`, the ownership check, the
status guard and, for Update, the parsing of the body. `Update`, `Close`,
`Reopen`, `SetAnswerAccess`, `SetDisplayMode`, `Create`, `Copy` are the one write
each of these makes, with its answer. Each UPDATE changes one column, as the SQL
does; the title and type columns that `UpdateDraft` also writes are copies of
fields of the body.

*Publish* is `Load`, then the max version query and the comparison
(`PublishUnchanged`, `PublishPanic`, `PublishNext`), `InsertVersion` or
`InsertRefused`, `SetPublished`, `Commit`. Uncommitted rows are not in the tables:
a request at `point` or `commit` holds the key of its version (`KeyHeld`), one at
`commit` also the row lock (`RowLocked`). Another insert of that key waits, and
fails once the key is committed; another UPDATE of that row waits.
MaxVersion and GetVersionSchema are one step because version rows never change.

*Failure.* `Fail` ends any request at any point without effect: a failed
statement, a cancelled context, a stopped server. A write that took effect may
still be answered with an error (`AnswerWrite`, `Commit`, `Save`). The panic of
`stampVersion` on a JSON null draft is `PublishPanic`: `recovery.go` answers 500
and the deferred Rollback ends the transaction.

*Data.* A schema is `[body, version]`: the body is all that it says, a model
value; the version is the field inside the JSON, which matters because the
snapshot's is stamped and the draft's is whatever the client sent. Bodies are
equal exactly when `schemaEqualIgnoringVersion` says so; the `id` field of a
schema, which Create and Copy set to the survey's own and the front end sends
back unchanged, counts as part of neither. The body `null` is the JSON null,
`malformed` does not parse, `absent` is no body. `MarkCopy` appends Copy's mark to
the title: it never returns its argument. (In a finite instance some body must be
the copy of a copy; the instances are such that this is not reached.) Ids are
drawn by the environment, taken ones included. The answers to a question are
`none`, `valid` or `invalid` by its type's handler; a logic rule has one condition,
"answered".

*Submission.* `page[c]` is the version the browser has learned from GetPublished;
`SendAnswers` sends with that pin, with one the client never saw, or with none,
with a session or without. `PassGate` is the read of the survey with its checks,
`LoadSchema` the read of the schema with validation and normalisation,
`InsertResponse`, `InsertRow` and `Save` the transaction.

*Connection pool.* `held` is who has a connection. A statement of its own that only
reads needs a free one and gives it back within the step; a write takes one
(`Acquire`) and keeps it while it waits for a lock; a transaction keeps one from
Begin until it commits or its deferred Rollback runs, whatever ended it. The
actions are those of the two services with these guards, so that `Acquire` is the
only step that the services do not have. The session lookup of RequireAuth is one
more read before a request arrives and is left out.

*Listing.* `Ask`, `ReadRows`, `ReadCount` are the handler with the arithmetic of
`List`, the query of the rows and the query of the total; `Follow` is the front
end's page control, which goes on while the pages so far, at the size they were
served, are fewer than the total. A row is its owner, its facet (what the filters on
title, type and status see of it) and its place in the order `(created_at, id)`.
`now()` is taken when the INSERT starts and the row is seen when it commits, so a
row may appear behind newer ones. `Change` is any update of title, type or status.
`base`, `seen`, `top` and `kept` are history: what the list had when the walk began,
what its pages showed, whether it began with the first page, and whether a survey has
left the list since. Both widths are constants, and `Wrap` is Go's conversion.

*Questionnaire.* A JSON value is a record of its kind and content; numbers count
halves, so that "whole" has a meaning. Each handler is two operators, `...Ok` for
Validate (empty message or not) and `...Rows` for Normalize. The order in which Go
walks a map decides only which message is given. Strings are atoms with a length
in UTF-16 units (`Size`), a set of blank ones (`Spaces`) and a relation to the
formats (`WellFormed`), which stands for the regular expressions, the calendar and
the checksum of `checkFormat`. `Evaluate` keeps the code's one pass in list order.
`Validate` and `Flatten` are the two calls of Submit. The subId of a multi-choice
fill text, `value + ".fill"`, is the constant function `FillKey`, of which only
matters that it is injective. Two ASSUMEs say what the constants are:
`QuestionnaireAssumption` the strings, and `TrialsAssumption` that lists are lists and
surveys and answers what `encoding/json` makes of them. Neither asks for distinct ids
or values: the editor keeps them distinct, but the backend takes questions, lines and
options as they come, and so does the model. The options of a question are a list, in
which single-choice takes the first one of a value and multi-choice and matrix-scale
the last.

The properties are stated accordingly. `Held` is every way to something an answer
holds, two levels deep, which is as far as a handler looks; `RowOf` is the row that
says what is there, and `Said` are the rows for all of an answer that its handler does
not pass over. `NothingDropped` wants all of them stored, `RowsFitQuestion` nothing
else. `Askings` counts how often the survey asks for a row, once for every question of
its id and line of its sub id; `CountedOnce` lets no row be stored more often.

*Sessions.* `conn[r]` is a request at a statement. Tokens are 32 random bytes:
none is drawn twice, and clients only present tokens they were given or bytes
that find no row. `deleted` and `born` are history variables: the tokens whose logout
took effect, and when each token was drawn. `TokensDieInTime` holds what is served
against `born`, not against the row: neither a slow INSERT, nor use, nor a DELETE that
failed gives a token more time.

*Rate limiter.* The level counts ticks; one token is `Refill` ticks' worth, so a
bucket gains one per tick. The program adds seconds times the rate to a float64:
exact arithmetic in ticks abstracts from its rounding, which is below 1e-9 of a
token per call. `Allow` runs under a mutex and is one action.

## 3. The runs

| Run | Instance | Checks |
|---|---|---|
| `Lifecycle` | 1 survey, 2 requests, 1 user, 4 bodies; create, update, publish, close, reopen, read, the display switch | `PointerIsNewest`, `DraftUntilReleased`, `SnapshotsNumbered`, `NoEmptyRelease`, `OnePublisherPastInsert`, `PublishAnswersTruthfully`, `NoLostMode`, `RefinesVersionHistory` |
| `Studio` | 2 ids, 2 requests (create, copy, update, publish, access switch), a creator, an admin, a respondent | `OnlyOwnersChange`, `NewSurveysAreFreshDrafts` |
| `Pool` | the server on 2 connections: 1 survey, 2 studio requests, 1 client; publish, update (JSON null), the access switch; under `PoolFairness` | `TypeOK`, `NoConnectionLeaks`, `NoLostMode`, `EveryRequestAnswered`, `EverySubmissionAnswered` |
| `Submission` | 1 survey with 2 versions, 1 studio request, 2 clients, 2 response ids, 2 questions | `SubTypeOK`, `ResponsesHaveTheirSnapshot`, `RowsAreTheResponse`, `PagesStayValid`, `SubmitAnswersTruthfully` |
| `Listing` | 3 surveys, 2 owners (one an admin), 2 inserts at a time, 1 client, 2 facets; pages of at most 2, offsets of 4 bits computed in 6 | `TypeOK`, `OffsetIsThePage`, `TotalCoversPage`, `WalkSeesAll` |
| `Answers` | one question of each type under every setting of its props with answers of right and wrong shape; surveys whose options, lines or questions repeat or are empty; two questions under up to two rules; 51043 cases | `ShowWins`, `NothingDropped`, `CountedOnce`, `RowsFitQuestion`, `RequiredIsComplete`, `HiddenAnswersAreInert` |
| `Sessions` | 2 users, 2 tokens, 2 requests, TTL 1, 4 instants | `TypeOK`, `NoAdmissionAfterLogout`, `TokensDieInTime`, `SessionsEndOnTheirOwn` |
| `RateLimit` | 2 clients with own addresses, capacity 2, refill 3 ticks, 9 instants | `TypeOK`, `WindowBound`, `RefusedOnlyAtLimit` |

All of these pass. Four runs state what a comment or a document says and show a
behaviour of the code that contradicts it:

| Run | Statement | What happens |
|---|---|---|
| `AnswersAfterClose` | closing stops the answers (`submission.go:91`) | a submission past the status check is saved after the close |
| `EditAfterPublish` | only drafts are edited, publish freezes the current draft (`survey.go:282`, `dao.go:93`) | an update and a publish cross: the survey is live, its draft is not what was published, and nobody can edit it |
| `DeepPage` | the offset cannot wrap into a negative one (`survey.go:141`) | `Atoi` gives the largest int for too many digits, its error is ignored, the product overflows 64 bits and passes the clamp from above |
| `SharedLimit` | the limit is per client IP (`public.go:20`, `nginx.conf:15`) | behind nginx every client has the proxy's address |

Two more disagreements need no run. `README.md:80` says that a logout deletes the
session; `Logout` drops the error of its DELETE (`auth.go:78`), so after a failed one
the client is told success and the session lives on (`LogoutFails`). And `queries/surveys.sql:63`, `http/surveys.go:96`,
`api/io.go:143` and `methods.go:192` say that the answer access mode may only be set
in draft; `SetAnswerAccess` has no such guard, and `survey.go:311` says so on purpose.

What `NothingDropped` has to except is also worth knowing: an optional matrix
answered with something that is no object, a cell that is no string in
`matrix-single` and `matrix-scale`, and of a choice a fill text that is no string, a
field other than `value` and `text`, and a text filled in with an option whose value is
empty are accepted and stay in `raw`, without a row (`PassedOver`). The handlers'
comments describe the first. `RequiredIsComplete` has one exception too
(`OnlyUnnamed`): a required choice, or line of a matrix-multi, answered with nothing but
an option whose value the survey left empty is accepted and has no row.

### Why the bounds are enough

- *Lifecycle.* All conflicts are between two requests on one row or one key, so
  one survey and two slots show each pair of operations in every interleaving; a
  slot takes one request after another without limit. The number of versions
  needs no bound: once a survey is published only the updates already past their
  guard can still change its draft, and a publish of an unchanged draft adds
  nothing. Two different bodies and the JSON null are all that the comparison and
  the stamp tell apart. The theorems of section 5 hold without any of these
  limits.
- *Studio.* Three roles, and two ids so that a copy can be made, refused for a
  taken id, and raced by a create.
- *Pool.* Two publishes that wait for the same key hold both connections while a
  third party, the submission, wants one; with fewer connections than waiters every
  order of waiting occurs. The JSON null puts the panic of a publish among the ways a
  transaction ends. The access switch with the publishes is what `NoLostMode` is about.
- *Submission.* Starting from two versions and a draft equal to the older one (a
  state that `Lifecycle` reaches by an update and a publish overtaking each other)
  keeps the run short and makes a third version possible while the clients are
  answering. The two versions ask and hide differently, so judging answers by the
  wrong one is seen. Two clients draw from two response ids, so that they meet on one
  and on different ones. Conflicts between two studio requests are `Lifecycle`'s; one
  is enough to change the survey at any moment.
- *Listing.* Three rows make two pages of one or two and one past the end; two
  inserts let a row appear behind a newer one. The widths are scaled so that the
  sixth page is past the narrow one and, in `DeepPage`, the largest page number
  past the wide one, as in the program. Walks whose list loses a survey to a filter
  meanwhile are not promised anything: the next page then skips a row, as offset
  paging does, and no comment says otherwise.
- *Answers.* Handlers look at one question and one answer at a time, so one
  question per survey is enough for them. Two options (one with a fill text), two
  lines and a foreign one, arrays of up to three elements reach every branch; the
  texts are empty, blank, short and long. Rules only add to two sets, so two rules
  in either order show every conflict, on conditions with each operator, a type
  without a handler, and values of each kind. What a survey can repeat is met in every
  type that looks at it: two options of one value that differ in fill and score around
  one without a value, a line listed twice, and pairs of questions of one id.
- *Sessions.* With TTL 1 and four instants a session is fresh, at its last
  instant and expired, and a second one can be opened after the first expired.
- *RateLimit.* Eight ticks are more than the six that fill an empty bucket, so it
  can be drained, filled to the brim and drained again; capacity 2 tells the burst
  from the rate, refill 3 leaves fractions of a token to lose.

`Submission` uses symmetry on clients and response ids, `Listing` on survey ids,
`Studio` on survey ids and on request slots, all
of which are drawn freely and occur in no definition, and none of the three checks liveness.
No run uses a state constraint. `MaxTime` in `Sessions` and `RateLimiter` and
`MaxClock` in `Listing` are the only bounds in a guard. Deadlock is checked
everywhere, since a request can always arrive or fail, except in `Answers`, where a
case ends with its verdict or its rows.

### Fairness

`PoolFairness` assumes strong fairness of what each request and each submission
does next: the pool serves the waiters for a connection in the order they came, the
lock queue of PostgreSQL does the same, the Go scheduler runs every goroutine and a
query returns; so a step that is free to run again and again is not passed over
for ever, although the connection or the row it needs may be taken in between.
Nothing is assumed of failures, of arrivals, or of clocks. `EveryRequestAnswered` and
`EverySubmissionAnswered`, in the run `Pool`, use it.

## 4. Abstract specification

`VersionHistory` says what the survey service promises when requests and
statements are left aside: draft, release (append a content different from the
newest, be live), close, reopen. `SurveyProperties` maps the rows to it: phase is
the status, history the bodies of versions 1..published. `RefinesVersionHistory`
is checked in `Lifecycle` and proved as `ServiceRefinesHistory`. Each statement that commits is a step of it or a
stutter: a Close that decided on an old read still only closes what is live or
already closed.

The two services without a pool are in turn the abstract view of `ConnectionPool`:
`PoolSpec => SubSpec`, proved in `PoolProofs`. The pool's variable is the only one
added, so the mapping is the identity on the others. Submissions in turn leave the
surveys alone, so `PoolSpec => Spec` follows, and the whole server on its pool
implements `VersionHistory`.

## 5. What is proved

`SurveyProofs`, for every set of surveys, users, bodies and slots and every
choice of operations:

- `IInv` is the inductive invariant. The safety properties are not inductive
  alone: between its statements a publish relies on what it has read. `IInv` is
  the conjunction of
  - `TypeInv`: types, and which fields a request at each stage has (`RequestOK`);
  - `HistoryInv`: the version rows of a survey are exactly 1..published, each with
    its own number inside, consecutive ones different, the status draft exactly
    without versions, live or closed with them;
  - `PublisherInv`: what a request decided on from an older read still holds. A
    publish at `insert` holds a number at most one past the newest; one at `point`
    or `commit` holds exactly that number; in both cases its draft differs from the
    snapshot just before its number; a close or reopen about to write has a survey
    that is no draft;
  - `OnePublisherPastInsert`, without which two publishes could both rely on the
    number one past the newest.
- `Inductive` is `Spec => []IInv`, by `InitInv`, `StepInv` (one lemma per group of
  actions: `ReadsInv`, `InsertInv`, `CommitInv`, `WritesInv`) and `StutterInv`.
- `TypeCorrect`, `PointerCorrect`, `DraftCorrect`, `NumberingCorrect`,
  `ReleasesDiffer`, `PublishersInOrder` follow.

`SurveyStepProofs`, what single steps of the survey service may do, from the same
`IInv` and for all the same parameters:

- `ModesKept` (`NoLostMode`): every write leaves the columns of the others alone, and
  a mode changes only by its own operation, to the value asked for.
- `RightsHold`: `OwnersInv`, which says that a request past `Load` is on a survey its
  user owns or may administrate. `IInv` does not say it; it is inductive because owners
  never change, which is part of `ModesKept`.
- `OwnersOnly` (`OnlyOwnersChange`) and `NewSurveysFresh` (`NewSurveysAreFreshDrafts`)
  follow from `OwnersInv`, `PublishTruthful` (`PublishAnswersTruthfully`) from
  `HistoryInv` and `PublisherInv`: an unchanged publish is compared with the newest
  version row, and a publish that commits holds the number one past it.
- `ServiceRefinesHistory` (`RefinesVersionHistory`): under `IInv` the mapped history is
  a sequence for each survey (`HistoryTyped`), the initial states map to the initial
  state, and each action maps to one step or to none: `Create` and `Copy` to a draft,
  `Commit` to a release with a content that differs from the newest, because
  `PublisherInv` says so, `Close` and `Reopen` to theirs, all others to a stutter. No
  two surveys change in one step.

`SubmissionProofs`, on top of `IInv`, for every number of clients, questions, rules
and versions:

- `SubInv` adds what a submission knows between its statements: past validation, its
  answers and its rows are those of some version row that accepts them (`Carries`,
  with `Faithful`); inside the transaction its response id is nobody else's
  (`OneHolder`); what is stored is complete (`SavedInv`). It is inductive because
  version rows are never changed or removed (`VersionsGrow`).
- `SubInductive`; `SubTypesCorrect`, `ResponsesAnchored`, `PagesValid`, `RowsCorrect`
  follow, and `SubmitTruthful` for each step.

`PoolProofs`, for every size of the pool:

- `PoolImplementsServices`: every step on the pool is a step of the services or, for
  `Acquire`, a stutter. So the invariants above hold on the pool; `PoolTypesCorrect`
  is one of them.
- `PoolImplementsSurveyService`: and a step of the survey service, or none, seen from
  the surveys. `PoolKeepsModes` and `PoolRefinesHistory` carry `ModesKept` and
  `ServiceRefinesHistory` over to the pool.
- `ConnectionsAccounted` from `PoolInv`, which is `SubInv` with `NoConnectionLeaks`: each
  action is shown to move its own request only, and to leave it writing, in its
  transaction, or without a connection.

`ListingProofs`, for every number of surveys, readers and inserts and all widths:

- `ListInv`: what a walk has not seen yet has a rank at or behind the offset of the
  page asked for, and behind its end once the rows are read (`StillAhead`); ranks only
  grow while a list loses nothing (`PlaceGrows`); a page that has rows ends within
  the list (`SliceFits`, from the newest of its rows), and the total counted later is no
  smaller; an INSERT in progress is for an id that no row has.
- `ListInductive`; `ListTypesCorrect`, `WalksComplete` and `TotalsCover` follow.
- `OffsetsExact`, assuming that no client begins with a page whose offset exceeds 64
  bits, which is what `DeepPage` does: `Follow` then stays below the number of surveys.

`QuestionnaireProofs`, for every survey that decodes, with whatever it repeats or leaves
empty, every list of rules and every answer:

- `QInv` is the invariant: the case is one of those given, the verdict that of
  `ValidateSurvey` on it and the rows those of `NormalizeSurvey`. It is easy to keep;
  the work is in what the two functions say of each other.
- `EvaluateIs`: the fold over the rules in list order is the set difference of all
  targets hidden and all targets shown. There is no induction over data here; its
  place is taken by the well-founded order of finite sets (`FoldCollects`). The same
  way, with the least number (`LeastNumber`), `FlattenIs` says where in a flattened
  list each element of its parts is found.
- `ShowWinsAlways` follows from `EvaluateIs`; `HiddenInert` too, since clearing the answers
  that no condition reads leaves the hidden set as it is (`ClearingHidesTheSame`).
- `Sound` is what a handler owes the survey for an answer that it accepted: rows of its
  question only, those that are alike on different lines (`Apart`), each fitting the
  question after those before it (`Fits`), and all that is demanded (`Complete`). There
  is one lemma per question type (`SingleChoiceSound` ... `MultiFillSound`; those with
  lines rest on `LineSound`), joined in `HandlerSound`. Distinct choices come from the
  cardinality that the handlers compare (`AllDifferent`, the pigeonhole principle).
- `Says` is the other half: the rows of a handler are exactly `Said`, as sets. Again one
  lemma per type (`SingleChoiceSaid` ... `MatrixMultiSaid`; those with one value to a
  cell rest on `CellsSaid`), joined in `HandlerSaid`.
- `SurveyRows` puts the parts together: the rows of the survey are the parts of its
  questions one after the other, each `Sound` and `Says`, or nothing. `RowsFit`,
  `RequiredComplete` and `StoredInFull` (`NothingDropped`) follow from it, as every row
  has its place in the part of one question (`EveryRowPlaced`).
- `CountedOnceAlways` counts: each place of a row is one asking of the survey for it
  (`AskingIsOne`), places of equal rows are different askings (`AskingsDiffer`), so that
  there are no more places than askings.

`SessionsProofs`, for every lifetime, user and interleaving:

- `SessionsInv`: what a request holds of its token's row (the row itself, or the token
  is gone), that a token is drawn once, and that a deleted one has no row.
- `AgeInv`: every copy of a session's row, in the table or in the hands of a request,
  ends one lifetime after its token was drawn.
- `SessionTypesCorrect`, `LogoutHolds`, `LifetimeHolds` (`TokensDieInTime`, from `AgeInv`),
  `SessionsEndAlone`.

`RateLimiterProofs`, for every capacity, refill and clock:

- `WindowBounded` from `BudgetInv`: what a client has used since its i-th request
  plus what its bucket holds is at most a full bucket plus the time passed.
  `LimiterTypesCorrect` comes with it.
- `RefusalsJustified`, assuming that no two clients share an address, from
  `AnchoredInv`: a bucket that is not full accounts exactly for its client's
  requests since some earlier one.

The proofs assume the named ASSUMEs of the constants, and what is stated in the
theorem where there is more; TLC evaluates the former in the runs.

Only model-checked: liveness (`EveryRequestAnswered`, `EverySubmissionAnswered`), which
the prover does not do. Every other property of a passing run is the subject of a
theorem. The four statements that the program violates are refuted by TLC's
counterexamples.

## 6. Not modelled, and why

- *What the text formats accept* (regular expressions, calendar days, the checksum
  of identity cards, the provinces): a constant relation. Wording of the errors.
  Props that do not parse.
- *Stats*: one count of responses behind the ownership check that `Get` has.
- *Users and seed*: no endpoint writes them; the seed command runs before the server.
- *Opening and closing the pool*, and what PostgreSQL does when it is out of
  connections itself.
- *CORS, request ids, logging, configuration, wiring, generated code, wording of
  answers*: no state or formatting.
- *Password hashing, randomness*: choices of the environment.
- *Duplicates by retry*: requests carry no key by which the server could
  recognise a retry and nothing promises that it does.

## 7. Plan

Done, in this order: the survey service with its store and abstract history,
access control, submission, questionnaire, sessions, rate limiter; then the list,
the connection pool, and two clients on one response id; the inductive invariants of
all of these; the step properties of the survey service, its refinement of
`VersionHistory`, and the questionnaire for any survey and answer.

Next:

1. `Questionnaire` composed with `Submission`: the sheets of a client as JSON values,
   `Submission`'s abstraction as a refinement mapping, with the lemmas of
   `QuestionnaireProofs` (`HandlerSound`, `EvaluateIs`) as its proof.
2. Several surveys in the run `Submission` (its proofs hold for any number).

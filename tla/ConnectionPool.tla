--------------------------- MODULE ConnectionPool ---------------------------
(***************************************************************************)
(* The whole server on its connection pool (dao.New, pgxpool): the survey  *)
(* service and the submission service share a fixed number of connections. *)
(* A single SELECT takes one and gives it back; a statement that writes    *)
(* keeps one while it waits for a lock; a transaction keeps one from Begin *)
(* to Commit or Rollback.  When all are out, everyone else waits.          *)
(***************************************************************************)
EXTENDS Submission

CONSTANT
  PoolSize      \* pool_max_conns

ASSUME PoolAssumption ==
  /\ PoolSize \in Nat \ {0}
  /\ Slots \cap Clients = {}
  /\ IsFiniteSet(Slots) /\ IsFiniteSet(Clients)

VARIABLE
  held          \* the requests and submissions that have a connection

poolVars == <<surveys, versions, req, responses, answerRows, page, sub, held>>

PoolInit == SubInit /\ held = {}

-----------------------------------------------------------------------------
Free == Cardinality(held) < PoolSize

\* Inside a transaction of two and more statements.
RequestInTx(r) == req[r].pc \in {"insert", "point", "commit"}

SubmissionInTx(c) == SubAt(c, "rows")

InTx(x) == IF x \in Slots THEN RequestInTx(x) ELSE SubmissionInTx(x)

\* About to write: a single statement, or a transaction's Begin.
Writing(x) ==
  IF x \in Slots THEN At(x, "write") \/ At(x, "max") ELSE SubAt(x, "response")

\* pgxpool.Acquire, for s.q and for s.pool.Begin.
Acquire(x) ==
  /\ x \notin held /\ Writing(x) /\ Free
  /\ held' = held \cup {x}
  /\ UNCHANGED allVars

\* Faulty variant: statements of the transaction go through s.q, which takes a
\* connection of its own.
OnConnection_Another(x) == x \in held /\ Free

\* WithTx: the statements of a transaction run on the connection it has.
OnConnection(x) == x \in held

\* Faulty variant: no deferred Rollback, so only a commit and a single
\* statement give the connection back.
ReleaseRequest_NoDefer(r) ==
  held' = IF At(r, "write") \/ At(r, "commit") THEN held \ {r} ELSE held

\* The deferred Rollback and the end of a single statement give the connection
\* back, whatever ended them.
ReleaseRequest(r) == held' = IF req'[r].pc = "idle" THEN held \ {r} ELSE held

ReleaseSubmission(c) == held' = IF sub'[c].pc = "idle" THEN held \ {c} ELSE held

-----------------------------------------------------------------------------
\* The actions of the two services on a connection.

\* Reads that take a connection for the one statement.
SelectAlone(r) ==
  /\ At(r, "load") /\ Free
  /\ Reads(r)
  /\ UNCHANGED <<held, answering>>

RequestStatement(r) ==
  /\ ~At(r, "load") /\ OnConnection(r)
  /\ Reads(r) \/ Writes(r)
  /\ ReleaseRequest(r)
  /\ UNCHANGED answering

RequestArrives(r) == Requests(r) /\ UNCHANGED <<held, answering>>

RequestFails(r) == Fail(r) /\ ReleaseRequest(r) /\ UNCHANGED answering

SubmissionReads(c) ==
  /\ Free
  /\ OpenPage(c) \/ PassGate(c) \/ RefuseAtGate(c) \/ LoadSchema(c) \/ NoSchema(c)
  /\ UNCHANGED held

SubmissionStatement(c) ==
  /\ OnConnection(c)
  /\ InsertResponse(c) \/ InsertRow(c) \/ Save(c)
  /\ ReleaseSubmission(c)

SubmissionArrives(c) == SendAnswers(c) /\ UNCHANGED held

SubmissionFails(c) == SubFail(c) /\ ReleaseSubmission(c)

RequestProgress(r) == Acquire(r) \/ SelectAlone(r) \/ RequestStatement(r)

SubmissionProgress(c) ==
  Acquire(c) \/ (~SubAt(c, "idle") /\ SubmissionReads(c)) \/ SubmissionStatement(c)

PoolNext ==
  \/ \E r \in Slots : RequestProgress(r) \/ RequestArrives(r) \/ RequestFails(r)
  \/ \E c \in Clients :
       Acquire(c) \/ SubmissionReads(c) \/ SubmissionStatement(c)
       \/ SubmissionArrives(c) \/ SubmissionFails(c)

PoolSpec == PoolInit /\ [][PoolNext]_poolVars

\* The pool serves its waiters in the order they came, and so does the lock
\* queue of Postgres: what can run again and again does run.
PoolFairness ==
  /\ \A r \in Slots : SF_poolVars(RequestProgress(r))
  /\ \A c \in Clients : SF_poolVars(SubmissionProgress(c))

-----------------------------------------------------------------------------
\* Connections never leak and never run out by themselves: one is out only for
\* a request that is about to write or in a transaction, every open transaction
\* has one, there are never more than the pool has; panics, refusals and
\* cancelled requests included (dao.go:57-61, 101-105).
NoConnectionLeaks ==
  /\ held \subseteq {x \in Slots \cup Clients : Writing(x) \/ InTx(x)}
  /\ \A x \in Slots \cup Clients : InTx(x) => x \in held
  /\ Cardinality(held) <= PoolSize

\* Every submission is answered, those waiting for a connection while publishes
\* wait for each other included (dao.go:54-89).
EverySubmissionAnswered ==
  \A c \in Clients : ~SubAt(c, "idle") ~> SubAt(c, "idle")
=============================================================================

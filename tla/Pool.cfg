SPECIFICATION MCSpec
CONSTANTS
  min = min
  blank = blank
  q1 = q1
  SurveyIds = {s1}
  Users = {u1}
  RoleOf <- MCRoleOf
  Bodies <- MCBodies
  Minimal = min
  Blank = blank
  MarkCopy <- MCMarkCopy
  NoRow = NoRow
  Slots = {r1, r2}
  Ops <- MCOps
  ClientPayloads <- MCPayloads
  Clients = {c1}
  ResponseIds = {p1}
  Questions = {q1}
  Asks <- MCAsks
  Demands <- MCNone
  Rules <- MCNone
  ClientAnswers <- MCAnswers
  UnknownPin = 9
  PoolSize = 2
INVARIANTS
  TypeOK
  NoConnectionLeaks
PROPERTIES
  NoLostMode
  EveryRequestAnswered
  EverySubmissionAnswered

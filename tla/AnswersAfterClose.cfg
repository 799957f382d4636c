SPECIFICATION MCSpec
CONSTANTS
  a = a
  b = b
  min = min
  blank = blank
  q1 = q1
  q2 = q2
  SurveyIds = {s1}
  Users = {u1}
  RoleOf <- MCRoleOf
  Bodies <- MCBodies
  Minimal = min
  Blank = blank
  MarkCopy <- MCMarkCopy
  NoRow = NoRow
  Slots = {r1, r2}
  Ops <- MCOps
  ClientPayloads <- MCPayloads
  Clients = {c1}
  ResponseIds = {p1}
  Questions = {q1, q2}
  Asks <- MCAsks
  Demands <- MCDemands
  Rules <- MCRules
  ClientAnswers <- MCAnswers
  UnknownPin = 3
PROPERTIES
  NoAnswersAfterClose

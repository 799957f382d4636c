SPECIFICATION Spec
CONSTANTS
  a = a
  b = b
  min = min
  blank = blank
  SurveyIds = {s1}
  Users = {u1}
  RoleOf <- MCRoleOf
  Bodies <- MCBodies
  Minimal = min
  Blank = blank
  MarkCopy <- MCMarkCopy
  NoRow = NoRow
  Slots = {r1, r2}
  Ops <- MCOps
  ClientPayloads <- MCPayloads
INVARIANTS
  PublishedContentFrozen

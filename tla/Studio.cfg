SPECIFICATION Spec
SYMMETRY Alike
CONSTANTS
  owner = owner
  admin = admin
  resp = resp
  min = min
  blank = blank
  copied = copied
  SurveyIds = {s1, s2}
  Users = {owner, admin, resp}
  RoleOf <- MCRoleOf
  Bodies <- MCBodies
  Minimal = min
  Blank = blank
  MarkCopy <- MCMarkCopy
  NoRow = NoRow
  Slots = {r1, r2}
  Ops <- MCOps
  ClientPayloads <- MCPayloads
PROPERTIES
  OnlyOwnersChange
  NewSurveysAreFreshDrafts

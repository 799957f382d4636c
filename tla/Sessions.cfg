SPECIFICATION Spec
CONSTANTS
  u1 = u1
  u2 = u2
  Users = {u1, u2}
  RoleOf <- MCRoleOf
  Actions <- MCActions
  Tokens = {t1, t2}
  TTL = 1
  Slots = {r1, r2}
  MaxTime = 3
INVARIANTS
  TypeOK
PROPERTIES
  NoAdmissionAfterLogout
  TokensDieInTime
  SessionsEndOnTheirOwn

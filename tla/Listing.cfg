SPECIFICATION Spec
SYMMETRY SameIds
CONSTANTS
  u1 = u1
  u2 = u2
  f1 = f1
  f2 = f2
  SurveyIds = {s1, s2, s3}
  Users = {u1, u2}
  RoleOf <- MCRoleOf
  Facets = {f1, f2}
  Filters <- MCFilters
  Inserts = {i1, i2}
  Readers = {c1}
  Limits = {0, 9}
  Pages = {0, 6}
  DefaultPageSize = 1
  MaxPageSize = 2
  SearchLimit = 1
  MaxInt32 = 7
  MaxInt64 = 31
  MaxClock = 3
INVARIANTS
  TypeOK
  OffsetIsThePage
  TotalCoversPage
  WalkSeesAll

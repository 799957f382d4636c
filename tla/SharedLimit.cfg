SPECIFICATION Spec
CONSTANTS
  c1 = c1
  c2 = c2
  a1 = a1
  a2 = a2
  Clients = {c1, c2}
  Addresses = {a1, a2}
  AddressOf <- BehindProxy
  Capacity = 2
  Refill = 2
  MaxTime = 6
INVARIANTS
  RefusedOnlyAtLimit

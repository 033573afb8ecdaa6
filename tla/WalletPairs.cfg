SPECIFICATION Spec
CONSTANTS
  Users = {1, 2}
  GOLD = GOLD
  FREE = FREE
  Currencies = {GOLD}
  Legacy = {}
  k1 = k1
  k2 = k2
  k3 = k3
  k4 = k4
  k5 = k5
  h1 = h1
  h2 = h2
  Keys = {k1, k2, k3, k4, k5}
  Call <- PairCalls
  Holds = {h1, h2}
  HoldOf <- TheHolds
  Reqs = {r1, r2, r3, r4}
  None = None
SYMMETRY ReqSymmetry
INVARIANTS
  NoRowDeadlock
PROPERTIES
  ReserveIsCovered

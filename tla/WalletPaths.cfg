SPECIFICATION FairSpec
CONSTANTS
  Users = {1}
  GOLD = GOLD
  FREE = FREE
  Currencies = {GOLD, FREE}
  Legacy = {FREE}
  k1 = k1
  k2 = k2
  k3 = k3
  k4 = k4
  k5 = k5
  h1 = h1
  h2 = h2
  Keys = {k1, k2, k3, k4, k5}
  Call <- PathCalls
  Holds = {}
  HoldOf <- TheHolds
  Reqs = {r1, r2, r3}
  None = None
INVARIANTS
  LedgerExplainsColumns
  
  OnlyReversalsOverdraw
PROPERTIES
  SuspendedOnlyReversed
  Refinement
  EveryRequestReturns

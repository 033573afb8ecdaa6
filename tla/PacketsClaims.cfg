SPECIFICATION FairSpec
CONSTANTS
  u1 = u1
  u2 = u2
  u3 = u3
  c1 = c1
  c2 = c2
  r1 = r1
  r2 = r2
  r3 = r3
  r4 = r4
  r5 = r5
  Users = {u1, u2, u3}
  Packets = {p1}
  CreateKeys = {c1, c2}
  Offer <- Offers
  Reqs = {r1, r2, r3, r4, r5}
  Caller <- Callers
  Sweepers = {s1}
  Fund <- TheFund
  Chargeback <- ClaimantChargeback
  LocksLapse = FALSE
  MaxCrashes = 1
  GOLD = GOLD
  None = None
  Gone = Gone
INVARIANTS
  SharesOK
  CoinsAreConserved
PROPERTIES
  RefundIsFinal
  

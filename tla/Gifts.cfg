SPECIFICATION Spec
CONSTANTS
  ann = ann
  ben = ben
  k1 = k1
  k2 = k2
  r1 = r1
  r2 = r2
  r3 = r3
  m1 = m1
  m2 = m2
  Users = {ann, ben}
  Keys = {k1, k2}
  Reqs = {r1, r2, r3}
  Mgrs = {m1, m2}
  Scenes <- AllScenes
  BoxCount = 2
  Threshold <- TwoThenThree
  Prize <- Ranked
  Fund <- Funds
  EarnPct = 50
  CashPct = 50
  CashFrom = 3
  GOLD = GOLD
  DIAMOND = DIAMOND
  None = None
CHECK_DEADLOCK FALSE
INVARIANTS
  BoxesOK
  OneLadderADay
  CoinsLandOnce
  PrizesFollowRows

SPECIFICATION FairSpec
CONSTANTS
  own = own
  ann = ann
  ben = ben
  c1 = c1
  c2 = c2
  c3 = c3
  Users = {own, ann, ben}
  Owner = own
  Seats = {0, 1, 2}
  Calls = {c1, c2, c3}
  Scenes <- AllScenes
  Sweeper = Sweeper
  Advancer = Advancer
  MaxTries = 2
  MaxFaults = 1
  None = None
  Gone = Gone
  Cold = Cold
CHECK_DEADLOCK FALSE
INVARIANTS
  StageOK
  CopiesAgree
PROPERTIES
  SeatIsKept
  DecisionStands
  EveryHoldEnds

SPECIFICATION FairSpec
CONSTANTS
  ann = ann
  ben = ben
  cay = cay
  k1 = k1
  k2 = k2
  t1 = t1
  t2 = t2
  a1 = a1
  a2 = a2
  a3 = a3
  w1 = w1
  w2 = w2
  Users = {ann, ben}
  Keys = {k1}
  Taps = {t1, t2}
  Acts = {a1, a2}
  Scenes <- BothScenes
  Workers = {w1}
  Batch = 1
  MaxFaults = 1
  None = None
CHECK_DEADLOCK FALSE
INVARIANTS
  RowsOK
  LiveIsWatched
PROPERTIES
  EndingIsTold
  Promise

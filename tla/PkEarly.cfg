SPECIFICATION BattleSpec
CONSTANTS
  ann = ann
  ben = ben
  g1 = g1
  g2 = g2
  Players = {ann, ben}
  Side <- MCSide
  Gifts = {}
  To <- MCTo
  Worth <- MCWorth
  Scored <- MCScored
  Hosts = {}
  Casts <- Nobody
  Countdown = 1
  Duration = 1
  PoolBps = 1000
  WinnerBps = 6000
  ParticipationBps = 3000
  BonusBps = 1000
  MaxResumes = 1
  MaxMishaps = 0
  Nothing = Nothing
CHECK_DEADLOCK FALSE
PROPERTIES
  NotEarly

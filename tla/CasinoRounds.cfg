SPECIFICATION Spec
CONSTANTS
  u1 = u1
  u2 = u2
  apple = apple
  melon = melon
  lucky = lucky
  t1 = t1
  t2 = t2
  t3 = t3
  q1 = q1
  q2 = q2
  q3 = q3
  k1 = k1
  k2 = k2
  k3 = k3
  i1 = i1
  i2 = i2
  Users = {u1, u2}
  Instances = {i1, i2}
  Rounds = {1, 2}
  Items = {apple, melon}
  Outcomes = {apple, melon, lucky}
  Own <- Owns
  Bonus <- Bonuses
  Taps = {t1, t2}
  Tap <- TheTap
  Reqs = {q1, q2}
  TapOf <- TheTapOf
  Socket <- TheSocket
  Ticks = {k1, k3}
  Home <- TheHome
  MaxSymbols = 1
  Fund <- TheFund
  MaxFaults = 2
  GOLD = GOLD
  None = None
  Gone = Gone
INVARIANTS
  SettledOnce
  BetsOK
PROPERTIES
  EndedIsFrozen

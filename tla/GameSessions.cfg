SPECIFICATION FairSpec
CONSTANTS
  p1 = p1
  p2 = p2
  p3 = p3
  bot = bot
  staff = staff
  r1 = r1
  r2 = r2
  r3 = r3
  r4 = r4
  monitor = monitor
  Humans = {p1, p2}
  Bots = {bot}
  Seats <- Three
  Side <- Classic
  Staff = staff
  Reqs = {r1, r2, r3, r4}
  Caller <- Calls
  Monitor = monitor
  Stake = 5
  RakeBps = 1000
  Fund = {0, 5}
  Early = FALSE
  MaxReports = 1
  MaxFaults = 1
  GOLD = GOLD
  None = None
  Gone = Gone
CHECK_DEADLOCK FALSE
INVARIANTS
  
  NobodyStranded
  DisputedIsNotPaid
PROPERTIES
  
  EveryMatchEnds

SPECIFICATION FairPurchases
CONSTANTS
  u1 = u1
  o1 = o1
  r2 = r2
  Customers = {u1}
  Orders = {o1, o2}
  Tokens = {t1}
  Owner <- Owners
  Coins <- Prices
  Buyer <- OneBuyer
  Requests = {r1, r2}
  By <- Submitters
  Sweepers = {s1}
  Handlers = {n1}
  MaxFaults = 1
  COINS = COINS
  Admin = Admin
  Nil = Nil
INVARIANTS
  FlagsAreEarned
  CoinsArePaidFor
PROPERTIES
  ReceiptHeals

----------------------------- MODULE MCPurchases -----------------------------
(* Small instances of Purchases: who owns, pays and submits what.          *)
EXTENDS Purchases, TLC

CONSTANTS u1, o1, r2

(* One user's orders, of different sizes, and that user's purchases.       *)
Owners == [o \in Orders |-> u1]
Prices == [o \in Orders |-> IF o = o1 THEN 1 ELSE 2]
OneBuyer == [t \in Tokens |-> u1]
(* The owner's own requests, and an admin's.                               *)
Submitters == [r \in Requests |-> IF r = r2 THEN Admin ELSE u1]
=============================================================================

---------------------------- MODULE MCPkBattles -----------------------------
(* One player a side, and a gift that scores at a multiplier.              *)
EXTENDS PkBattles

CONSTANTS ann, ben, g1, g2

Apart == {{g2}, Hosts}
Nobody == {{}}

MCSide == [p \in Players |-> IF p = ann THEN "RED" ELSE "BLUE"]
MCTo == [g \in Gifts |-> IF g = g1 THEN ann ELSE ben]
MCWorth == [g \in Gifts |-> IF g = g1 THEN 400 ELSE 200]
MCScored == [g \in Gifts |-> IF g = g1 THEN 400 ELSE 600]
=============================================================================

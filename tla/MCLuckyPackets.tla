--------------------------- MODULE MCLuckyPackets ---------------------------
(* Small instances of LuckyPackets: what the create calls ask for.         *)
EXTENDS LuckyPackets, TLC

CONSTANTS u1, u2, u3, c1, c2, r1, r2, r3, r4, r5

Packet(total, winners, dist) ==
    [creator |-> u1, total |-> total, winners |-> winners, dist |-> dist]

(* Three slots: of four coins, where a RANDOM draw can take two and the    *)
(* last slot takes what is left, or of five, which FIXED cannot divide.    *)
Offers == [k \in CreateKeys |-> IF k = c1 THEN Packet(4, 3, "RANDOM") ELSE Packet(5, 3, "FIXED")]
(* The creator also claims; one user claims twice.                         *)
Callers == [r \in Reqs |-> IF r \in {r1, r2} THEN u1 ELSE IF r \in {r3, r4} THEN u2 ELSE u3]
TheFund == [u \in Users |-> IF u = u3 THEN 0 ELSE 5]
(* The second user owes more than a claim brings back.                     *)
ClaimantChargeback == [u \in Users |-> IF u = u2 THEN 7 ELSE 0]
=============================================================================

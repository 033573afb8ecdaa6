------------------------------ MODULE MCCasino ------------------------------
(* Small instances of Casino: the wheel, and what the taps bet.            *)
EXTENDS Casino, TLC

CONSTANTS u1, u2, apple, melon, lucky, t1, t2, t3, q1, q2, q3, k1, k2, k3, i1, i2

(* Two items and a segment that pays both.                                 *)
Owns == [i \in Items |-> IF i = apple THEN 2 ELSE 3]
Bonuses == [o \in Outcomes |-> IF o = lucky THEN Items ELSE {}]

(* The first user bets on both items, the second on one of them.           *)
TheTap == [t \in Taps |-> [user |-> IF t = t3 THEN u2 ELSE u1,
                           item |-> IF t = t1 THEN apple ELSE melon, amt |-> 1]]
(* One bet of each user, on different items.                               *)
TwoTaps == [t \in Taps |-> [user |-> IF t = t1 THEN u1 ELSE u2,
                            item |-> IF t = t1 THEN apple ELSE melon, amt |-> 1]]
TheTapOf == [q \in Reqs |-> IF q = q2 THEN t2 ELSE IF q = q3 THEN t3 ELSE t1]

TheSocket == [q \in Reqs |-> i1]
TheHome == [k \in Ticks |-> IF k = k3 THEN i2 ELSE i1]
TheFund == [u \in Users |-> IF u = u1 THEN 2 ELSE 1]
=============================================================================

--------------------------- MODULE MCGameSessions ---------------------------
(* Small instances of GameSessions: who sits where, who calls.             *)
EXTENDS GameSessions, TLC

CONSTANTS p1, p2, p3, bot, staff, r1, r2, r3, r4, monitor

Three == <<p1, p2, bot>>

(* Everybody for himself.                                                  *)
Classic == [p \in Players |-> p]

(* The first two requests are the host's, the first of them the start.     *)
Calls == [r \in Reqs |-> CASE r \in {r1, r2} -> p1 [] r = r3 -> p2 [] OTHER -> staff]
=============================================================================

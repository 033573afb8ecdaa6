------------------------------ MODULE MCGifts ------------------------------
(* Small instances of Gifts: the room, what is sent, and what is called.   *)
EXTENDS Gifts, TLC

CONSTANTS ann, ben, k1, k2, r1, r2, r3, m1, m2

G(k, from, to, v) == [key |-> k, from |-> from, to |-> to, amt |-> v]
Scene(room, sends, ops, days, deaths) ==
    [room |-> room, send |-> r1 :> sends[1] @@ r2 :> sends[2] @@ r3 :> sends[3],
     op |-> m1 :> ops[1] @@ m2 :> ops[2], days |-> days, deaths |-> deaths]

Retried == <<G(k1, ann, ben, 3), G(k1, ann, ben, 3), G(k2, ben, ann, 3)>>
Selfish == <<G(k1, ann, ann, 2), G(k1, ann, ann, 2), G(k2, ben, ann, 3)>>
Opening == <<"start", "start">>

(* Managers of video rooms have no role in the room that start and cancel  *)
(* look up.                                                                *)
AllScenes == {
  Scene("AUDIO", Retried, Opening, 2, 1),
  Scene("VIDEO", Retried, <<"none", "none">>, 2, 1),
  Scene("AUDIO", Selfish, <<"cancel", "status">>, 1, 0),
  Scene("VIDEO", Selfish, <<"reset", "none">>, 1, 0),
  Scene("AUDIO", Retried, <<"reset", "archive">>, 2, 0),
  Scene("VIDEO", Retried, <<"status", "archive">>, 2, 0) }

TwoThenThree == <<2, 3>>
Ranked == <<1, 1>>
Funds == [u \in Users |-> 5]
=============================================================================

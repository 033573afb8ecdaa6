------------------------------ MODULE MCSeats ------------------------------
(* Small instances of Seats: what is called, on what room.                 *)
EXTENDS Seats, TLC

CONSTANTS own, ann, ben, c1, c2, c3

A(op, u, i) == [op |-> op, user |-> u, seat |-> i, req |-> None]
R(op, r) == [op |-> op, user |-> None, seat |-> None, req |-> r]

Kept(u) == [Empty EXCEPT !.status = "RESERVED", !.reserved = u]
Taken(u) == [Empty EXCEPT !.status = "OCCUPIED", !.occupant = u]
Room(zero, one, two) == [i \in Seats |-> IF i = 0 THEN zero ELSE IF i = 1 THEN one ELSE two]
Asks(u, i, s) == [user |-> u, seat |-> i, status |-> s, late |-> FALSE, tries |-> 0]

Scene(calls, room, rqs, auto) ==
    [call |-> c1 :> calls[1] @@ c2 :> calls[2] @@ c3 :> calls[3],
     row |-> room, rq |-> rqs, auto |-> auto]

Void == Room(Empty, Empty, Empty)
AnnSits == Room(Empty, Taken(ann), Empty)
BothSit == Room(Empty, Taken(ann), Taken(ben))
AnnAsks(s) == <<Asks(ann, None, s)>>

AllScenes == {
  Scene(<<A("take", ann, 1), A("take", ben, 1), A("leaveRoom", ann, None)>>, Void, <<>>, FALSE),
  Scene(<<A("take", ann, 1), A("take", ann, 2), A("layout", None, 2)>>, Void, <<>>, FALSE),
  Scene(<<A("switch", ann, 2), A("take", ben, 2), A("lock", None, 1)>>, AnnSits, <<>>, FALSE),
  Scene(<<A("transfer", ann, 2), A("leaveSeat", ben, None), A("switch", ben, 1)>>, BothSit, <<>>, FALSE),
  Scene(<<A("layout", None, 2), A("remove", ben, None), A("layout", None, 3)>>, BothSit, <<>>, FALSE),
  Scene(<<A("lock", None, 1), A("unlock", None, 1), A("take", ben, 1)>>, AnnSits, <<>>, FALSE),
  Scene(<<A("reserve", ann, 1), A("take", ben, 1), A("unreserve", None, 1)>>, Void, <<>>, FALSE),
  Scene(<<A("take", ann, 1), A("transfer", ben, 1), A("lock", None, 2)>>,
        Room(Empty, Kept(ann), Taken(ben)), <<>>, FALSE),
  Scene(<<A("take", own, 0), A("take", ann, 0), A("look", ben, None)>>, Void, <<>>, FALSE),
  Scene(<<R("approve", 1), R("approve", 1), A("cancel", ann, None)>>, Void, AnnAsks("PENDING"), FALSE),
  Scene(<<R("approve", 1), R("reject", 1), A("take", ann, 2)>>, Void, AnnAsks("PENDING"), FALSE),
  Scene(<<R("retry", 1), R("retry", 1), A("restore", ann, None)>>, Void, AnnAsks("FAILED"), FALSE),
  Scene(<<A("request", ann, 1), R("approve", 1), A("promote", ben, 1)>>, Void, <<>>, FALSE),
  Scene(<<A("leaveSeat", ben, None), A("request", ben, 2), A("leaveRoom", ann, None)>>,
        Room(Empty, Empty, Taken(ben)), AnnAsks("PENDING"), TRUE),
  Scene(<<A("leaveSeat", ben, None), A("take", own, 2), A("cancel", ann, None)>>,
        Room(Empty, Empty, Taken(ben)), AnnAsks("PENDING"), TRUE) }
=============================================================================

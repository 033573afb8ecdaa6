------------------------------ MODULE MCCalls -------------------------------
(* Small instances of Calls: who calls whom, with which key, and who acts. *)
EXTENDS Calls, TLC

CONSTANTS ann, ben, cay, k1, k2, t1, t2, a1, a2, a3, w1, w2

(* Ann taps the button for Ben twice; both of them act on the call.        *)
DoubleTap == [from |-> [t \in Taps |-> ann], to |-> [t \in Taps |-> ben],
              key |-> [t \in Taps |-> k1],
              actor |-> [a \in Acts |-> IF a = a1 THEN ann ELSE ben]]

(* Ann calls Ben, and Ben calls Ann; Ben acts on either.                   *)
Crossed == [from |-> [t \in Taps |-> IF t = t1 THEN ann ELSE ben],
            to |-> [t \in Taps |-> IF t = t1 THEN ben ELSE ann],
            key |-> [t \in Taps |-> k1],
            actor |-> [a \in Acts |-> IF a = a2 THEN ben ELSE None]]

BothScenes == {DoubleTap, Crossed}
=============================================================================

------------------------------ MODULE CallLife ------------------------------
(***************************************************************************)
(* What a call promises the people in it, as the schema of the calls table *)
(* states it: "exactly one row per call attempt, moving forward only -     *)
(* there is no path back out of a terminal state".  A call ends once, is   *)
(* announced as over once, as what it was, and does not stay live for ever.*)
(***************************************************************************)
CONSTANTS CallIds, None

VARIABLES
    status,     \* of each call attempt, None before it is made
    announced   \* the ending its people were told of, None before

vars == <<status, announced>>

Live == {"RINGING", "ACCEPTED", "CONNECTED"}
Terminal == {"ENDED", "REJECTED", "CANCELLED", "MISSED", "BUSY", "FAILED"}

(* How a call may leave each live state for good.                          *)
Endings == [RINGING |-> {"REJECTED", "CANCELLED", "MISSED", "FAILED"},
            ACCEPTED |-> {"ENDED", "FAILED"},
            CONNECTED |-> {"ENDED", "FAILED"}]

Init == status = [c \in CallIds |-> None] /\ announced = [c \in CallIds |-> None]

Become(c, s) == status' = [status EXCEPT ![c] = s] /\ UNCHANGED announced

Attempt(c) == status[c] = None /\ (Become(c, "RINGING") \/ Become(c, "BUSY"))
Answer(c) == status[c] = "RINGING" /\ Become(c, "ACCEPTED")
Connect(c) == status[c] = "ACCEPTED" /\ Become(c, "CONNECTED")
Terminate(c) == status[c] \in Live /\ \E s \in Endings[status[c]] : Become(c, s)

Announce(c) ==
    /\ status[c] \in Terminal /\ announced[c] = None
    /\ announced' = [announced EXCEPT ![c] = status[c]]
    /\ UNCHANGED status

Next == \E c \in CallIds :
            Attempt(c) \/ Answer(c) \/ Connect(c) \/ Terminate(c) \/ Announce(c)

Safety == Init /\ [][Next]_vars

(* A live call does not stay live.                                         *)
Spec == Safety /\ \A c \in CallIds : WF_vars(Terminate(c))
=============================================================================

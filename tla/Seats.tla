------------------------------- MODULE Seats -------------------------------
(***************************************************************************)
(* The seats of one video room.  The stage is kept twice: a snapshot in    *)
(* Redis, which every change starts from, and the rows of                  *)
(* video_room_seats, from which a lost snapshot is rebuilt.  A change      *)
(* takes the room's seat lock, reads the snapshot, writes it back whole,   *)
(* writes the rows of the seats it changed, and tells the room.  Requests  *)
(* for a seat have rows of their own and a queue in Redis; a host approves *)
(* them, or in a room without approval the next in the queue is seated     *)
(* when a seat comes free.  A sweep expires requests, and frees the seats  *)
(* that were reserved for somebody who did not come.                       *)
(***************************************************************************)
EXTENDS Naturals, FiniteSets, Sequences, FiniteSetsExt

CONSTANTS Users,      \* the people in the room
          Owner,      \* one of them
          Seats,      \* seat indexes; 0 is the owner's
          Calls,      \* calls of the seat services
          Scenes,     \* what is called, and on what room
          Sweeper,    \* the seat monitor, one in the fleet
          Advancer,   \* the holder of the queue's lock
          MaxTries,   \* seating attempts of a request
          MaxFaults,  \* processes that die, writes that fail, locks that lapse
          None, Gone, Cold

Procs == Calls \cup {Sweeper, Advancer}

(* What a seat, a stage and a seat request may be; a seat outside the      *)
(* layout is None.                                                         *)
Statuses == {"EMPTY", "OCCUPIED", "LOCKED", "RESERVED"}
Filled == [status : Statuses, occupant : Users \cup {None}, reserved : Users \cup {None},
           isLocked : BOOLEAN]
Entry == Filled \cup {None}
Stage == [Seats -> Entry]
RequestStatuses ==
    {"PENDING", "ACCEPTED", "PROMOTED", "FAILED", "REJECTED", "CANCELLED", "EXPIRED"}
Asked == [user : Users, seat : Seats \cup {None}, status : RequestStatuses,
          late : BOOLEAN, tries : Nat]

SeatsOf(stage, u) == {i \in Seats : stage[i] # None /\ stage[i].occupant = u}

(* A stage seats nobody twice, and says one thing of every seat: taken by  *)
(* somebody, kept for somebody, locked, or empty.                          *)
Single(stage) == \A u \in Users : Cardinality(SeatsOf(stage, u)) <= 1
Clear(stage) ==
    \A i \in Seats : stage[i] # None =>
        /\ (stage[i].status = "OCCUPIED") <=> (stage[i].occupant # None)
        /\ (stage[i].status = "RESERVED") <=> (stage[i].reserved # None)
        /\ (stage[i].status = "LOCKED") <=> stage[i].isLocked

(* A call names the users and the seats that its operation is about.       *)
OfUsers == {"take", "promote", "leaveSeat", "remove", "leaveRoom", "switch", "transfer",
            "reserve", "request", "cancel", "restore"}
OfSeats == {"take", "promote", "switch", "transfer", "lock", "unlock", "reserve", "unreserve"}
SceneOK(s) ==
    /\ s.row \in Stage /\ Single(s.row) /\ Clear(s.row)
    /\ s.rq \in Seq(Asked) /\ s.auto \in BOOLEAN
    /\ \A p \in Calls : LET c == s.call[p] IN
         /\ c.user \in Users \cup {None} /\ (c.op \in OfUsers => c.user \in Users)
         /\ c.seat \in Nat \cup {None} /\ (c.op \in OfSeats => c.seat \in Seats)
         /\ c.op = "request" => c.seat \in Seats \cup {None}

ASSUME SeatsAssumption ==
    /\ IsFiniteSet(Seats) /\ Seats = 0 .. Cardinality(Seats) - 1 /\ Owner \in Users
    /\ Sweeper # Advancer /\ {Sweeper, Advancer} \cap Calls = {}
    /\ {None, Gone} \cap Procs = {} /\ Gone # None
    /\ None \notin Users \cup Nat \cup Filled \cup Stage /\ Cold \notin Stage
    /\ MaxTries \in Nat /\ MaxFaults \in Nat
    /\ \A s \in Scenes : SceneOK(s)

VARIABLES
    member,   \* the active members
    snap,     \* the snapshot: a stage, or Cold
    row,      \* the seats' rows
    hold,     \* reserved seats whose hold in Redis has not timed out
    lock,     \* holder of the room's seat lock, Gone if he died with it
    rq,       \* the rows of seat requests, oldest first
    queue,    \* who is in the queue; their order is left open
    freed,    \* freed seats whose deferred advance has not begun
    pc, job,  \* per process: its next step, and what it has in hand
    scene, faults

stages == <<snap, row, lock>>
requests == <<rq, queue, freed>>
vars == <<member, stages, hold, requests, pc, job, scene, faults>>

-----------------------------------------------------------------------------
(* Stages.                                                                 *)
Empty == [status |-> "EMPTY", occupant |-> None, reserved |-> None, isLocked |-> FALSE]

ClaimableTaken(stage, i, u) ==
    stage[i] # None /\ ~stage[i].isLocked /\ (i = 0 => u = Owner)
Claimable(stage, i, u) ==
    /\ stage[i] # None /\ ~stage[i].isLocked
    /\ \/ stage[i].status = "EMPTY"
       \/ stage[i].status = "RESERVED" /\ stage[i].reserved = u
    /\ i = 0 => u = Owner
OpenSeats(stage) ==
    {i \in Seats \ {0} : stage[i] # None /\ stage[i].status = "EMPTY" /\ ~stage[i].isLocked}

(* What a change does to a seat: the columns it sets, in either copy.      *)
Do(stage, w) ==
    LET i == w.seat IN
    CASE w.do = "occupy" -> [stage EXCEPT ![i].status = "OCCUPIED", ![i].occupant = w.user,
                                          ![i].reserved = None]
      [] w.do = "vacate" -> [stage EXCEPT ![i].status = "EMPTY", ![i].occupant = None]
      [] w.do = "shut" -> [stage EXCEPT ![i] = [status |-> "LOCKED", occupant |-> None,
                                                reserved |-> None, isLocked |-> TRUE]]
      [] w.do = "open" -> [stage EXCEPT ![i].status = IF @ = "LOCKED" THEN "EMPTY" ELSE @,
                                        ![i].isLocked = FALSE]
      [] w.do = "reserve" -> [stage EXCEPT ![i].status = "RESERVED", ![i].reserved = w.user]
      [] w.do = "release" -> [stage EXCEPT ![i].status = "EMPTY", ![i].reserved = None]
W(do, i, u) == [do |-> do, seat |-> i, user |-> u]

(* A layout of n seats keeps the seats it had below n.                     *)
Layout(stage, n) ==
    [i \in Seats |-> IF i >= n THEN None ELSE IF stage[i] = None THEN Empty ELSE stage[i]]

-----------------------------------------------------------------------------
Op(p) == IF p \in Calls THEN scene.call[p].op
         ELSE IF p = Sweeper THEN "sweep" ELSE "advance"
Home(p) == IF p \in Calls THEN "done" ELSE "idle"
At(p, where) == pc[p] = where

Blank == [user |-> None, seat |-> None, req |-> None, todo |-> {},
          next |-> None, writes |-> <<>>, taken |-> None, left |-> {}]
Go(p, where) == pc' = [pc EXCEPT ![p] = where]
Hold(p, j) == job' = [job EXCEPT ![p] = j]
Carry(p, u, i) == Hold(p, [job[p] EXCEPT !.user = u, !.seat = i])
End(p) == Go(p, Home(p)) /\ Hold(p, Blank)

(* A business refusal ends a call, fails the request it was to seat, sends *)
(* the queue on to its next candidate and the sweep to its next seat.      *)
Refused(p) ==
    IF Op(p) \in {"approve", "retry"} THEN Go(p, "fail") /\ UNCHANGED job
    ELSE IF p \in Calls THEN End(p) ELSE Go(p, "next") /\ UNCHANGED job

-----------------------------------------------------------------------------
(* The locked pipeline.  mutateStage reads the snapshot, rebuilding a cold *)
(* one from the rows; a change that is refused gives the lock back.        *)
Base == IF snap = Cold THEN row ELSE snap
Enters(p, ops) == At(p, "wait") /\ Op(p) \in ops /\ lock = None
Change(p, next, writes, taken, left) ==
    /\ lock' = p /\ snap' = Base /\ Go(p, "commit")
    /\ Hold(p, [job[p] EXCEPT !.next = next, !.writes = writes,
                              !.taken = taken, !.left = left])
    /\ UNCHANGED <<member, row, hold, requests, scene, faults>>
Refuse(p) ==
    /\ snap' = Base /\ Refused(p)
    /\ UNCHANGED <<member, row, hold, lock, requests, scene, faults>>
Attempt(p, allowed, w, taken, left) ==
    IF allowed THEN Change(p, Do(Base, w), <<w>>, taken, left) ELSE Refuse(p)

(* takeSeat and seatUser.                                                  *)
TakeSeatAgain(p) ==
    LET u == job[p].user
        i == job[p].seat
    IN /\ Enters(p, {"take", "promote", "approve", "retry", "advance"})
       /\ Attempt(p, Claimable(Base, i, u), W("occupy", i, u), u, {})
TakeSeat(p) ==
    LET u == job[p].user
        i == job[p].seat
    IN /\ Enters(p, {"take", "promote", "approve", "retry", "advance"})
       /\ Attempt(p, SeatsOf(Base, u) = {} /\ Claimable(Base, i, u), W("occupy", i, u), u, {})

(* leaveSeat, removeFromSeat and vacateUser.                               *)
LeaveSeat(p) ==
    LET mine == SeatsOf(Base, job[p].user)
        i == Min(mine)
    IN /\ Enters(p, {"leaveSeat", "remove", "leaveRoom"})
       /\ IF mine = {} THEN Refuse(p)
          ELSE Change(p, Do(Base, W("vacate", i, None)), <<W("vacate", i, None)>>, None, {i})

(* switchSeat, and transferSeat with force: it may take a seat that is     *)
(* taken or reserved, and tells the room that its occupant has left.  The  *)
(* seat a user comes from is emptied even when it is where he goes.        *)
SwitchSeat(p) ==
    LET u == job[p].user
        j == job[p].seat
        from == SeatsOf(Base, u)
        i == Min(from)
        out == Do(Base, W("vacate", i, None))
        mayGo == IF Op(p) = "switch" THEN i # j /\ Claimable(Base, j, u)
                 ELSE j # 0 /\ Base[j] # None /\ ~Base[j].isLocked
        gone == IF Base[j].status = "OCCUPIED" THEN {j} ELSE {}
    IN /\ Enters(p, {"switch", "transfer"})
       /\ IF from = {} \/ ~mayGo THEN Refuse(p)
          ELSE Change(p, IF i = j THEN out ELSE Do(out, W("occupy", j, u)),
                      <<W("vacate", i, None), W("occupy", j, u)>>, None, gone)

LockSeat(p) ==
    LET i == job[p].seat IN
    /\ Enters(p, {"lock"})
    /\ Attempt(p, i # 0 /\ Base[i] # None, W("shut", i, None), None, {})

UnlockSeat(p) ==
    LET i == job[p].seat IN
    /\ Enters(p, {"unlock"})
    /\ Attempt(p, Base[i] # None, W("open", i, None), None, {})

ReserveSeat(p) ==
    LET i == job[p].seat IN
    /\ Enters(p, {"reserve"})
    /\ Attempt(p, i \in OpenSeats(Base), W("reserve", i, job[p].user), None, {})

(* cancelReservation, and releaseExpired of the sweep.                     *)
ReleaseHeld(p) ==
    LET i == job[p].seat IN
    /\ Enters(p, {"unreserve", "sweep"})
    /\ Attempt(p, i \in hold /\ Base[i] # None /\ Base[i].status = "RESERVED",
               W("release", i, None), None, {i})
ReleaseSeat(p) ==
    LET i == job[p].seat IN
    /\ Enters(p, {"unreserve", "sweep"})
    /\ Attempt(p, Base[i] # None /\ Base[i].status = "RESERVED", W("release", i, None), None, {i})

(* configureLayout writes the rows before the snapshot.                    *)
ConfigureLayout(p) ==
    LET n == job[p].seat
        displaced == {i \in Seats : i >= n /\ Base[i] # None /\ Base[i].occupant # None}
    IN /\ Enters(p, {"layout"})
       /\ lock' = p /\ snap' = Base /\ Go(p, "layout")
       /\ Hold(p, [job[p] EXCEPT !.next = Layout(Base, n), !.left = displaced])
       /\ UNCHANGED <<member, row, hold, requests, scene, faults>>
WriteLayoutGrows(p) ==
    /\ At(p, "layout") /\ Go(p, "commit")
    /\ row' = [i \in Seats |-> IF row[i] = None THEN Layout(row, job[p].seat)[i] ELSE row[i]]
    /\ UNCHANGED <<member, snap, lock, hold, requests, job, scene, faults>>
WriteLayout(p) ==
    /\ At(p, "layout")
    /\ row' = Layout(row, job[p].seat) /\ Go(p, "commit")
    /\ UNCHANGED <<member, snap, lock, hold, requests, job, scene, faults>>

Commit(p) ==
    /\ At(p, "commit")
    /\ snap' = job[p].next /\ Go(p, "write")
    /\ UNCHANGED <<member, row, lock, hold, requests, job, scene, faults>>

Free(p) == IF lock = p THEN None ELSE lock

(* updateSeat: a row that is not there, or an occupant who has a row       *)
(* already, makes the write throw, and the call ends as it stands.         *)
WriteRow(p) ==
    LET w == Head(job[p].writes)
        throws == \/ row[w.seat] = None
                  \/ w.do = "occupy" /\ SeatsOf(row, w.user) \ {w.seat} # {}
        column == IF w.do = "open" THEN [row EXCEPT ![w.seat].isLocked = FALSE,
                                                    ![w.seat].status = job[p].next[w.seat].status]
                  ELSE Do(row, w)
    IN /\ At(p, "write") /\ job[p].writes # <<>>
       /\ IF throws THEN End(p) /\ lock' = Free(p) /\ UNCHANGED row
          ELSE /\ row' = column
               /\ Hold(p, [job[p] EXCEPT !.writes = Tail(@)])
               /\ UNCHANGED <<lock, pc>>
       /\ UNCHANGED <<member, snap, hold, requests, scene, faults>>

(* What the listeners of the change do before its lock is released: a user *)
(* who was seated waits for no seat, and the queue hears of freed seats.   *)
Settle(u) == [r \in DOMAIN rq |->
    IF rq[r].user = u /\ rq[r].status = "PENDING" THEN [rq[r] EXCEPT !.status = "PROMOTED"]
    ELSE rq[r]]
Tell(p) ==
    LET i == job[p].seat IN
    /\ At(p, "write") /\ job[p].writes = <<>>
    /\ hold' = CASE Op(p) = "reserve" -> hold \cup {i}
                 [] Op(p) \in {"unreserve", "sweep"} -> hold \ {i}
                 [] OTHER -> hold
    /\ rq' = Settle(job[p].taken) /\ queue' = queue \ {job[p].taken}
    /\ freed' = IF scene.auto THEN freed \cup (job[p].left \ {0}) ELSE freed
    /\ lock' = Free(p)
    /\ IF Op(p) \in {"approve", "retry", "advance"} THEN Go(p, "promoted") /\ UNCHANGED job
       ELSE IF Op(p) = "sweep" THEN Go(p, "next") /\ UNCHANGED job ELSE End(p)
    /\ UNCHANGED <<member, snap, row, scene, faults>>

-----------------------------------------------------------------------------
(* How a call of the stage begins; who may be seated is a member, as read  *)
(* before the lock.                                                        *)
Begin(p) ==
    LET c == scene.call[p] IN
    /\ At(p, "idle")
    /\ c.op \in {"take", "promote", "leaveSeat", "remove", "switch", "transfer",
                 "lock", "unlock", "reserve", "unreserve", "layout"}
    /\ IF c.op \in {"take", "promote"} /\ c.user \notin member THEN End(p)
       ELSE Go(p, "wait") /\ Carry(p, c.user, c.seat)
    /\ UNCHANGED <<member, stages, hold, requests, scene, faults>>

(* A member leaves; the room's listeners cancel his requests and give his  *)
(* seat back.                                                              *)
LeaveRoom(p) ==
    LET u == scene.call[p].user IN
    /\ At(p, "idle") /\ Op(p) = "leaveRoom"
    /\ member' = member \ {u} /\ Go(p, "left") /\ Carry(p, u, None)
    /\ UNCHANGED <<stages, hold, requests, scene, faults>>
LeftRoom(p) ==
    LET u == job[p].user IN
    /\ At(p, "left")
    /\ rq' = [r \in DOMAIN rq |-> IF rq[r].user = u /\ rq[r].status = "PENDING"
                                  THEN [rq[r] EXCEPT !.status = "CANCELLED"] ELSE rq[r]]
    /\ queue' = queue \ {u} /\ Go(p, "wait")
    /\ UNCHANGED <<member, stages, hold, freed, job, scene, faults>>

(* getStage, and other readers: nobody holds the lock for them, and a cold *)
(* snapshot is filled with the rows as they read them.                     *)
Look(p) ==
    /\ At(p, "idle") /\ Op(p) = "look"
    /\ IF snap = Cold THEN Go(p, "fill") /\ Hold(p, [Blank EXCEPT !.next = row]) ELSE End(p)
    /\ UNCHANGED <<member, stages, hold, requests, scene, faults>>
Fill(p) ==
    /\ At(p, "fill")
    /\ snap' = job[p].next /\ Go(p, "filled") /\ Hold(p, Blank)
    /\ UNCHANGED <<member, row, lock, hold, requests, scene, faults>>

-----------------------------------------------------------------------------
(* Seat requests.  A decision is a write that compares the status with the *)
(* one that was read, and its caller goes on only if it took.              *)
Pending(u) == {r \in DOMAIN rq : rq[r].user = u /\ rq[r].status = "PENDING"}
Eligible(u) == u \in member /\ SeatsOf(row, u) = {}
Askable(i) ==
    i = None \/ (row[i] # None /\ ~row[i].isLocked /\ row[i].status # "RESERVED")

Request(p) ==
    LET c == scene.call[p] IN
    /\ At(p, "idle") /\ c.op = "request"
    /\ IF Eligible(c.user) /\ Pending(c.user) = {} /\ Askable(c.seat)
       THEN Go(p, "create") /\ Carry(p, c.user, c.seat) ELSE End(p)
    /\ UNCHANGED <<member, stages, hold, requests, scene, faults>>
CreateRequest(p) ==
    /\ At(p, "create")
    /\ rq' = Append(rq, [user |-> job[p].user, seat |-> job[p].seat,
                         status |-> "PENDING", late |-> FALSE, tries |-> 0])
    /\ Go(p, "enqueue")
    /\ UNCHANGED <<member, stages, hold, queue, freed, job, scene, faults>>
Enqueue(p) ==
    /\ At(p, "enqueue")
    /\ queue' = queue \cup {job[p].user}
    /\ IF Op(p) = "retry" THEN Go(p, "choose") /\ UNCHANGED job ELSE End(p)
    /\ UNCHANGED <<member, stages, hold, rq, freed, scene, faults>>

(* cancelRequest finds the caller's pending request; a host names the one  *)
(* he approves, rejects or retries, and restore takes the user's latest.   *)
Found(p) ==
    LET c == scene.call[p]
        mine == {r \in DOMAIN rq : rq[r].user = c.user}
        named == {c.req} \cap {r \in DOMAIN rq : ~rq[r].late}
    IN CASE c.op = "cancel" -> Pending(c.user)
         [] c.op \in {"approve", "reject"} -> {r \in named : rq[r].status = "PENDING"}
         [] c.op = "retry" -> {r \in named : rq[r].status = "FAILED" /\ rq[r].tries < MaxTries}
         [] c.op = "restore" -> {r \in mine : /\ r = Max(mine) /\ Eligible(c.user)
                                              /\ rq[r].status = "EXPIRED"}

ReadRequest(p) ==
    /\ At(p, "idle") /\ Op(p) \in {"cancel", "approve", "reject", "retry", "restore"}
    /\ \/ Found(p) = {} /\ End(p)
       \/ \E r \in Found(p) :
            /\ Hold(p, [Blank EXCEPT !.req = r, !.user = rq[r].user])
            /\ Go(p, IF Op(p) = "approve" THEN "choose" ELSE "swap")
    /\ UNCHANGED <<member, stages, hold, requests, scene, faults>>

SetStatus(r, s) == [rq EXCEPT ![r].status = s]
Swap(p) ==
    LET r == job[p].req
        from == IF Op(p) = "retry" THEN "FAILED" ELSE "PENDING"
    IN /\ At(p, "swap")
       /\ CASE Op(p) = "restore" ->
                 /\ rq' = [rq EXCEPT ![r].status = "PENDING", ![r].late = FALSE]
                 /\ Go(p, "enqueue") /\ UNCHANGED <<queue, job>>
            [] Op(p) # "restore" /\ rq[r].status # from ->
                 End(p) /\ UNCHANGED <<rq, queue>>
            [] Op(p) = "retry" /\ rq[r].status = from ->
                 rq' = SetStatus(r, "PENDING") /\ Go(p, "enqueue") /\ UNCHANGED <<queue, job>>
            [] OTHER ->
                 /\ rq' = SetStatus(r, IF Op(p) = "cancel" THEN "CANCELLED" ELSE "REJECTED")
                 /\ queue' = queue \ {job[p].user} /\ End(p)
       /\ UNCHANGED <<member, stages, hold, freed, scene, faults>>

(* driveSeating: the seat asked for, or an open one; without one nothing   *)
(* has happened to the request.                                            *)
ChooseSeat(p) ==
    LET i == rq[job[p].req].seat IN
    /\ At(p, "choose")
    /\ IF i # None THEN Carry(p, job[p].user, i) /\ Go(p, "accept") /\ UNCHANGED snap
       ELSE /\ snap' = Base
            /\ IF OpenSeats(Base) = {} THEN End(p)
               ELSE Carry(p, job[p].user, Min(OpenSeats(Base))) /\ Go(p, "accept")
    /\ UNCHANGED <<member, row, lock, hold, requests, scene, faults>>
AcceptAnyway(p) ==
    /\ At(p, "accept")
    /\ rq' = SetStatus(job[p].req, "ACCEPTED") /\ Go(p, "seat")
    /\ UNCHANGED <<member, stages, hold, queue, freed, job, scene, faults>>
Accept(p) ==
    LET r == job[p].req IN
    /\ At(p, "accept")
    /\ IF rq[r].status = "PENDING"
       THEN rq' = SetStatus(r, "ACCEPTED") /\ Go(p, "seat") /\ UNCHANGED job
       ELSE End(p) /\ UNCHANGED rq
    /\ UNCHANGED <<member, stages, hold, queue, freed, scene, faults>>
SeatUser(p) ==
    /\ At(p, "seat")
    /\ IF job[p].user \in member THEN Go(p, "wait") /\ UNCHANGED job ELSE Refused(p)
    /\ UNCHANGED <<member, stages, hold, requests, scene, faults>>
(* The outcome is written whatever the row says by then.                   *)
Outcome(p, s) ==
    LET r == job[p].req IN
    /\ rq' = [rq EXCEPT ![r].status = s, ![r].tries = @ + 1]
    /\ queue' = queue \ {job[p].user} /\ End(p)
    /\ UNCHANGED <<member, stages, hold, freed, scene, faults>>
Promoted(p) == At(p, "promoted") /\ Outcome(p, "PROMOTED")
Failed(p) == At(p, "fail") /\ Outcome(p, "FAILED")

-----------------------------------------------------------------------------
(* A freed seat is offered to everybody who was in the queue, in turn.     *)
Advance ==
    /\ At(Advancer, "idle")
    /\ \E i \in freed :
         /\ freed' = freed \ {i} /\ Go(Advancer, "next")
         /\ Hold(Advancer, [Blank EXCEPT !.seat = i, !.todo = queue])
    /\ UNCHANGED <<member, stages, hold, rq, queue, scene, faults>>
NextCandidate ==
    LET j == job[Advancer] IN
    /\ At(Advancer, "next")
    /\ \/ j.todo = {} /\ End(Advancer) /\ UNCHANGED queue
       \/ \E u \in j.todo :
            \/ /\ Pending(u) = {} /\ queue' = queue \ {u}
               /\ Hold(Advancer, [j EXCEPT !.todo = @ \ {u}]) /\ UNCHANGED pc
            \/ \E r \in Pending(u) :
                 /\ Hold(Advancer, [j EXCEPT !.user = u, !.req = r, !.todo = @ \ {u}])
                 /\ Go(Advancer, "seat") /\ UNCHANGED queue
    /\ UNCHANGED <<member, stages, hold, rq, freed, scene, faults>>

-----------------------------------------------------------------------------
(* The sweep lists what has expired, and then takes it one by one.         *)
Late == {r \in DOMAIN rq : rq[r].status = "PENDING" /\ rq[r].late}
Reserved == {i \in Seats : row[i] # None /\ row[i].status = "RESERVED"}
Sweep ==
    /\ At(Sweeper, "idle") /\ Late \cup Reserved # {}
    /\ Go(Sweeper, "expire") /\ Hold(Sweeper, [Blank EXCEPT !.todo = Late])
    /\ UNCHANGED <<member, stages, hold, requests, scene, faults>>
Expire ==
    LET j == job[Sweeper] IN
    /\ At(Sweeper, "expire")
    /\ \/ \E r \in j.todo :
            /\ rq' = SetStatus(r, "EXPIRED") /\ queue' = queue \ {rq[r].user}
            /\ Hold(Sweeper, [j EXCEPT !.todo = @ \ {r}]) /\ UNCHANGED pc
       \/ /\ j.todo = {} /\ Go(Sweeper, "next") /\ Hold(Sweeper, [Blank EXCEPT !.todo = Reserved])
          /\ UNCHANGED <<rq, queue>>
    /\ UNCHANGED <<member, stages, hold, freed, scene, faults>>
NextHold ==
    LET j == job[Sweeper] IN
    /\ At(Sweeper, "next")
    /\ \/ j.todo = {} /\ End(Sweeper)
       \/ \E i \in j.todo :
            /\ Hold(Sweeper, [Blank EXCEPT !.todo = j.todo \ {i}, !.seat = i])
            /\ IF i \in hold THEN UNCHANGED pc ELSE Go(Sweeper, "wait")
    /\ UNCHANGED <<member, stages, hold, requests, scene, faults>>

(* Time: holds and requests lapse, and so does an idle room's snapshot.    *)
HoldLapses(i) ==
    /\ i \in hold /\ hold' = hold \ {i}
    /\ UNCHANGED <<member, stages, requests, pc, job, scene, faults>>
RequestLapses(r) ==
    /\ r \in DOMAIN rq /\ ~rq[r].late /\ rq[r].status \in {"PENDING", "FAILED"}
    /\ rq' = [rq EXCEPT ![r].late = TRUE]
    /\ UNCHANGED <<member, stages, hold, queue, freed, pc, job, scene, faults>>
SnapLapses ==
    /\ snap # Cold /\ lock = None /\ snap' = Cold
    /\ UNCHANGED <<member, row, lock, hold, requests, pc, job, scene, faults>>

(* A caller gives up on a dead holder's lock, which outlasts his patience; *)
(* that is no business refusal, and his call ends where it stands.         *)
GivesUp(p) ==
    /\ At(p, "wait") /\ lock = Gone /\ End(p)
    /\ UNCHANGED <<member, stages, hold, requests, scene, faults>>
LockLapses ==
    /\ lock = Gone /\ lock' = None
    /\ UNCHANGED <<member, snap, row, hold, requests, pc, job, scene, faults>>

Active(p) == pc[p] \notin {"idle", "done", "filled"}
Fault(p) ==
    /\ faults < MaxFaults /\ faults' = faults + 1
    /\ \/ /\ Active(p) /\ End(p)                       \* the process dies
          /\ lock' = IF lock = p THEN Gone ELSE lock
       \/ /\ At(p, "write") /\ End(p)                  \* or its write throws
          /\ lock' = Free(p)
       \/ lock = p /\ lock' = None /\ UNCHANGED <<pc, job>>  \* or it is too slow
    /\ UNCHANGED <<member, snap, row, hold, requests, scene>>

-----------------------------------------------------------------------------
Init ==
    /\ scene \in Scenes
    /\ member = Users /\ row = scene.row /\ snap = scene.row
    /\ hold = {i \in Seats : row[i] # None /\ row[i].status = "RESERVED"}
    /\ lock = None /\ faults = 0
    /\ rq = scene.rq /\ queue = {rq[r].user : r \in {q \in DOMAIN rq : rq[q].status = "PENDING"}}
    /\ freed = {}
    /\ pc = [p \in Procs |-> "idle"] /\ job = [p \in Procs |-> Blank]

Locked(p) ==
    \/ TakeSeat(p) \/ LeaveSeat(p) \/ SwitchSeat(p) \/ LockSeat(p) \/ UnlockSeat(p)
    \/ ReserveSeat(p) \/ ReleaseSeat(p) \/ ConfigureLayout(p) \/ WriteLayout(p)
    \/ Commit(p) \/ WriteRow(p) \/ Tell(p)
CallStep(p) ==
    \/ Begin(p) \/ LeaveRoom(p) \/ LeftRoom(p) \/ Look(p) \/ Fill(p)
    \/ Request(p) \/ CreateRequest(p) \/ Enqueue(p) \/ ReadRequest(p) \/ Swap(p)
    \/ ChooseSeat(p) \/ Accept(p)
Step(p) == Locked(p) \/ SeatUser(p) \/ Promoted(p) \/ Failed(p) \/ GivesUp(p)
Next ==
    \/ \E p \in Procs : Step(p) \/ Fault(p)
    \/ \E p \in Calls : CallStep(p)
    \/ Advance \/ NextCandidate \/ Sweep \/ Expire \/ NextHold
    \/ \E i \in Seats : HoldLapses(i)
    \/ \E r \in DOMAIN rq : RequestLapses(r)
    \/ SnapLapses \/ LockLapses

Spec == Init /\ [][Next]_vars
(* Calls run on, the monitor ticks, and what has a time to live lapses.    *)
FairSpec ==
    /\ Spec
    /\ \A p \in Procs : WF_vars(Step(p))
    /\ \A p \in Calls : WF_vars(CallStep(p))
    /\ WF_vars(Advance \/ NextCandidate) /\ WF_vars(Sweep \/ Expire \/ NextHold)
    /\ \A i \in Seats : WF_vars(HoldLapses(i))
    /\ WF_vars(LockLapses)

-----------------------------------------------------------------------------
Writes == [do : {"occupy", "vacate", "shut", "open", "reserve", "release"},
           seat : Seats, user : Users \cup {None}]
Job == [user : Users \cup {None}, seat : Nat \cup {None}, req : Nat \cup {None},
        todo : SUBSET (Users \cup Nat), next : Stage \cup {None}, writes : Seq(Writes),
        taken : Users \cup {None}, left : SUBSET Seats]
PcType == {"idle", "done", "wait", "commit", "layout", "write", "left", "fill", "filled",
           "create", "enqueue", "swap", "choose", "accept", "seat", "promoted", "fail",
           "next", "expire"}
TypeOK ==
    /\ member \subseteq Users /\ queue \subseteq Users
    /\ snap \in Stage \cup {Cold} /\ row \in Stage
    /\ hold \subseteq Seats /\ freed \subseteq Seats
    /\ lock \in Procs \cup {None, Gone} /\ rq \in Seq(Asked)
    /\ pc \in [Procs -> PcType] /\ job \in [Procs -> Job]
    /\ scene \in Scenes /\ faults \in 0 .. MaxFaults

(* Nothing has gone wrong, and no reader has filled the snapshot.          *)
Undisturbed == faults = 0 /\ \A p \in Calls : ~At(p, "filled")

(* The snapshot seats nobody twice, whatever dies or lapses under the      *)
(* changes that rewrite it whole; and while nothing does, and no reader    *)
(* puts back an older one, it says one thing of every seat.                *)
OneSeatEach == snap # Cold => Single(snap) /\ (Undisturbed => Clear(snap))

(* The stage as every client of the snapshot sees it.                      *)
StageOK == TypeOK /\ OneSeatEach

(* Between changes the snapshot and the rows say the same: every change    *)
(* writes through what it commits ("write-through", under the lock), and   *)
(* no write of a row is refused by its unique index.                       *)
CopiesAgree == Undisturbed /\ lock = None => Base = row

(* A user loses his seat only by a change that is about him or his seat;   *)
(* no other change, started from what it read, takes him off.              *)
About(p, u, i) ==
    \/ job[p].user = u /\ Op(p) \in {"leaveSeat", "remove", "leaveRoom", "switch", "transfer"}
    \/ job[p].seat = i /\ Op(p) \in {"lock", "transfer"}
    \/ Op(p) = "layout" /\ i >= job[p].seat
SeatIsKept ==
    [][\A u \in Users, i \in Seats :
         (/\ Undisturbed' /\ Cold \notin {snap, snap'}
          /\ i \in SeatsOf(snap, u) \ SeatsOf(snap', u))
         => \E p \in Procs : Commit(p) /\ About(p, u, i)]_vars

(* A decision on a request is final: what was cancelled, rejected or       *)
(* promoted stays so, however many hosts and the requester decide at once; *)
(* in a room that approves, until the request's time has run out, and      *)
(* where nobody's reconnection restores one that had.                      *)
DecisionStands ==
    [][\A r \in DOMAIN rq :
         (/\ ~scene.auto /\ \A p \in Calls : Op(p) # "restore"
          /\ ~rq[r].late /\ rq[r].status \in {"PROMOTED", "REJECTED", "CANCELLED"})
         => rq'[r].status = rq[r].status]_vars

(* A seat that is kept for somebody is taken or freed, unless a process    *)
(* has died.                                                               *)
EveryHoldEnds ==
    \A i \in Seats :
        (faults = 0 /\ i \in Reserved) ~> (faults > 0 \/ i \notin Reserved)
=============================================================================

-------------------------- MODULE VideoRoomsProofs --------------------------
(***************************************************************************)
(* The two parts of a video room, its seats and its PK battles, for any    *)
(* number of users, seats, calls, players, gifts and faults.               *)
(*                                                                         *)
(* Seats.  Neither copy of the stage ever seats anybody twice: the         *)
(* snapshot is written whole, from a stage that does not (HandsOK), and    *)
(* the rows have a unique index.  This needs no lock (SeatsInv).  That the *)
(* copies agree does: whoever has the lock started from two equal copies,  *)
(* and what he has still to write leads the rows to the stage that he puts *)
(* into the snapshot (Works); so they are equal again when he lets go      *)
(* (AgreeInv), and nobody has lost a seat but by a change about him        *)
(* (Loses).  A request once decided stays so because it is seated only by  *)
(* the call whose UPDATE accepted it, and by one at a time (DecisionInv).  *)
(*                                                                         *)
(* Battles.  A battle's end is one commit and for good.  No lock is common *)
(* to all who write the battle row; the argument is the conditional        *)
(* UPDATE.  Whoever pays holds the row since his UPDATE found a status     *)
(* from which COMPLETED is legal (PayInv), so nobody else can have ended   *)
(* the battle, nor pay at the same time; and nothing is legal from a       *)
(* terminal status.  The pool is arithmetic that rounds down, over a sum   *)
(* that only grows.                                                        *)
(***************************************************************************)
EXTENDS Seats, PkBattles, Sums, FiniteSetTheorems, TLAPS

-----------------------------------------------------------------------------
(* Seats.                                                                  *)

(* Seats are numbered from zero.                                           *)
LEMMA SeatsAreNat == Seats \subseteq Nat /\ IsFiniteSet(Seats)
<1>1. Cardinality(Seats) \in Nat
  BY SeatsAssumption, FS_CardinalityType
<1> QED
  BY <1>1, SeatsAssumption

(* The first seat of a set is one of them.                                 *)
LEMMA MinIsIn == ASSUME NEW S \in SUBSET Seats, S # {} PROVE Min(S) \in S
<1>1. \E n \in S : \A m \in S : n <= m
  BY SeatsAreNat, LeastNatural
<1> QED
  BY <1>1 DEF Min

(* Nobody sits twice, without counting.                                    *)
Alone(stage) == \A u \in Users : \A i, j \in SeatsOf(stage, u) : i = j
LEMMA SingleIsAlone == ASSUME NEW stage PROVE Single(stage) <=> Alone(stage)
<1>1. ASSUME NEW u \in Users
      PROVE Cardinality(SeatsOf(stage, u)) <= 1 <=> \A i, j \in SeatsOf(stage, u) : i = j
  <2>1. IsFiniteSet(SeatsOf(stage, u))
    BY SeatsAreNat, FS_Subset DEF SeatsOf
  <2>2. Cardinality(SeatsOf(stage, u)) \in Nat
    BY <2>1, FS_CardinalityType
  <2>3. ASSUME NEW i \in SeatsOf(stage, u), \A j \in SeatsOf(stage, u) : i = j
        PROVE Cardinality(SeatsOf(stage, u)) <= 1
    <3>1. SeatsOf(stage, u) = {i}
      BY <2>3
    <3>2. Cardinality({i}) = 1
      BY FS_Singleton
    <3> QED
      BY <3>1, <3>2
  <2>4. SeatsOf(stage, u) = {} => Cardinality(SeatsOf(stage, u)) <= 1
    BY FS_EmptySet
  <2>5. ASSUME NEW i \in SeatsOf(stage, u), NEW j \in SeatsOf(stage, u), i # j
        PROVE ~(Cardinality(SeatsOf(stage, u)) <= 1)
    <3>1. Cardinality(SeatsOf(stage, u) \ {i}) = Cardinality(SeatsOf(stage, u)) - 1
      BY <2>1, FS_RemoveElement
    <3>2. IsFiniteSet(SeatsOf(stage, u) \ {i}) /\ SeatsOf(stage, u) \ {i} # {}
      BY <2>1, <2>5, FS_RemoveElement
    <3>3. Cardinality(SeatsOf(stage, u) \ {i}) \in Nat \ {0}
      BY <3>2, FS_CardinalityType, FS_EmptySet
    <3> QED
      BY <2>2, <3>1, <3>3
  <2> QED
    BY <2>3, <2>4, <2>5
<1> QED
  BY <1>1 DEF Single, Alone

LEMMA NoneIsNoEntry == None \notin Filled
BY SeatsAssumption

(* What a write does to a stage.                                           *)
LEMMA DoStage ==
  ASSUME NEW st \in Stage, NEW w \in Writes, st[w.seat] # None
  PROVE  /\ Do(st, w) \in Stage /\ Do(st, w)[w.seat] # None
         /\ \A i \in Seats : i # w.seat => Do(st, w)[i] = st[i]
<1>1. st[w.seat] \in Filled /\ w.seat \in Seats /\ w.user \in Users \cup {None}
  BY DEF Stage, Entry, Writes
<1>2. \A e \in Filled : [st EXCEPT ![w.seat] = e] \in Stage
  BY <1>1 DEF Stage, Entry
<1>3. \E e \in Filled : Do(st, w) = [st EXCEPT ![w.seat] = e]
  <2>1. CASE w.do = "occupy"
    BY <1>1, <2>1 DEF Do, Filled, Statuses
  <2>2. CASE w.do = "vacate"
    BY <1>1, <2>2 DEF Do, Filled, Statuses
  <2>3. CASE w.do = "shut"
    BY <1>1, <2>3 DEF Do, Filled, Statuses
  <2>4. CASE w.do = "open"
    BY <1>1, <2>4 DEF Do, Filled, Statuses
  <2>5. CASE w.do = "reserve"
    BY <1>1, <2>5 DEF Do, Filled, Statuses
  <2>6. CASE w.do = "release"
    BY <1>1, <2>6 DEF Do, Filled, Statuses
  <2> QED
    BY <2>1, <2>2, <2>3, <2>4, <2>5, <2>6 DEF Writes
<1> QED
  BY <1>1, <1>2, <1>3, NoneIsNoEntry DEF Stage

LEMMA DoSeat ==
  ASSUME NEW st \in Stage, NEW w \in Writes, st[w.seat] # None
  PROVE  LET old == st[w.seat]
             new == Do(st, w)[w.seat]
         IN /\ new.status =
                 IF w.do = "occupy" THEN "OCCUPIED" ELSE IF w.do = "shut" THEN "LOCKED"
                 ELSE IF w.do = "reserve" THEN "RESERVED"
                 ELSE IF w.do = "open" /\ old.status # "LOCKED" THEN old.status ELSE "EMPTY"
            /\ new.occupant = IF w.do = "occupy" THEN w.user
                              ELSE IF w.do \in {"vacate", "shut"} THEN None ELSE old.occupant
            /\ new.reserved = IF w.do = "reserve" THEN w.user
                              ELSE IF w.do \in {"occupy", "shut", "release"} THEN None
                              ELSE old.reserved
            /\ new.isLocked = IF w.do = "shut" THEN TRUE ELSE IF w.do = "open" THEN FALSE
                              ELSE old.isLocked
<1>1. st[w.seat] \in Filled /\ w.seat \in Seats
  BY DEF Stage, Entry, Writes
<1>a. st = [i \in Seats |-> st[i]] /\ DOMAIN st = Seats
  BY DEF Stage
<1>2. CASE w.do = "occupy"
  BY <1>1, <1>a, <1>2 DEF Do, Filled
<1>3. CASE w.do = "vacate"
  BY <1>1, <1>a, <1>3 DEF Do, Filled
<1>4. CASE w.do = "shut"
  BY <1>1, <1>a, <1>4 DEF Do, Filled
<1>5. CASE w.do = "open"
  BY <1>1, <1>a, <1>5 DEF Do, Filled
<1>6. CASE w.do = "reserve"
  BY <1>1, <1>a, <1>6 DEF Do, Filled
<1>7. CASE w.do = "release"
  BY <1>1, <1>a, <1>7 DEF Do, Filled
<1> QED
  BY <1>2, <1>3, <1>4, <1>5, <1>6, <1>7 DEF Writes

(* Nobody comes to sit twice by a write that seats him where he has no     *)
(* other seat, nor by a layout.                                            *)
LEMMA DoAlone ==
  ASSUME NEW st \in Stage, NEW w \in Writes, st[w.seat] # None, Alone(st),
         w.do = "occupy" => SeatsOf(st, w.user) \ {w.seat} = {}
  PROVE  Alone(Do(st, w))
<1> DEFINE new == Do(st, w)
<1> SUFFICES ASSUME NEW u \in Users, NEW i \in SeatsOf(new, u), NEW j \in SeatsOf(new, u), i # j
             PROVE FALSE
  BY DEF Alone
<1>1. /\ \A k \in Seats : k # w.seat => new[k] = st[k]
      /\ new[w.seat].occupant = IF w.do = "occupy" THEN w.user
                                ELSE IF w.do \in {"vacate", "shut"} THEN None
                                ELSE st[w.seat].occupant
  <2>1. \A k \in Seats : k # w.seat => new[k] = st[k]
    BY DoStage
  <2> QED
    BY <2>1, DoSeat
<1> HIDE DEF new
<1>0. st[w.seat] # None
  OBVIOUS
<1>2. i \in Seats /\ j \in Seats /\ w.seat \in Seats /\ u # None
  BY SeatsAssumption DEF SeatsOf, Writes
<1>3. ASSUME NEW k \in SeatsOf(new, u) 
      PROVE  k \in SeatsOf(st, u) \/ (k = w.seat /\ w.do = "occupy" /\ u = w.user)
  <2>1. k \in Seats /\ new[k] # None /\ new[k].occupant = u
    BY <1>3 DEF SeatsOf
  <2>2. CASE k # w.seat
    <3>1. new[k] = st[k]
      BY <1>1, <2>1, <2>2
    <3> QED
      BY <2>1, <3>1 DEF SeatsOf
  <2>3. CASE k = w.seat
    BY <1>0, <1>1, <1>2, <2>1, <2>3 DEF SeatsOf
  <2> QED
    BY <2>2, <2>3
<1>4. \A k \in SeatsOf(st, u) : \A m \in SeatsOf(st, u) : k = m
  BY DEF Alone
<1> QED
  BY <1>2, <1>3, <1>4

LEMMA LayoutStage == ASSUME NEW st \in Stage, NEW n PROVE Layout(st, n) \in Stage
BY DEF Layout, Stage, Entry, Empty, Filled, Statuses

LEMMA LayoutSeats ==
  ASSUME NEW st \in Stage, NEW n, NEW u \in Users
  PROVE  SeatsOf(Layout(st, n), u) \subseteq SeatsOf(st, u)
<1> SUFFICES ASSUME NEW i \in Seats, Layout(st, n)[i] # None, Layout(st, n)[i].occupant = u
             PROVE st[i] # None /\ st[i].occupant = u
  BY DEF SeatsOf
<1>1. u # None /\ Empty.occupant = None
  BY SeatsAssumption DEF Empty
<1> QED
  BY <1>1 DEF Layout

LEMMA LayoutAlone ==
  ASSUME NEW st \in Stage, NEW n, Alone(st) PROVE Alone(Layout(st, n))
BY LayoutSeats DEF Alone

(* A write that fits its seat keeps the stage clear.                       *)
Fits(st, w) ==
    /\ st[w.seat] # None
    /\ w.do = "occupy" => w.user # None /\ ~st[w.seat].isLocked /\ SeatsOf(st, w.user) = {}
    /\ w.do = "vacate" => st[w.seat].occupant # None
    /\ w.do = "reserve" => w.user # None /\ st[w.seat].status = "EMPTY"
    /\ w.do = "release" => st[w.seat].status = "RESERVED"

LEMMA DoClear ==
  ASSUME NEW st \in Stage, NEW w \in Writes, Clear(st), Fits(st, w)
  PROVE  Clear(Do(st, w))
<1>1. st[w.seat] # None
  BY DEF Fits
<1>2. /\ Do(st, w) \in Stage
      /\ \A i \in Seats : i # w.seat => Do(st, w)[i] = st[i]
  BY <1>1, DoStage
<1> DEFINE old == st[w.seat]
           new == Do(st, w)[w.seat]
<1>3. /\ new.status =
           IF w.do = "occupy" THEN "OCCUPIED" ELSE IF w.do = "shut" THEN "LOCKED"
           ELSE IF w.do = "reserve" THEN "RESERVED"
           ELSE IF w.do = "open" /\ old.status # "LOCKED" THEN old.status ELSE "EMPTY"
      /\ new.occupant = IF w.do = "occupy" THEN w.user
                        ELSE IF w.do \in {"vacate", "shut"} THEN None ELSE old.occupant
      /\ new.reserved = IF w.do = "reserve" THEN w.user
                        ELSE IF w.do \in {"occupy", "shut", "release"} THEN None
                        ELSE old.reserved
      /\ new.isLocked = IF w.do = "shut" THEN TRUE ELSE IF w.do = "open" THEN FALSE
                        ELSE old.isLocked
  BY <1>1, DoSeat
<1>4. w.seat \in Seats /\ old \in Filled
  BY <1>1 DEF Writes, Stage, Entry
<1>5. /\ (old.status = "OCCUPIED") <=> (old.occupant # None)
      /\ (old.status = "RESERVED") <=> (old.reserved # None)
      /\ (old.status = "LOCKED") <=> old.isLocked
  BY <1>1, <1>4 DEF Clear
<1>6. /\ w.do = "occupy" => w.user # None /\ ~old.isLocked
      /\ w.do = "vacate" => old.occupant # None
      /\ w.do = "reserve" => w.user # None /\ old.status = "EMPTY"
      /\ w.do = "release" => old.status = "RESERVED"
  BY DEF Fits
<1> HIDE DEF old, new
<1>7. old.status \in Statuses /\ old.isLocked \in BOOLEAN
  BY <1>4 DEF Filled
<1>8. /\ (new.status = "OCCUPIED") <=> (new.occupant # None)
      /\ (new.status = "RESERVED") <=> (new.reserved # None)
      /\ (new.status = "LOCKED") <=> new.isLocked
  <2>1. CASE w.do = "occupy"
    BY <1>3, <1>5, <1>6, <1>7, <2>1 DEF Statuses
  <2>2. CASE w.do = "vacate"
    BY <1>3, <1>5, <1>6, <1>7, <2>2 DEF Statuses
  <2>3. CASE w.do = "shut"
    BY <1>3, <2>3
  <2>4. CASE w.do = "open"
    BY <1>3, <1>5, <1>7, <2>4 DEF Statuses
  <2>5. CASE w.do = "reserve"
    BY <1>3, <1>5, <1>6, <1>7, <2>5 DEF Statuses
  <2>6. CASE w.do = "release"
    BY <1>3, <1>5, <1>6, <1>7, <2>6 DEF Statuses
  <2> QED
    BY <2>1, <2>2, <2>3, <2>4, <2>5, <2>6 DEF Writes
<1> QED
  <2> SUFFICES ASSUME NEW i \in Seats, Do(st, w)[i] # None
               PROVE  /\ (Do(st, w)[i].status = "OCCUPIED") <=> (Do(st, w)[i].occupant # None)
                      /\ (Do(st, w)[i].status = "RESERVED") <=> (Do(st, w)[i].reserved # None)
                      /\ (Do(st, w)[i].status = "LOCKED") <=> Do(st, w)[i].isLocked
    BY DEF Clear
  <2>1. CASE i = w.seat
    BY <2>1, <1>8 DEF new
  <2>2. CASE i # w.seat
    BY <2>2, <1>2 DEF Clear
  <2> QED
    BY <2>1, <2>2

LEMMA LayoutClear ==
  ASSUME NEW st \in Stage, NEW n, Clear(st) PROVE Clear(Layout(st, n))
<1> SUFFICES ASSUME NEW i \in Seats, Layout(st, n)[i] # None
             PROVE  /\ (Layout(st, n)[i].status = "OCCUPIED") <=> (Layout(st, n)[i].occupant # None)
                    /\ (Layout(st, n)[i].status = "RESERVED") <=> (Layout(st, n)[i].reserved # None)
                    /\ (Layout(st, n)[i].status = "LOCKED") <=> Layout(st, n)[i].isLocked
  BY DEF Clear
<1>1. CASE st[i] = None
  <2>1. Layout(st, n)[i] = Empty
    BY <1>1 DEF Layout
  <2> QED
    BY <2>1 DEF Empty
<1>2. CASE st[i] # None
  <2>1. Layout(st, n)[i] = st[i]
    BY <1>2 DEF Layout
  <2> QED
    BY <1>2, <2>1 DEF Clear
<1> QED
  BY <1>1, <1>2

-----------------------------------------------------------------------------
(* What a process has in hand at step x, with the job j, when D are the    *)
(* requests there are.                                                     *)
Seaters == {"approve", "retry", "advance"}
SeatOps == OfSeats \cup Seaters \cup {"sweep"}
Hand(p, x, j, D) ==
    /\ x = "idle" => j = Blank
    /\ x \in {"layout", "commit", "write", "fill"} => j.next \in Stage /\ Alone(j.next)
    /\ x \in {"commit", "write"} => \A k \in DOMAIN j.writes : j.next[j.writes[k].seat] # None
    /\ x \in {"wait", "layout"} /\ Op(p) = "layout" => j.writes = <<>>
    /\ x = "layout" => Op(p) = "layout"
    /\ x = "left" => Op(p) = "leaveRoom"
    /\ x = "create" => Op(p) = "request"
    /\ x \in {"choose", "accept", "seat"} => Op(p) # "layout"
    /\ (\/ x \in {"accept", "seat"}
        \/ x \in {"wait", "commit", "write"} /\ Op(p) \in SeatOps) => j.seat \in Seats
    /\ x = "create" => j.seat \in Seats \cup {None}
    /\ (\/ x \in {"create", "enqueue", "swap", "choose", "accept", "seat", "left"}
        \/ x = "wait" /\ Op(p) \in OfUsers \cup Seaters) => j.user \in Users
    /\ (\/ x \in {"swap", "choose", "accept", "seat", "promoted", "fail"}
        \/ x = "enqueue" /\ Op(p) = "retry"
        \/ x \in {"wait", "commit", "write"} /\ Op(p) \in Seaters) => j.req \in D
    /\ p = Advancer /\ x # "idle" => j.seat \in Seats /\ j.todo \subseteq Users
    /\ p = Sweeper /\ x \notin {"idle", "expire"} => j.todo \subseteq Seats

HandsOK == \A p \in Procs : Hand(p, pc[p], job[p], DOMAIN rq)
StagesOK == Alone(row) /\ (snap # Cold => Alone(snap))
SeatsInv == TypeOK /\ HandsOK /\ StagesOK

LEMMA ConstantsOK ==
    /\ None \notin Procs /\ Gone \notin Procs /\ Gone # None /\ None \notin Users
    /\ None \notin Stage /\ None \notin Nat /\ Cold \notin Stage /\ None \notin Filled
    /\ Sweeper \in Procs /\ Advancer \in Procs /\ Sweeper # Advancer
    /\ Sweeper \notin Calls /\ Advancer \notin Calls /\ Calls \subseteq Procs
BY SeatsAssumption DEF Procs

LEMMA OpIs ==
    /\ Op(Sweeper) = "sweep" /\ Op(Advancer) = "advance"
    /\ \A p \in Calls : Op(p) = scene.call[p].op
BY ConstantsOK DEF Op

LEMMA BlankIsJob == Blank \in Job
<1>1. <<>> \in Seq(Writes)
  OBVIOUS
<1> QED
  BY <1>1 DEF Blank, Job

LEMMA HomeIs == ASSUME NEW p \in Procs
                PROVE  Home(p) = (IF p \in Calls THEN "done" ELSE "idle") /\ Home(p) \in PcType
BY DEF Home, PcType

(* A handled step: only the process itself moves, to a step whose needs it *)
(* has in hand, and the rest keeps its type.                               *)
LEMMA Stepped ==
  ASSUME SeatsInv, NEW p \in Procs, NEW x \in PcType, NEW j \in Job,
         pc' = [pc EXCEPT ![p] = x], job' = [job EXCEPT ![p] = j],
         scene' = scene, Hand(p, x, j, DOMAIN rq'),
         member' \subseteq Users, queue' \subseteq Users,
         snap' \in Stage \cup {Cold}, row' \in Stage,
         Alone(row'), snap' # Cold => Alone(snap'),
         hold' \subseteq Seats, freed' \subseteq Seats, lock' \in Procs \cup {None, Gone},
         rq' \in Seq(Asked), DOMAIN rq \subseteq DOMAIN rq', faults' \in 0 .. MaxFaults
  PROVE  SeatsInv'
<1>1. /\ pc' \in [Procs -> PcType] /\ pc'[p] = x
      /\ \A q \in Procs : q # p => pc'[q] = pc[q]
  BY DEF SeatsInv, TypeOK
<1>2. /\ job' \in [Procs -> Job] /\ job'[p] = j
      /\ \A q \in Procs : q # p => job'[q] = job[q]
  BY DEF SeatsInv, TypeOK
<1>3. TypeOK'
  BY <1>1, <1>2 DEF SeatsInv, TypeOK
<1>4. \A q \in Procs : Op(q)' = Op(q)
  BY DEF Op
<1>5. ASSUME NEW q \in Procs PROVE Hand(q, pc[q], job[q], DOMAIN rq)'
  <2>1. CASE q = p
    BY <1>1, <1>2, <1>4, <2>1 DEF Hand, Alone, SeatsOf
  <2>2. CASE q # p
    <3>1. Hand(q, pc[q], job[q], DOMAIN rq)
      BY DEF SeatsInv, HandsOK
    <3> QED
      BY <1>1, <1>2, <1>4, <2>2, <3>1 DEF Hand, Alone, SeatsOf
  <2> QED
    BY <2>1, <2>2
<1> QED
  BY <1>3, <1>5 DEF SeatsInv, HandsOK, StagesOK, Alone, SeatsOf

LEMMA HandOf == ASSUME SeatsInv, NEW p \in Procs
                PROVE  /\ Hand(p, pc[p], job[p], DOMAIN rq)
                       /\ job[p] \in Job /\ pc[p] \in PcType
                       /\ job = [job EXCEPT ![p] = job[p]] /\ pc = [pc EXCEPT ![p] = pc[p]]
BY DEF SeatsInv, HandsOK, TypeOK

LEMMA BaseOK == ASSUME SeatsInv PROVE Base \in Stage /\ Alone(Base)
BY DEF SeatsInv, TypeOK, StagesOK, Base

LEMMA EndHand == ASSUME NEW p \in Procs, NEW D PROVE Hand(p, Home(p), Blank, D)
<1>1. /\ Home(p) \in {"done", "idle"}
      /\ p \in {Advancer, Sweeper} => Home(p) = "idle"
  BY ConstantsOK DEF Home
<1> QED
  BY <1>1 DEF Hand

(* A change begins, or is refused.                                         *)
LEMMA Changes ==
  ASSUME SeatsInv, NEW p \in Procs, At(p, "wait"), NEW next \in Stage, NEW writes \in Seq(Writes),
         NEW taken \in Users \cup {None}, NEW left \in SUBSET Seats,
         Change(p, next, writes, taken, left), Alone(next),
         \A k \in DOMAIN writes : next[writes[k].seat] # None
  PROVE  SeatsInv'
<1> DEFINE j == [job[p] EXCEPT !.next = next, !.writes = writes, !.taken = taken, !.left = left]
<1>1. Hand(p, "wait", job[p], DOMAIN rq) /\ job[p] \in Job
  BY HandOf DEF At
<1>2. j \in Job /\ j.next = next /\ j.writes = writes
      /\ j.seat = job[p].seat /\ j.req = job[p].req /\ j.todo = job[p].todo
  BY <1>1 DEF Job
<1>3. /\ pc' = [pc EXCEPT ![p] = "commit"] /\ job' = [job EXCEPT ![p] = j] /\ scene' = scene
      /\ member' = member /\ queue' = queue /\ snap' = Base /\ row' = row /\ hold' = hold
      /\ freed' = freed /\ lock' = p /\ rq' = rq /\ faults' = faults
  BY DEF Change, Go, Hold, requests
<1> HIDE DEF j
<1>4. Hand(p, "commit", j, DOMAIN rq')
  BY <1>1, <1>2, <1>3 DEF Hand
<1>5. "commit" \in PcType
  BY DEF PcType
<1>6. snap' \in Stage /\ Alone(snap') /\ Alone(row')
  BY <1>3, BaseOK DEF SeatsInv, StagesOK
<1> QED
  BY <1>2, <1>3, <1>4, <1>5, <1>6, Stepped DEF SeatsInv, TypeOK

LEMMA RefusedHand ==
  ASSUME SeatsInv, NEW p \in Procs, Refused(p), rq' = rq, pc[p] = "wait" \/ (pc[p] = "seat")
  PROVE  \E x \in PcType, j \in Job :
            /\ pc' = [pc EXCEPT ![p] = x] /\ job' = [job EXCEPT ![p] = j]
            /\ Hand(p, x, j, DOMAIN rq')
<1>1. /\ Hand(p, pc[p], job[p], DOMAIN rq) /\ job[p] \in Job
      /\ job = [job EXCEPT ![p] = job[p]]
  BY HandOf
<1>2. CASE Op(p) \in {"approve", "retry"}
  <2>1. p \notin {Sweeper, Advancer}
    BY <1>2, OpIs
  <2>2. Hand(p, "fail", job[p], DOMAIN rq')
    BY <1>1, <1>2, <2>1 DEF Hand, Seaters
  <2> QED
    BY <1>1, <1>2, <2>2 DEF Refused, Go, PcType
<1>3. CASE Op(p) \notin {"approve", "retry"} /\ p \in Calls
  BY <1>3, EndHand, HomeIs, BlankIsJob DEF Refused, End, Go, Hold
<1>4. CASE Op(p) \notin {"approve", "retry"} /\ p \notin Calls
  <2>1. Hand(p, "next", job[p], DOMAIN rq')
    BY <1>1, <1>4 DEF Hand
  <2> QED
    BY <1>1, <1>4, <2>1 DEF Refused, Go, PcType
<1> QED
  BY <1>2, <1>3, <1>4

LEMMA Refuses ==
  ASSUME SeatsInv, NEW p \in Procs, At(p, "wait"), Refuse(p) PROVE SeatsInv'
<1>1. /\ Refused(p) /\ scene' = scene
      /\ member' = member /\ queue' = queue /\ snap' = Base /\ row' = row /\ hold' = hold
      /\ freed' = freed /\ lock' = lock /\ rq' = rq /\ faults' = faults
  BY DEF Refuse, requests
<1>2. PICK x \in PcType, j \in Job :
            /\ pc' = [pc EXCEPT ![p] = x] /\ job' = [job EXCEPT ![p] = j]
            /\ Hand(p, x, j, DOMAIN rq')
  BY <1>1, RefusedHand DEF At
<1>3. snap' \in Stage /\ Alone(snap') /\ Alone(row')
  BY <1>1, BaseOK DEF SeatsInv, StagesOK
<1> QED
  BY <1>1, <1>2, <1>3, Stepped DEF SeatsInv, TypeOK

LEMMA Attempts ==
  ASSUME SeatsInv, NEW p \in Procs, At(p, "wait"), NEW allowed, NEW w \in Writes,
         NEW taken \in Users \cup {None}, NEW left \in SUBSET Seats,
         Attempt(p, allowed, w, taken, left),
         allowed => Base[w.seat] # None /\ (w.do = "occupy" => SeatsOf(Base, w.user) = {})
  PROVE  SeatsInv'
<1>1. CASE allowed
  <2>1. Base \in Stage /\ Alone(Base) /\ Base[w.seat] # None
    BY <1>1, BaseOK
  <2>2. Do(Base, w) \in Stage /\ Do(Base, w)[w.seat] # None
    BY <2>1, DoStage
  <2>3. Alone(Do(Base, w))
    BY <1>1, <2>1, DoAlone
  <2>4. <<w>> \in Seq(Writes) /\ \A k \in DOMAIN <<w>> : <<w>>[k] = w
    OBVIOUS
  <2>5. Change(p, Do(Base, w), <<w>>, taken, left)
    BY <1>1 DEF Attempt
  <2> QED
    BY <2>2, <2>3, <2>4, <2>5, Changes
<1>2. CASE ~allowed
  BY <1>2, Refuses DEF Attempt
<1> QED
  BY <1>1, <1>2

LEMMA WaitHand ==
  ASSUME SeatsInv, NEW p \in Procs, At(p, "wait")
  PROVE  /\ job[p] \in Job
         /\ Op(p) \in SeatOps => job[p].seat \in Seats
         /\ Op(p) \in OfUsers \cup Seaters => job[p].user \in Users
BY HandOf DEF Hand, At

LEMMA TakeSeatInv == ASSUME SeatsInv, NEW p \in Procs, TakeSeat(p) PROVE SeatsInv'
<1> DEFINE u == job[p].user
           i == job[p].seat
           w == W("occupy", i, u)
<1>1. At(p, "wait") /\ Op(p) \in {"take", "promote", "approve", "retry", "advance"}
  BY DEF TakeSeat, Enters
<1>2. i \in Seats /\ u \in Users
  BY <1>1, WaitHand DEF SeatOps, OfSeats, OfUsers, Seaters
<1>3. w \in Writes /\ w.seat = i /\ w.user = u
  BY <1>2 DEF W, Writes
<1>4. Attempt(p, SeatsOf(Base, u) = {} /\ Claimable(Base, i, u), w, u, {})
  BY DEF TakeSeat
<1>5. Claimable(Base, i, u) => Base[i] # None
  BY DEF Claimable
<1> HIDE DEF w
<1>6. {} \in SUBSET Seats /\ None \in Users \cup {None} /\ Users \subseteq Users \cup {None}
  OBVIOUS
<1> QED
  BY <1>1, <1>2, <1>3, <1>4, <1>5, <1>6, Attempts

LEMMA VacateOK ==
  ASSUME NEW st \in Stage, Alone(st), NEW u \in Users, NEW i \in SeatsOf(st, u)
  PROVE  LET w == W("vacate", i, None) IN
         /\ w \in Writes /\ w.seat = i /\ w.do = "vacate" /\ st[i] # None /\ i \in Seats
         /\ Do(st, w) \in Stage /\ Alone(Do(st, w)) /\ Do(st, w)[i] # None
         /\ SeatsOf(Do(st, w), u) = {}
         /\ \A k \in Seats : k # i => Do(st, w)[k] = st[k]
<1> DEFINE w == W("vacate", i, None)
<1>1. w \in Writes /\ w.seat = i /\ w.do = "vacate" /\ st[i] # None /\ i \in Seats
  BY DEF W, Writes, SeatsOf
<1> HIDE DEF w
<1>2. /\ Do(st, w) \in Stage /\ Do(st, w)[i] # None
      /\ \A k \in Seats : k # i => Do(st, w)[k] = st[k]
  BY <1>1, DoStage
<1>3. Alone(Do(st, w))
  BY <1>1, DoAlone
<1>4. Do(st, w)[i].occupant = None
  BY <1>1, DoSeat
<1>5. ASSUME NEW k \in SeatsOf(Do(st, w), u) PROVE FALSE
  <2>1. k \in Seats /\ Do(st, w)[k] # None /\ Do(st, w)[k].occupant = u
    BY <1>5 DEF SeatsOf
  <2>2. k # i
    BY <2>1, <1>4, ConstantsOK
  <2>3. k \in SeatsOf(st, u)
    BY <1>2, <2>1, <2>2 DEF SeatsOf
  <2> QED
    BY <2>2, <2>3 DEF Alone
<1> QED
  BY <1>1, <1>2, <1>3, <1>5 DEF w

LEMMA LeaveSeatInv == ASSUME SeatsInv, NEW p \in Procs, LeaveSeat(p) PROVE SeatsInv'
<1> DEFINE u == job[p].user
           mine == SeatsOf(Base, u)
           i == Min(mine)
           w == W("vacate", i, None)
<1>1. At(p, "wait") /\ Op(p) \in {"leaveSeat", "remove", "leaveRoom"}
  BY DEF LeaveSeat, Enters
<1>2. u \in Users
  BY <1>1, WaitHand DEF OfUsers
<1>3. CASE mine = {}
  BY <1>1, <1>3, Refuses DEF LeaveSeat
<1>4. CASE mine # {}
  <2>1. i \in mine
    BY <1>4, MinIsIn DEF SeatsOf
  <2> HIDE DEF i
  <2>2. /\ w \in Writes /\ w.seat = i /\ i \in Seats
        /\ Do(Base, w) \in Stage /\ Alone(Do(Base, w)) /\ Do(Base, w)[i] # None
    BY <1>2, <2>1, BaseOK, VacateOK
  <2>3. Change(p, Do(Base, w), <<w>>, None, {i})
    BY <1>4 DEF LeaveSeat, i
  <2> HIDE DEF w
  <2>4. <<w>> \in Seq(Writes) /\ \A k \in DOMAIN <<w>> : <<w>>[k] = w
    BY <2>2
  <2> QED
    BY <1>1, <2>2, <2>3, <2>4, Changes
<1> QED
  BY <1>3, <1>4

LEMMA SwitchSeatInv == ASSUME SeatsInv, NEW p \in Procs, SwitchSeat(p) PROVE SeatsInv'
<1> DEFINE u == job[p].user
           j == job[p].seat
           from == SeatsOf(Base, u)
           i == Min(from)
           v == W("vacate", i, None)
           w == W("occupy", j, u)
           out == Do(Base, v)
           next == IF i = j THEN out ELSE Do(out, w)
           mayGo == IF Op(p) = "switch" THEN i # j /\ Claimable(Base, j, u)
                    ELSE j # 0 /\ Base[j] # None /\ ~Base[j].isLocked
           gone == IF Base[j].status = "OCCUPIED" THEN {j} ELSE {}
<1>1. At(p, "wait") /\ Op(p) \in {"switch", "transfer"}
  BY DEF SwitchSeat, Enters
<1>2. u \in Users /\ j \in Seats
  BY <1>1, WaitHand DEF OfUsers, SeatOps, OfSeats
<1>3. CASE from = {} \/ ~mayGo
  BY <1>1, <1>3, Refuses DEF SwitchSeat
<1>4. CASE from # {} /\ mayGo
  <2>1. i \in from
    BY <1>4, MinIsIn DEF SeatsOf
  <2>2. Change(p, next, <<v, w>>, None, gone)
    BY <1>4 DEF SwitchSeat
  <2>3. Base[j] # None
    BY <1>4 DEF Claimable
  <2> HIDE DEF i, mayGo
  <2>4. /\ v \in Writes /\ v.seat = i /\ i \in Seats
        /\ out \in Stage /\ Alone(out) /\ out[i] # None /\ SeatsOf(out, u) = {}
        /\ \A k \in Seats : k # i => out[k] = Base[k]
    BY <1>2, <2>1, BaseOK, VacateOK
  <2>5. w \in Writes /\ w.seat = j /\ w.user = u
    BY <1>2 DEF W, Writes
  <2>6. out[j] # None
    BY <1>2, <2>3, <2>4
  <2> HIDE DEF v, w, out
  <2>7. /\ Do(out, w) \in Stage /\ Do(out, w)[j] # None /\ Alone(Do(out, w))
        /\ \A k \in Seats : k # j => Do(out, w)[k] = out[k]
    BY <2>4, <2>5, <2>6, DoStage, DoAlone
  <2>8. next \in Stage /\ Alone(next) /\ next[i] # None /\ next[j] # None
    BY <2>4, <2>6, <2>7
  <2>9. <<v, w>> \in Seq(Writes) /\ \A k \in DOMAIN <<v, w>> : <<v, w>>[k] \in {v, w}
    BY <2>4, <2>5
  <2>10. gone \in SUBSET Seats
    BY <1>2
  <2> HIDE DEF next, gone
  <2>11. \A k \in DOMAIN <<v, w>> : next[<<v, w>>[k].seat] # None
    BY <2>4, <2>5, <2>8, <2>9
  <2> QED
    BY <1>1, <2>2, <2>8, <2>9, <2>10, <2>11, Changes
<1> QED
  BY <1>3, <1>4

LEMMA LockSeatInv == ASSUME SeatsInv, NEW p \in Procs, LockSeat(p) PROVE SeatsInv'
<1> DEFINE i == job[p].seat
           w == W("shut", i, None)
<1>1. At(p, "wait") /\ Op(p) = "lock"
  BY DEF LockSeat, Enters
<1>2. i \in Seats
  BY <1>1, WaitHand DEF SeatOps, OfSeats
<1>3. w \in Writes /\ w.seat = i /\ w.do = "shut"
  BY <1>2 DEF W, Writes
<1>4. Attempt(p, i # 0 /\ Base[i] # None, w, None, {})
  BY DEF LockSeat
<1> HIDE DEF w
<1>6. {} \in SUBSET Seats /\ None \in Users \cup {None} /\ Users \subseteq Users \cup {None}
  OBVIOUS
<1> QED
  BY <1>1, <1>3, <1>4, <1>6, Attempts

LEMMA UnlockSeatInv == ASSUME SeatsInv, NEW p \in Procs, UnlockSeat(p) PROVE SeatsInv'
<1> DEFINE i == job[p].seat
           w == W("open", i, None)
<1>1. At(p, "wait") /\ Op(p) = "unlock"
  BY DEF UnlockSeat, Enters
<1>2. i \in Seats
  BY <1>1, WaitHand DEF SeatOps, OfSeats
<1>3. w \in Writes /\ w.seat = i /\ w.do = "open"
  BY <1>2 DEF W, Writes
<1>4. Attempt(p, Base[i] # None, w, None, {})
  BY DEF UnlockSeat
<1> HIDE DEF w
<1>6. {} \in SUBSET Seats /\ None \in Users \cup {None} /\ Users \subseteq Users \cup {None}
  OBVIOUS
<1> QED
  BY <1>1, <1>3, <1>4, <1>6, Attempts

LEMMA ReserveSeatInv == ASSUME SeatsInv, NEW p \in Procs, ReserveSeat(p) PROVE SeatsInv'
<1> DEFINE i == job[p].seat
           w == W("reserve", i, job[p].user)
<1>1. At(p, "wait") /\ Op(p) = "reserve"
  BY DEF ReserveSeat, Enters
<1>2. i \in Seats /\ job[p].user \in Users
  BY <1>1, WaitHand DEF SeatOps, OfSeats, OfUsers
<1>3. w \in Writes /\ w.seat = i /\ w.do = "reserve"
  BY <1>2 DEF W, Writes
<1>4. Attempt(p, i \in OpenSeats(Base), w, None, {})
  BY DEF ReserveSeat
<1>5. i \in OpenSeats(Base) => Base[i] # None
  BY DEF OpenSeats
<1> HIDE DEF w
<1>6. {} \in SUBSET Seats /\ None \in Users \cup {None} /\ Users \subseteq Users \cup {None}
  OBVIOUS
<1> QED
  BY <1>1, <1>3, <1>4, <1>5, <1>6, Attempts

LEMMA ReleaseSeatInv == ASSUME SeatsInv, NEW p \in Procs, ReleaseSeat(p) PROVE SeatsInv'
<1> DEFINE i == job[p].seat
           w == W("release", i, None)
<1>1. At(p, "wait") /\ Op(p) \in {"unreserve", "sweep"}
  BY DEF ReleaseSeat, Enters
<1>2. i \in Seats
  BY <1>1, WaitHand DEF SeatOps, OfSeats
<1>3. w \in Writes /\ w.seat = i /\ w.do = "release"
  BY <1>2 DEF W, Writes
<1>4. Attempt(p, Base[i] # None /\ Base[i].status = "RESERVED", w, None, {i})
  BY DEF ReleaseSeat
<1>6. {i} \in SUBSET Seats /\ None \in Users \cup {None} /\ w.do # "occupy" /\ w.seat = i
  BY <1>2, <1>3
<1> HIDE DEF w, i
<1> QED
  BY <1>1, <1>3, <1>4, <1>6, Attempts

LEMMA ConfigureLayoutInv == ASSUME SeatsInv, NEW p \in Procs, ConfigureLayout(p) PROVE SeatsInv'
<1> DEFINE next == Layout(Base, job[p].seat)
           gone == {i \in Seats : i >= job[p].seat /\ Base[i] # None /\ Base[i].occupant # None}
           j == [job[p] EXCEPT !.next = next, !.left = gone]
<1>1. At(p, "wait") /\ Op(p) = "layout"
  BY DEF ConfigureLayout, Enters
<1>2. /\ pc' = [pc EXCEPT ![p] = "layout"] /\ job' = [job EXCEPT ![p] = j] /\ scene' = scene
      /\ member' = member /\ queue' = queue /\ snap' = Base /\ row' = row /\ hold' = hold
      /\ freed' = freed /\ lock' = p /\ rq' = rq /\ faults' = faults
  BY DEF ConfigureLayout, Go, Hold, requests
<1>3. next \in Stage /\ Alone(next) /\ gone \in SUBSET Seats
  BY BaseOK, LayoutStage, LayoutAlone
<1> HIDE DEF next, gone
<1>4. Hand(p, "wait", job[p], DOMAIN rq) /\ job[p] \in Job
  BY <1>1, HandOf DEF At
<1>5. j \in Job /\ j.next = next /\ j.writes = job[p].writes /\ j.todo = job[p].todo /\ j.seat = job[p].seat
  BY <1>3, <1>4 DEF Job
<1> HIDE DEF j
<1>6. Hand(p, "layout", j, DOMAIN rq')
  BY <1>1, <1>3, <1>4, <1>5 DEF Hand
<1>7. "layout" \in PcType
  BY DEF PcType
<1>8. snap' \in Stage /\ Alone(snap') /\ Alone(row')
  BY <1>2, BaseOK DEF SeatsInv, StagesOK
<1> QED
  BY <1>2, <1>5, <1>6, <1>7, <1>8, Stepped DEF SeatsInv, TypeOK

(* The steps of a process that changes no more than some of the stage.     *)
LEMMA WriteLayoutInv == ASSUME SeatsInv, NEW p \in Procs, WriteLayout(p) PROVE SeatsInv'
<1>1. /\ At(p, "layout") /\ pc' = [pc EXCEPT ![p] = "commit"] /\ row' = Layout(row, job[p].seat)
      /\ job' = [job EXCEPT ![p] = job[p]] /\ scene' = scene /\ faults' = faults
      /\ member' = member /\ queue' = queue /\ snap' = snap /\ hold' = hold
      /\ freed' = freed /\ lock' = lock /\ rq' = rq
  BY HandOf DEF WriteLayout, Go, requests
<1>2. row' \in Stage /\ Alone(row')
  BY <1>1, LayoutStage, LayoutAlone DEF SeatsInv, TypeOK, StagesOK
<1>3. Hand(p, "layout", job[p], DOMAIN rq) /\ job[p] \in Job
  BY <1>1, HandOf DEF At
<1>4. Hand(p, "commit", job[p], DOMAIN rq')
  BY <1>1, <1>3 DEF Hand, SeatOps, OfSeats, Seaters
<1>5. "commit" \in PcType
  BY DEF PcType
<1>6. snap' # Cold => Alone(snap')
  BY <1>1 DEF SeatsInv, StagesOK
<1> QED
  BY <1>1, <1>2, <1>3, <1>4, <1>5, <1>6, Stepped DEF SeatsInv, TypeOK

LEMMA CommitInv == ASSUME SeatsInv, NEW p \in Procs, Commit(p) PROVE SeatsInv'
<1>1. /\ At(p, "commit") /\ pc' = [pc EXCEPT ![p] = "write"] /\ snap' = job[p].next
      /\ job' = [job EXCEPT ![p] = job[p]] /\ scene' = scene /\ faults' = faults
      /\ member' = member /\ queue' = queue /\ row' = row /\ hold' = hold
      /\ freed' = freed /\ lock' = lock /\ rq' = rq
  BY HandOf DEF Commit, Go, requests
<1>2. Hand(p, "commit", job[p], DOMAIN rq) /\ job[p] \in Job
  BY <1>1, HandOf DEF At
<1>3. snap' \in Stage /\ Alone(snap') /\ Alone(row')
  BY <1>1, <1>2 DEF Hand, SeatsInv, StagesOK
<1>4. Hand(p, "write", job[p], DOMAIN rq')
  BY <1>1, <1>2 DEF Hand
<1>5. "write" \in PcType
  BY DEF PcType
<1> QED
  BY <1>1, <1>2, <1>3, <1>4, <1>5, Stepped DEF SeatsInv, TypeOK

(* A write of a row: the column it sets, of the seat that it is about.     *)
Column(p, w) ==
    IF w.do = "open" THEN [row EXCEPT ![w.seat].isLocked = FALSE,
                                      ![w.seat].status = job[p].next[w.seat].status]
    ELSE Do(row, w)
Throws(w) == \/ row[w.seat] = None
             \/ w.do = "occupy" /\ SeatsOf(row, w.user) \ {w.seat} # {}

LEMMA ColumnOK ==
  ASSUME row \in Stage, Alone(row), NEW p \in Procs, NEW w \in Writes,
         job[p].next \in Stage, job[p].next[w.seat] # None, ~Throws(w)
  PROVE  Column(p, w) \in Stage /\ Alone(Column(p, w))
<1>1. row[w.seat] # None /\ w.seat \in Seats /\ row[w.seat] \in Filled
  BY DEF Throws, Writes, Stage, Entry
<1>2. CASE w.do # "open"
  <2>1. Column(p, w) = Do(row, w)
    BY <1>2 DEF Column
  <2>2. w.do = "occupy" => SeatsOf(row, w.user) \ {w.seat} = {}
    BY DEF Throws
  <2> QED
    BY <1>1, <2>1, <2>2, DoStage, DoAlone
<1>3. CASE w.do = "open"
  <2> DEFINE s == job[p].next[w.seat].status
             e == [row[w.seat] EXCEPT !.isLocked = FALSE, !.status = s]
  <2>1. s \in Statuses
    BY <1>1 DEF Stage, Entry, Filled
  <2> HIDE DEF s
  <2>2. Column(p, w) = [row EXCEPT ![w.seat] = e]
    BY <1>1, <1>3 DEF Column, Stage, s
  <2>3. e \in Filled /\ e.occupant = row[w.seat].occupant
    BY <1>1, <2>1 DEF Filled
  <2> HIDE DEF e
  <2>4. /\ Column(p, w) \in Stage /\ Column(p, w)[w.seat] = e
        /\ \A i \in Seats : i # w.seat => Column(p, w)[i] = row[i]
    BY <1>1, <2>2, <2>3 DEF Stage, Entry
  <2>5. \A u \in Users : SeatsOf(Column(p, w), u) \subseteq SeatsOf(row, u)
    BY <1>1, <2>3, <2>4 DEF SeatsOf
  <2> QED
    BY <2>4, <2>5 DEF Alone
<1> QED
  BY <1>2, <1>3

LEMMA WriteIs ==
  ASSUME NEW p \in Procs, WriteRow(p)
  PROVE  LET w == Head(job[p].writes) IN
         /\ At(p, "write") /\ job[p].writes # <<>>
         /\ \/ Throws(w) /\ End(p) /\ lock' = Free(p) /\ row' = row
            \/ /\ ~Throws(w) /\ row' = Column(p, w) /\ lock' = lock /\ pc' = pc
               /\ job' = [job EXCEPT ![p] = [job[p] EXCEPT !.writes = Tail(@)]]
         /\ member' = member /\ snap' = snap /\ hold' = hold /\ rq' = rq /\ queue' = queue
         /\ freed' = freed /\ scene' = scene /\ faults' = faults
BY DEF WriteRow, Throws, Column, Hold, requests

LEMMA HeadTail ==
  ASSUME NEW ws \in Seq(Writes), ws # <<>>
  PROVE  /\ Head(ws) \in Writes /\ 1 \in DOMAIN ws /\ Head(ws) = ws[1] /\ Tail(ws) \in Seq(Writes)
         /\ \A k \in DOMAIN Tail(ws) : k + 1 \in DOMAIN ws /\ Tail(ws)[k] = ws[k + 1]
OBVIOUS

LEMMA FreeOK == ASSUME SeatsInv, NEW p \in Procs PROVE Free(p) \in Procs \cup {None, Gone}
BY DEF SeatsInv, TypeOK, Free

LEMMA WriteRowInv == ASSUME SeatsInv, NEW p \in Procs, WriteRow(p) PROVE SeatsInv'
<1> DEFINE ws == job[p].writes
           w == Head(ws)
<1>1. /\ At(p, "write") /\ ws # <<>>
      /\ \/ Throws(w) /\ End(p) /\ lock' = Free(p) /\ row' = row
         \/ /\ ~Throws(w) /\ row' = Column(p, w) /\ lock' = lock /\ pc' = pc
            /\ job' = [job EXCEPT ![p] = [job[p] EXCEPT !.writes = Tail(@)]]
      /\ member' = member /\ snap' = snap /\ hold' = hold /\ rq' = rq /\ queue' = queue
      /\ freed' = freed /\ scene' = scene /\ faults' = faults
  BY WriteIs
<1>2. Hand(p, "write", job[p], DOMAIN rq) /\ job[p] \in Job /\ ws \in Seq(Writes)
  BY <1>1, HandOf DEF At, Job
<1>3. w \in Writes /\ job[p].next \in Stage /\ job[p].next[w.seat] # None
  BY <1>1, <1>2, HeadTail DEF Hand
<1>4. CASE Throws(w) /\ End(p) /\ lock' = Free(p) /\ row' = row
  <2>1. pc' = [pc EXCEPT ![p] = Home(p)] /\ job' = [job EXCEPT ![p] = Blank]
    BY <1>4 DEF End, Go, Hold
  <2> QED
    BY <1>1, <1>4, <2>1, EndHand, HomeIs, BlankIsJob, FreeOK, Stepped
    DEF SeatsInv, TypeOK, StagesOK
<1>5. CASE /\ ~Throws(w) /\ row' = Column(p, w) /\ lock' = lock /\ pc' = pc
           /\ job' = [job EXCEPT ![p] = [job[p] EXCEPT !.writes = Tail(@)]]
  <2> DEFINE j == [job[p] EXCEPT !.writes = Tail(ws)]
  <2>1. job' = [job EXCEPT ![p] = j]
    BY <1>5, <1>2 DEF Job
  <2>2. /\ j \in Job /\ j.next = job[p].next /\ j.writes = Tail(ws) /\ j.seat = job[p].seat
        /\ j.req = job[p].req /\ j.todo = job[p].todo
    BY <1>1, <1>2, HeadTail DEF Job
  <2> HIDE DEF j
  <2>3. \A k \in DOMAIN j.writes : j.next[j.writes[k].seat] # None
    BY <1>1, <1>2, <2>2, HeadTail DEF Hand
  <2>4. Hand(p, "write", j, DOMAIN rq')
    BY <1>1, <1>2, <2>2, <2>3 DEF Hand
  <2>5. row' \in Stage /\ Alone(row')
    BY <1>3, <1>5, ColumnOK DEF SeatsInv, TypeOK, StagesOK
  <2>6. pc' = [pc EXCEPT ![p] = "write"] /\ "write" \in PcType
    BY <1>1, <1>5, HandOf DEF At
  <2>7. snap' # Cold => Alone(snap')
    BY <1>1 DEF SeatsInv, StagesOK
  <2> QED
    BY <1>1, <1>5, <2>1, <2>2, <2>4, <2>5, <2>6, <2>7, Stepped DEF SeatsInv, TypeOK
<1> QED
  BY <1>1, <1>4, <1>5

(* Requests keep their type through a new status.                          *)
LEMMA AskedMap ==
  ASSUME rq \in Seq(Asked), NEW f, DOMAIN f = DOMAIN rq, \A r \in DOMAIN rq : f[r] \in Asked,
         f = [r \in DOMAIN rq |-> f[r]]
  PROVE  f \in Seq(Asked)
<1>1. Len(rq) \in Nat /\ DOMAIN rq = 1 .. Len(rq)
  OBVIOUS
<1>2. f \in [1 .. Len(rq) -> Asked]
  BY <1>1
<1> QED
  BY <1>1, <1>2

LEMMA SettleOK ==
  ASSUME SeatsInv, NEW u PROVE Settle(u) \in Seq(Asked) /\ DOMAIN Settle(u) = DOMAIN rq
<1>1. rq \in Seq(Asked) /\ \A r \in DOMAIN rq : rq[r] \in Asked
  BY DEF SeatsInv, TypeOK
<1>2. \A r \in DOMAIN rq : Settle(u)[r] \in Asked
  BY <1>1 DEF Settle, Asked, RequestStatuses
<1>3. DOMAIN Settle(u) = DOMAIN rq /\ Settle(u) = [r \in DOMAIN rq |-> Settle(u)[r]]
  BY DEF Settle
<1> QED
  BY <1>1, <1>2, <1>3, AskedMap

LEMMA TellInv == ASSUME SeatsInv, NEW p \in Procs, Tell(p) PROVE SeatsInv'
<1> DEFINE i == job[p].seat
<1>1. /\ At(p, "write")
      /\ hold' = CASE Op(p) = "reserve" -> hold \cup {i}
                   [] Op(p) \in {"unreserve", "sweep"} -> hold \ {i}
                   [] OTHER -> hold
      /\ rq' = Settle(job[p].taken) /\ queue' = queue \ {job[p].taken}
      /\ freed' = IF scene.auto THEN freed \cup (job[p].left \ {0}) ELSE freed
      /\ lock' = Free(p)
      /\ member' = member /\ snap' = snap /\ row' = row /\ scene' = scene /\ faults' = faults
  BY DEF Tell
<1>2. Hand(p, "write", job[p], DOMAIN rq) /\ job[p] \in Job /\ job = [job EXCEPT ![p] = job[p]]
  BY <1>1, HandOf DEF At
<1>3. Op(p) = "reserve" => i \in Seats
  BY <1>2 DEF Hand, SeatOps, OfSeats
<1>4. hold' \subseteq Seats
  <2>1. CASE Op(p) = "reserve"
    BY <1>1, <1>3, <2>1 DEF SeatsInv, TypeOK
  <2>2. CASE Op(p) \in {"unreserve", "sweep"}
    <3>1. hold' = hold \ {i}
      BY <1>1, <2>2
    <3> QED
      BY <3>1 DEF SeatsInv, TypeOK
  <2>3. CASE Op(p) \notin {"reserve", "unreserve", "sweep"}
    <3>1. hold' = hold
      BY <1>1, <2>3
    <3> QED
      BY <3>1 DEF SeatsInv, TypeOK
  <2> QED
    BY <2>1, <2>2, <2>3
<1>5. freed' \subseteq Seats
  <2>1. job[p].left \subseteq Seats
    BY <1>2 DEF Job
  <2> QED
    BY <1>1, <2>1 DEF SeatsInv, TypeOK
<1>6. \E x \in PcType, j \in Job :
          /\ pc' = [pc EXCEPT ![p] = x] /\ job' = [job EXCEPT ![p] = j]
          /\ Hand(p, x, j, DOMAIN rq)
  <2>1. CASE Op(p) \in {"approve", "retry", "advance"}
    <3>1. pc' = [pc EXCEPT ![p] = "promoted"] /\ job' = job
      BY <2>1 DEF Tell, Go
    <3>2. p # Sweeper
      BY <2>1, OpIs
    <3>3. Hand(p, "promoted", job[p], DOMAIN rq)
      BY <1>2, <2>1, <3>2 DEF Hand, Seaters
    <3> QED
      BY <1>2, <3>1, <3>3 DEF PcType
  <2>2. CASE Op(p) = "sweep"
    <3>1. pc' = [pc EXCEPT ![p] = "next"] /\ job' = job
      BY <2>2 DEF Tell, Go
    <3>2. p # Advancer
      BY <2>2, OpIs
    <3>3. Hand(p, "next", job[p], DOMAIN rq)
      BY <1>2, <3>2 DEF Hand
    <3> QED
      BY <1>2, <3>1, <3>3 DEF PcType
  <2>3. CASE Op(p) \notin {"approve", "retry", "advance", "sweep"}
    BY <2>3, EndHand, HomeIs, BlankIsJob DEF Tell, End, Go, Hold
  <2> QED
    BY <2>1, <2>2, <2>3
<1>7. rq' \in Seq(Asked) /\ DOMAIN rq' = DOMAIN rq
  BY <1>1, SettleOK
<1>8. lock' \in Procs \cup {None, Gone} /\ queue' \subseteq Users /\ Alone(row') /\ (snap' # Cold => Alone(snap'))
  BY <1>1, FreeOK DEF SeatsInv, TypeOK, StagesOK
<1> HIDE DEF i
<1> QED
  BY <1>1, <1>4, <1>5, <1>6, <1>7, <1>8, Stepped DEF SeatsInv, TypeOK

-----------------------------------------------------------------------------
(* The steps that change no stage.                                         *)
LEMMA Aside ==
  ASSUME SeatsInv, NEW p \in Procs, NEW x \in PcType, NEW j \in Job,
         pc' = [pc EXCEPT ![p] = x], job' = [job EXCEPT ![p] = j], Hand(p, x, j, DOMAIN rq'),
         UNCHANGED <<stages, hold, scene, faults>>, member' \subseteq member, queue' \subseteq Users,
         freed' \subseteq freed, rq' \in Seq(Asked), DOMAIN rq \subseteq DOMAIN rq'
  PROVE  SeatsInv'
<1>1. /\ snap' = snap /\ row' = row /\ lock' = lock /\ hold' = hold /\ scene' = scene
      /\ faults' = faults
  BY DEF stages
<1>2. Alone(row') /\ (snap' # Cold => Alone(snap'))
  BY <1>1 DEF SeatsInv, StagesOK
<1> QED
  BY <1>1, <1>2, Stepped DEF SeatsInv, TypeOK

LEMMA Ends ==
  ASSUME SeatsInv, NEW p \in Procs, End(p),
         UNCHANGED <<stages, hold, scene, faults>>, member' \subseteq member, queue' \subseteq Users,
         freed' \subseteq freed, rq' \in Seq(Asked), DOMAIN rq \subseteq DOMAIN rq'
  PROVE  SeatsInv'
<1>1. pc' = [pc EXCEPT ![p] = Home(p)] /\ job' = [job EXCEPT ![p] = Blank]
  BY DEF End, Go, Hold
<1> QED
  BY <1>1, EndHand, HomeIs, BlankIsJob, Aside

LEMMA SceneIs ==
  ASSUME SeatsInv, NEW p \in Calls
  PROVE  LET c == scene.call[p] IN
         /\ Op(p) = c.op /\ p \in Procs /\ p # Sweeper /\ p # Advancer
         /\ c.user \in Users \cup {None} /\ (c.op \in OfUsers => c.user \in Users)
         /\ c.seat \in Nat \cup {None} /\ (c.op \in OfSeats => c.seat \in Seats)
         /\ c.op = "request" => c.seat \in Seats \cup {None}
<1>1. SceneOK(scene)
  BY SeatsAssumption DEF SeatsInv, TypeOK
<1> QED
  BY <1>1, ConstantsOK, OpIs DEF SceneOK

LEMMA BeginInv == ASSUME SeatsInv, NEW p \in Calls, Begin(p) PROVE SeatsInv'
<1> DEFINE c == scene.call[p]
           j == [job[p] EXCEPT !.user = c.user, !.seat = c.seat]
<1>1. /\ At(p, "idle") /\ UNCHANGED <<stages, hold, scene, faults>>
      /\ member' = member /\ queue' = queue /\ freed' = freed /\ rq' = rq
      /\ c.op \in {"take", "promote", "leaveSeat", "remove", "switch", "transfer",
                    "lock", "unlock", "reserve", "unreserve", "layout"}
      /\ \/ End(p)
         \/ pc' = [pc EXCEPT ![p] = "wait"] /\ job' = [job EXCEPT ![p] = j]
  BY DEF Begin, requests, Go, Carry, Hold
<1>2. /\ Op(p) = c.op /\ p \in Procs /\ p # Sweeper /\ p # Advancer
      /\ c.user \in Users \cup {None} /\ (c.op \in OfUsers => c.user \in Users)
      /\ c.seat \in Nat \cup {None} /\ (c.op \in OfSeats => c.seat \in Seats)
  BY SceneIs
<1> HIDE DEF c
<1>3. job[p] = Blank
  BY <1>1, <1>2, HandOf DEF Hand, At
<1>4. j \in Job /\ j.user = c.user /\ j.seat = c.seat /\ j.writes = <<>>
  <2>1. job[p] \in Job
    BY <1>2, HandOf
  <2>2. job[p].writes = <<>>
    BY <1>3 DEF Blank
  <2>3. j \in Job /\ j.user = c.user /\ j.seat = c.seat /\ j.writes = job[p].writes
    BY <1>2, <2>1 DEF Job
  <2> QED
    BY <2>2, <2>3
<1> HIDE DEF j
<1>5. Hand(p, "wait", j, DOMAIN rq)
  BY <1>1, <1>2, <1>4 DEF Hand, SeatOps, OfUsers, OfSeats, Seaters
<1>6. CASE End(p)
  BY <1>1, <1>2, <1>6, Ends DEF SeatsInv, TypeOK
<1>7. CASE pc' = [pc EXCEPT ![p] = "wait"] /\ job' = [job EXCEPT ![p] = j]
  <2>1. "wait" \in PcType
    BY DEF PcType
  <2> QED
    BY <1>1, <1>2, <1>4, <1>5, <1>7, <2>1, Aside DEF SeatsInv, TypeOK
<1> QED
  BY <1>1, <1>6, <1>7

LEMMA LeaveRoomInv == ASSUME SeatsInv, NEW p \in Calls, LeaveRoom(p) PROVE SeatsInv'
<1> DEFINE c == scene.call[p]
           j == [job[p] EXCEPT !.user = c.user, !.seat = None]
<1>1. /\ At(p, "idle") /\ UNCHANGED <<stages, hold, scene, faults>>
      /\ member' = member \ {c.user} /\ queue' = queue /\ freed' = freed /\ rq' = rq
      /\ Op(p) = "leaveRoom"
      /\ pc' = [pc EXCEPT ![p] = "left"] /\ job' = [job EXCEPT ![p] = j]
  BY DEF LeaveRoom, requests, Go, Carry, Hold
<1>2. /\ p \in Procs /\ p # Sweeper /\ p # Advancer /\ c.user \in Users
  BY <1>1, SceneIs DEF OfUsers
<1> HIDE DEF c
<1>4. j \in Job /\ j.user = c.user
  <2>1. job[p] \in Job
    BY <1>2, HandOf
  <2>2. c.user \in Users \cup {None} /\ None \in Nat \cup {None}
    BY <1>2
  <2> QED
    BY <2>1, <2>2 DEF Job
<1> HIDE DEF j
<1>5. Hand(p, "left", j, DOMAIN rq)
  BY <1>1, <1>2, <1>4 DEF Hand
<1>6. "left" \in PcType
  BY DEF PcType
<1> QED
  BY <1>1, <1>2, <1>4, <1>5, <1>6, Aside DEF SeatsInv, TypeOK

LEMMA LeftRoomInv == ASSUME SeatsInv, NEW p \in Calls, LeftRoom(p) PROVE SeatsInv'
<1> DEFINE u == job[p].user
           f == [r \in DOMAIN rq |-> IF rq[r].user = u /\ rq[r].status = "PENDING"
                                     THEN [rq[r] EXCEPT !.status = "CANCELLED"] ELSE rq[r]]
<1>0. p \in Procs /\ p # Sweeper /\ p # Advancer
  BY SceneIs
<1>1. /\ At(p, "left") /\ UNCHANGED <<stages, hold, scene, faults>>
      /\ member' = member /\ queue' = queue \ {u} /\ freed' = freed /\ rq' = f
      /\ pc' = [pc EXCEPT ![p] = "wait"] /\ job' = [job EXCEPT ![p] = job[p]]
  BY <1>0, HandOf DEF LeftRoom, Go
<1>2. Hand(p, "left", job[p], DOMAIN rq) /\ job[p] \in Job
  BY <1>0, <1>1, HandOf DEF At
<1>3. DOMAIN f = DOMAIN rq /\ f \in Seq(Asked)
  <2>1. rq \in Seq(Asked) /\ \A r \in DOMAIN rq : rq[r] \in Asked
    BY DEF SeatsInv, TypeOK
  <2>2. \A r \in DOMAIN rq : f[r] \in Asked
    BY <2>1 DEF Asked, RequestStatuses
  <2> QED
    BY <2>1, <2>2, AskedMap
<1> HIDE DEF f
<1>4. Hand(p, "wait", job[p], DOMAIN rq')
  BY <1>0, <1>2 DEF Hand, SeatOps, OfSeats, Seaters
<1>5. "wait" \in PcType
  BY DEF PcType
<1> QED
  BY <1>0, <1>1, <1>2, <1>3, <1>4, <1>5, Aside DEF SeatsInv, TypeOK

(* A reader of a cold snapshot.                                            *)
LEMMA LookInv == ASSUME SeatsInv, NEW p \in Calls, Look(p) PROVE SeatsInv'
<1> DEFINE j == [Blank EXCEPT !.next = row]
<1>0. p \in Procs /\ p # Sweeper /\ p # Advancer
  BY SceneIs
<1>1. /\ UNCHANGED <<stages, hold, scene, faults>>
      /\ member' = member /\ queue' = queue /\ freed' = freed /\ rq' = rq
      /\ \/ End(p)
         \/ pc' = [pc EXCEPT ![p] = "fill"] /\ job' = [job EXCEPT ![p] = j]
  BY DEF Look, requests, Go, Hold
<1>2. row \in Stage /\ Alone(row)
  BY DEF SeatsInv, TypeOK, StagesOK
<1>3. j \in Job /\ j.next = row
  BY <1>2, BlankIsJob DEF Job, Blank
<1> HIDE DEF j
<1>4. Hand(p, "fill", j, DOMAIN rq)
  BY <1>0, <1>2, <1>3 DEF Hand
<1>5. CASE End(p)
  BY <1>0, <1>1, <1>5, Ends DEF SeatsInv, TypeOK
<1>6. CASE pc' = [pc EXCEPT ![p] = "fill"] /\ job' = [job EXCEPT ![p] = j]
  <2>1. "fill" \in PcType
    BY DEF PcType
  <2> QED
    BY <1>0, <1>1, <1>3, <1>4, <1>6, <2>1, Aside DEF SeatsInv, TypeOK
<1> QED
  BY <1>1, <1>5, <1>6

LEMMA FillInv == ASSUME SeatsInv, NEW p \in Calls, Fill(p) PROVE SeatsInv'
<1>0. p \in Procs /\ p # Sweeper /\ p # Advancer
  BY SceneIs
<1>1. /\ At(p, "fill") /\ pc' = [pc EXCEPT ![p] = "filled"] /\ snap' = job[p].next
      /\ job' = [job EXCEPT ![p] = Blank] /\ scene' = scene /\ faults' = faults
      /\ member' = member /\ queue' = queue /\ row' = row /\ hold' = hold
      /\ freed' = freed /\ lock' = lock /\ rq' = rq
  BY DEF Fill, Go, Hold, requests
<1>2. Hand(p, "fill", job[p], DOMAIN rq)
  BY <1>0, <1>1, HandOf DEF At
<1>3. snap' \in Stage /\ Alone(snap') /\ Alone(row')
  BY <1>1, <1>2 DEF Hand, SeatsInv, StagesOK
<1>4. Hand(p, "filled", Blank, DOMAIN rq')
  BY <1>0 DEF Hand
<1>5. "filled" \in PcType
  BY DEF PcType
<1> QED
  BY <1>0, <1>1, <1>3, <1>4, <1>5, BlankIsJob, Stepped DEF SeatsInv, TypeOK

-----------------------------------------------------------------------------
(* Seat requests.                                                          *)
LEMMA StatusOK ==
  ASSUME SeatsInv, NEW r, NEW st \in RequestStatuses
  PROVE  [rq EXCEPT ![r].status = st] \in Seq(Asked) /\ DOMAIN [rq EXCEPT ![r].status = st] = DOMAIN rq
<1> DEFINE f == [rq EXCEPT ![r].status = st]
<1>1. rq \in Seq(Asked) /\ \A q \in DOMAIN rq : rq[q] \in Asked
  BY DEF SeatsInv, TypeOK
<1>2. DOMAIN f = DOMAIN rq /\ f = [q \in DOMAIN rq |-> f[q]]
  OBVIOUS
<1>3. \A q \in DOMAIN rq : f[q] \in Asked
  BY <1>1 DEF Asked
<1> QED
  BY <1>1, <1>2, <1>3, AskedMap

LEMMA RequestInv == ASSUME SeatsInv, NEW p \in Calls, Request(p) PROVE SeatsInv'
<1> DEFINE c == scene.call[p]
           j == [job[p] EXCEPT !.user = c.user, !.seat = c.seat]
<1>1. /\ UNCHANGED <<stages, hold, scene, faults>>
      /\ member' = member /\ queue' = queue /\ freed' = freed /\ rq' = rq
      /\ c.op = "request"
      /\ \/ End(p)
         \/ pc' = [pc EXCEPT ![p] = "create"] /\ job' = [job EXCEPT ![p] = j]
  BY DEF Request, requests, Go, Carry, Hold
<1>2. /\ p \in Procs /\ p # Sweeper /\ p # Advancer /\ Op(p) = "request"
      /\ c.user \in Users /\ c.seat \in Seats \cup {None}
  BY <1>1, SceneIs DEF OfUsers
<1> HIDE DEF c
<1>3. job[p] \in Job
  BY <1>2, HandOf
<1>4. j \in Job /\ j.user = c.user /\ j.seat = c.seat
  BY <1>2, <1>3, SeatsAreNat DEF Job
<1> HIDE DEF j
<1>5. Hand(p, "create", j, DOMAIN rq)
  BY <1>2, <1>4 DEF Hand
<1>6. CASE End(p)
  BY <1>1, <1>2, <1>6, Ends DEF SeatsInv, TypeOK
<1>7. CASE pc' = [pc EXCEPT ![p] = "create"] /\ job' = [job EXCEPT ![p] = j]
  <2>1. "create" \in PcType
    BY DEF PcType
  <2> QED
    BY <1>1, <1>2, <1>4, <1>5, <1>7, <2>1, Aside DEF SeatsInv, TypeOK
<1> QED
  BY <1>1, <1>6, <1>7

LEMMA CreateRequestInv == ASSUME SeatsInv, NEW p \in Calls, CreateRequest(p) PROVE SeatsInv'
<1> DEFINE new == [user |-> job[p].user, seat |-> job[p].seat,
                   status |-> "PENDING", late |-> FALSE, tries |-> 0]
<1>0. p \in Procs /\ p # Sweeper /\ p # Advancer
  BY SceneIs
<1>1. /\ At(p, "create") /\ UNCHANGED <<stages, hold, scene, faults>>
      /\ member' = member /\ queue' = queue /\ freed' = freed /\ rq' = Append(rq, new)
      /\ pc' = [pc EXCEPT ![p] = "enqueue"] /\ job' = [job EXCEPT ![p] = job[p]]
  BY <1>0, HandOf DEF CreateRequest, requests, Go
<1>2. Hand(p, "create", job[p], DOMAIN rq) /\ job[p] \in Job
  BY <1>0, <1>1, HandOf DEF At
<1>3. new \in Asked
  BY <1>2 DEF Hand, Asked, RequestStatuses
<1> HIDE DEF new
<1>4. rq' \in Seq(Asked) /\ DOMAIN rq \subseteq DOMAIN rq'
  BY <1>1, <1>3 DEF SeatsInv, TypeOK
<1>5. Hand(p, "enqueue", job[p], DOMAIN rq')
  BY <1>0, <1>2 DEF Hand
<1>6. "enqueue" \in PcType
  BY DEF PcType
<1> QED
  BY <1>0, <1>1, <1>2, <1>4, <1>5, <1>6, Aside DEF SeatsInv, TypeOK

LEMMA EnqueueInv == ASSUME SeatsInv, NEW p \in Calls, Enqueue(p) PROVE SeatsInv'
<1>0. p \in Procs /\ p # Sweeper /\ p # Advancer
  BY SceneIs
<1>1. /\ At(p, "enqueue") /\ UNCHANGED <<stages, hold, scene, faults>>
      /\ member' = member /\ queue' = queue \cup {job[p].user} /\ freed' = freed /\ rq' = rq
      /\ \/ Op(p) = "retry" /\ pc' = [pc EXCEPT ![p] = "choose"] /\ job' = [job EXCEPT ![p] = job[p]]
         \/ End(p)
  BY <1>0, HandOf DEF Enqueue, Go
<1>2. Hand(p, "enqueue", job[p], DOMAIN rq) /\ job[p] \in Job
  BY <1>0, <1>1, HandOf DEF At
<1>3. queue' \subseteq Users
  BY <1>1, <1>2 DEF Hand, SeatsInv, TypeOK
<1>4. CASE Op(p) = "retry" /\ pc' = [pc EXCEPT ![p] = "choose"] /\ job' = [job EXCEPT ![p] = job[p]]
  <2>1. Hand(p, "choose", job[p], DOMAIN rq)
    BY <1>0, <1>2, <1>4 DEF Hand
  <2>2. "choose" \in PcType
    BY DEF PcType
  <2> QED
    BY <1>0, <1>1, <1>2, <1>3, <1>4, <2>1, <2>2, Aside DEF SeatsInv, TypeOK
<1>5. CASE End(p)
  BY <1>0, <1>1, <1>3, <1>5, Ends DEF SeatsInv, TypeOK
<1> QED
  BY <1>1, <1>4, <1>5

(* Whoever a call finds is a request, and its user is a user.              *)
LEMMA FoundOK ==
  ASSUME SeatsInv, NEW p \in Calls, Op(p) \in {"cancel", "approve", "reject", "retry", "restore"},
         NEW r \in Found(p)
  PROVE  r \in DOMAIN rq /\ r \in Nat /\ rq[r] \in Asked
<1>1. r \in DOMAIN rq
  <2> DEFINE c == scene.call[p]
  <2>1. c.op = Op(p)
    BY SceneIs
  <2>2. CASE Op(p) = "cancel"
    BY <2>1, <2>2 DEF Found, Pending
  <2>3. CASE Op(p) \in {"approve", "reject"}
    BY <2>1, <2>3 DEF Found
  <2>4. CASE Op(p) = "retry"
    BY <2>1, <2>4 DEF Found
  <2>5. CASE Op(p) = "restore"
    BY <2>1, <2>5 DEF Found
  <2> QED
    BY <2>2, <2>3, <2>4, <2>5
<1> QED
  BY <1>1 DEF SeatsInv, TypeOK

LEMMA ReadRequestInv == ASSUME SeatsInv, NEW p \in Calls, ReadRequest(p) PROVE SeatsInv'
<1>0. p \in Procs /\ p # Sweeper /\ p # Advancer
  BY SceneIs
<1>1. /\ At(p, "idle") /\ UNCHANGED <<stages, hold, scene, faults>>
      /\ member' = member /\ queue' = queue /\ freed' = freed /\ rq' = rq
      /\ Op(p) \in {"cancel", "approve", "reject", "retry", "restore"}
  BY DEF ReadRequest, requests
<1>2. CASE End(p)
  BY <1>0, <1>1, <1>2, Ends DEF SeatsInv, TypeOK
<1>3. ASSUME NEW r \in Found(p), Hold(p, [Blank EXCEPT !.req = r, !.user = rq[r].user]),
             Go(p, IF Op(p) = "approve" THEN "choose" ELSE "swap")
      PROVE  SeatsInv'
  <2> DEFINE j == [Blank EXCEPT !.req = r, !.user = rq[r].user]
             x == IF Op(p) = "approve" THEN "choose" ELSE "swap"
  <2>1. r \in DOMAIN rq /\ r \in Nat /\ rq[r].user \in Users
    BY <1>1, FoundOK DEF Asked
  <2>2. j \in Job /\ j.req = r /\ j.user = rq[r].user
    BY <2>1, BlankIsJob DEF Job, Blank
  <2>3. job' = [job EXCEPT ![p] = j] /\ pc' = [pc EXCEPT ![p] = x]
    BY <1>3 DEF Hold, Go
  <2> HIDE DEF j
  <2>4. x \in {"choose", "swap"} /\ x \in PcType /\ Op(p) # "layout"
    BY <1>1 DEF PcType
  <2> HIDE DEF x
  <2>5. Hand(p, x, j, DOMAIN rq)
    BY <1>0, <2>1, <2>2, <2>4 DEF Hand
  <2> QED
    BY <1>0, <1>1, <2>2, <2>3, <2>4, <2>5, Aside DEF SeatsInv, TypeOK
<1> QED
  BY <1>2, <1>3 DEF ReadRequest

LEMMA SwapInv == ASSUME SeatsInv, NEW p \in Calls, Swap(p) PROVE SeatsInv'
<1> DEFINE r == job[p].req
<1>0. p \in Procs /\ p # Sweeper /\ p # Advancer
  BY SceneIs
<1>1. /\ At(p, "swap") /\ UNCHANGED <<stages, hold, scene, faults>>
      /\ member' = member /\ freed' = freed
  BY DEF Swap
<1>2. Hand(p, "swap", job[p], DOMAIN rq) /\ job[p] \in Job
  BY <1>0, <1>1, HandOf DEF At
<1>3. /\ rq' = rq \/ rq' = [rq EXCEPT ![r].status = "PENDING", ![r].late = FALSE]
                  \/ \E st \in RequestStatuses : rq' = SetStatus(r, st)
      /\ queue' = queue \/ queue' = queue \ {job[p].user}
      /\ \/ End(p)
         \/ Go(p, "enqueue") /\ job' = job
  BY DEF Swap, RequestStatuses
<1>4. rq' \in Seq(Asked) /\ DOMAIN rq' = DOMAIN rq
  <2>1. rq \in Seq(Asked) /\ \A q \in DOMAIN rq : rq[q] \in Asked
    BY DEF SeatsInv, TypeOK
  <2>2. CASE rq' = [rq EXCEPT ![r].status = "PENDING", ![r].late = FALSE]
    <3> DEFINE f == [rq EXCEPT ![r].status = "PENDING", ![r].late = FALSE]
    <3>1. DOMAIN f = DOMAIN rq /\ f = [q \in DOMAIN rq |-> f[q]]
      OBVIOUS
    <3>2. \A q \in DOMAIN rq : f[q] \in Asked
      BY <2>1 DEF Asked, RequestStatuses
    <3> QED
      BY <2>1, <2>2, <3>1, <3>2, AskedMap
  <2>3. ASSUME NEW st \in RequestStatuses, rq' = SetStatus(r, st)
        PROVE  rq' \in Seq(Asked) /\ DOMAIN rq' = DOMAIN rq
    BY <2>3, StatusOK DEF SetStatus
  <2>4. CASE rq' = rq
    BY <2>1, <2>4
  <2> QED
    BY <1>3, <2>2, <2>3, <2>4
<1>5. queue' \subseteq Users
  BY <1>3 DEF SeatsInv, TypeOK
<1>6. CASE End(p)
  BY <1>0, <1>1, <1>4, <1>5, <1>6, Ends
<1>7. CASE Go(p, "enqueue") /\ job' = job
  <2>1. pc' = [pc EXCEPT ![p] = "enqueue"] /\ job' = [job EXCEPT ![p] = job[p]]
    BY <1>0, <1>7, HandOf DEF Go
  <2>2. Hand(p, "enqueue", job[p], DOMAIN rq') /\ "enqueue" \in PcType
    BY <1>0, <1>2, <1>4 DEF Hand, PcType
  <2> QED
    BY <1>0, <1>1, <1>2, <1>4, <1>5, <2>1, <2>2, Aside
<1> QED
  BY <1>3, <1>6, <1>7

LEMMA ChooseSeatInv == ASSUME SeatsInv, NEW p \in Calls, ChooseSeat(p) PROVE SeatsInv'
<1>0. p \in Procs /\ p # Sweeper /\ p # Advancer
  BY SceneIs
<1>1. /\ At(p, "choose") /\ scene' = scene /\ faults' = faults /\ member' = member /\ queue' = queue
      /\ row' = row /\ hold' = hold /\ freed' = freed /\ lock' = lock /\ rq' = rq
      /\ snap' = snap \/ snap' = Base
  BY DEF ChooseSeat, requests
<1>a. \/ End(p)
      \/ \E i : /\ i # None
                /\ \/ i = rq[job[p].req].seat
                   \/ i = Min(OpenSeats(Base)) /\ OpenSeats(Base) # {}
                /\ Carry(p, job[p].user, i) /\ Go(p, "accept")
  <2>1. CASE rq[job[p].req].seat # None
    BY <2>1 DEF ChooseSeat
  <2>2. CASE rq[job[p].req].seat = None /\ OpenSeats(Base) = {}
    BY <2>2 DEF ChooseSeat
  <2>3. CASE rq[job[p].req].seat = None /\ OpenSeats(Base) # {}
    <3>1. Min(OpenSeats(Base)) \in OpenSeats(Base) /\ OpenSeats(Base) \subseteq Nat
      BY <2>3, MinIsIn, SeatsAreNat DEF OpenSeats
    <3>2. Carry(p, job[p].user, Min(OpenSeats(Base))) /\ Go(p, "accept")
      BY <2>3 DEF ChooseSeat
    <3> QED
      BY <2>3, <3>1, <3>2, ConstantsOK
  <2> QED
    BY <2>1, <2>2, <2>3
<1>2. Hand(p, "choose", job[p], DOMAIN rq) /\ job[p] \in Job
  BY <1>0, <1>1, HandOf DEF At
<1>3. snap' \in Stage \cup {Cold} /\ (snap' # Cold => Alone(snap')) /\ Alone(row')
  BY <1>1, BaseOK DEF SeatsInv, TypeOK, StagesOK
<1>4. CASE End(p)
  <2>1. pc' = [pc EXCEPT ![p] = Home(p)] /\ job' = [job EXCEPT ![p] = Blank]
    BY <1>4 DEF End, Go, Hold
  <2> QED
    BY <1>0, <1>1, <1>3, <2>1, EndHand, HomeIs, BlankIsJob, Stepped DEF SeatsInv, TypeOK
<1>5. ASSUME NEW i, i # None,
             \/ i = rq[job[p].req].seat
             \/ i = Min(OpenSeats(Base)) /\ OpenSeats(Base) # {},
             Carry(p, job[p].user, i), Go(p, "accept")
      PROVE  SeatsInv'
  <2>1. i \in Seats
    <3>1. CASE i = rq[job[p].req].seat
      <4>1. job[p].req \in DOMAIN rq
        BY <1>2 DEF Hand
      <4>2. rq[job[p].req] \in Asked
        BY <4>1 DEF SeatsInv, TypeOK
      <4> QED
        BY <1>5, <3>1, <4>2 DEF Asked
    <3>2. CASE i # rq[job[p].req].seat
      <4>1. OpenSeats(Base) # {} /\ OpenSeats(Base) \in SUBSET Seats
        BY <1>5, <3>2 DEF OpenSeats
      <4> QED
        BY <1>5, <3>2, <4>1, MinIsIn DEF OpenSeats
    <3> QED
      BY <3>1, <3>2
  <2> DEFINE j == [job[p] EXCEPT !.user = job[p].user, !.seat = i]
  <2>2. j \in Job /\ j.user = job[p].user /\ j.seat = i /\ j.req = job[p].req
    BY <1>2, <2>1, SeatsAreNat DEF Job
  <2>3. job' = [job EXCEPT ![p] = j] /\ pc' = [pc EXCEPT ![p] = "accept"]
    BY <1>5 DEF Carry, Hold, Go
  <2> HIDE DEF j
  <2>4. Hand(p, "accept", j, DOMAIN rq') /\ "accept" \in PcType
    BY <1>0, <1>1, <1>2, <2>1, <2>2 DEF Hand, PcType
  <2> QED
    BY <1>0, <1>1, <1>3, <2>2, <2>3, <2>4, Stepped DEF SeatsInv, TypeOK
<1> QED
  BY <1>a, <1>4, <1>5

LEMMA AcceptInv == ASSUME SeatsInv, NEW p \in Calls, Accept(p) PROVE SeatsInv'
<1>0. p \in Procs /\ p # Sweeper /\ p # Advancer
  BY SceneIs
<1>1. /\ At(p, "accept") /\ UNCHANGED <<stages, hold, scene, faults>>
      /\ member' = member /\ queue' = queue /\ freed' = freed
      /\ \/ rq' = SetStatus(job[p].req, "ACCEPTED") /\ Go(p, "seat") /\ job' = job
         \/ End(p) /\ rq' = rq
  BY DEF Accept
<1>2. Hand(p, "accept", job[p], DOMAIN rq) /\ job[p] \in Job
  BY <1>0, <1>1, HandOf DEF At
<1>3. CASE End(p) /\ rq' = rq
  BY <1>0, <1>1, <1>3, Ends DEF SeatsInv, TypeOK
<1>4. CASE rq' = SetStatus(job[p].req, "ACCEPTED") /\ Go(p, "seat") /\ job' = job
  <2>1. rq' \in Seq(Asked) /\ DOMAIN rq' = DOMAIN rq
    BY <1>4, StatusOK DEF SetStatus, RequestStatuses
  <2>2. pc' = [pc EXCEPT ![p] = "seat"] /\ job' = [job EXCEPT ![p] = job[p]]
    BY <1>0, <1>4, HandOf DEF Go
  <2>3. Hand(p, "seat", job[p], DOMAIN rq') /\ "seat" \in PcType
    BY <1>0, <1>2, <2>1 DEF Hand, PcType
  <2> QED
    BY <1>0, <1>1, <1>2, <2>1, <2>2, <2>3, Aside DEF SeatsInv, TypeOK
<1> QED
  BY <1>1, <1>3, <1>4

LEMMA SeatUserInv == ASSUME SeatsInv, NEW p \in Procs, SeatUser(p) PROVE SeatsInv'
<1>1. /\ At(p, "seat") /\ UNCHANGED <<stages, hold, scene, faults>>
      /\ member' = member /\ queue' = queue /\ freed' = freed /\ rq' = rq
      /\ \/ Go(p, "wait") /\ job' = job
         \/ Refused(p)
  BY DEF SeatUser, requests
<1>2. Hand(p, "seat", job[p], DOMAIN rq) /\ job[p] \in Job /\ job = [job EXCEPT ![p] = job[p]]
  BY <1>1, HandOf DEF At
<1>3. CASE Refused(p)
  <2>1. PICK x \in PcType, j \in Job :
            /\ pc' = [pc EXCEPT ![p] = x] /\ job' = [job EXCEPT ![p] = j]
            /\ Hand(p, x, j, DOMAIN rq')
    BY <1>1, <1>3, RefusedHand DEF At
  <2> QED
    BY <1>1, <2>1, Aside DEF SeatsInv, TypeOK
<1>4. CASE Go(p, "wait") /\ job' = job
  <2>1. pc' = [pc EXCEPT ![p] = "wait"] /\ job' = [job EXCEPT ![p] = job[p]]
    BY <1>2, <1>4 DEF Go
  <2>2. Hand(p, "wait", job[p], DOMAIN rq') /\ "wait" \in PcType
    BY <1>1, <1>2 DEF Hand, PcType
  <2> QED
    BY <1>1, <1>2, <2>1, <2>2, Aside DEF SeatsInv, TypeOK
<1> QED
  BY <1>1, <1>3, <1>4

LEMMA OutcomeInv ==
  ASSUME SeatsInv, NEW p \in Procs, pc[p] \in {"promoted", "fail"},
         NEW st \in RequestStatuses, Outcome(p, st)
  PROVE  SeatsInv'
<1> DEFINE r == job[p].req
           f == [rq EXCEPT ![r].status = st, ![r].tries = @ + 1]
<1>1. /\ UNCHANGED <<stages, hold, scene, faults>> /\ End(p)
      /\ member' = member /\ queue' = queue \ {job[p].user} /\ freed' = freed /\ rq' = f
  BY DEF Outcome
<1>2. rq \in Seq(Asked) /\ \A q \in DOMAIN rq : rq[q] \in Asked
  BY DEF SeatsInv, TypeOK
<1>3. DOMAIN f = DOMAIN rq /\ f = [q \in DOMAIN rq |-> f[q]]
  OBVIOUS
<1>4. \A q \in DOMAIN rq : f[q] \in Asked
  <2> TAKE q \in DOMAIN rq
  <2>1. CASE q = r
    <3>1. f[q] = [rq[q] EXCEPT !.status = st, !.tries = rq[q].tries + 1]
      BY <1>2, <2>1 DEF Asked
    <3>2. rq[q].tries + 1 \in Nat
      BY <1>2 DEF Asked
    <3> QED
      BY <1>2, <3>1, <3>2 DEF Asked
  <2>2. CASE q # r
    BY <1>2, <2>2
  <2> QED
    BY <2>1, <2>2
<1>5. f \in Seq(Asked)
  BY <1>2, <1>3, <1>4, AskedMap
<1> HIDE DEF f
<1> QED
  BY <1>1, <1>3, <1>5, Ends DEF SeatsInv, TypeOK

LEMMA PromotedInv == ASSUME SeatsInv, NEW p \in Procs, Promoted(p) PROVE SeatsInv'
BY OutcomeInv DEF Promoted, At, RequestStatuses

LEMMA FailedInv == ASSUME SeatsInv, NEW p \in Procs, Failed(p) PROVE SeatsInv'
BY OutcomeInv DEF Failed, At, RequestStatuses

LEMMA GivesUpInv == ASSUME SeatsInv, NEW p \in Procs, GivesUp(p) PROVE SeatsInv'
<1>1. /\ UNCHANGED <<stages, hold, scene, faults>> /\ End(p)
      /\ member' = member /\ queue' = queue /\ freed' = freed /\ rq' = rq
  BY DEF GivesUp, requests
<1> QED
  BY <1>1, Ends DEF SeatsInv, TypeOK

(* The holder of the queue's lock.                                         *)
LEMMA AdvanceInv == ASSUME SeatsInv, Advance PROVE SeatsInv'
<1>1. PICK i \in freed : /\ freed' = freed \ {i} /\ Go(Advancer, "next")
                         /\ Hold(Advancer, [Blank EXCEPT !.seat = i, !.todo = queue])
  BY DEF Advance
<1> DEFINE j == [Blank EXCEPT !.seat = i, !.todo = queue]
<1>2. /\ UNCHANGED <<stages, hold, scene, faults>> /\ rq' = rq
      /\ member' = member /\ queue' = queue /\ freed' \subseteq freed
      /\ pc' = [pc EXCEPT ![Advancer] = "next"] /\ job' = [job EXCEPT ![Advancer] = j]
  BY <1>1 DEF Advance, Go, Hold
<1>3. i \in Seats /\ i \in Nat /\ queue \subseteq Users
  BY SeatsAreNat DEF SeatsInv, TypeOK
<1>4. j \in Job /\ j.seat = i /\ j.todo = queue
  BY <1>3, BlankIsJob DEF Job, Blank
<1> HIDE DEF j
<1>5. Hand(Advancer, "next", j, DOMAIN rq)
  BY <1>3, <1>4, ConstantsOK DEF Hand
<1>6. "next" \in PcType /\ Advancer \in Procs
  BY ConstantsOK DEF PcType
<1> QED
  BY <1>2, <1>4, <1>5, <1>6, Aside DEF SeatsInv, TypeOK

LEMMA NextCandidateInv == ASSUME SeatsInv, NextCandidate PROVE SeatsInv'
<1> DEFINE a == Advancer
<1>0. a \in Procs /\ a # Sweeper /\ Op(a) = "advance"
  BY ConstantsOK, OpIs
<1>1. /\ At(a, "next") /\ UNCHANGED <<stages, hold, scene, faults>>
      /\ member' = member /\ freed' = freed /\ rq' = rq
  BY DEF NextCandidate
<1>2. Hand(a, "next", job[a], DOMAIN rq) /\ job[a] \in Job
  BY <1>0, <1>1, HandOf DEF At
<1>3. job[a].seat \in Seats /\ job[a].todo \subseteq Users
  BY <1>2 DEF Hand
<1>4. queue \subseteq Users
  BY DEF SeatsInv, TypeOK
<1>5. CASE End(a) /\ queue' = queue
  BY <1>0, <1>1, <1>4, <1>5, Ends DEF SeatsInv, TypeOK
<1>6. ASSUME NEW u \in job[a].todo, queue' = queue \ {u}, pc' = pc,
             Hold(a, [job[a] EXCEPT !.todo = @ \ {u}])
      PROVE  SeatsInv'
  <2> DEFINE j == [job[a] EXCEPT !.todo = @ \ {u}]
  <2>1. j \in Job /\ j.seat = job[a].seat /\ j.todo = job[a].todo \ {u}
    BY <1>2 DEF Job
  <2>2. job' = [job EXCEPT ![a] = j]
    BY <1>6 DEF Hold
  <2> HIDE DEF j
  <2>3. Hand(a, "next", j, DOMAIN rq) /\ "next" \in PcType
    BY <1>0, <1>3, <2>1 DEF Hand, PcType
  <2>4. pc' = [pc EXCEPT ![a] = "next"]
    BY <1>0, <1>1, <1>6, HandOf DEF At
  <2>5. queue' \subseteq Users
    BY <1>4, <1>6
  <2> QED
    BY <1>0, <1>1, <2>1, <2>2, <2>3, <2>4, <2>5, Aside DEF SeatsInv, TypeOK
<1>7. ASSUME NEW u \in job[a].todo, NEW r \in Pending(u), queue' = queue, Go(a, "seat"),
             Hold(a, [job[a] EXCEPT !.user = u, !.req = r, !.todo = @ \ {u}])
      PROVE  SeatsInv'
  <2> DEFINE j == [job[a] EXCEPT !.user = u, !.req = r, !.todo = @ \ {u}]
  <2>1. u \in Users /\ r \in DOMAIN rq /\ r \in Nat
    BY <1>3 DEF Pending, SeatsInv, TypeOK
  <2>2. /\ j \in Job /\ j.user = u /\ j.req = r
        /\ j.seat = job[a].seat /\ j.todo = job[a].todo \ {u}
    BY <1>2, <2>1 DEF Job
  <2>3. job' = [job EXCEPT ![a] = j] /\ pc' = [pc EXCEPT ![a] = "seat"]
    BY <1>7 DEF Hold, Go
  <2> HIDE DEF j
  <2>4. Hand(a, "seat", j, DOMAIN rq) /\ "seat" \in PcType
    BY <1>0, <1>3, <2>1, <2>2 DEF Hand, PcType
  <2> QED
    BY <1>0, <1>1, <1>4, <1>7, <2>2, <2>3, <2>4, Aside DEF SeatsInv, TypeOK
<1> QED
  BY <1>5, <1>6, <1>7 DEF NextCandidate

(* The seat monitor.                                                       *)
LEMMA SweepInv == ASSUME SeatsInv, Sweep PROVE SeatsInv'
<1> DEFINE j == [Blank EXCEPT !.todo = Late]
<1>1. /\ UNCHANGED <<stages, hold, scene, faults>> /\ rq' = rq
      /\ member' = member /\ queue' = queue /\ freed' = freed
      /\ pc' = [pc EXCEPT ![Sweeper] = "expire"] /\ job' = [job EXCEPT ![Sweeper] = j]
  BY DEF Sweep, Go, Hold, requests
<1>2. Late \in SUBSET Nat
  BY DEF Late, SeatsInv, TypeOK
<1>3. j \in Job
  BY <1>2, BlankIsJob DEF Job, Blank
<1> HIDE DEF j
<1>4. Hand(Sweeper, "expire", j, DOMAIN rq)
  BY ConstantsOK DEF Hand
<1>5. "expire" \in PcType /\ Sweeper \in Procs
  BY ConstantsOK DEF PcType
<1> QED
  BY <1>1, <1>3, <1>4, <1>5, Aside DEF SeatsInv, TypeOK

LEMMA ExpireInv == ASSUME SeatsInv, Expire PROVE SeatsInv'
<1> DEFINE s == Sweeper
<1>0. s \in Procs /\ s # Advancer
  BY ConstantsOK
<1>1. /\ At(s, "expire") /\ UNCHANGED <<stages, hold, scene, faults>>
      /\ member' = member /\ freed' = freed
  BY DEF Expire
<1>2. job[s] \in Job /\ queue \subseteq Users
  BY <1>0, HandOf DEF SeatsInv, TypeOK
<1>3. ASSUME NEW r \in job[s].todo, rq' = SetStatus(r, "EXPIRED"), queue' = queue \ {rq[r].user},
             Hold(s, [job[s] EXCEPT !.todo = @ \ {r}]), pc' = pc
      PROVE  SeatsInv'
  <2> DEFINE j == [job[s] EXCEPT !.todo = @ \ {r}]
  <2>1. j \in Job
    BY <1>2 DEF Job
  <2>2. job' = [job EXCEPT ![s] = j]
    BY <1>3 DEF Hold
  <2> HIDE DEF j
  <2>3. rq' \in Seq(Asked) /\ DOMAIN rq' = DOMAIN rq
    BY <1>3, StatusOK DEF SetStatus, RequestStatuses
  <2>4. Hand(s, "expire", j, DOMAIN rq') /\ "expire" \in PcType
    BY <1>0 DEF Hand, PcType
  <2>5. pc' = [pc EXCEPT ![s] = "expire"]
    BY <1>0, <1>1, <1>3, HandOf DEF At
  <2>6. queue' \subseteq Users
    BY <1>2, <1>3
  <2> QED
    BY <1>0, <1>1, <2>1, <2>2, <2>3, <2>4, <2>5, <2>6, Aside
<1>4. CASE /\ Go(s, "next") /\ Hold(s, [Blank EXCEPT !.todo = Reserved])
           /\ rq' = rq /\ queue' = queue
  <2> DEFINE j == [Blank EXCEPT !.todo = Reserved]
  <2>1. Reserved \in SUBSET Seats /\ Reserved \subseteq Nat
    BY SeatsAreNat DEF Reserved
  <2>2. j \in Job /\ j.todo = Reserved
    BY <2>1, BlankIsJob DEF Job, Blank
  <2>3. job' = [job EXCEPT ![s] = j] /\ pc' = [pc EXCEPT ![s] = "next"]
    BY <1>4 DEF Hold, Go
  <2> HIDE DEF j
  <2>4. Hand(s, "next", j, DOMAIN rq) /\ "next" \in PcType
    BY <1>0, <2>1, <2>2 DEF Hand, PcType
  <2> QED
    BY <1>0, <1>1, <1>2, <1>4, <2>2, <2>3, <2>4, Aside DEF SeatsInv, TypeOK
<1> QED
  BY <1>3, <1>4 DEF Expire

LEMMA NextHoldInv == ASSUME SeatsInv, NextHold PROVE SeatsInv'
<1> DEFINE s == Sweeper
<1>0. s \in Procs /\ s # Advancer /\ Op(s) = "sweep"
  BY ConstantsOK, OpIs
<1>1. /\ At(s, "next") /\ UNCHANGED <<stages, hold, scene, faults>> /\ rq' = rq
      /\ member' = member /\ freed' = freed /\ queue' = queue
  BY DEF NextHold, requests
<1>2. Hand(s, "next", job[s], DOMAIN rq) /\ job[s] \in Job
  BY <1>0, <1>1, HandOf DEF At
<1>3. job[s].todo \subseteq Seats
  BY <1>0, <1>2 DEF Hand
<1>4. CASE End(s)
  BY <1>0, <1>1, <1>4, Ends DEF SeatsInv, TypeOK
<1>5. ASSUME NEW i \in job[s].todo, Hold(s, [Blank EXCEPT !.todo = job[s].todo \ {i}, !.seat = i]),
             pc' = pc \/ Go(s, "wait")
      PROVE  SeatsInv'
  <2> DEFINE j == [Blank EXCEPT !.todo = job[s].todo \ {i}, !.seat = i]
  <2>1. i \in Seats /\ i \in Nat /\ job[s].todo \subseteq Nat
    BY <1>3, SeatsAreNat
  <2>2. j \in Job /\ j.todo = job[s].todo \ {i} /\ j.seat = i
    BY <2>1, BlankIsJob DEF Job, Blank
  <2>3. job' = [job EXCEPT ![s] = j]
    BY <1>5 DEF Hold
  <2> HIDE DEF j
  <2>4. /\ Hand(s, "next", j, DOMAIN rq) /\ "next" \in PcType
        /\ Hand(s, "wait", j, DOMAIN rq) /\ "wait" \in PcType
    BY <1>0, <1>3, <2>1, <2>2 DEF Hand, PcType, OfUsers, Seaters
  <2>5. pc' = [pc EXCEPT ![s] = "next"] \/ pc' = [pc EXCEPT ![s] = "wait"]
    BY <1>0, <1>1, <1>5, HandOf DEF At, Go
  <2> QED
    BY <1>0, <1>1, <2>2, <2>3, <2>4, <2>5, Aside DEF SeatsInv, TypeOK
<1> QED
  BY <1>4, <1>5 DEF NextHold

(* Steps that no process takes.                                            *)
LEMMA Unmoved ==
  ASSUME SeatsInv, pc' = pc, job' = job, scene' = scene, member' = member, queue' = queue,
         row' = row, snap' = snap \/ snap' = Cold, hold' \subseteq hold, freed' = freed,
         lock' \in Procs \cup {None, Gone}, rq' \in Seq(Asked), DOMAIN rq' = DOMAIN rq,
         faults' \in 0 .. MaxFaults
  PROVE  SeatsInv'
<1>1. TypeOK'
  BY DEF SeatsInv, TypeOK
<1>2. \A q \in Procs : Op(q)' = Op(q)
  BY DEF Op
<1>3. ASSUME NEW q \in Procs PROVE Hand(q, pc[q], job[q], DOMAIN rq)'
  <2>1. Hand(q, pc[q], job[q], DOMAIN rq)
    BY DEF SeatsInv, HandsOK
  <2> QED
    BY <1>2, <2>1 DEF Hand, Alone, SeatsOf
<1> QED
  BY <1>1, <1>3 DEF SeatsInv, HandsOK, StagesOK, Alone, SeatsOf

LEMMA HoldLapsesInv == ASSUME SeatsInv, NEW i \in Seats, HoldLapses(i) PROVE SeatsInv'
BY Unmoved DEF HoldLapses, SeatsInv, TypeOK, stages, requests

LEMMA RequestLapsesInv == ASSUME SeatsInv, NEW r \in DOMAIN rq, RequestLapses(r) PROVE SeatsInv'
<1> DEFINE f == [rq EXCEPT ![r].late = TRUE]
<1>1. rq \in Seq(Asked) /\ \A q \in DOMAIN rq : rq[q] \in Asked
  BY DEF SeatsInv, TypeOK
<1>2. DOMAIN f = DOMAIN rq /\ f = [q \in DOMAIN rq |-> f[q]]
  OBVIOUS
<1>3. \A q \in DOMAIN rq : f[q] \in Asked
  BY <1>1 DEF Asked
<1>4. f \in Seq(Asked)
  BY <1>1, <1>2, <1>3, AskedMap
<1>5. rq' = f /\ UNCHANGED <<member, stages, hold, queue, freed, pc, job, scene, faults>>
  BY DEF RequestLapses
<1> HIDE DEF f
<1> QED
  BY <1>2, <1>4, <1>5, Unmoved DEF SeatsInv, TypeOK, stages

LEMMA SnapLapsesInv == ASSUME SeatsInv, SnapLapses PROVE SeatsInv'
BY Unmoved DEF SnapLapses, SeatsInv, TypeOK, requests

LEMMA LockLapsesInv == ASSUME SeatsInv, LockLapses PROVE SeatsInv'
BY Unmoved DEF LockLapses, SeatsInv, TypeOK, requests

LEMMA FaultInv == ASSUME SeatsInv, NEW p \in Procs, Fault(p) PROVE SeatsInv'
<1>1. /\ member' = member /\ snap' = snap /\ row' = row /\ hold' = hold /\ scene' = scene
      /\ rq' = rq /\ queue' = queue /\ freed' = freed
      /\ faults < MaxFaults /\ faults' = faults + 1
  BY DEF Fault, requests
<1>2. faults' \in 0 .. MaxFaults
  BY <1>1, SeatsAssumption DEF SeatsInv, TypeOK
<1>3. lock' \in Procs \cup {None, Gone}
  BY FreeOK DEF Fault, SeatsInv, TypeOK
<1>4. CASE End(p)
  <2>1. pc' = [pc EXCEPT ![p] = Home(p)] /\ job' = [job EXCEPT ![p] = Blank]
    BY <1>4 DEF End, Go, Hold
  <2> QED
    BY <1>1, <1>2, <1>3, <2>1, EndHand, HomeIs, BlankIsJob, Stepped DEF SeatsInv, TypeOK, StagesOK
<1>5. CASE pc' = pc /\ job' = job
  BY <1>1, <1>2, <1>3, <1>5, Unmoved DEF SeatsInv, TypeOK
<1> QED
  BY <1>4, <1>5 DEF Fault

LEMMA InitInv == ASSUME Init PROVE SeatsInv
<1>1. SceneOK(scene)
  BY SeatsAssumption DEF Init
<1>2. row \in Stage /\ snap = row /\ Alone(row)
  BY <1>1, SingleIsAlone DEF Init, SceneOK
<1>3. rq \in Seq(Asked)
  BY <1>1 DEF Init, SceneOK
<1>4. queue \subseteq Users
  <2>1. \A r \in DOMAIN rq : rq[r] \in Asked
    BY <1>3
  <2>2. \A r \in DOMAIN rq : rq[r].user \in Users
    BY <2>1 DEF Asked
  <2> QED
    BY <2>2 DEF Init
<1>5. TypeOK
  BY <1>2, <1>3, <1>4, BlankIsJob, SeatsAssumption DEF Init, TypeOK, PcType
<1>6. HandsOK
  <2> SUFFICES ASSUME NEW p \in Procs PROVE Hand(p, "idle", Blank, DOMAIN rq)
    BY DEF HandsOK, Init
  <2> QED
    BY DEF Hand
<1> QED
  BY <1>2, <1>5, <1>6 DEF SeatsInv, StagesOK

LEMMA StutterInv == ASSUME SeatsInv, UNCHANGED vars PROVE SeatsInv'
BY Unmoved DEF vars, stages, requests, SeatsInv, TypeOK

LEMMA StepInv == ASSUME SeatsInv, NEW p \in Procs, Step(p) PROVE SeatsInv'
<1>1. CASE Locked(p)
  BY <1>1, TakeSeatInv, LeaveSeatInv, SwitchSeatInv, LockSeatInv, UnlockSeatInv, ReserveSeatInv,
     ReleaseSeatInv, ConfigureLayoutInv, WriteLayoutInv, CommitInv, WriteRowInv, TellInv DEF Locked
<1> QED
  BY <1>1, SeatUserInv, PromotedInv, FailedInv, GivesUpInv DEF Step

LEMMA CallStepInv == ASSUME SeatsInv, NEW p \in Calls, CallStep(p) PROVE SeatsInv'
BY BeginInv, LeaveRoomInv, LeftRoomInv, LookInv, FillInv, RequestInv, CreateRequestInv, EnqueueInv,
   ReadRequestInv, SwapInv, ChooseSeatInv, AcceptInv DEF CallStep

LEMMA NextInv == ASSUME SeatsInv, [Next]_vars PROVE SeatsInv'
<1>1. CASE Next
  BY <1>1, StepInv, FaultInv, CallStepInv, AdvanceInv, NextCandidateInv, SweepInv, ExpireInv,
     NextHoldInv, HoldLapsesInv, RequestLapsesInv, SnapLapsesInv, LockLapsesInv DEF Next
<1>2. CASE UNCHANGED vars
  BY <1>2, StutterInv
<1> QED
  BY <1>1, <1>2

(* Whatever is called, dies or lapses, the model's variables keep their    *)
(* types, and neither copy of the stage seats anybody twice.               *)
THEOREM NobodySitsTwice == Spec => [](TypeOK /\ Single(row) /\ (snap # Cold => Single(snap)))
<1>1. Init => SeatsInv
  BY InitInv
<1>2. SeatsInv /\ [Next]_vars => SeatsInv'
  BY NextInv
<1>3. SeatsInv => TypeOK /\ Single(row) /\ (snap # Cold => Single(snap))
  BY SingleIsAlone DEF SeatsInv, StagesOK
<1> QED
  BY <1>1, <1>2, <1>3, PTL DEF Spec

-----------------------------------------------------------------------------
(* The two copies of the stage.  Whoever has the lock starts from copies   *)
(* that say the same, and what he has still to write leads the rows to     *)
(* the stage that he puts into the snapshot.                               *)
Critical == {"layout", "commit", "write"}
Leads(st, ws, next) ==
    \/ ws = <<>> /\ next = st
    \/ Len(ws) = 1 /\ Fits(st, ws[1]) /\ next = Do(st, ws[1])
    \/ /\ Len(ws) = 2 /\ Fits(st, ws[1]) /\ Fits(Do(st, ws[1]), ws[2])
       /\ ws[1].do = "vacate" /\ next = Do(Do(st, ws[1]), ws[2])
Loses(p, st, next) ==
    \A u \in Users, i \in Seats : i \in SeatsOf(st, u) \ SeatsOf(next, u) => About(p, u, i)
Works(p) ==
    /\ pc[p] \in Critical => lock = p
    /\ pc[p] = "layout" => snap = row /\ job[p].next = Layout(row, job[p].seat)
    /\ pc[p] = "commit" => /\ snap # Cold /\ Leads(row, job[p].writes, job[p].next)
                           /\ Loses(p, snap, job[p].next)
    /\ pc[p] = "write" => snap = job[p].next /\ Leads(row, job[p].writes, job[p].next)
Agreement ==
    /\ lock # Gone /\ (lock = None => Base = row) /\ (snap = Cold => lock = None)
    /\ Clear(row) /\ (snap # Cold => Clear(snap))
    /\ \A p \in Procs : Works(p)
AgreeInv == Undisturbed => Agreement

(* A forced transfer of somebody to the seat he has.                       *)
MovedOntoOwn ==
    \E p \in Procs : /\ Op(p) = "transfer" /\ SwitchSeat(p)
                     /\ job[p].seat \in SeatsOf(Base, job[p].user)

(* A write that fits goes through, and brings the row where it brings the  *)
(* snapshot.                                                               *)
LEMMA FitsGoes ==
  ASSUME NEW st \in Stage, NEW w \in Writes, Fits(st, w)
  PROVE  /\ st[w.seat] # None
         /\ w.do = "occupy" => SeatsOf(st, w.user) \ {w.seat} = {}
         /\ Do(st, w) \in Stage
BY DoStage DEF Fits

LEMMA LeadsClear ==
  ASSUME NEW st \in Stage, NEW ws \in Seq(Writes), NEW next, Leads(st, ws, next), Clear(st)
  PROVE  Clear(next)
<1>1. CASE ws = <<>> /\ next = st
  BY <1>1
<1>2. CASE Len(ws) = 1 /\ Fits(st, ws[1]) /\ next = Do(st, ws[1])
  <2>1. ws[1] \in Writes
    BY <1>2
  <2> QED
    BY <1>2, <2>1, DoClear
<1>3. CASE /\ Len(ws) = 2 /\ Fits(st, ws[1]) /\ Fits(Do(st, ws[1]), ws[2])
           /\ ws[1].do = "vacate" /\ next = Do(Do(st, ws[1]), ws[2])
  <2>1. ws[1] \in Writes /\ ws[2] \in Writes
    BY <1>3
  <2>2. Do(st, ws[1]) \in Stage /\ Clear(Do(st, ws[1]))
    BY <1>3, <2>1, DoClear, FitsGoes
  <2> QED
    BY <1>3, <2>1, <2>2, DoClear
<1> QED
  BY <1>1, <1>2, <1>3 DEF Leads

LEMMA ShortTails ==
  ASSUME NEW a, NEW b
  PROVE  /\ Tail(<<a>>) = <<>>
         /\ Len(Tail(<<a, b>>)) = 1 /\ Tail(<<a, b>>)[1] = b
OBVIOUS

LEMMA LeadsOn ==
  ASSUME NEW st \in Stage, NEW ws \in Seq(Writes), NEW next, Leads(st, ws, next), ws # <<>>
  PROVE  /\ ws[1] \in Writes /\ Fits(st, ws[1]) /\ Head(ws) = ws[1]
         /\ Leads(Do(st, ws[1]), Tail(ws), next)
         /\ ws[1].do = "open" => next = Do(st, ws[1])
<1>1. ws[1] \in Writes /\ Head(ws) = ws[1]
  OBVIOUS
<1>2. CASE Len(ws) = 1 /\ Fits(st, ws[1]) /\ next = Do(st, ws[1])
  <2>1. Tail(ws) = <<>>
    <3>1. ws = <<ws[1]>>
      BY <1>2
    <3> QED
      BY <3>1, ShortTails
  <2> QED
    BY <1>1, <1>2, <2>1 DEF Leads
<1>3. CASE /\ Len(ws) = 2 /\ Fits(st, ws[1]) /\ Fits(Do(st, ws[1]), ws[2])
           /\ ws[1].do = "vacate" /\ next = Do(Do(st, ws[1]), ws[2])
  <2>1. Len(Tail(ws)) = 1 /\ Tail(ws)[1] = ws[2]
    <3>1. PICK a, b : ws = <<a, b>> /\ b = ws[2]
      <4>1. ws = <<ws[1], ws[2]>>
        BY <1>3
      <4> QED
        BY <4>1
    <3>2. Len(Tail(<<a, b>>)) = 1 /\ Tail(<<a, b>>)[1] = b
      BY ShortTails
    <3> QED
      BY <3>1, <3>2
  <2> QED
    BY <1>1, <1>3, <2>1 DEF Leads
<1> QED
  BY <1>2, <1>3 DEF Leads

(* What nobody else does to somebody at work.                              *)
Quiet(p) ==
    /\ pc[p] # "filled" /\ faults' = faults /\ scene' = scene /\ row' = row /\ lock' = lock
    /\ snap' \in {snap, Base} /\ pc'[p] \notin Critical
    /\ \A q \in Procs \ {p} : pc'[q] = pc[q] /\ job'[q] = job[q]

LEMMA SameAbout ==
  ASSUME scene' = scene, NEW q \in Procs, job'[q] = job[q], NEW u, NEW i
  PROVE  About(q, u, i)' <=> About(q, u, i)
<1>1. Op(q)' = Op(q)
  BY DEF Op
<1> QED
  BY <1>1 DEF About

LEMMA QuietAgree ==
  ASSUME SeatsInv, Agreement, NEW p \in Procs, Quiet(p) PROVE Agreement'
<1>1. /\ row' = row /\ lock' = lock /\ scene' = scene /\ snap' \in {snap, Base}
      /\ \A q \in Procs \ {p} : pc'[q] = pc[q] /\ job'[q] = job[q]
  BY DEF Quiet
<1>2. snap = Cold => lock = None /\ \A q \in Procs : pc[q] \notin Critical
  BY ConstantsOK DEF Agreement, Works
<1>3. snap' = snap \/ (snap = Cold /\ snap' = row)
  BY <1>1 DEF Base
<1>4. /\ lock' # Gone /\ (lock' = None => Base' = row') /\ (snap' = Cold => lock' = None)
      /\ Clear(row') /\ (snap' # Cold => Clear(snap'))
  BY <1>1, <1>3 DEF Agreement, Base
<1>5. ASSUME NEW q \in Procs PROVE Works(q)'
  <2>1. CASE q = p
    BY <2>1 DEF Works, Quiet, Critical
  <2>2. CASE q # p /\ pc[q] \notin Critical
    BY <1>1, <2>2 DEF Works, Critical
  <2>3. CASE q # p /\ pc[q] \in Critical
    <3>1. snap' = snap /\ Works(q) /\ pc'[q] = pc[q] /\ job'[q] = job[q]
      BY <1>1, <1>2, <1>3, <2>3 DEF Agreement
    <3>2. \A u, i : About(q, u, i)' <=> About(q, u, i)
      BY <1>1, <3>1, SameAbout
    <3> QED
      BY <1>1, <3>1, <3>2 DEF Works, Loses, SeatsOf
  <2> QED
    BY <2>1, <2>2, <2>3
<1> QED
  BY <1>4, <1>5 DEF Agreement, Clear

(* Steps that move no process.                                             *)
LEMMA StillAgree ==
  ASSUME SeatsInv, Agreement, pc' = pc, job' = job, scene' = scene, row' = row, lock' = lock,
         snap' = snap \/ (lock = None /\ snap' = Cold)
  PROVE  Agreement'
<1>1. /\ lock' # Gone /\ (lock' = None => Base' = row') /\ (snap' = Cold => lock' = None)
      /\ Clear(row') /\ (snap' # Cold => Clear(snap'))
  BY DEF Agreement, Base
<1>2. ASSUME NEW q \in Procs PROVE Works(q)'
  <2>1. Works(q)
    BY DEF Agreement
  <2>2. \A u, i : About(q, u, i)' <=> About(q, u, i)
    BY SameAbout
  <2>3. pc[q] \in Critical => snap' = snap
    BY <2>1, ConstantsOK DEF Works
  <2> QED
    BY <2>1, <2>2, <2>3 DEF Works, Loses, SeatsOf, Critical
<1> QED
  BY <1>1, <1>2 DEF Agreement, Clear

(* A change under the lock begins from copies that agree.                  *)
LEMMA ChangeAgree ==
  ASSUME SeatsInv, Agreement, NEW p \in Procs, At(p, "wait"), lock = None,
         NEW next, NEW writes, NEW taken, NEW left, Change(p, next, writes, taken, left),
         Leads(Base, writes, next), Loses(p, Base, next)
  PROVE  Agreement'
<1> DEFINE j == [job[p] EXCEPT !.next = next, !.writes = writes, !.taken = taken, !.left = left]
<1>1. job[p] \in Job /\ job \in [Procs -> Job] /\ pc \in [Procs -> PcType]
  BY HandOf DEF SeatsInv, TypeOK
<1>2. j.next = next /\ j.writes = writes /\ j.user = job[p].user /\ j.seat = job[p].seat
  BY <1>1 DEF Job
<1>3. /\ pc' = [pc EXCEPT ![p] = "commit"] /\ job' = [job EXCEPT ![p] = j] /\ scene' = scene
      /\ snap' = Base /\ row' = row /\ lock' = p
  BY DEF Change, Go, Hold
<1> HIDE DEF j
<1>4. Base = row /\ row \in Stage /\ row # Cold /\ Clear(row)
  BY ConstantsOK DEF Agreement, SeatsInv, TypeOK
<1>5. \A q \in Procs : pc[q] \notin Critical
  BY ConstantsOK DEF Agreement, Works
<1>6. ASSUME NEW q \in Procs PROVE Works(q)'
  <2>1. CASE q = p
    <3>1. pc'[q] = "commit" /\ job'[q] = j
      BY <1>1, <1>3, <2>1
    <3>2. Op(q)' = Op(q)
      BY <1>3 DEF Op
    <3>3. \A u, i : About(q, u, i) => About(q, u, i)'
      BY <1>2, <2>1, <3>1, <3>2 DEF About
    <3> QED
      BY <1>2, <1>3, <1>4, <2>1, <3>1, <3>3 DEF Works, Critical, Loses, SeatsOf
  <2>2. CASE q # p
    <3>1. pc'[q] = pc[q]
      BY <1>1, <1>3, <2>2
    <3> QED
      BY <1>5, <3>1 DEF Works, Critical
  <2> QED
    BY <2>1, <2>2
<1> QED
  BY <1>3, <1>4, <1>6, ConstantsOK DEF Agreement, Clear, Base

LEMMA RefuseAgree ==
  ASSUME SeatsInv, Agreement, NEW p \in Procs, At(p, "wait"), Refuse(p) PROVE Agreement'
<1>1. PICK x \in PcType, j \in Job :
          /\ pc' = [pc EXCEPT ![p] = x] /\ job' = [job EXCEPT ![p] = j]
          /\ x \notin Critical
  BY BlankIsJob, HandOf DEF Refuse, Refused, End, Go, Hold, Home, Critical, PcType
<1>2. pc \in [Procs -> PcType] /\ job \in [Procs -> Job]
  BY DEF SeatsInv, TypeOK
<1>3. Quiet(p)
  BY <1>1, <1>2 DEF Quiet, Refuse, At
<1> QED
  BY <1>3, QuietAgree

LEMMA AttemptAgree ==
  ASSUME SeatsInv, Agreement, NEW p \in Procs, At(p, "wait"), lock = None,
         NEW allowed, NEW w \in Writes, NEW taken, NEW left, Attempt(p, allowed, w, taken, left),
         allowed => Fits(Base, w) /\ Loses(p, Base, Do(Base, w))
  PROVE  Agreement'
<1>1. CASE allowed
  <2>1. Len(<<w>>) = 1 /\ <<w>>[1] = w
    OBVIOUS
  <2>2. Leads(Base, <<w>>, Do(Base, w))
    BY <1>1, <2>1 DEF Leads
  <2>3. Change(p, Do(Base, w), <<w>>, taken, left)
    BY <1>1 DEF Attempt
  <2> QED
    BY <1>1, <2>2, <2>3, ChangeAgree
<1>2. CASE ~allowed
  BY <1>2, RefuseAgree DEF Attempt
<1> QED
  BY <1>1, <1>2

(* Who sits at a seat after a write of it sat there before, or is whom it  *)
(* seats; nobody else comes off.                                           *)
LEMMA DoLoses ==
  ASSUME NEW p, NEW st \in Stage, NEW w \in Writes, Fits(st, w),
         \/ w.do \in {"open", "reserve", "release"}
         \/ \A u \in Users : st[w.seat].occupant = u => About(p, u, w.seat)
  PROVE  Loses(p, st, Do(st, w))
<1> SUFFICES ASSUME NEW u \in Users, NEW i \in Seats, i \in SeatsOf(st, u),
                    i \notin SeatsOf(Do(st, w), u)
             PROVE  About(p, u, i)
  BY DEF Loses
<1>1. st[w.seat] # None
  BY DEF Fits
<1>2. /\ Do(st, w)[w.seat] # None
      /\ \A k \in Seats : k # w.seat => Do(st, w)[k] = st[k]
  BY <1>1, DoStage
<1>3. w.do \in {"open", "reserve", "release"} => Do(st, w)[w.seat].occupant = st[w.seat].occupant
  BY <1>1, DoSeat
<1>4. i = w.seat
  BY <1>2 DEF SeatsOf
<1>5. st[w.seat].occupant = u
  BY <1>4 DEF SeatsOf
<1>6. w.do \notin {"open", "reserve", "release"}
  BY <1>2, <1>3, <1>4, <1>5 DEF SeatsOf
<1> QED
  BY <1>4, <1>5, <1>6

LEMMA TakeSeatAgree ==
  ASSUME SeatsInv, Agreement, NEW p \in Procs, TakeSeat(p) PROVE Agreement'
<1> DEFINE u == job[p].user
           i == job[p].seat
           w == W("occupy", i, u)
           ok == SeatsOf(Base, u) = {} /\ Claimable(Base, i, u)
<1>1. /\ At(p, "wait") /\ Op(p) \in {"take", "promote", "approve", "retry", "advance"}
      /\ lock = None
  BY DEF TakeSeat, Enters
<1>2. i \in Seats /\ u \in Users
  BY <1>1, WaitHand DEF SeatOps, OfSeats, OfUsers, Seaters
<1>3. w \in Writes /\ w.do = "occupy" /\ w.seat = i /\ w.user = u
  BY <1>2 DEF W, Writes
<1>4. Attempt(p, ok, w, u, {})
  BY DEF TakeSeat
<1>5. Base \in Stage /\ Clear(Base)
  BY <1>1, BaseOK DEF Agreement
<1> HIDE DEF w
<1>6. ASSUME ok PROVE Fits(Base, w) /\ Loses(p, Base, Do(Base, w))
  <2>1. /\ Base[i] # None /\ ~Base[i].isLocked /\ SeatsOf(Base, u) = {}
        /\ Base[i].status \in {"EMPTY", "RESERVED"}
    BY <1>6 DEF Claimable
  <2>2. Base[i].occupant = None
    BY <1>2, <1>5, <2>1 DEF Clear
  <2>3. Fits(Base, w)
    BY <1>2, <1>3, <2>1, ConstantsOK DEF Fits
  <2> QED
    BY <1>3, <1>5, <2>2, <2>3, DoLoses, ConstantsOK
<1> HIDE DEF ok
<1> QED
  BY <1>1, <1>3, <1>4, <1>6, AttemptAgree

LEMMA LeaveSeatAgree ==
  ASSUME SeatsInv, Agreement, NEW p \in Procs, LeaveSeat(p) PROVE Agreement'
<1> DEFINE u == job[p].user
           mine == SeatsOf(Base, u)
           i == Min(mine)
           w == W("vacate", i, None)
<1>1. At(p, "wait") /\ Op(p) \in {"leaveSeat", "remove", "leaveRoom"} /\ lock = None
  BY DEF LeaveSeat, Enters
<1>2. u \in Users
  BY <1>1, WaitHand DEF OfUsers
<1>3. CASE mine = {}
  BY <1>1, <1>3, RefuseAgree DEF LeaveSeat
<1>4. CASE mine # {}
  <2>1. i \in mine
    BY <1>4, MinIsIn DEF SeatsOf
  <2>2. Change(p, Do(Base, w), <<w>>, None, {i})
    BY <1>4 DEF LeaveSeat
  <2> HIDE DEF i
  <2>3. w \in Writes /\ w.seat = i /\ w.do = "vacate"
    BY <2>1 DEF W, Writes, SeatsOf
  <2> HIDE DEF w
  <2>4. Base[i] # None /\ Base[i].occupant = u
    BY <2>1 DEF SeatsOf
  <2>5. Fits(Base, w)
    BY <1>2, <2>3, <2>4, ConstantsOK DEF Fits
  <2>6. \A v \in Users : Base[w.seat].occupant = v => About(p, v, w.seat)
    BY <1>1, <2>3, <2>4 DEF About
  <2>7. Loses(p, Base, Do(Base, w))
    BY <2>3, <2>5, <2>6, BaseOK, DoLoses
  <2>8. Len(<<w>>) = 1 /\ <<w>>[1] = w
    OBVIOUS
  <2>9. Leads(Base, <<w>>, Do(Base, w))
    BY <2>5, <2>8 DEF Leads
  <2> QED
    BY <1>1, <2>2, <2>7, <2>9, ChangeAgree
<1> QED
  BY <1>3, <1>4

LEMMA SwitchSeatAgree ==
  ASSUME SeatsInv, Agreement, NEW p \in Procs, SwitchSeat(p), ~MovedOntoOwn PROVE Agreement'
<1> DEFINE u == job[p].user
           j == job[p].seat
           from == SeatsOf(Base, u)
           i == Min(from)
           v == W("vacate", i, None)
           w == W("occupy", j, u)
           out == Do(Base, v)
           next == IF i = j THEN out ELSE Do(out, w)
           mayGo == IF Op(p) = "switch" THEN i # j /\ Claimable(Base, j, u)
                    ELSE j # 0 /\ Base[j] # None /\ ~Base[j].isLocked
           gone == IF Base[j].status = "OCCUPIED" THEN {j} ELSE {}
<1>1. At(p, "wait") /\ Op(p) \in {"switch", "transfer"} /\ lock = None
  BY DEF SwitchSeat, Enters
<1>2. u \in Users /\ j \in Seats
  BY <1>1, WaitHand DEF OfUsers, SeatOps, OfSeats
<1>3. CASE from = {} \/ ~mayGo
  BY <1>1, <1>3, RefuseAgree DEF SwitchSeat
<1>4. CASE from # {} /\ mayGo
  <2>1. i \in from
    BY <1>4, MinIsIn DEF SeatsOf
  <2>2. Change(p, next, <<v, w>>, None, gone)
    BY <1>4 DEF SwitchSeat
  <2>3. Base[j] # None /\ ~Base[j].isLocked
    BY <1>4 DEF Claimable
  <2>4. i # j
    BY <1>1, <1>4, <2>1 DEF MovedOntoOwn
  <2>5. Base \in Stage /\ Alone(Base) /\ Clear(Base)
    BY <1>1, BaseOK DEF Agreement
  <2>6. Op(p) = "switch" => Base[j].occupant = None
    <3>1. Op(p) = "switch" => Base[j].status \in {"EMPTY", "RESERVED"}
      BY <1>4 DEF Claimable
    <3> QED
      BY <1>2, <2>3, <2>5, <3>1 DEF Clear
  <2> HIDE DEF i, mayGo, gone
  <2>7. /\ v \in Writes /\ v.seat = i /\ v.do = "vacate" /\ i \in Seats
        /\ out \in Stage /\ SeatsOf(out, u) = {}
        /\ \A k \in Seats : k # i => out[k] = Base[k]
    BY <1>2, <2>1, <2>5, VacateOK
  <2>8. w \in Writes /\ w.seat = j /\ w.user = u /\ w.do = "occupy"
    BY <1>2 DEF W, Writes
  <2>9. out[j] = Base[j]
    BY <1>2, <2>4, <2>7
  <2> HIDE DEF v, w
  <2>10. Base[i] # None /\ Base[i].occupant = u
    BY <2>1 DEF SeatsOf
  <2>11. Fits(Base, v)
    BY <1>2, <2>7, <2>10, ConstantsOK DEF Fits
  <2>12. \A x \in Users : Base[v.seat].occupant = x => About(p, x, v.seat)
    BY <1>1, <2>7, <2>10 DEF About
  <2>13. Loses(p, Base, out)
    BY <2>5, <2>7, <2>11, <2>12, DoLoses
  <2> HIDE DEF out
  <2>14. Fits(out, w)
    BY <1>2, <2>3, <2>7, <2>8, <2>9, ConstantsOK DEF Fits
  <2>15. \A x \in Users : out[w.seat].occupant = x => About(p, x, w.seat)
    BY <1>1, <2>6, <2>8, <2>9, ConstantsOK DEF About
  <2>16. Loses(p, out, Do(out, w))
    BY <2>7, <2>8, <2>14, <2>15, DoLoses
  <2>17. next = Do(out, w)
    BY <2>4
  <2>18. Loses(p, Base, next)
    BY <2>13, <2>16, <2>17 DEF Loses
  <2>19. Leads(Base, <<v, w>>, next)
    <3>1. Len(<<v, w>>) = 2 /\ <<v, w>>[1] = v /\ <<v, w>>[2] = w
      OBVIOUS
    <3> QED
      BY <2>7, <2>11, <2>14, <2>17, <3>1 DEF Leads, out
  <2> HIDE DEF next
  <2> QED
    BY <1>1, <2>2, <2>18, <2>19, ChangeAgree
<1> QED
  BY <1>3, <1>4

LEMMA LockSeatAgree ==
  ASSUME SeatsInv, Agreement, NEW p \in Procs, LockSeat(p) PROVE Agreement'
<1> DEFINE i == job[p].seat
           w == W("shut", i, None)
           ok == i # 0 /\ Base[i] # None
<1>1. At(p, "wait") /\ Op(p) = "lock" /\ lock = None
  BY DEF LockSeat, Enters
<1>2. i \in Seats
  BY <1>1, WaitHand DEF SeatOps, OfSeats
<1>3. w \in Writes /\ w.seat = i /\ w.do = "shut"
  BY <1>2 DEF W, Writes
<1>4. Attempt(p, ok, w, None, {})
  BY DEF LockSeat
<1> HIDE DEF w
<1>5. ASSUME ok PROVE Fits(Base, w) /\ Loses(p, Base, Do(Base, w))
  <2>1. Fits(Base, w)
    BY <1>3, <1>5 DEF Fits
  <2>2. \A u \in Users : About(p, u, w.seat)
    BY <1>1, <1>3 DEF About
  <2> QED
    BY <1>3, <2>1, <2>2, BaseOK, DoLoses
<1> HIDE DEF ok
<1> QED
  BY <1>1, <1>3, <1>4, <1>5, AttemptAgree

LEMMA UnlockSeatAgree ==
  ASSUME SeatsInv, Agreement, NEW p \in Procs, UnlockSeat(p) PROVE Agreement'
<1> DEFINE i == job[p].seat
           w == W("open", i, None)
<1>1. At(p, "wait") /\ Op(p) = "unlock" /\ lock = None
  BY DEF UnlockSeat, Enters
<1>2. i \in Seats
  BY <1>1, WaitHand DEF SeatOps, OfSeats
<1>3. w \in Writes /\ w.seat = i /\ w.do = "open"
  BY <1>2 DEF W, Writes
<1>4. Attempt(p, Base[i] # None, w, None, {})
  BY DEF UnlockSeat
<1> HIDE DEF w
<1>5. ASSUME Base[i] # None PROVE Fits(Base, w) /\ Loses(p, Base, Do(Base, w))
  <2>1. Fits(Base, w)
    BY <1>3, <1>5 DEF Fits
  <2> QED
    BY <1>3, <2>1, BaseOK, DoLoses
<1> QED
  BY <1>1, <1>3, <1>4, <1>5, AttemptAgree

LEMMA ReserveSeatAgree ==
  ASSUME SeatsInv, Agreement, NEW p \in Procs, ReserveSeat(p) PROVE Agreement'
<1> DEFINE i == job[p].seat
           w == W("reserve", i, job[p].user)
           ok == i \in OpenSeats(Base)
<1>1. At(p, "wait") /\ Op(p) = "reserve" /\ lock = None
  BY DEF ReserveSeat, Enters
<1>2. i \in Seats /\ job[p].user \in Users
  BY <1>1, WaitHand DEF SeatOps, OfSeats, OfUsers
<1>3. w \in Writes /\ w.seat = i /\ w.do = "reserve" /\ w.user = job[p].user
  BY <1>2 DEF W, Writes
<1>4. Attempt(p, ok, w, None, {})
  BY DEF ReserveSeat
<1> HIDE DEF w
<1>5. ASSUME ok PROVE Fits(Base, w) /\ Loses(p, Base, Do(Base, w))
  <2>1. Fits(Base, w)
    BY <1>2, <1>3, <1>5, ConstantsOK DEF Fits, OpenSeats
  <2> QED
    BY <1>3, <2>1, BaseOK, DoLoses
<1> HIDE DEF ok
<1> QED
  BY <1>1, <1>3, <1>4, <1>5, AttemptAgree

LEMMA ReleaseSeatAgree ==
  ASSUME SeatsInv, Agreement, NEW p \in Procs, ReleaseSeat(p) PROVE Agreement'
<1> DEFINE i == job[p].seat
           w == W("release", i, None)
           ok == Base[i] # None /\ Base[i].status = "RESERVED"
<1>1. At(p, "wait") /\ Op(p) \in {"unreserve", "sweep"} /\ lock = None
  BY DEF ReleaseSeat, Enters
<1>2. i \in Seats
  BY <1>1, WaitHand DEF SeatOps, OfSeats
<1>3. w \in Writes /\ w.seat = i /\ w.do = "release"
  BY <1>2 DEF W, Writes
<1>4. Attempt(p, ok, w, None, {i})
  BY DEF ReleaseSeat
<1> HIDE DEF w
<1>5. ASSUME ok PROVE Fits(Base, w) /\ Loses(p, Base, Do(Base, w))
  <2>1. Fits(Base, w)
    BY <1>3, <1>5 DEF Fits
  <2> QED
    BY <1>3, <2>1, BaseOK, DoLoses
<1> HIDE DEF ok
<1> QED
  BY <1>1, <1>3, <1>4, <1>5, AttemptAgree

LEMMA LayoutLoses ==
  ASSUME NEW p, Op(p) = "layout", NEW st \in Stage
  PROVE  Loses(p, st, Layout(st, job[p].seat))
BY DEF Loses, SeatsOf, Layout, About

(* The steps of the holder of the lock.                                    *)
LEMMA HolderAgree ==
  ASSUME SeatsInv, Agreement, NEW p \in Procs, pc[p] \in Critical,
         lock' \in {p, None}, scene' = scene,
         \A q \in Procs \ {p} : pc'[q] = pc[q] /\ job'[q] = job[q],
         snap' \in Stage, Clear(row'), Clear(snap'), lock' = None => snap' = row', Works(p)'
  PROVE  Agreement'
<1>1. lock = p
  BY DEF Agreement, Works
<1>2. ASSUME NEW q \in Procs, q # p PROVE Works(q)'
  BY <1>1, <1>2 DEF Agreement, Works, Critical
<1> QED
  BY <1>2, ConstantsOK DEF Agreement, Base, Clear

LEMMA ConfigureLayoutAgree ==
  ASSUME SeatsInv, Agreement, NEW p \in Procs, ConfigureLayout(p) PROVE Agreement'
<1> DEFINE next == Layout(Base, job[p].seat)
           gone == {i \in Seats : i >= job[p].seat /\ Base[i] # None /\ Base[i].occupant # None}
           j == [job[p] EXCEPT !.next = next, !.left = gone]
<1>1. At(p, "wait") /\ Op(p) = "layout" /\ lock = None
  BY DEF ConfigureLayout, Enters
<1>2. /\ pc' = [pc EXCEPT ![p] = "layout"] /\ job' = [job EXCEPT ![p] = j] /\ scene' = scene
      /\ snap' = Base /\ row' = row /\ lock' = p
  BY DEF ConfigureLayout, Go, Hold
<1>3. job[p] \in Job /\ job \in [Procs -> Job] /\ pc \in [Procs -> PcType]
  BY HandOf DEF SeatsInv, TypeOK
<1> HIDE DEF next, gone
<1>4. j.next = next /\ j.seat = job[p].seat
  BY <1>3 DEF Job
<1> HIDE DEF j
<1>5. Base = row /\ row \in Stage /\ Clear(row)
  BY <1>1 DEF Agreement, SeatsInv, TypeOK
<1>6. \A q \in Procs : pc[q] \notin Critical
  BY <1>1, ConstantsOK DEF Agreement, Works
<1>7. ASSUME NEW q \in Procs PROVE Works(q)'
  <2>1. CASE q = p
    <3>1. pc'[q] = "layout" /\ job'[q] = j
      BY <1>2, <1>3, <2>1
    <3>2. j.next = Layout(row, j.seat)
      BY <1>4, <1>5 DEF next
    <3> QED
      BY <1>2, <1>5, <2>1, <3>1, <3>2 DEF Works, Critical, Layout
  <2>2. CASE q # p
    <3>1. pc'[q] = pc[q]
      BY <1>2, <1>3, <2>2
    <3> QED
      BY <1>6, <3>1 DEF Works, Critical
  <2> QED
    BY <2>1, <2>2
<1> QED
  BY <1>2, <1>5, <1>7, ConstantsOK DEF Agreement, Clear, Base

LEMMA WriteLayoutAgree ==
  ASSUME SeatsInv, Agreement, NEW p \in Procs, WriteLayout(p) PROVE Agreement'
<1>1. /\ At(p, "layout") /\ pc' = [pc EXCEPT ![p] = "commit"] /\ row' = Layout(row, job[p].seat)
      /\ job' = job /\ scene' = scene /\ snap' = snap /\ lock' = lock
  BY DEF WriteLayout, Go
<1>2. Hand(p, "layout", job[p], DOMAIN rq) /\ pc \in [Procs -> PcType]
  BY <1>1, HandOf DEF At, SeatsInv, TypeOK
<1>3. lock = p /\ snap = row /\ job[p].next = row' /\ row \in Stage /\ Clear(row)
  BY <1>1 DEF Agreement, Works, Critical, At, SeatsInv, TypeOK
<1>4. Op(p) = "layout" /\ job[p].writes = <<>>
  BY <1>2 DEF Hand
<1>5. Loses(p, row, row')
  BY <1>1, <1>3, <1>4, LayoutLoses
<1>6. Clear(row')
  BY <1>1, <1>3, LayoutClear
<1>7. Works(p)'
  <2>1. pc'[p] = "commit" /\ job'[p] = job[p]
    BY <1>1, <1>2
  <2>2. \A u, i : About(p, u, i)' <=> About(p, u, i)
    BY <1>1, SameAbout
  <2>3. snap # Cold
    BY <1>3, ConstantsOK
  <2>4. Leads(row', job[p].writes, job[p].next)
    BY <1>3, <1>4 DEF Leads
  <2> QED
    BY <1>1, <1>3, <1>5, <2>1, <2>2, <2>3, <2>4 DEF Works, Critical, Loses
<1> QED
  BY <1>1, <1>2, <1>3, <1>6, <1>7, ConstantsOK, HolderAgree DEF Critical, At, Clear

LEMMA CommitAgree ==
  ASSUME SeatsInv, Agreement, NEW p \in Procs, Commit(p) PROVE Agreement'
<1>1. /\ At(p, "commit") /\ pc' = [pc EXCEPT ![p] = "write"] /\ snap' = job[p].next
      /\ job' = job /\ scene' = scene /\ row' = row /\ lock' = lock
  BY DEF Commit, Go
<1>2. Hand(p, "commit", job[p], DOMAIN rq) /\ job[p] \in Job /\ pc \in [Procs -> PcType]
  BY <1>1, HandOf DEF At, SeatsInv, TypeOK
<1>3. lock = p /\ Leads(row, job[p].writes, job[p].next) /\ row \in Stage /\ Clear(row)
  BY <1>1 DEF Agreement, Works, Critical, At, SeatsInv, TypeOK
<1>4. job[p].writes \in Seq(Writes) /\ snap' \in Stage
  BY <1>1, <1>2 DEF Hand, Job
<1>5. Clear(snap')
  BY <1>1, <1>3, <1>4, LeadsClear
<1>6. Works(p)'
  BY <1>1, <1>2, <1>3 DEF Works, Critical
<1> QED
  BY <1>1, <1>2, <1>3, <1>4, <1>5, <1>6, ConstantsOK, HolderAgree DEF Critical, At

(* An unlocked seat's row takes its status from the snapshot's.            *)
LEMMA ColumnIs ==
  ASSUME row \in Stage, NEW p \in Procs, NEW w \in Writes, row[w.seat] # None,
         w.do = "open" => job[p].next = Do(row, w)
  PROVE  Column(p, w) = Do(row, w)
<1>1. CASE w.do # "open"
  BY <1>1 DEF Column
<1>2. CASE w.do = "open"
  <2> DEFINE s == IF row[w.seat].status = "LOCKED" THEN "EMPTY" ELSE row[w.seat].status
             e == [row[w.seat] EXCEPT !.status = s, !.isLocked = FALSE]
             c == [row[w.seat] EXCEPT !.isLocked = FALSE, !.status = job[p].next[w.seat].status]
  <2>1. w.seat \in Seats /\ row[w.seat] \in Filled
    BY DEF Writes, Stage, Entry
  <2>2. Do(row, w)[w.seat].status = s
    BY <1>2, DoSeat
  <2>3. Do(row, w) = [row EXCEPT ![w.seat] = e]
    BY <1>2, <2>1 DEF Do, Stage
  <2>4. Column(p, w) = [row EXCEPT ![w.seat] = c]
    BY <1>2, <2>1 DEF Column, Stage
  <2>5. job[p].next[w.seat].status = s
    BY <1>2, <2>2
  <2> HIDE DEF s
  <2>6. c = e
    BY <2>1, <2>5 DEF Filled
  <2> QED
    BY <2>3, <2>4, <2>6
<1> QED
  BY <1>1, <1>2

LEMMA WriteRowAgree ==
  ASSUME SeatsInv, Agreement, NEW p \in Procs, WriteRow(p) PROVE Agreement'
<1> DEFINE ws == job[p].writes
           w == Head(ws)
           j == [job[p] EXCEPT !.writes = Tail(@)]
<1>1. /\ At(p, "write") /\ ws # <<>>
      /\ \/ Throws(w)
         \/ row' = Column(p, w) /\ lock' = lock /\ pc' = pc /\ job' = [job EXCEPT ![p] = j]
      /\ snap' = snap /\ scene' = scene
  BY WriteIs
<1>2. /\ Hand(p, "write", job[p], DOMAIN rq) /\ job[p] \in Job
      /\ job \in [Procs -> Job] /\ pc[p] = "write"
  BY <1>1, HandOf DEF At, SeatsInv, TypeOK
<1>3. /\ lock = p /\ snap = job[p].next /\ Leads(row, ws, job[p].next)
      /\ row \in Stage /\ Clear(row)
  BY <1>2 DEF Agreement, Works, Critical, SeatsInv, TypeOK
<1>4. ws \in Seq(Writes) /\ snap \in Stage /\ j.next = job[p].next /\ j.writes = Tail(ws)
  BY <1>2, <1>3 DEF Hand, Job
<1>5. /\ w \in Writes /\ Fits(row, w) /\ Leads(Do(row, w), Tail(ws), job[p].next)
      /\ w.do = "open" => job[p].next = Do(row, w)
  BY <1>1, <1>3, <1>4, LeadsOn
<1> HIDE DEF w, j
<1>6. ~Throws(w) /\ row[w.seat] # None /\ Clear(Do(row, w))
  BY <1>3, <1>5, FitsGoes, DoClear DEF Throws
<1>7. row' = Do(row, w)
  BY <1>1, <1>3, <1>5, <1>6, ColumnIs
<1>8. job'[p] = j /\ pc'[p] = "write" /\ \A q \in Procs \ {p} : pc'[q] = pc[q] /\ job'[q] = job[q]
  BY <1>1, <1>2, <1>6
<1>9. Clear(snap)
  BY <1>3, <1>4, ConstantsOK DEF Agreement
<1>10. Works(p)'
  BY <1>1, <1>3, <1>4, <1>5, <1>6, <1>7, <1>8 DEF Works, Critical
<1> QED
  BY <1>1, <1>2, <1>3, <1>4, <1>6, <1>7, <1>8, <1>9, <1>10, ConstantsOK, HolderAgree DEF Critical

LEMMA TellAgree ==
  ASSUME SeatsInv, Agreement, NEW p \in Procs, Tell(p) PROVE Agreement'
<1>1. At(p, "write") /\ job[p].writes = <<>> /\ scene' = scene /\ snap' = snap /\ row' = row
      /\ lock' = Free(p)
  BY DEF Tell
<1>2. /\ lock = p /\ snap = job[p].next /\ Leads(row, <<>>, job[p].next)
      /\ row \in Stage /\ Clear(row)
  BY <1>1 DEF Agreement, Works, Critical, At, SeatsInv, TypeOK
<1>3. job[p].next = row
  <2>1. Len(<<>>) = 0
    OBVIOUS
  <2> QED
    BY <1>2, <2>1 DEF Leads
<1>4. lock' = None
  BY <1>1, <1>2 DEF Free
<1>5. /\ pc'[p] \notin Critical
      /\ \A q \in Procs \ {p} : pc'[q] = pc[q] /\ job'[q] = job[q]
  BY DEF Tell, Go, Hold, End, Home, Critical, SeatsInv, TypeOK
<1>6. Works(p)'
  BY <1>5 DEF Works, Critical
<1> QED
  BY <1>1, <1>2, <1>3, <1>4, <1>5, <1>6, HolderAgree DEF Critical, At

(* The steps outside the lock leave its holder's work alone.               *)
LEMMA TypesOf == ASSUME SeatsInv PROVE pc \in [Procs -> PcType] /\ job \in [Procs -> Job]
BY DEF SeatsInv, TypeOK

LEMMA CallIsQuiet ==
  ASSUME SeatsInv, NEW p \in Calls, CallStep(p) PROVE Quiet(p) \/ pc'[p] = "filled"
<1>0. p \in Procs
  BY ConstantsOK
<1>1. CASE Begin(p)
  BY <1>0, <1>1, TypesOf DEF Begin, Quiet, At, End, Go, Hold, Carry, Home, Critical, stages
<1>2. CASE LeaveRoom(p)
  BY <1>0, <1>2, TypesOf DEF LeaveRoom, Quiet, At, Go, Hold, Carry, Critical, stages
<1>3. CASE LeftRoom(p)
  BY <1>0, <1>3, TypesOf DEF LeftRoom, Quiet, At, Go, Critical, stages
<1>4. CASE Look(p)
  BY <1>0, <1>4, TypesOf DEF Look, Quiet, At, End, Go, Hold, Home, Critical, stages
<1>5. CASE Fill(p)
  BY <1>0, <1>5, TypesOf DEF Fill, Go
<1>6. CASE Request(p)
  BY <1>0, <1>6, TypesOf DEF Request, Quiet, At, End, Go, Hold, Carry, Home, Critical, stages
<1>7. CASE CreateRequest(p)
  BY <1>0, <1>7, TypesOf DEF CreateRequest, Quiet, At, Go, Critical, stages
<1>8. CASE Enqueue(p)
  BY <1>0, <1>8, TypesOf DEF Enqueue, Quiet, At, End, Go, Hold, Home, Critical, stages
<1>9. CASE ReadRequest(p)
  BY <1>0, <1>9, TypesOf DEF ReadRequest, Quiet, At, End, Go, Hold, Home, Critical, stages
<1>10. CASE Swap(p)
  BY <1>0, <1>10, TypesOf DEF Swap, Quiet, At, End, Go, Hold, Home, Critical, stages
<1>11. CASE ChooseSeat(p)
  BY <1>0, <1>11, TypesOf DEF ChooseSeat, Quiet, At, End, Go, Hold, Carry, Home, Critical
<1>12. CASE Accept(p)
  BY <1>0, <1>12, TypesOf DEF Accept, Quiet, At, End, Go, Hold, Home, Critical, stages
<1> QED
  BY <1>1, <1>2, <1>3, <1>4, <1>5, <1>6, <1>7, <1>8, <1>9, <1>10, <1>11, <1>12 DEF CallStep

LEMMA StepIsQuiet ==
  ASSUME SeatsInv, NEW p \in Procs, SeatUser(p) \/ Promoted(p) \/ Failed(p) \/ GivesUp(p)
  PROVE  Quiet(p)
<1>1. CASE SeatUser(p)
  BY <1>1, TypesOf DEF SeatUser, Refused, Quiet, At, End, Go, Hold, Home, Critical, stages
<1>2. CASE Promoted(p)
  BY <1>2, TypesOf DEF Promoted, Outcome, Quiet, At, End, Go, Hold, Home, Critical, stages
<1>3. CASE Failed(p)
  BY <1>3, TypesOf DEF Failed, Outcome, Quiet, At, End, Go, Hold, Home, Critical, stages
<1>4. CASE GivesUp(p)
  BY <1>4, TypesOf DEF GivesUp, Quiet, At, End, Go, Hold, Home, Critical, stages
<1> QED
  BY <1>1, <1>2, <1>3, <1>4

LEMMA TimersAreQuiet ==
  ASSUME SeatsInv
  PROVE  /\ Advance \/ NextCandidate => Quiet(Advancer)
         /\ Sweep \/ Expire \/ NextHold => Quiet(Sweeper)
<1>1. Advance => Quiet(Advancer)
  BY TypesOf, ConstantsOK DEF Advance, Quiet, At, Go, Hold, Critical, stages
<1>2. NextCandidate => Quiet(Advancer)
  BY TypesOf, ConstantsOK DEF NextCandidate, Quiet, At, End, Go, Hold, Home, Critical, stages
<1>3. Sweep => Quiet(Sweeper)
  BY TypesOf, ConstantsOK DEF Sweep, Quiet, At, Go, Hold, Critical, stages
<1>4. Expire => Quiet(Sweeper)
  BY TypesOf, ConstantsOK DEF Expire, Quiet, At, Go, Hold, Critical, stages
<1>5. NextHold => Quiet(Sweeper)
  BY TypesOf, ConstantsOK DEF NextHold, Quiet, At, End, Go, Hold, Home, Critical, stages
<1> QED
  BY <1>1, <1>2, <1>3, <1>4, <1>5

LEMMA LockedIsCalm ==
  ASSUME SeatsInv, NEW p \in Procs, Locked(p)
  PROVE  pc[p] # "filled" /\ faults' = faults /\ \A q \in Procs \ {p} : pc'[q] = pc[q]
<1> DEFINE Calm == pc[p] # "filled" /\ faults' = faults /\ \A q \in Procs \ {p} : pc'[q] = pc[q]
<1>1. ASSUME At(p, "wait"), NEW next, NEW writes, NEW taken, NEW left,
             Change(p, next, writes, taken, left)
      PROVE  Calm
  BY <1>1, TypesOf DEF Change, Go, At
<1>2. ASSUME At(p, "wait"), Refuse(p) PROVE Calm
  BY <1>2, TypesOf DEF Refuse, Refused, End, Go, At
<1>3. ASSUME At(p, "wait"), NEW ok, NEW w, NEW taken, NEW left, Attempt(p, ok, w, taken, left)
      PROVE  Calm
  BY <1>1, <1>2, <1>3 DEF Attempt
<1>4. TakeSeat(p) => Calm
  BY <1>3 DEF TakeSeat, Enters
<1>5. LeaveSeat(p) => Calm
  BY <1>1, <1>2 DEF LeaveSeat, Enters
<1>6. SwitchSeat(p) => Calm
  BY <1>1, <1>2 DEF SwitchSeat, Enters
<1>7. LockSeat(p) => Calm
  BY <1>3 DEF LockSeat, Enters
<1>8. UnlockSeat(p) => Calm
  BY <1>3 DEF UnlockSeat, Enters
<1>9. ReserveSeat(p) => Calm
  BY <1>3 DEF ReserveSeat, Enters
<1>10. ReleaseSeat(p) => Calm
  BY <1>3 DEF ReleaseSeat, Enters
<1>11. ConfigureLayout(p) => Calm
  BY TypesOf DEF ConfigureLayout, Enters, At, Go
<1>12. WriteLayout(p) => Calm
  BY TypesOf DEF WriteLayout, At, Go
<1>13. Commit(p) => Calm
  BY TypesOf DEF Commit, At, Go
<1>14. WriteRow(p) => Calm
  BY TypesOf, WriteIs DEF At, End, Go
<1>15. Tell(p) => Calm
  BY TypesOf DEF Tell, At, End, Go
<1> HIDE DEF Calm
<1>16. Calm
  BY <1>4, <1>5, <1>6, <1>7, <1>8, <1>9, <1>10, <1>11, <1>12, <1>13, <1>14, <1>15 DEF Locked
<1> QED
  BY <1>16 DEF Calm

LEMMA OneMoves ==
  ASSUME NEW p \in Procs, pc[p] # "filled", faults' = faults,
         \A q \in Procs \ {p} : pc'[q] = pc[q], Undisturbed'
  PROVE  Undisturbed
BY ConstantsOK DEF Undisturbed, At

(* What is undisturbed has been so from the start.                         *)
LEMMA StaysDisturbed == ASSUME SeatsInv, [Next]_vars, Undisturbed' PROVE Undisturbed
<1>1. ASSUME NEW p \in Procs, Step(p) PROVE Undisturbed
  <2>1. CASE Locked(p)
    BY <2>1, LockedIsCalm, OneMoves
  <2>2. CASE SeatUser(p) \/ Promoted(p) \/ Failed(p) \/ GivesUp(p)
    BY <2>2, StepIsQuiet, OneMoves DEF Quiet
  <2> QED
    BY <1>1, <2>1, <2>2 DEF Step
<1>2. ASSUME NEW p \in Procs, Fault(p) PROVE Undisturbed
  <2>1. faults \in Nat /\ faults' = faults + 1
    BY <1>2, SeatsAssumption DEF Fault, SeatsInv, TypeOK
  <2>2. faults' # 0
    BY <2>1
  <2> QED
    BY <2>2 DEF Undisturbed
<1>3. ASSUME NEW p \in Calls, CallStep(p) PROVE Undisturbed
  <2>1. pc'[p] # "filled"
    BY DEF Undisturbed, At
  <2> QED
    BY <1>3, <2>1, CallIsQuiet, OneMoves, ConstantsOK DEF Quiet
<1>4. CASE Advance \/ NextCandidate
  BY <1>4, TimersAreQuiet, OneMoves, ConstantsOK DEF Quiet
<1>5. CASE Sweep \/ Expire \/ NextHold
  BY <1>5, TimersAreQuiet, OneMoves, ConstantsOK DEF Quiet
<1>6. ASSUME pc' = pc, faults' = faults PROVE Undisturbed
  BY <1>6 DEF Undisturbed, At
<1>7. ASSUME NEW i \in Seats, HoldLapses(i) PROVE Undisturbed
  BY <1>6, <1>7 DEF HoldLapses
<1>8. ASSUME NEW r \in DOMAIN rq, RequestLapses(r) PROVE Undisturbed
  BY <1>6, <1>8 DEF RequestLapses
<1>9. SnapLapses \/ LockLapses \/ UNCHANGED vars => Undisturbed
  BY <1>6 DEF SnapLapses, LockLapses, vars
<1> QED
  BY <1>1, <1>2, <1>3, <1>4, <1>5, <1>7, <1>8, <1>9 DEF Next

LEMMA LockedAgree ==
  ASSUME SeatsInv, Agreement, NEW p \in Procs, Locked(p), ~MovedOntoOwn PROVE Agreement'
BY TakeSeatAgree, LeaveSeatAgree, SwitchSeatAgree, LockSeatAgree, UnlockSeatAgree,
   ReserveSeatAgree, ReleaseSeatAgree, ConfigureLayoutAgree, WriteLayoutAgree, CommitAgree,
   WriteRowAgree, TellAgree DEF Locked

LEMMA NextAgree ==
  ASSUME SeatsInv, AgreeInv, [Next]_vars, ~MovedOntoOwn PROVE AgreeInv'
<1> SUFFICES ASSUME Undisturbed' PROVE Agreement'
  BY DEF AgreeInv
<1>0. Agreement
  BY StaysDisturbed DEF AgreeInv
<1>1. ASSUME NEW p \in Procs, Step(p) PROVE Agreement'
  <2>1. CASE Locked(p)
    BY <1>0, <2>1, LockedAgree
  <2>2. CASE SeatUser(p) \/ Promoted(p) \/ Failed(p) \/ GivesUp(p)
    BY <1>0, <2>2, StepIsQuiet, QuietAgree
  <2> QED
    BY <1>1, <2>1, <2>2 DEF Step
<1>2. ASSUME NEW p \in Procs, Fault(p) PROVE Agreement'
  <2>1. faults \in Nat /\ faults' = faults + 1
    BY <1>2, SeatsAssumption DEF Fault, SeatsInv, TypeOK
  <2>2. faults' # 0
    BY <2>1
  <2> QED
    BY <2>2 DEF Undisturbed
<1>3. ASSUME NEW p \in Calls, CallStep(p) PROVE Agreement'
  <2>1. pc'[p] # "filled"
    BY DEF Undisturbed, At
  <2> QED
    BY <1>0, <1>3, <2>1, CallIsQuiet, QuietAgree, ConstantsOK
<1>4. CASE Advance \/ NextCandidate \/ Sweep \/ Expire \/ NextHold
  BY <1>0, <1>4, TimersAreQuiet, QuietAgree, ConstantsOK
<1>7. ASSUME NEW i \in Seats, HoldLapses(i) PROVE Agreement'
  BY <1>0, <1>7, StillAgree DEF HoldLapses, stages
<1>8. ASSUME NEW r \in DOMAIN rq, RequestLapses(r) PROVE Agreement'
  BY <1>0, <1>8, StillAgree DEF RequestLapses, stages
<1>9. SnapLapses \/ UNCHANGED vars => Agreement'
  BY <1>0, StillAgree DEF SnapLapses, vars, stages
<1>10. ~LockLapses
  BY <1>0 DEF Agreement, LockLapses
<1>11. CASE UNCHANGED vars
  BY <1>9, <1>11
<1>12. CASE Next
  BY <1>1, <1>2, <1>3, <1>4, <1>7, <1>8, <1>9, <1>10, <1>12 DEF Next
<1> QED
  BY <1>11, <1>12

LEMMA InitAgree == ASSUME Init PROVE AgreeInv
<1>1. SceneOK(scene)
  BY SeatsAssumption DEF Init
<1>2. row = scene.row /\ snap = row /\ row \in Stage /\ Clear(row) /\ lock = None
  BY <1>1 DEF Init, SceneOK
<1>3. \A p \in Procs : Works(p)
  BY DEF Init, Works, Critical
<1> QED
  BY <1>2, <1>3, ConstantsOK DEF AgreeInv, Agreement, Base

(* What a seat is kept from: only Commit and a reader's Fill replace a     *)
(* snapshot that is there.                                                 *)
LEMMA SnapIs ==
  ASSUME SeatsInv, Next, Undisturbed', snap # Cold, snap' # Cold
  PROVE  snap' = snap \/ \E p \in Procs : Commit(p)
<1>1. Base = snap
  BY DEF Base
<1>2. ASSUME NEW p \in Procs, Locked(p) PROVE snap' = snap \/ Commit(p)
  <2>1. ASSUME NEW next, NEW writes, NEW taken, NEW left, Change(p, next, writes, taken, left)
        PROVE  snap' = snap
    BY <1>1, <2>1 DEF Change
  <2>2. ASSUME Refuse(p) PROVE snap' = snap
    BY <1>1, <2>2 DEF Refuse
  <2>3. ASSUME NEW ok, NEW w, NEW taken, NEW left, Attempt(p, ok, w, taken, left)
        PROVE  snap' = snap
    BY <2>1, <2>2, <2>3 DEF Attempt
  <2>4. TakeSeat(p) => snap' = snap
    BY <2>3 DEF TakeSeat
  <2>5. LeaveSeat(p) => snap' = snap
    BY <2>1, <2>2 DEF LeaveSeat
  <2>6. SwitchSeat(p) => snap' = snap
    BY <2>1, <2>2 DEF SwitchSeat
  <2>7. LockSeat(p) \/ UnlockSeat(p) \/ ReserveSeat(p) \/ ReleaseSeat(p) => snap' = snap
    BY <2>3 DEF LockSeat, UnlockSeat, ReserveSeat, ReleaseSeat
  <2>8. ConfigureLayout(p) \/ WriteLayout(p) \/ WriteRow(p) \/ Tell(p) => snap' = snap
    BY <1>1, WriteIs DEF ConfigureLayout, WriteLayout, Tell
  <2> QED
    BY <1>2, <2>4, <2>5, <2>6, <2>7, <2>8 DEF Locked
<1>3. ASSUME NEW p \in Procs, Quiet(p) PROVE snap' = snap
  BY <1>1, <1>3 DEF Quiet
<1>4. ASSUME NEW p \in Procs, Step(p) PROVE snap' = snap \/ Commit(p)
  BY <1>2, <1>3, <1>4, StepIsQuiet DEF Step
<1>5. ASSUME NEW p \in Calls, CallStep(p) PROVE snap' = snap
  <2>1. pc'[p] # "filled"
    BY DEF Undisturbed, At
  <2> QED
    BY <1>3, <1>5, <2>1, CallIsQuiet, ConstantsOK
<1>6. Advance \/ NextCandidate \/ Sweep \/ Expire \/ NextHold => snap' = snap
  BY <1>3, TimersAreQuiet, ConstantsOK
<1>7. ASSUME NEW p \in Procs, Fault(p) PROVE snap' = snap
  BY <1>7 DEF Fault
<1>8. ASSUME NEW i \in Seats, HoldLapses(i) PROVE snap' = snap
  BY <1>8 DEF HoldLapses, stages
<1>9. ASSUME NEW r \in DOMAIN rq, RequestLapses(r) PROVE snap' = snap
  BY <1>9 DEF RequestLapses, stages
<1>10. ~SnapLapses /\ (LockLapses => snap' = snap)
  BY DEF SnapLapses, LockLapses
<1> QED
  BY <1>4, <1>5, <1>6, <1>7, <1>8, <1>9, <1>10 DEF Next

LEMMA KeepsSeats ==
  ASSUME SeatsInv, AgreeInv, [Next]_vars, Undisturbed', snap # Cold, snap' # Cold,
         NEW u \in Users, NEW i \in SeatsOf(snap, u) \ SeatsOf(snap', u)
  PROVE  \E p \in Procs : Commit(p) /\ About(p, u, i)
<1>1. Agreement
  BY StaysDisturbed DEF AgreeInv
<1>2. snap' # snap /\ i \in Seats
  BY DEF SeatsOf
<1>3. PICK p \in Procs : Commit(p)
  BY <1>2, SnapIs DEF vars, stages
<1>4. Loses(p, snap, job[p].next) /\ snap' = job[p].next
  BY <1>1, <1>3 DEF Agreement, Works, Commit, At
<1> QED
  BY <1>2, <1>3, <1>4 DEF Loses

LEMMA BothInv == Spec /\ [][~MovedOntoOwn]_vars => [](SeatsInv /\ AgreeInv)
<1>1. Init => SeatsInv /\ AgreeInv
  BY InitInv, InitAgree
<1>2. SeatsInv /\ AgreeInv /\ [Next]_vars /\ [~MovedOntoOwn]_vars => (SeatsInv /\ AgreeInv)'
  <2>1. ASSUME SeatsInv, AgreeInv, UNCHANGED vars PROVE AgreeInv'
    <3>1. Undisturbed' <=> Undisturbed
      BY <2>1 DEF vars, Undisturbed, At
    <3>2. Agreement => Agreement'
      BY <2>1, StillAgree DEF vars, stages
    <3> QED
      BY <2>1, <3>1, <3>2 DEF AgreeInv
  <2> QED
    BY <2>1, NextInv, NextAgree
<1> QED
  BY <1>1, <1>2, PTL DEF Spec

(* As long as nobody is moved onto the seat he has: every client sees a    *)
(* stage that seats nobody twice, and, undisturbed, says one thing of      *)
(* every seat.                                                             *)
THEOREM StageIsAlwaysOK == Spec /\ [][~MovedOntoOwn]_vars => []StageOK
<1>1. SeatsInv /\ AgreeInv => StageOK
  BY SingleIsAlone DEF SeatsInv, StagesOK, AgreeInv, Agreement, StageOK, OneSeatEach
<1> QED
  BY <1>1, BothInv, PTL

(* Between changes the snapshot and the rows say the same.                 *)
THEOREM CopiesAlwaysAgree == Spec /\ [][~MovedOntoOwn]_vars => []CopiesAgree
<1>1. SeatsInv /\ AgreeInv => CopiesAgree
  BY DEF AgreeInv, Agreement, CopiesAgree
<1> QED
  BY <1>1, BothInv, PTL

(* Nobody is taken off his seat by a change that is not about him or it.   *)
THEOREM SeatsAreKept == Spec /\ [][~MovedOntoOwn]_vars => SeatIsKept
<1> DEFINE Keeps ==
             \A u \in Users, i \in Seats :
               (/\ Undisturbed' /\ Cold \notin {snap, snap'}
                /\ i \in SeatsOf(snap, u) \ SeatsOf(snap', u))
               => \E p \in Procs : Commit(p) /\ About(p, u, i)
<1>1. SeatsInv /\ AgreeInv /\ [Next]_vars => Keeps
  BY KeepsSeats
<1>2. SeatIsKept <=> [][Keeps]_vars
  BY DEF SeatIsKept
<1> QED
  BY <1>1, <1>2, BothInv, PTL DEF Spec

-----------------------------------------------------------------------------
(* Decisions.  Where a host approves and nobody restores, a request that   *)
(* somebody is being seated for has been accepted, and by one of them; and *)
(* the sweep has only late ones in hand.                                   *)
Deciding == ~scene.auto /\ \A p \in Calls : Op(p) # "restore"
Seating(p) ==
    Op(p) \in Seaters /\ pc[p] \in {"seat", "wait", "commit", "write", "promoted", "fail"}
Owns(p) ==
    /\ pc[p] \in {"choose", "accept"} => Op(p) \in {"approve", "retry"}
    /\ pc[p] \in {"seat", "promoted", "fail"} => Op(p) \in Seaters
    /\ Seating(p) => rq[job[p].req].late \/ rq[job[p].req].status = "ACCEPTED"
Decision ==
    /\ freed = {} /\ pc[Advancer] = "idle"
    /\ pc[Sweeper] = "expire" => \A r \in job[Sweeper].todo : r \in DOMAIN rq /\ rq[r].late
    /\ \A p \in Procs : Owns(p)
    /\ \A p, q \in Procs :
         p # q /\ Seating(p) /\ Seating(q) /\ job[p].req = job[q].req => rq[job[p].req].late
DecisionInv == Deciding => Decision

Decided == {"PROMOTED", "REJECTED", "CANCELLED"}
Stands ==
    \A r \in DOMAIN rq : ~rq[r].late /\ rq[r].status \in Decided => rq'[r].status = rq[r].status

(* What a step leaves of the requests, but that of an outcome or of a      *)
(* restoration.                                                            *)
Mild ==
    /\ DOMAIN rq \subseteq DOMAIN rq'
    /\ \A r \in DOMAIN rq :
         /\ rq[r].late => rq'[r].late
         /\ ~rq[r].late /\ rq[r].status \notin {"PENDING", "FAILED"}
               => rq'[r].status = rq[r].status

(* A step of p that seats for no request it did not seat for.              *)
Minds(p) ==
    /\ scene' = scene /\ freed' = {} /\ pc'[Advancer] = "idle"
    /\ \A q \in Procs \ {p} : pc'[q] = pc[q] /\ job'[q] = job[q]
    /\ pc'[p] \in {"choose", "accept"} => Op(p) \in {"approve", "retry"}
    /\ pc'[p] \in {"seat", "promoted", "fail"} => Op(p) \in Seaters
    /\ p = Sweeper /\ pc'[p] = "expire" =>
         \A r \in job'[p].todo : r \in DOMAIN rq' /\ rq'[r].late
    /\ Op(p) \in Seaters /\ pc'[p] \in {"seat", "wait", "commit", "write", "promoted", "fail"}
         => Seating(p) /\ job'[p].req = job[p].req

LEMMA SeatedReq ==
  ASSUME SeatsInv, NEW p \in Procs, Seating(p) PROVE job[p].req \in DOMAIN rq
BY HandOf DEF Seating, Hand

LEMMA MildStands == ASSUME Mild PROVE Stands
BY DEF Mild, Stands, Decided

LEMMA OpStays == ASSUME scene' = scene, NEW p PROVE Op(p)' = Op(p)
BY DEF Op

LEMMA MindsDecision ==
  ASSUME SeatsInv, Decision, Mild, NEW p \in Procs, Minds(p) PROVE Decision' /\ Stands
<1>1. \A q \in Procs : Op(q)' = Op(q)
  BY OpStays DEF Minds
<1>2. ASSUME NEW q \in Procs, Seating(q)'
      PROVE  Seating(q) /\ job'[q].req = job[q].req /\ job[q].req \in DOMAIN rq
  <2>1. Seating(q) /\ job'[q].req = job[q].req
    BY <1>1, <1>2 DEF Seating, Minds
  <2> QED
    BY <2>1, SeatedReq
<1>3. ASSUME NEW q \in Procs PROVE Owns(q)'
  <2>1. Seating(q)' => rq'[job'[q].req].late \/ rq'[job'[q].req].status = "ACCEPTED"
    BY <1>2 DEF Decision, Owns, Mild
  <2>2. pc'[q] \in {"choose", "accept"} => Op(q) \in {"approve", "retry"}
    BY DEF Minds, Decision, Owns
  <2>3. pc'[q] \in {"seat", "promoted", "fail"} => Op(q) \in Seaters
    BY DEF Minds, Decision, Owns
  <2> QED
    BY <1>1, <2>1, <2>2, <2>3 DEF Owns
<1>4. ASSUME NEW q \in Procs, NEW s \in Procs, q # s, Seating(q)', Seating(s)',
             job'[q].req = job'[s].req
      PROVE  rq'[job'[q].req].late
  <2>1. Seating(q) /\ Seating(s) /\ job[q].req = job[s].req /\ job[q].req \in DOMAIN rq
        /\ job'[q].req = job[q].req
    BY <1>2, <1>4
  <2> QED
    BY <1>4, <2>1 DEF Decision, Mild
<1>5. pc'[Sweeper] = "expire" => \A r \in job'[Sweeper].todo : r \in DOMAIN rq' /\ rq'[r].late
  <2>1. CASE p = Sweeper
    BY <2>1 DEF Minds
  <2>2. CASE p # Sweeper
    BY <2>2, ConstantsOK DEF Minds, Decision, Mild
  <2> QED
    BY <2>1, <2>2
<1>6. freed' = {} /\ pc'[Advancer] = "idle"
  BY DEF Minds
<1> QED
  BY <1>3, <1>4, <1>5, <1>6, MildStands DEF Decision

LEMMA StillDecision ==
  ASSUME SeatsInv, Decision, Mild, pc' = pc, job' = job, scene' = scene, freed' = freed
  PROVE  Decision' /\ Stands
<1>1. Advancer \in Procs
  BY ConstantsOK
<1>2. Minds(Advancer)
  BY <1>1, ConstantsOK, OpIs DEF Minds, Decision, Owns, Seating, Seaters
<1> QED
  BY <1>1, <1>2, MindsDecision

(* The steps that leave the requests as they are.                          *)
LEMMA SameIsMild == ASSUME rq' = rq PROVE Mild
BY DEF Mild

LEMMA SettleIsMild == ASSUME NEW u, rq' = Settle(u) PROVE Mild
BY DEF Mild, Settle

LEMMA CallIsSeater ==
  ASSUME NEW p \in Calls PROVE p \in Procs /\ p # Sweeper /\ p # Advancer /\ Op(p) = scene.call[p].op
BY ConstantsOK, OpIs

LEMMA LockedDecision ==
  ASSUME SeatsInv, ~scene.auto, Decision, NEW p \in Procs, Locked(p) PROVE Decision' /\ Stands
<1>0. p # Advancer
  <2>1. pc[p] # "idle"
    BY WriteIs DEF Locked, TakeSeat, LeaveSeat, SwitchSeat, LockSeat, UnlockSeat, ReserveSeat, ReleaseSeat,
       ConfigureLayout, WriteLayout, Commit, Tell, Enters, At
  <2> QED
    BY <2>1 DEF Decision
<1>1. job[p] \in Job /\ Hand(p, pc[p], job[p], DOMAIN rq) /\ freed = {} /\ pc[Advancer] = "idle"
  BY HandOf DEF Decision
<1>a. pc \in [Procs -> PcType] /\ job \in [Procs -> Job] /\ Advancer \in Procs
  BY TypesOf, ConstantsOK
<1>2. ASSUME At(p, "wait"), NEW next, NEW writes, NEW taken, NEW left,
             Change(p, next, writes, taken, left)
      PROVE  Minds(p) /\ Mild
  <2> DEFINE j == [job[p] EXCEPT !.next = next, !.writes = writes, !.taken = taken, !.left = left]
  <2>1. j.req = job[p].req
    BY <1>1 DEF Job
  <2>2. /\ pc' = [pc EXCEPT ![p] = "commit"] /\ job' = [job EXCEPT ![p] = j] /\ scene' = scene
        /\ freed' = freed /\ rq' = rq
    BY <1>2 DEF Change, Go, Hold, requests
  <2> HIDE DEF j
  <2> QED
    BY <1>0, <1>1, <1>a, <1>2, <2>1, <2>2, SameIsMild DEF Minds, Seating, At
<1>3. ASSUME At(p, "wait"), Refuse(p) PROVE Minds(p) /\ Mild
  <2>1. Refused(p) /\ scene' = scene /\ freed' = freed /\ rq' = rq
    BY <1>3 DEF Refuse, requests
  <2> QED
    BY <1>0, <1>1, <1>a, <1>3, <2>1, SameIsMild
    DEF Minds, Seating, At, Refused, End, Go, Hold, Home, Seaters
<1>4. ASSUME At(p, "wait"), NEW ok, NEW w, NEW taken, NEW left, Attempt(p, ok, w, taken, left)
      PROVE  Minds(p) /\ Mild
  BY <1>2, <1>3, <1>4 DEF Attempt
<1>5. TakeSeat(p) => Minds(p) /\ Mild
  BY <1>4 DEF TakeSeat, Enters
<1>6. LeaveSeat(p) => Minds(p) /\ Mild
  BY <1>2, <1>3 DEF LeaveSeat, Enters
<1>7. SwitchSeat(p) => Minds(p) /\ Mild
  BY <1>2, <1>3 DEF SwitchSeat, Enters
<1>8. LockSeat(p) => Minds(p) /\ Mild
  BY <1>4 DEF LockSeat, Enters
<1>9. UnlockSeat(p) => Minds(p) /\ Mild
  BY <1>4 DEF UnlockSeat, Enters
<1>10. ReserveSeat(p) => Minds(p) /\ Mild
  BY <1>4 DEF ReserveSeat, Enters
<1>11. ReleaseSeat(p) => Minds(p) /\ Mild
  BY <1>4 DEF ReleaseSeat, Enters
<1>12. ASSUME ConfigureLayout(p) PROVE Minds(p) /\ Mild
  <2>1. /\ Op(p) = "layout" /\ pc' = [pc EXCEPT ![p] = "layout"] /\ scene' = scene
        /\ freed' = freed /\ rq' = rq /\ \A q \in Procs \ {p} : job'[q] = job[q]
    BY <1>a, <1>12 DEF ConfigureLayout, Go, Hold, requests, Enters
  <2> QED
    BY <1>0, <1>1, <1>a, <2>1, SameIsMild DEF Minds, Seaters
<1>13. ASSUME WriteLayout(p) PROVE Minds(p) /\ Mild
  <2>1. /\ pc[p] = "layout" /\ pc' = [pc EXCEPT ![p] = "commit"] /\ scene' = scene
        /\ freed' = freed /\ rq' = rq /\ job' = job
    BY <1>13 DEF WriteLayout, Go, requests, At
  <2>2. Op(p) = "layout"
    BY <1>1, <2>1 DEF Hand
  <2> QED
    BY <1>0, <1>1, <1>a, <2>1, <2>2, SameIsMild DEF Minds, Seaters
<1>14. ASSUME Commit(p) PROVE Minds(p) /\ Mild
  <2>1. /\ pc[p] = "commit" /\ pc' = [pc EXCEPT ![p] = "write"] /\ scene' = scene
        /\ freed' = freed /\ rq' = rq /\ job' = job
    BY <1>14 DEF Commit, Go, requests, At
  <2> QED
    BY <1>0, <1>1, <1>a, <2>1, SameIsMild DEF Minds, Seating
<1>15. ASSUME WriteRow(p) PROVE Minds(p) /\ Mild
  <2>1. /\ pc[p] = "write" /\ scene' = scene /\ freed' = freed /\ rq' = rq
        /\ \/ End(p)
           \/ /\ pc' = pc
              /\ job' = [job EXCEPT ![p] = [job[p] EXCEPT !.writes = Tail(@)]]
    BY <1>15, WriteIs DEF At
  <2>2. [job[p] EXCEPT !.writes = Tail(@)].req = job[p].req
    BY <1>1 DEF Job
  <2> QED
    BY <1>0, <1>1, <1>a, <2>1, <2>2, SameIsMild
    DEF Minds, Seating, End, Go, Hold, Home
<1>16. ASSUME Tell(p) PROVE Minds(p) /\ Mild
  <2>1. /\ pc[p] = "write" /\ scene' = scene /\ freed' = freed /\ rq' = Settle(job[p].taken)
        /\ \/ Op(p) \in Seaters /\ pc' = [pc EXCEPT ![p] = "promoted"] /\ job' = job
           \/ Op(p) = "sweep" /\ pc' = [pc EXCEPT ![p] = "next"] /\ job' = job
           \/ End(p)
    BY <1>16 DEF Tell, At, Go, Seaters
  <2> QED
    BY <1>0, <1>1, <1>a, <2>1, SettleIsMild DEF Minds, Seating, End, Go, Hold, Home
<1>17. Minds(p) /\ Mild
  BY <1>5, <1>6, <1>7, <1>8, <1>9, <1>10, <1>11, <1>12, <1>13, <1>14, <1>15, <1>16 DEF Locked
<1> QED
  BY <1>17, MindsDecision

(* The steps of a call outside the lock.                                   *)
LEMMA CallDecision ==
  ASSUME SeatsInv, Deciding, Decision, NEW p \in Calls,
         CallStep(p), ~Accept(p)
  PROVE  Decision' /\ Stands
<1>0. /\ p \in Procs /\ p # Sweeper /\ p # Advancer /\ Op(p) = scene.call[p].op
      /\ Op(p) # "restore"
  BY CallIsSeater DEF Deciding
<1>1. /\ job[p] \in Job /\ Hand(p, pc[p], job[p], DOMAIN rq) /\ freed = {}
      /\ pc[Advancer] = "idle" /\ Owns(p)
  BY <1>0, HandOf DEF Decision
<1>a. pc \in [Procs -> PcType] /\ job \in [Procs -> Job] /\ Advancer \in Procs
  BY TypesOf, ConstantsOK
<1>2. ASSUME Begin(p) PROVE Minds(p) /\ Mild
  <2>1. /\ Op(p) \notin Seaters /\ scene' = scene /\ freed' = freed /\ rq' = rq
        /\ pc'[p] \in {"done", "wait"}
        /\ \A q \in Procs \ {p} : pc'[q] = pc[q] /\ job'[q] = job[q]
    BY <1>0, <1>2, <1>a DEF Begin, requests, End, Go, Hold, Carry, Home, Seaters
  <2> QED
    BY <1>0, <1>1, <1>a, <2>1, SameIsMild DEF Minds
<1>3. ASSUME LeaveRoom(p) PROVE Minds(p) /\ Mild
  <2>1. /\ scene' = scene /\ freed' = freed /\ rq' = rq /\ pc'[p] = "left"
        /\ \A q \in Procs \ {p} : pc'[q] = pc[q] /\ job'[q] = job[q]
    BY <1>0, <1>3, <1>a DEF LeaveRoom, requests, Go, Hold, Carry
  <2> QED
    BY <1>0, <1>1, <1>a, <2>1, SameIsMild DEF Minds
<1>4. ASSUME LeftRoom(p) PROVE Minds(p) /\ Mild
  <2>1. /\ Op(p) = "leaveRoom" /\ scene' = scene /\ freed' = freed /\ pc'[p] = "wait"
        /\ \A q \in Procs \ {p} : pc'[q] = pc[q] /\ job'[q] = job[q]
    BY <1>0, <1>1, <1>4, <1>a DEF LeftRoom, Go, Hand, At
  <2>2. Mild
    BY <1>4 DEF LeftRoom, Mild
  <2> QED
    BY <1>0, <1>1, <1>a, <2>1, <2>2 DEF Minds, Seaters
<1>5. ASSUME Look(p) PROVE Minds(p) /\ Mild
  <2>1. /\ scene' = scene /\ freed' = freed /\ rq' = rq /\ pc'[p] \in {"done", "fill"}
        /\ \A q \in Procs \ {p} : pc'[q] = pc[q] /\ job'[q] = job[q]
    BY <1>0, <1>5, <1>a DEF Look, requests, End, Go, Hold, Home
  <2> QED
    BY <1>0, <1>1, <1>a, <2>1, SameIsMild DEF Minds
<1>6. ASSUME Fill(p) PROVE Minds(p) /\ Mild
  <2>1. /\ scene' = scene /\ freed' = freed /\ rq' = rq /\ pc'[p] = "filled"
        /\ \A q \in Procs \ {p} : pc'[q] = pc[q] /\ job'[q] = job[q]
    BY <1>0, <1>6, <1>a DEF Fill, requests, Go, Hold
  <2> QED
    BY <1>0, <1>1, <1>a, <2>1, SameIsMild DEF Minds
<1>7. ASSUME Request(p) PROVE Minds(p) /\ Mild
  <2>1. /\ scene' = scene /\ freed' = freed /\ rq' = rq /\ pc'[p] \in {"done", "create"}
        /\ \A q \in Procs \ {p} : pc'[q] = pc[q] /\ job'[q] = job[q]
    BY <1>0, <1>7, <1>a DEF Request, requests, End, Go, Hold, Carry, Home
  <2> QED
    BY <1>0, <1>1, <1>a, <2>1, SameIsMild DEF Minds
<1>8. ASSUME CreateRequest(p) PROVE Minds(p) /\ Mild
  <2>1. /\ scene' = scene /\ freed' = freed /\ pc'[p] = "enqueue"
        /\ \A q \in Procs \ {p} : pc'[q] = pc[q] /\ job'[q] = job[q]
    BY <1>0, <1>8, <1>a DEF CreateRequest, Go
  <2>2. rq \in Seq(Asked)
    BY DEF SeatsInv, TypeOK
  <2>3. Mild
    BY <1>8, <2>2 DEF CreateRequest, Mild
  <2> QED
    BY <1>0, <1>1, <1>a, <2>1, <2>3 DEF Minds
<1>9. ASSUME Enqueue(p) PROVE Minds(p) /\ Mild
  <2>1. /\ scene' = scene /\ freed' = freed /\ rq' = rq
        /\ pc'[p] = "done" \/ (pc'[p] = "choose" /\ Op(p) = "retry")
        /\ \A q \in Procs \ {p} : pc'[q] = pc[q] /\ job'[q] = job[q]
    BY <1>0, <1>9, <1>a DEF Enqueue, End, Go, Hold, Home
  <2> QED
    BY <1>0, <1>1, <1>a, <2>1, SameIsMild DEF Minds
<1>10. ASSUME ReadRequest(p) PROVE Minds(p) /\ Mild
  <2>1. /\ scene' = scene /\ freed' = freed /\ rq' = rq
        /\ pc'[p] \in {"done", "swap"} \/ (pc'[p] = "choose" /\ Op(p) = "approve")
        /\ \A q \in Procs \ {p} : pc'[q] = pc[q] /\ job'[q] = job[q]
    BY <1>0, <1>10, <1>a DEF ReadRequest, requests, End, Go, Hold, Home
  <2> QED
    BY <1>0, <1>1, <1>a, <2>1, SameIsMild DEF Minds
<1>11. ASSUME Swap(p) PROVE Minds(p) /\ Mild
  <2>1. /\ scene' = scene /\ freed' = freed /\ pc'[p] \in {"done", "enqueue"}
        /\ \A q \in Procs \ {p} : pc'[q] = pc[q] /\ job'[q] = job[q]
    BY <1>0, <1>11, <1>a DEF Swap, End, Go, Hold, Home
  <2>2. \/ rq' = rq
        \/ /\ rq[job[p].req].status \in {"PENDING", "FAILED"}
           /\ \E s \in RequestStatuses : rq' = SetStatus(job[p].req, s)
    <3> DEFINE r == job[p].req
               from == IF Op(p) = "retry" THEN "FAILED" ELSE "PENDING"
    <3>1. CASE rq[r].status # from
      BY <1>0, <1>11, <3>1 DEF Swap
    <3>2. CASE rq[r].status = from /\ Op(p) = "retry"
      BY <1>0, <1>11, <3>2 DEF Swap, RequestStatuses
    <3>3. CASE rq[r].status = from /\ Op(p) # "retry"
      BY <1>0, <1>11, <3>3 DEF Swap, RequestStatuses
    <3> QED
      BY <3>1, <3>2, <3>3
  <2>3. rq \in Seq(Asked) /\ \A r \in DOMAIN rq : rq[r] \in Asked
    BY DEF SeatsInv, TypeOK
  <2>4. Mild
    BY <2>2, <2>3, SameIsMild DEF Mild, SetStatus, Asked
  <2> QED
    BY <1>0, <1>1, <1>a, <2>1, <2>4 DEF Minds
<1>12. ASSUME ChooseSeat(p) PROVE Minds(p) /\ Mild
  <2>1. /\ scene' = scene /\ freed' = freed /\ rq' = rq /\ pc[p] = "choose"
        /\ pc'[p] \in {"done", "accept"}
        /\ \A q \in Procs \ {p} : pc'[q] = pc[q] /\ job'[q] = job[q]
    BY <1>0, <1>12, <1>a DEF ChooseSeat, requests, End, Go, Hold, Carry, Home, At
  <2> QED
    BY <1>0, <1>1, <1>a, <2>1, SameIsMild DEF Minds, Owns
<1>13. Minds(p) /\ Mild
  BY <1>2, <1>3, <1>4, <1>5, <1>6, <1>7, <1>8, <1>9, <1>10, <1>11, <1>12 DEF CallStep
<1> QED
  BY <1>0, <1>13, MindsDecision

(* A request is accepted by one of those who would accept it.              *)
LEMMA AcceptDecision ==
  ASSUME SeatsInv, Deciding, Decision, NEW p \in Calls, Accept(p) PROVE Decision' /\ Stands
<1>0. p \in Procs /\ p # Sweeper /\ p # Advancer
  BY CallIsSeater
<1>1. /\ pc[p] = "accept" /\ Hand(p, pc[p], job[p], DOMAIN rq) /\ Op(p) \in {"approve", "retry"}
      /\ freed = {} /\ pc[Advancer] = "idle" /\ scene' = scene /\ freed' = freed
  BY <1>0, HandOf DEF Accept, At, Decision, Owns
<1>a. pc \in [Procs -> PcType] /\ job \in [Procs -> Job] /\ Advancer \in Procs /\ Sweeper \in Procs
  BY TypesOf, ConstantsOK
<1> DEFINE r == job[p].req
<1>2. CASE rq[r].status # "PENDING"
  <2>1. rq' = rq /\ pc'[p] = "done" /\ \A q \in Procs \ {p} : pc'[q] = pc[q] /\ job'[q] = job[q]
    BY <1>0, <1>2, <1>a DEF Accept, End, Go, Hold, Home
  <2>2. Minds(p) /\ Mild
    BY <1>0, <1>1, <1>a, <2>1, SameIsMild DEF Minds
  <2> QED
    BY <1>0, <2>2, MindsDecision
<1>3. CASE rq[r].status = "PENDING"
  <2>1. /\ rq' = [rq EXCEPT ![r].status = "ACCEPTED"] /\ job' = job
        /\ pc' = [pc EXCEPT ![p] = "seat"]
    BY <1>3 DEF Accept, SetStatus, Go
  <2>2. r \in DOMAIN rq /\ \A q \in DOMAIN rq : rq[q] \in Asked
    BY <1>1 DEF Hand, SeatsInv, TypeOK
  <2>3. /\ DOMAIN rq' = DOMAIN rq /\ rq'[r].status = "ACCEPTED"
        /\ \A q \in DOMAIN rq : rq'[q].late = rq[q].late
        /\ \A q \in DOMAIN rq \ {r} : rq'[q] = rq[q]
    BY <2>1, <2>2 DEF Asked
  <2>4. pc'[p] = "seat" /\ \A q \in Procs \ {p} : pc'[q] = pc[q]
    BY <1>0, <1>a, <2>1
  <2>5. \A q \in Procs : Op(q)' = Op(q)
    BY <1>1, OpStays
  <2>6. ~Seating(p)
    BY <1>1 DEF Seating
  <2>7. ASSUME NEW q \in Procs, q # p, Seating(q)'
        PROVE  /\ Seating(q) /\ job[q].req \in DOMAIN rq
               /\ job[q].req # r \/ rq[r].late
               /\ rq[job[q].req].late \/ (job[q].req # r /\ rq[job[q].req].status = "ACCEPTED")
    <3>1. Seating(q)
      BY <2>4, <2>5, <2>7 DEF Seating
    <3>2. rq[job[q].req].late \/ rq[job[q].req].status = "ACCEPTED"
      BY <3>1 DEF Decision, Owns
    <3> QED
      BY <1>3, <3>1, <3>2, SeatedReq
  <2>8. ASSUME NEW q \in Procs PROVE Owns(q)'
    <3>1. CASE q = p
      BY <1>1, <2>1, <2>3, <2>4, <2>5, <3>1 DEF Owns, Seaters
    <3>2. CASE q # p
      <4>1. Owns(q)
        BY DEF Decision
      <4>2. Seating(q)' => rq'[job'[q].req].late \/ rq'[job'[q].req].status = "ACCEPTED"
        BY <2>1, <2>3, <2>7, <3>2
      <4> QED
        BY <2>4, <2>5, <3>2, <4>1, <4>2 DEF Owns
    <3> QED
      BY <3>1, <3>2
  <2>9. ASSUME NEW q \in Procs, NEW s \in Procs, q # s, Seating(q)', Seating(s)',
               job'[q].req = job'[s].req
        PROVE  rq'[job'[q].req].late
    <3>1. CASE q # p /\ s # p
      BY <2>1, <2>3, <2>7, <2>9, <3>1 DEF Decision
    <3>2. CASE q = p
      BY <2>1, <2>2, <2>3, <2>7, <2>9, <3>2
    <3>3. CASE s = p
      BY <2>1, <2>2, <2>3, <2>7, <2>9, <3>3
    <3> QED
      BY <3>1, <3>2, <3>3
  <2>10. pc'[Sweeper] = "expire" => \A q \in job'[Sweeper].todo : q \in DOMAIN rq' /\ rq'[q].late
    BY <1>0, <1>a, <2>1, <2>3, <2>4 DEF Decision
  <2>11. freed' = {} /\ pc'[Advancer] = "idle"
    BY <1>0, <1>1, <1>a, <2>4
  <2>12. Stands
    BY <1>3, <2>3 DEF Stands, Decided
  <2> QED
    BY <2>8, <2>9, <2>10, <2>11, <2>12 DEF Decision
<1> QED
  BY <1>2, <1>3

(* The outcome of a seating is written to the request it accepted.         *)
LEMMA OutcomeDecision ==
  ASSUME SeatsInv, Decision, NEW p \in Procs, pc[p] \in {"promoted", "fail"},
         NEW st \in RequestStatuses, Outcome(p, st)
  PROVE  Decision' /\ Stands
<1>a. pc \in [Procs -> PcType] /\ job \in [Procs -> Job] /\ Advancer \in Procs /\ Sweeper \in Procs
  BY TypesOf, ConstantsOK
<1> DEFINE r == job[p].req
<1>0. Op(p) \in Seaters /\ Seating(p) /\ p # Sweeper /\ p # Advancer
  <2>1. Op(p) \in Seaters
    BY DEF Decision, Owns
  <2> QED
    BY <2>1, OpIs DEF Seating, Seaters, Decision
<1>1. /\ rq' = [rq EXCEPT ![r].status = st, ![r].tries = @ + 1] /\ scene' = scene /\ freed' = freed
      /\ pc'[p] = Home(p) /\ \A q \in Procs \ {p} : pc'[q] = pc[q] /\ job'[q] = job[q]
  BY <1>a DEF Outcome, End, Go, Hold
<1>2. r \in DOMAIN rq /\ \A q \in DOMAIN rq : rq[q] \in Asked
  BY <1>0, SeatedReq DEF SeatsInv, TypeOK
<1>3. /\ DOMAIN rq' = DOMAIN rq
      /\ \A q \in DOMAIN rq : rq'[q].late = rq[q].late
      /\ \A q \in DOMAIN rq \ {r} : rq'[q] = rq[q]
  BY <1>1, <1>2 DEF Asked
<1>4. rq[r].late \/ rq[r].status = "ACCEPTED"
  BY <1>0 DEF Decision, Owns
<1>5. \A q \in Procs : Op(q)' = Op(q)
  BY <1>1, OpStays
<1>6. ~Seating(p)'
  BY <1>1 DEF Seating, Home
<1>7. ASSUME NEW q \in Procs, Seating(q)'
      PROVE  /\ q # p /\ Seating(q) /\ job'[q] = job[q] /\ job[q].req \in DOMAIN rq
             /\ rq[job[q].req].late \/ (job[q].req # r /\ rq[job[q].req].status = "ACCEPTED")
  <2>1. q # p
    BY <1>6, <1>7
  <2>2. Seating(q) /\ job'[q] = job[q]
    BY <1>1, <1>5, <1>7, <2>1 DEF Seating
  <2>3. rq[job[q].req].late \/ rq[job[q].req].status = "ACCEPTED"
    BY <2>2 DEF Decision, Owns
  <2>4. job[q].req = r => rq[r].late
    BY <1>0, <2>1, <2>2 DEF Decision
  <2> QED
    BY <2>1, <2>2, <2>3, <2>4, SeatedReq
<1>8. ASSUME NEW q \in Procs PROVE Owns(q)'
  <2>1. Seating(q)' => rq'[job'[q].req].late \/ rq'[job'[q].req].status = "ACCEPTED"
    BY <1>3, <1>7
  <2>2. CASE q = p
    BY <1>1, <2>1, <2>2 DEF Owns, Home
  <2>3. CASE q # p
    BY <1>1, <1>5, <2>1, <2>3 DEF Owns, Decision
  <2> QED
    BY <2>2, <2>3
<1>9. ASSUME NEW q \in Procs, NEW s \in Procs, q # s, Seating(q)', Seating(s)',
             job'[q].req = job'[s].req
      PROVE  rq'[job'[q].req].late
  <2>1. Seating(q) /\ Seating(s) /\ job'[q] = job[q] /\ job'[s] = job[s] /\ job[q].req \in DOMAIN rq
    BY <1>7, <1>9
  <2> QED
    BY <1>3, <1>9, <2>1 DEF Decision
<1>10. pc'[Sweeper] = "expire" => \A q \in job'[Sweeper].todo : q \in DOMAIN rq' /\ rq'[q].late
  BY <1>0, <1>1, <1>3, <1>a DEF Decision
<1>11. freed' = {} /\ pc'[Advancer] = "idle"
  BY <1>0, <1>1, <1>a DEF Decision
<1>12. Stands
  BY <1>3, <1>4 DEF Stands, Decided
<1> QED
  BY <1>8, <1>9, <1>10, <1>11, <1>12 DEF Decision

LEMMA StepDecision ==
  ASSUME SeatsInv, Deciding, Decision, NEW p \in Procs, Step(p) PROVE Decision' /\ Stands
<1>1. /\ pc \in [Procs -> PcType] /\ job \in [Procs -> Job] /\ Advancer \in Procs
      /\ freed = {} /\ pc[Advancer] = "idle" /\ Owns(p)
  BY TypesOf, ConstantsOK DEF Decision
<1>2. CASE Locked(p)
  BY <1>2, LockedDecision DEF Deciding
<1>3. CASE SeatUser(p)
  <2>1. /\ pc[p] = "seat" /\ p # Advancer /\ scene' = scene /\ freed' = freed /\ rq' = rq
        /\ \A q \in Procs \ {p} : pc'[q] = pc[q] /\ job'[q] = job[q]
        /\ Op(p) \in Seaters /\ Op(p) # "sweep" /\ Seating(p)
        /\ \/ pc'[p] = "wait" /\ job'[p] = job[p]
           \/ pc'[p] = "fail" /\ job'[p] = job[p]
           \/ pc'[p] \in {"done", "next"}
    BY <1>1, <1>3, OpIs
    DEF SeatUser, requests, Refused, At, End, Go, Hold, Home, Owns, Seating, Seaters
  <2>2. Minds(p) /\ Mild
    BY <1>1, <2>1, OpIs, SameIsMild DEF Minds
  <2> QED
    BY <2>2, MindsDecision
<1>4. CASE Promoted(p)
  BY <1>4, OutcomeDecision DEF Promoted, At, RequestStatuses
<1>5. CASE Failed(p)
  BY <1>5, OutcomeDecision DEF Failed, At, RequestStatuses
<1>6. CASE GivesUp(p)
  <2>1. /\ pc[p] = "wait" /\ p # Advancer /\ scene' = scene /\ freed' = freed /\ rq' = rq
        /\ \A q \in Procs \ {p} : pc'[q] = pc[q] /\ job'[q] = job[q]
        /\ pc'[p] \in {"done", "idle"}
    BY <1>1, <1>6 DEF GivesUp, requests, At, End, Go, Hold, Home
  <2>2. Minds(p) /\ Mild
    BY <1>1, <2>1, SameIsMild DEF Minds
  <2> QED
    BY <2>2, MindsDecision
<1> QED
  BY <1>2, <1>3, <1>4, <1>5, <1>6 DEF Step

LEMMA TimerDecision ==
  ASSUME SeatsInv, Decision, Advance \/ NextCandidate \/ Sweep \/ Expire \/ NextHold
  PROVE  Decision' /\ Stands
<1> DEFINE s == Sweeper
<1>0. s \in Procs /\ s # Advancer /\ Op(s) = "sweep"
  BY ConstantsOK, OpIs
<1>1. /\ pc \in [Procs -> PcType] /\ job \in [Procs -> Job] /\ Advancer \in Procs
      /\ freed = {} /\ pc[Advancer] = "idle" /\ Owns(s)
  BY TypesOf, ConstantsOK DEF Decision
<1>2. ~Advance /\ ~NextCandidate
  BY <1>1 DEF Advance, NextCandidate, At
<1>3. CASE Sweep
  <2>1. /\ scene' = scene /\ freed' = freed /\ rq' = rq /\ pc'[s] = "expire"
        /\ \A q \in Procs \ {s} : pc'[q] = pc[q] /\ job'[q] = job[q]
        /\ job'[s].todo = Late
    BY <1>0, <1>1, <1>3 DEF Sweep, requests, Go, Hold, Blank
  <2>2. Minds(s) /\ Mild
    BY <1>0, <1>1, <2>1, SameIsMild DEF Minds, Seaters, Late
  <2> QED
    BY <1>0, <2>2, MindsDecision
<1>4. ASSUME NEW r \in job[s].todo, pc[s] = "expire", rq' = SetStatus(r, "EXPIRED"),
             Hold(s, [job[s] EXCEPT !.todo = @ \ {r}]), pc' = pc, scene' = scene, freed' = freed
      PROVE  Decision' /\ Stands
  <2>1. \A q \in job[s].todo : q \in DOMAIN rq /\ rq[q].late
    BY <1>4 DEF Decision
  <2>2. \A q \in DOMAIN rq : rq[q] \in Asked
    BY DEF SeatsInv, TypeOK
  <2>3. Mild /\ DOMAIN rq' = DOMAIN rq
    BY <1>4, <2>1, <2>2 DEF Mild, SetStatus, Asked
  <2>4. job[s] \in Job
    BY <1>0, <1>1
  <2>5. [job[s] EXCEPT !.todo = @ \ {r}].todo = job[s].todo \ {r}
    BY <2>4 DEF Job
  <2>6. job'[s].todo = job[s].todo \ {r} /\ \A q \in Procs \ {s} : job'[q] = job[q]
    BY <1>0, <1>1, <1>4, <2>5 DEF Hold
  <2>7. Minds(s)
    BY <1>0, <1>1, <1>4, <2>1, <2>3, <2>6 DEF Minds, Seaters, Mild
  <2> QED
    BY <1>0, <2>3, <2>7, MindsDecision
<1>5. ASSUME Go(s, "next"), Hold(s, [Blank EXCEPT !.todo = Reserved]), rq' = rq,
             scene' = scene, freed' = freed
      PROVE  Decision' /\ Stands
  <2>1. pc'[s] = "next" /\ \A q \in Procs \ {s} : pc'[q] = pc[q] /\ job'[q] = job[q]
    BY <1>0, <1>1, <1>5 DEF Go, Hold
  <2>2. Minds(s) /\ Mild
    BY <1>0, <1>1, <1>5, <2>1, SameIsMild DEF Minds
  <2> QED
    BY <1>0, <2>2, MindsDecision
<1>6. CASE Expire
  BY <1>4, <1>5, <1>6 DEF Expire, At
<1>7. CASE NextHold
  <2>1. /\ scene' = scene /\ freed' = freed /\ rq' = rq /\ pc'[s] \in {"next", "wait", "idle", "done"}
        /\ \A q \in Procs \ {s} : pc'[q] = pc[q] /\ job'[q] = job[q]
    BY <1>0, <1>1, <1>7 DEF NextHold, requests, At, End, Go, Hold, Home
  <2>2. Minds(s) /\ Mild
    BY <1>0, <1>1, <2>1, SameIsMild DEF Minds, Seaters
  <2> QED
    BY <1>0, <2>2, MindsDecision
<1> QED
  BY <1>2, <1>3, <1>6, <1>7

LEMMA NextDecision ==
  ASSUME SeatsInv, Deciding, Decision, [Next]_vars PROVE Decision' /\ Stands
<1>1. ASSUME NEW p \in Procs, Step(p) PROVE Decision' /\ Stands
  BY <1>1, StepDecision
<1>2. ASSUME NEW p \in Procs, Fault(p) PROVE Decision' /\ Stands
  <2>1. scene' = scene /\ freed' = freed /\ rq' = rq
    BY <1>2 DEF Fault, requests
  <2>2. CASE pc' = pc /\ job' = job
    BY <2>1, <2>2, SameIsMild, StillDecision
  <2>3. CASE End(p)
    <3>1. /\ pc \in [Procs -> PcType] /\ job \in [Procs -> Job] /\ Advancer \in Procs
          /\ freed = {} /\ pc[Advancer] = "idle"
      BY TypesOf, ConstantsOK DEF Decision
    <3>2. pc'[p] = Home(p) /\ \A q \in Procs \ {p} : pc'[q] = pc[q] /\ job'[q] = job[q]
      BY <2>3, <3>1 DEF End, Go, Hold
    <3>3. Home(p) \in {"idle", "done"} /\ (p = Advancer => Home(p) = "idle")
      BY ConstantsOK DEF Home
    <3>4. Minds(p) /\ Mild
      BY <2>1, <3>1, <3>2, <3>3, SameIsMild DEF Minds
    <3> QED
      BY <3>4, MindsDecision
  <2> QED
    BY <1>2, <2>2, <2>3 DEF Fault
<1>3. ASSUME NEW p \in Calls, CallStep(p) PROVE Decision' /\ Stands
  BY <1>3, CallDecision, AcceptDecision
<1>4. CASE Advance \/ NextCandidate \/ Sweep \/ Expire \/ NextHold
  BY <1>4, TimerDecision
<1>5. ASSUME pc' = pc, job' = job, scene' = scene, freed' = freed, rq' = rq
      PROVE  Decision' /\ Stands
  BY <1>5, SameIsMild, StillDecision
<1>6. ASSUME NEW i \in Seats, HoldLapses(i) PROVE Decision' /\ Stands
  BY <1>5, <1>6 DEF HoldLapses, requests
<1>7. ASSUME NEW r \in DOMAIN rq, RequestLapses(r) PROVE Decision' /\ Stands
  <2>1. \A q \in DOMAIN rq : rq[q] \in Asked
    BY DEF SeatsInv, TypeOK
  <2>2. Mild
    BY <1>7, <2>1 DEF RequestLapses, Mild, Asked
  <2> QED
    BY <1>7, <2>2, StillDecision DEF RequestLapses
<1>8. CASE SnapLapses \/ LockLapses \/ UNCHANGED vars
  BY <1>5, <1>8 DEF SnapLapses, LockLapses, vars, requests
<1> QED
  BY <1>1, <1>2, <1>3, <1>4, <1>6, <1>7, <1>8 DEF Next

(* A scene is played as it was set.                                        *)
LEMMA SceneStays == ASSUME [Next]_vars PROVE scene' = scene
<1>1. ASSUME NEW p \in Procs, Locked(p) PROVE scene' = scene
  <2>1. ASSUME NEW ok, NEW w, NEW taken, NEW left, Attempt(p, ok, w, taken, left)
        PROVE  scene' = scene
    BY <2>1 DEF Attempt, Change, Refuse
  <2>2. TakeSeat(p) => scene' = scene
    BY <2>1 DEF TakeSeat
  <2>3. LeaveSeat(p) => scene' = scene
    BY DEF LeaveSeat, Change, Refuse
  <2>4. SwitchSeat(p) => scene' = scene
    BY DEF SwitchSeat, Change, Refuse
  <2>5. LockSeat(p) \/ UnlockSeat(p) \/ ReserveSeat(p) \/ ReleaseSeat(p) => scene' = scene
    BY <2>1 DEF LockSeat, UnlockSeat, ReserveSeat, ReleaseSeat
  <2>6. ConfigureLayout(p) \/ WriteLayout(p) \/ Commit(p) \/ Tell(p) => scene' = scene
    BY DEF ConfigureLayout, WriteLayout, Commit, Tell
  <2>7. WriteRow(p) => scene' = scene
    BY WriteIs
  <2> QED
    BY <1>1, <2>2, <2>3, <2>4, <2>5, <2>6, <2>7 DEF Locked
<1>2. ASSUME NEW p \in Procs, Step(p) PROVE scene' = scene
  BY <1>1, <1>2 DEF Step, SeatUser, Promoted, Failed, Outcome, GivesUp
<1>3. ASSUME NEW p \in Calls, CallStep(p) PROVE scene' = scene
  BY <1>3 DEF CallStep, Begin, LeaveRoom, LeftRoom, Look, Fill, Request, CreateRequest, Enqueue,
              ReadRequest, Swap, ChooseSeat, Accept
<1>4. Advance \/ NextCandidate \/ Sweep \/ Expire \/ NextHold => scene' = scene
  BY DEF Advance, NextCandidate, Sweep, Expire, NextHold
<1>5. ASSUME NEW p \in Procs, Fault(p) PROVE scene' = scene
  BY <1>5 DEF Fault
<1> QED
  BY <1>2, <1>3, <1>4, <1>5
  DEF Next, HoldLapses, RequestLapses, SnapLapses, LockLapses, vars

LEMMA InitDecision == ASSUME Init PROVE DecisionInv
<1>1. freed = {} /\ \A p \in Procs : pc[p] = "idle"
  BY DEF Init
<1> QED
  BY <1>1, ConstantsOK DEF DecisionInv, Decision, Owns, Seating

(* What was cancelled, rejected or promoted stays so, in a room where a    *)
(* host approves and no reconnection restores.                             *)
THEOREM DecisionsStand == Spec => DecisionStands
<1> DEFINE Final ==
             \A r \in DOMAIN rq :
               (/\ ~scene.auto /\ \A p \in Calls : Op(p) # "restore"
                /\ ~rq[r].late /\ rq[r].status \in {"PROMOTED", "REJECTED", "CANCELLED"})
               => rq'[r].status = rq[r].status
<1>1. Init => SeatsInv /\ DecisionInv
  BY InitInv, InitDecision
<1>2. SeatsInv /\ DecisionInv /\ [Next]_vars => (SeatsInv /\ DecisionInv)'
  <2>1. ASSUME SeatsInv, DecisionInv, [Next]_vars PROVE DecisionInv'
    <3>1. SeatsInv' /\ scene' = scene
      BY <2>1, NextInv, SceneStays
    <3>2. Deciding' => Deciding
      BY <3>1, OpStays DEF Deciding
    <3> QED
      BY <2>1, <3>2, NextDecision DEF DecisionInv
  <2> QED
    BY <2>1, NextInv
<1>3. SeatsInv /\ DecisionInv /\ [Next]_vars => Final
  BY NextDecision DEF DecisionInv, Deciding, Stands, Decided
<1>4. DecisionStands <=> [][Final]_vars
  BY DEF DecisionStands
<1> QED
  BY <1>1, <1>2, <1>3, <1>4, PTL DEF Spec

-----------------------------------------------------------------------------
(* PK battles.                                                             *)

(* What a process holds at each step, of the parts that decide anything.   *)
JobInv ==
    /\ \A p \in BattleProcs :
         /\ battlePc[p] = "arm" => battleJob[p].op \in {"start", "end"}
         /\ battlePc[p] = "write" => battleJob[p].op \in {"CANCELLED", "PAUSED", "RECOVERING"}
    /\ battlePc["room"] = "tally" /\ battleJob["room"].op = "accept" =>
           \E p \in Players : invitation[p] = "ACCEPTED"

(* The row is held by one process at most, and it will be paid from there. *)
PayInv ==
    /\ \A p \in BattleProcs : battlePc[p] = "pay" =>
           pool = Nothing /\ Legal(status, "COMPLETED") /\ battleJob[p].status = status
    /\ \A p, q \in BattleProcs : battlePc[p] = "pay" /\ battlePc[q] = "pay" => p = q

(* Every player is asked before the battle counts as INVITED.              *)
WasAsked(p) == invitation[p] # Nothing
AskedInv ==
    /\ battlePc["room"] \in {"send", "invited"} => status \in {"CREATED"} \cup Terminal
    /\ battlePc["room"] = "send" => \A p \in Players : p \in battleJob["room"].todo \/ WasAsked(p)
    /\ \/ battlePc["room"] = "invited"
       \/ status \in {"INVITED", "PENDING", "ACCEPTED", "COUNTDOWN", "LIVE"} \cup Frozen
       => \A p \in Players : WasAsked(p)

IInv == BattleTypeOK /\ JobInv /\ PayInv /\ AskedInv /\ Agreed /\ ResultIsPaid

-----------------------------------------------------------------------------
USE BattleAssumption, StatusAssumption

LEMMA ProcsAre ==
  /\ "room" \in BattleProcs /\ "worker" \in BattleProcs /\ "sweep" \in BattleProcs
  /\ \A h \in Hosts : h \in BattleProcs /\ h \notin {"room", "worker", "sweep"}
BY DEF BattleProcs

(* What is legal: nothing from an end, and a result only from play.        *)
LEMMA LegalFacts ==
  ASSUME NEW from, NEW to, Legal(from, to)
  PROVE  /\ from \in Ongoing /\ from \notin Terminal /\ from # Nothing
         /\ to \in BattleStatuses
         /\ to = "COMPLETED" => from \in {"LIVE", "PAUSED", "RECOVERING"}
         /\ to = "ACCEPTED" => from \in {"INVITED", "PENDING"}
         /\ to \in {"PAUSED", "RECOVERING"} => from = "LIVE"
BY DEF Legal, Transitions, Ongoing, Terminal, PreLive, Frozen, BattleStatuses

LEMMA InitIsGood == BattleInit => IInv
<1> SUFFICES ASSUME BattleInit PROVE IInv
  OBVIOUS
<1>1. BattleTypeOK
  <2>1. NoJob \in JobType
    BY DEF NoJob, JobType, BattleStatuses
  <2> QED
    BY <2>1 DEF BattleInit, BattleTypeOK, BattlePcs, BattleStatuses
<1> QED
  BY <1>1, ProcsAre DEF BattleInit, IInv, JobInv, PayInv, AskedInv, Agreed, ResultIsPaid, Frozen,
       Terminal, Ongoing, PreLive

(* A process moves on: it alone, and within the type.                      *)
PcJobOK == battlePc \in [BattleProcs -> BattlePcs] /\ battleJob \in [BattleProcs -> JobType]

RowsOK ==
    /\ status \in BattleStatuses /\ resumeSeq \in 0 .. MaxResumes /\ endsIn \in 0 .. Countdown + Duration
    /\ invitation \in [Players -> {Nothing, "SENT", "ACCEPTED", "CLOSED"}]
    /\ given \subseteq Gifts /\ giftPc \in [Gifts -> {"idle", "scoring", "sent"}]
    /\ jobs \subseteq [kind : {"start", "end"}, seq : 0 .. MaxResumes, left : 0 .. Countdown + Duration]
    /\ battleFaults \in 0 .. MaxMishaps /\ cast \in Casts

LEMMA Moved ==
  ASSUME PcJobOK, NEW p \in BattleProcs, NEW l \in BattlePcs, NEW j \in JobType, Goto(p, l, j)
  PROVE  PcJobOK'
BY DEF PcJobOK, Goto

LEMMA Lands ==
  ASSUME PcJobOK, NEW p \in BattleProcs, NEW l, NEW j, Goto(p, l, j)
  PROVE  /\ battlePc'[p] = l /\ battleJob'[p] = j
         /\ \A q \in BattleProcs : q # p => battlePc'[q] = battlePc[q] /\ battleJob'[q] = battleJob[q]
BY DEF PcJobOK, Goto

LEMMA JobsMade ==
  /\ NoJob \in JobType
  /\ \A o \in BattleStatuses \cup Orders, s \in BattleStatuses : [NoJob EXCEPT !.op = o, !.status = s] \in JobType
  /\ \A o \in BattleStatuses \cup Orders : [NoJob EXCEPT !.op = o] \in JobType
  /\ \A o \in Orders, n \in 0 .. MaxResumes : [NoJob EXCEPT !.op = o, !.seq = n] \in JobType
  /\ \A o \in Orders, n \in 0 .. MaxResumes, d \in 0 .. Countdown + Duration :
         [NoJob EXCEPT !.op = o, !.seq = n, !.left = d] \in JobType
  /\ \A S \in SUBSET Players : [NoJob EXCEPT !.todo = S] \in JobType
  /\ \A j \in JobType, s \in BattleStatuses : [j EXCEPT !.status = s] \in JobType
  /\ \A j \in JobType, S \in SUBSET Gifts : [j EXCEPT !.seen = S] \in JobType
<1>1. NoJob \in JobType
  BY DEF NoJob, JobType, BattleStatuses
<1>2. \A o \in BattleStatuses \cup Orders, s \in BattleStatuses : [NoJob EXCEPT !.op = o, !.status = s] \in JobType
  BY <1>1 DEF JobType
<1>3. \A o \in BattleStatuses \cup Orders : [NoJob EXCEPT !.op = o] \in JobType
  BY <1>1 DEF JobType
<1>4. \A o \in Orders, n \in 0 .. MaxResumes : [NoJob EXCEPT !.op = o, !.seq = n] \in JobType
  BY <1>1 DEF JobType
<1>5. \A o \in Orders, n \in 0 .. MaxResumes, d \in 0 .. Countdown + Duration :
        [NoJob EXCEPT !.op = o, !.seq = n, !.left = d] \in JobType
  BY <1>1 DEF JobType
<1>6. \A S \in SUBSET Players : [NoJob EXCEPT !.todo = S] \in JobType
  BY <1>1 DEF JobType
<1>7. \A j \in JobType, s \in BattleStatuses : [j EXCEPT !.status = s] \in JobType
  BY DEF JobType
<1>8. \A j \in JobType, S \in SUBSET Gifts : [j EXCEPT !.seen = S] \in JobType
  BY DEF JobType
<1> QED
  BY <1>1, <1>2, <1>3, <1>4, <1>5, <1>6, <1>7, <1>8

LEMMA PcJobStep ==
  ASSUME PcJobOK, RowsOK, [BattleNext]_battleVars
  PROVE  PcJobOK'
<1>a. Countdown \in 0 .. Countdown + Duration /\ {"start", "end"} \subseteq Orders
  BY DEF Orders
<1>b. resumeSeq < MaxResumes => resumeSeq + 1 \in 0 .. MaxResumes
  BY DEF RowsOK
<1>c. \A q \in BattleProcs : \A x : battleJob[q].todo \ {x} \in SUBSET Players
  BY DEF PcJobOK, JobType
<1> USE ProcsAre, Moved, JobsMade DEF RowsOK, battleRow, ledger, Finish, BattlePcs
<1>1. ASSUME RoomStep PROVE PcJobOK'
  <2>1. CASE Invite
    BY <2>1 DEF Invite
  <2>2. CASE Send
    <3>1. PICK q \in battleJob["room"].todo :
            LET rest == battleJob["room"].todo \ {q}
            IN  Goto("room", IF rest = {} THEN "invited" ELSE "send", [NoJob EXCEPT !.todo = rest])
      BY <2>2 DEF Send
    <3> QED
      BY <3>1, <1>c
  <2>3. CASE Invited
    BY <2>3 DEF Invited
  <2>4. CASE Tally
    BY <2>4 DEF Tally
  <2>5. ASSUME NEW op \in {"accept", "reject"}, NEW p \in Players, Respond(op, p) PROVE PcJobOK'
    BY <2>5 DEF Respond, Orders, PcJobOK
  <2>6. CASE Cancel
    BY <2>6 DEF Cancel, BattleStatuses, Terminal
  <2>7. CASE Start
    BY <2>7, <1>a DEF Start
  <2>8. CASE Pause
    BY <2>8 DEF Pause, BattleStatuses, Ongoing, Frozen
  <2>9. CASE Resume
    BY <2>9, <1>a, <1>b DEF Resume, ToLive
  <2>10. CASE EndBattle
    BY <2>10 DEF EndBattle, Orders
  <2> QED
    BY <1>1, <2>1, <2>2, <2>3, <2>4, <2>5, <2>6, <2>7, <2>8, <2>9, <2>10 DEF RoomStep
<1>2. CASE HandleStart
  BY <1>2 DEF HandleStart, ToLive, Orders, PcJobOK
<1>3. CASE HandleEnd
  BY <1>3 DEF HandleEnd, Due, Orders, PcJobOK
<1>4. CASE Sweeping
  <2>1. CASE SweepSettles \/ SweepDeadRooms
    BY <2>1 DEF SweepSettles, SweepDeadRooms, ToSettle, Orders
  <2>2. CASE SweepCountdowns
    BY <2>2 DEF SweepCountdowns, ToLive, Orders
  <2>3. CASE SweepInvitations \/ Expired
    BY <2>3 DEF SweepInvitations, Expired
  <2>4. CASE SweepStranded
    BY <2>4 DEF SweepStranded, PcJobOK
  <2> QED
    BY <1>4, <2>1, <2>2, <2>3, <2>4 DEF Sweeping
<1>5. CASE Tick
  BY <1>5 DEF Tick, PcJobOK
<1>6. ASSUME NEW p \in BattleProcs, Goes(p) PROVE PcJobOK'
  <2>1. CASE Write(p)
    BY <2>1 DEF Write
  <2>2. CASE Arm(p)
    BY <2>2 DEF Arm
  <2>3. CASE SettleRead(p)
    BY <2>3 DEF SettleRead, PcJobOK
  <2>4. CASE Take(p)
    BY <2>4 DEF Take, PcJobOK
  <2>5. CASE Pay(p)
    BY <2>5 DEF Pay
  <2> QED
    BY <1>6, <2>1, <2>2, <2>3, <2>4, <2>5 DEF Goes
<1>7. ASSUME NEW p \in BattleProcs, Dies(p) PROVE PcJobOK'
  BY <1>7 DEF Dies
<1>8. ASSUME NEW h \in Hosts, HostDrop(h) \/ HostReturn(h) PROVE PcJobOK'
  <2>1. CASE HostDrop(h)
    BY <2>1 DEF HostDrop, BattleStatuses, Ongoing, Frozen
  <2>2. CASE HostReturn(h)
    BY <2>2, <1>a, <1>b DEF HostReturn, ToLive
  <2> QED
    BY <1>8, <2>1, <2>2
<1>9. ASSUME NEW g \in Gifts, GiftLooks(g) \/ GiftScores(g) PROVE PcJobOK'
  BY <1>9 DEF GiftLooks, GiftScores, PcJobOK
<1>10. CASE UNCHANGED battleVars
  BY <1>10 DEF battleVars, PcJobOK, battleRow, ledger
<1> QED
  BY <1>1, <1>2, <1>3, <1>4, <1>5, <1>6, <1>7, <1>8, <1>9, <1>10 DEF BattleNext

LEMMA RowsStep ==
  ASSUME PcJobOK, RowsOK, JobInv, [BattleNext]_battleVars
  PROVE  RowsOK'
<1> USE ProcsAre DEF RowsOK, battleRow, ledger, BattleStatuses
<1>1. ASSUME RoomStep PROVE RowsOK'
  <2>1. CASE Invite
    BY <2>1 DEF Invite, Ongoing, PreLive
  <2>2. CASE Send
    BY <2>2 DEF Send
  <2>3. CASE Invited
    BY <2>3 DEF Invited, Won, Ongoing, PreLive
  <2>4. CASE Tally
    BY <2>4 DEF Tally, Ongoing, PreLive, Terminal
  <2>5. ASSUME NEW op \in {"accept", "reject"}, NEW p \in Players, Respond(op, p) PROVE RowsOK'
    BY <2>5 DEF Respond
  <2>6. CASE Cancel
    BY <2>6 DEF Cancel
  <2>7. CASE Start
    BY <2>7 DEF Start, Ongoing
  <2>8. CASE Pause
    BY <2>8 DEF Pause, CancelEnd
  <2>9. CASE Resume
    BY <2>9 DEF Resume, ToLive, Ongoing
  <2>10. CASE EndBattle
    BY <2>10 DEF EndBattle
  <2> QED
    BY <1>1, <2>1, <2>2, <2>3, <2>4, <2>5, <2>6, <2>7, <2>8, <2>9, <2>10 DEF RoomStep
<1>2. CASE HandleStart
  BY <1>2 DEF HandleStart, ToLive, Ongoing
<1>3. CASE HandleEnd
  BY <1>3 DEF HandleEnd
<1>4. CASE Sweeping
  <2>1. CASE SweepSettles \/ SweepDeadRooms
    BY <2>1 DEF SweepSettles, SweepDeadRooms
  <2>2. CASE SweepCountdowns
    BY <2>2 DEF SweepCountdowns, ToLive, Ongoing
  <2>3. CASE SweepInvitations \/ Expired
    BY <2>3 DEF SweepInvitations, Expired, Terminal
  <2>4. CASE SweepStranded
    BY <2>4 DEF SweepStranded, Terminal
  <2> QED
    BY <1>4, <2>1, <2>2, <2>3, <2>4 DEF Sweeping
<1>5. CASE Tick
  BY <1>5 DEF Tick, Less
<1>6. ASSUME NEW p \in BattleProcs, Goes(p) PROVE RowsOK'
  <2>1. CASE Write(p)
    BY <2>1 , LegalFacts DEF Write, Won
  <2>2. CASE Arm(p)
    BY <2>2 DEF Arm, EnqueueJob, JobInv, PcJobOK, JobType
  <2>3. CASE SettleRead(p)
    BY <2>3 DEF SettleRead
  <2>4. CASE Take(p)
    BY <2>4 DEF Take
  <2>5. CASE Pay(p)
    BY <2>5 DEF Pay, Terminal
  <2> QED
    BY <1>6, <2>1, <2>2, <2>3, <2>4, <2>5 DEF Goes
<1>7. ASSUME NEW p \in BattleProcs, Dies(p) PROVE RowsOK'
  BY <1>7 DEF Dies, EnqueueJob, PcJobOK, JobType
<1>8. ASSUME NEW h \in Hosts, HostDrop(h) \/ HostReturn(h) PROVE RowsOK'
  BY <1>8 DEF HostDrop, HostReturn, CancelEnd, ToLive, Ongoing
<1>9. ASSUME NEW g \in Gifts, GiftLooks(g) \/ GiftScores(g) PROVE RowsOK'
  BY <1>9 DEF GiftLooks, GiftScores
<1>10. CASE UNCHANGED battleVars
  BY <1>10 DEF battleVars, battleRow, ledger
<1> QED
  BY <1>1, <1>2, <1>3, <1>4, <1>5, <1>6, <1>7, <1>8, <1>9, <1>10 DEF BattleNext

LEMMA TypeStep ==
  ASSUME IInv, [BattleNext]_battleVars
  PROVE  BattleTypeOK'
<1>1. PcJobOK /\ RowsOK
  BY DEF IInv, BattleTypeOK, PcJobOK, RowsOK
<1>2. PcJobOK' /\ RowsOK'
  BY <1>1, PcJobStep, RowsStep DEF IInv
<1> QED
  BY <1>2 DEF BattleTypeOK, PcJobOK, RowsOK

LEMMA JobsSay ==
  /\ \A o, n, d : [NoJob EXCEPT !.op = o, !.seq = n, !.left = d].op = o
  /\ \A o, s : [NoJob EXCEPT !.op = o, !.status = s].op = o
  /\ \A S : [NoJob EXCEPT !.todo = S].todo = S
BY DEF NoJob

LEMMA JobKept ==
  ASSUME PcJobOK, JobInv, NEW p \in BattleProcs, NEW l, NEW j, Goto(p, l, j),
         l = "arm" => j.op \in {"start", "end"},
         l = "write" => j.op \in {"CANCELLED", "PAUSED", "RECOVERING"},
         l = "tally" /\ j.op = "accept" => \E q \in Players : invitation'[q] = "ACCEPTED",
         \A q \in Players : invitation[q] = "ACCEPTED" => invitation'[q] = "ACCEPTED"
  PROVE  JobInv'
<1>1. \A q \in BattleProcs : battlePc'[q] = "arm" => battleJob'[q].op \in {"start", "end"}
  BY Lands DEF JobInv
<1>3. \A q \in BattleProcs : battlePc'[q] = "write" => battleJob'[q].op \in {"CANCELLED", "PAUSED", "RECOVERING"}
  BY Lands DEF JobInv
<1>2. battlePc'["room"] = "tally" /\ battleJob'["room"].op = "accept" =>
         \E q \in Players : invitation'[q] = "ACCEPTED"
  BY Lands, ProcsAre DEF JobInv
<1> QED
  BY <1>1, <1>2, <1>3 DEF JobInv

LEMMA PayStep ==
  ASSUME PcJobOK, RowsOK, JobInv, PayInv, ResultIsPaid, [BattleNext]_battleVars
  PROVE  (PayInv /\ ResultIsPaid)'
<1> USE ProcsAre, Lands, LegalFacts
        DEF battleRow, ledger, Finish, PayInv, ResultIsPaid, CanWrite
<1>1. ASSUME RoomStep PROVE (PayInv /\ ResultIsPaid)'
  <2>1. CASE Invite
    BY <2>1 DEF Invite, Terminal
  <2>2. CASE Send
    BY <2>2 DEF Send
  <2>3. CASE Invited
    BY <2>3 DEF Invited, Won
  <2>4. CASE Tally
    BY <2>4 DEF Tally, Won, Terminal
  <2>5. ASSUME NEW op \in {"accept", "reject"}, NEW p \in Players, Respond(op, p) PROVE (PayInv /\ ResultIsPaid)'
    BY <2>5 DEF Respond
  <2>6. CASE Cancel
    BY <2>6 DEF Cancel
  <2>7. CASE Start
    BY <2>7 DEF Start
  <2>8. CASE Pause
    BY <2>8 DEF Pause
  <2>9. CASE Resume
    BY <2>9 DEF Resume, ToLive
  <2>10. CASE EndBattle
    BY <2>10 DEF EndBattle
  <2> QED
    BY <1>1, <2>1, <2>2, <2>3, <2>4, <2>5, <2>6, <2>7, <2>8, <2>9, <2>10 DEF RoomStep
<1>2. CASE HandleStart
  BY <1>2 DEF HandleStart, ToLive
<1>3. CASE HandleEnd
  BY <1>3 DEF HandleEnd
<1>4. CASE Sweeping
  <2>1. CASE SweepSettles \/ SweepDeadRooms
    BY <2>1 DEF SweepSettles, SweepDeadRooms, ToSettle
  <2>2. CASE SweepCountdowns
    BY <2>2 DEF SweepCountdowns, ToLive
  <2>3. CASE SweepInvitations
    BY <2>3 DEF SweepInvitations
  <2>4. CASE Expired
    BY <2>4 DEF Expired
  <2>5. CASE SweepStranded
    BY <2>5 DEF SweepStranded, PreLive
  <2> QED
    BY <1>4, <2>1, <2>2, <2>3, <2>4, <2>5 DEF Sweeping
<1>5. CASE Tick
  BY <1>5 DEF Tick
<1>6. ASSUME NEW p \in BattleProcs, Goes(p) PROVE (PayInv /\ ResultIsPaid)'
  <2>1. CASE Write(p)
    BY <2>1 DEF Write, Won, Terminal, JobInv
  <2>2. CASE Arm(p)
    BY <2>2 DEF Arm
  <2>3. CASE SettleRead(p)
    BY <2>3 DEF SettleRead
  <2>4. CASE Take(p)
    <3>1. CASE Won(battleJob[p].status, "COMPLETED")
      <4>1. battlePc'[p] = "pay" /\ battleJob'[p].status = battleJob[p].status
        BY <2>4, <3>1 DEF Take, PcJobOK, JobType
      <4>2. pool = Nothing
        BY <3>1 DEF Won, Terminal
      <4> QED
        BY <2>4, <3>1, <4>1, <4>2 DEF Take, Won
    <3>2. CASE ~Won(battleJob[p].status, "COMPLETED")
      BY <2>4, <3>2 DEF Take
    <3> QED
      BY <3>1, <3>2
  <2>5. CASE Pay(p)
    <3>1. battleJob[p].seen \in SUBSET Gifts /\ given \in SUBSET Gifts
      BY DEF PcJobOK, JobType, RowsOK
    <3>2. PoolOf(battleJob[p].seen, given) # Nothing
      BY <3>1, PoolAssumption
    <3>3. \A q \in BattleProcs : battlePc'[q] # "pay"
      BY <2>5 DEF Pay
    <3>4. status' = "COMPLETED" /\ pool' # Nothing
      BY <2>5, <3>2 DEF Pay
    <3> QED
      BY <3>3, <3>4
  <2> QED
    BY <1>6, <2>1, <2>2, <2>3, <2>4, <2>5 DEF Goes
<1>7. ASSUME NEW p \in BattleProcs, Dies(p) PROVE (PayInv /\ ResultIsPaid)'
  BY <1>7 DEF Dies
<1>8. ASSUME NEW h \in Hosts, HostDrop(h) \/ HostReturn(h) PROVE (PayInv /\ ResultIsPaid)'
  BY <1>8 DEF HostDrop, HostReturn, ToLive
<1>9. ASSUME NEW g \in Gifts, GiftLooks(g) \/ GiftScores(g) PROVE (PayInv /\ ResultIsPaid)'
  BY <1>9 DEF GiftLooks, GiftScores
<1>10. CASE UNCHANGED battleVars
  BY <1>10 DEF battleVars
<1> QED
  BY <1>1, <1>2, <1>3, <1>4, <1>5, <1>6, <1>7, <1>8, <1>9, <1>10 DEF BattleNext

LEMMA LiveArms ==
  ASSUME PcJobOK, JobInv, NEW p \in BattleProcs, NEW from, NEW seq, ToLive(p, from, seq),
         invitation' = invitation
  PROVE  JobInv'
<1> DEFINE j == [NoJob EXCEPT !.op = "end", !.seq = seq, !.left = endsIn]
<1>1. Goto(p, "arm", j) /\ j.op = "end"
  BY DEF ToLive, NoJob
<1> QED
  BY <1>1, JobKept

LEMMA JobStep ==
  ASSUME PcJobOK, RowsOK, JobInv, [BattleNext]_battleVars
  PROVE  JobInv'
<1> USE ProcsAre, JobKept, JobsSay DEF battleRow, ledger, Finish
<1>1. ASSUME RoomStep PROVE JobInv'
  <2>1. CASE Invite
    BY <2>1 DEF Invite
  <2>2. CASE Send
    <3>1. battlePc'["room"] \in {"send", "invited"}
      BY <2>2, Lands DEF Send
    <3>2. \A q \in BattleProcs : q # "room" => battlePc'[q] = battlePc[q] /\ battleJob'[q] = battleJob[q]
      BY <2>2, Lands DEF Send
    <3> QED
      BY <3>1, <3>2 DEF JobInv
  <2>3. CASE Invited
    BY <2>3 DEF Invited
  <2>4. CASE Tally
    BY <2>4 DEF Tally
  <2>5. ASSUME NEW op \in {"accept", "reject"}, NEW p \in Players, Respond(op, p) PROVE JobInv'
    <3>1. CASE invitation[p] = "SENT"
      <4>1. Goto("room", "tally", [NoJob EXCEPT !.op = op, !.status = status])
        BY <2>5, <3>1 DEF Respond
      <4>2. invitation' = [invitation EXCEPT ![p] = IF op = "accept" THEN "ACCEPTED" ELSE "CLOSED"]
        BY <2>5, <3>1 DEF Respond
      <4>3. [NoJob EXCEPT !.op = op, !.status = status].op = op
        BY DEF NoJob
      <4>4. \A q \in Players : invitation[q] = "ACCEPTED" => invitation'[q] = "ACCEPTED"
        BY <3>1, <4>2 DEF RowsOK
      <4>5. op = "accept" => invitation'[p] = "ACCEPTED"
        BY <4>2 DEF RowsOK
      <4> DEFINE j == [NoJob EXCEPT !.op = op, !.status = status]
      <4>6. Goto("room", "tally", j) /\ j.op = op
        BY <4>1, <4>3
      <4> HIDE DEF j
      <4> QED
        BY <4>4, <4>5, <4>6
    <3>2. CASE invitation[p] # "SENT"
      BY <2>5, <3>2 DEF Respond, JobInv
    <3> QED
      BY <3>1, <3>2
  <2>6. CASE Cancel
    <3> DEFINE j == [NoJob EXCEPT !.op = "CANCELLED", !.status = status]
    <3>1. Goto("room", "write", j) /\ j.op = "CANCELLED"
      BY <2>6 DEF Cancel, NoJob
    <3> HIDE DEF j
    <3>2. \A q \in Players : invitation[q] = "ACCEPTED" => invitation'[q] = "ACCEPTED"
      BY <2>6 DEF Cancel, RowsOK
    <3> QED
      BY <3>1, <3>2
  <2>7. CASE Start
    <3> DEFINE j == [NoJob EXCEPT !.op = "start", !.seq = resumeSeq, !.left = Countdown]
    <3>1. Goto("room", "arm", j) /\ j.op = "start" /\ invitation' = invitation
      BY <2>7 DEF Start, NoJob
    <3> HIDE DEF j
    <3> QED
      BY <3>1
  <2>8. CASE Pause
    <3> DEFINE j == [NoJob EXCEPT !.op = "PAUSED", !.status = "LIVE"]
    <3>1. Goto("room", "write", j) /\ j.op = "PAUSED" /\ invitation' = invitation
      BY <2>8 DEF Pause, NoJob
    <3> HIDE DEF j
    <3> QED
      BY <3>1
  <2>9. CASE Resume
    BY <2>9, LiveArms DEF Resume
  <2>10. CASE EndBattle
    BY <2>10 DEF EndBattle
  <2> QED
    BY <1>1, <2>1, <2>2, <2>3, <2>4, <2>5, <2>6, <2>7, <2>8, <2>9, <2>10 DEF RoomStep
<1>2. CASE HandleStart
  BY <1>2, LiveArms DEF HandleStart, JobInv
<1>3. CASE HandleEnd
  BY <1>3 DEF HandleEnd, JobInv
<1>4. CASE Sweeping
  <2>1. CASE SweepSettles \/ SweepDeadRooms
    BY <2>1 DEF SweepSettles, SweepDeadRooms, ToSettle
  <2>2. CASE SweepCountdowns
    BY <2>2, LiveArms DEF SweepCountdowns
  <2>3. CASE SweepInvitations
    BY <2>3 DEF SweepInvitations, RowsOK
  <2>4. CASE Expired
    BY <2>4 DEF Expired
  <2>5. CASE SweepStranded
    BY <2>5 DEF SweepStranded, JobInv
  <2> QED
    BY <1>4, <2>1, <2>2, <2>3, <2>4, <2>5 DEF Sweeping
<1>5. CASE Tick
  BY <1>5 DEF Tick, JobInv
<1>6. ASSUME NEW p \in BattleProcs, Goes(p) PROVE JobInv'
  <2>1. CASE Write(p)
    BY <2>1 DEF Write
  <2>2. CASE Arm(p)
    BY <2>2 DEF Arm
  <2>3. CASE SettleRead(p)
    BY <2>3 DEF SettleRead
  <2>4. CASE Take(p)
    BY <2>4 DEF Take
  <2>5. CASE Pay(p)
    BY <2>5 DEF Pay
  <2> QED
    BY <1>6, <2>1, <2>2, <2>3, <2>4, <2>5 DEF Goes
<1>7. ASSUME NEW p \in BattleProcs, Dies(p) PROVE JobInv'
  BY <1>7 DEF Dies
<1>8. ASSUME NEW h \in Hosts, HostDrop(h) \/ HostReturn(h) PROVE JobInv'
  <2>1. CASE HostDrop(h)
    <3> DEFINE j == [NoJob EXCEPT !.op = "RECOVERING", !.status = "LIVE"]
    <3>1. Goto(h, "write", j) /\ j.op = "RECOVERING" /\ invitation' = invitation
      BY <2>1 DEF HostDrop, NoJob
    <3> HIDE DEF j
    <3> QED
      BY <3>1
  <2>2. CASE HostReturn(h)
    BY <2>2, LiveArms DEF HostReturn
  <2> QED
    BY <1>8, <2>1, <2>2
<1>9. ASSUME NEW g \in Gifts, GiftLooks(g) \/ GiftScores(g) PROVE JobInv'
  BY <1>9 DEF GiftLooks, GiftScores, JobInv
<1>10. CASE UNCHANGED battleVars
  BY <1>10 DEF battleVars, JobInv
<1> QED
  BY <1>1, <1>2, <1>3, <1>4, <1>5, <1>6, <1>7, <1>8, <1>9, <1>10 DEF BattleNext

LEMMA AskedStep ==
  ASSUME PcJobOK, RowsOK, JobInv, AskedInv, Agreed, PayInv, [BattleNext]_battleVars
  PROVE  (AskedInv /\ Agreed)'
<1> USE ProcsAre, Lands, JobsSay
        DEF battleRow, ledger, Finish, AskedInv, WasAsked, Agreed, Frozen
<1>1. ASSUME RoomStep PROVE (AskedInv /\ Agreed)'
  <2>1. CASE Invite
    <3>1. battlePc'["room"] = "send" /\ battleJob'["room"] = [NoJob EXCEPT !.todo = Players]
      BY <2>1 DEF Invite
    <3>2. battleJob'["room"].todo = Players
      BY <3>1 DEF NoJob
    <3> QED
      BY <2>1, <3>1, <3>2 DEF Invite
  <2>2. CASE Send
    <3>1. PICK q \in battleJob["room"].todo :
            /\ invitation' = [invitation EXCEPT ![q] = "SENT"]
            /\ LET rest == battleJob["room"].todo \ {q}
               IN  Goto("room", IF rest = {} THEN "invited" ELSE "send", [NoJob EXCEPT !.todo = rest])
      BY <2>2 DEF Send
    <3> DEFINE rest == battleJob["room"].todo \ {q}
    <3>2. battlePc'["room"] = (IF rest = {} THEN "invited" ELSE "send") /\ battleJob'["room"].todo = rest
      BY <3>1, Lands DEF NoJob
    <3>3. \A x \in Players : invitation'[x] = IF x = q THEN "SENT" ELSE invitation[x]
      BY <3>1 DEF RowsOK
    <3>4. \A x \in Players : x \in rest \/ WasAsked(x)'
      BY <2>2, <3>3 DEF Send
    <3>5. Agreed'
      BY <2>2, <3>3 DEF Send, Terminal
    <3> QED
      BY <2>2, <3>2, <3>3, <3>4, <3>5 DEF Send
  <2>3. CASE Invited
    BY <2>3, LegalFacts DEF Invited, Won
  <2>4. CASE Tally
    <3>1. battlePc'["room"] = "idle" /\ invitation' = invitation
      BY <2>4 DEF Tally
    <3>2. CASE status' = status
      BY <3>1, <3>2
    <3>3. CASE status' # status
      <4>1. /\ ~Outstanding
            /\ status' = IF battleJob["room"].op = "accept" THEN "ACCEPTED" ELSE "CANCELLED"
            /\ status' = "ACCEPTED" => status \in {"INVITED", "PENDING"}
        BY <2>4, <3>3, LegalFacts DEF Tally, Won
      <4>2. CASE status' = "ACCEPTED"
        <5>1. \A p \in Players : invitation[p] \in {"ACCEPTED", "CLOSED"}
          BY <4>1, <4>2 DEF Outstanding, RowsOK
        <5>2. \E p \in Players : invitation[p] = "ACCEPTED"
          BY <2>4, <4>1, <4>2 DEF Tally, JobInv
        <5> QED
          BY <3>1, <4>2, <5>1, <5>2
      <4> QED
        BY <3>1, <4>1, <4>2
    <3> QED
      BY <3>2, <3>3
  <2>5. ASSUME NEW op \in {"accept", "reject"}, NEW p \in Players, Respond(op, p) PROVE (AskedInv /\ Agreed)'
    <3>1. CASE invitation[p] = "SENT"
      <4>1. battlePc'["room"] = "tally" /\ status' = status
        BY <2>5, <3>1 DEF Respond
      <4>2. \A x \in Players : invitation'[x] =
               IF x = p THEN IF op = "accept" THEN "ACCEPTED" ELSE "CLOSED" ELSE invitation[x]
        BY <2>5, <3>1 DEF Respond, RowsOK
      <4> QED
        BY <2>5, <3>1, <4>1, <4>2 DEF Respond
    <3>2. CASE invitation[p] # "SENT"
      BY <2>5, <3>2 DEF Respond
    <3> QED
      BY <3>1, <3>2
  <2>6. CASE Cancel
    BY <2>6 DEF Cancel
  <2>7. CASE Start
    BY <2>7 DEF Start
  <2>8. CASE Pause
    BY <2>8 DEF Pause
  <2>9. CASE Resume
    BY <2>9 DEF Resume, ToLive
  <2>10. CASE EndBattle
    BY <2>10 DEF EndBattle
  <2> QED
    BY <1>1, <2>1, <2>2, <2>3, <2>4, <2>5, <2>6, <2>7, <2>8, <2>9, <2>10 DEF RoomStep
<1>2. CASE HandleStart
  BY <1>2 DEF HandleStart, ToLive, Terminal
<1>3. CASE HandleEnd
  BY <1>3 DEF HandleEnd
<1>4. CASE Sweeping
  <2>1. CASE SweepSettles \/ SweepDeadRooms
    BY <2>1 DEF SweepSettles, SweepDeadRooms, ToSettle
  <2>2. CASE SweepCountdowns
    BY <2>2 DEF SweepCountdowns, ToLive, Terminal
  <2>3. CASE SweepInvitations
    BY <2>3 DEF SweepInvitations
  <2>4. CASE Expired
    BY <2>4 DEF Expired, Terminal
  <2>5. CASE SweepStranded
    BY <2>5 DEF SweepStranded, Terminal
  <2> QED
    BY <1>4, <2>1, <2>2, <2>3, <2>4, <2>5 DEF Sweeping
<1>5. CASE Tick
  BY <1>5 DEF Tick
<1>6. ASSUME NEW p \in BattleProcs, Goes(p) PROVE (AskedInv /\ Agreed)'
  <2>1. CASE Write(p)
    BY <2>1, LegalFacts DEF Write, Won, JobInv, Terminal
  <2>2. CASE Arm(p)
    BY <2>2 DEF Arm
  <2>3. CASE SettleRead(p)
    BY <2>3 DEF SettleRead
  <2>4. CASE Take(p)
    BY <2>4 DEF Take
  <2>5. CASE Pay(p)
    BY <2>5, LegalFacts DEF Pay, PayInv
  <2> QED
    BY <1>6, <2>1, <2>2, <2>3, <2>4, <2>5 DEF Goes
<1>7. ASSUME NEW p \in BattleProcs, Dies(p) PROVE (AskedInv /\ Agreed)'
  BY <1>7 DEF Dies
<1>8. ASSUME NEW h \in Hosts, HostDrop(h) \/ HostReturn(h) PROVE (AskedInv /\ Agreed)'
  BY <1>8 DEF HostDrop, HostReturn, ToLive, Terminal
<1>9. ASSUME NEW g \in Gifts, GiftLooks(g) \/ GiftScores(g) PROVE (AskedInv /\ Agreed)'
  BY <1>9 DEF GiftLooks, GiftScores
<1>10. CASE UNCHANGED battleVars
  BY <1>10 DEF battleVars
<1> QED
  BY <1>1, <1>2, <1>3, <1>4, <1>5, <1>6, <1>7, <1>8, <1>9, <1>10 DEF BattleNext

THEOREM Invariance == BattleSpec => []IInv
<1>1. IInv /\ [BattleNext]_battleVars => IInv'
  <2> SUFFICES ASSUME IInv, [BattleNext]_battleVars PROVE IInv'
    OBVIOUS
  <2>1. PcJobOK /\ RowsOK /\ JobInv /\ PayInv /\ AskedInv /\ Agreed /\ ResultIsPaid
    BY DEF IInv, BattleTypeOK, PcJobOK, RowsOK
  <2> QED
    BY <2>1, TypeStep, JobStep, PayStep, AskedStep DEF IInv
<1> QED
  BY <1>1, InitIsGood, PTL DEF BattleSpec

(* Every part of the state keeps its shape.                                *)
THEOREM TypeCorrect == BattleSpec => []BattleTypeOK
BY Invariance, PTL DEF IInv

(* The result and its money are one commit, whoever settles and dies: a    *)
(* battle is COMPLETED exactly when its pool was written.                  *)
THEOREM AlwaysPaid == BattleSpec => []ResultIsPaid
BY Invariance, PTL DEF IInv

(* Nobody plays who was not asked, and nobody may still answer.            *)
THEOREM AlwaysAgreed == BattleSpec => []Agreed
BY Invariance, PTL DEF IInv

(* A finished battle stays as it finished.                                 *)
THEOREM AlwaysFinal == BattleSpec => FinalIsFinal
<1>1. IInv /\ [BattleNext]_battleVars => [(status \in Terminal) => UNCHANGED <<status, pool, resumeSeq>>]_battleVars
  <2> SUFFICES ASSUME IInv, [BattleNext]_battleVars, status \in Terminal
               PROVE  UNCHANGED <<status, pool, resumeSeq>>
    OBVIOUS
  <2>1. \A p \in BattleProcs : battlePc[p] # "pay"
    BY LegalFacts DEF IInv, PayInv
  <2>2. \A from, to : ~Won(from, to)
    BY LegalFacts DEF Won
  <2>3. \A p \in BattleProcs : \A from, seq : ToLive(p, from, seq) => from \in Terminal
    BY DEF ToLive
  <2> USE <2>1, <2>2, <2>3, ProcsAre DEF battleRow, ledger, Terminal
  <2>4. CASE RoomStep
    <3>1. ~Invite /\ ~Start
      BY DEF Invite, Start
    <3>2. ~Resume
      BY DEF Resume
    <3>3. CASE Send \/ Invited \/ Tally \/ Cancel \/ Pause \/ EndBattle
      BY <3>3 DEF Send, Invited, Tally, Cancel, Pause, EndBattle
    <3>4. ASSUME NEW op \in {"accept", "reject"}, NEW p \in Players, Respond(op, p)
          PROVE  UNCHANGED <<status, pool, resumeSeq>>
      BY <3>4 DEF Respond
    <3> QED
      BY <2>4, <3>1, <3>2, <3>3, <3>4 DEF RoomStep
  <2>5. CASE HandleStart \/ HandleEnd \/ Tick
    BY <2>5 DEF HandleStart, HandleEnd, Tick
  <2>6. CASE Sweeping
    BY <2>6 DEF Sweeping, SweepSettles, SweepDeadRooms, SweepCountdowns, SweepInvitations, Expired,
           SweepStranded, PreLive
  <2>7. ASSUME NEW p \in BattleProcs, Goes(p) \/ Dies(p) PROVE UNCHANGED <<status, pool, resumeSeq>>
    BY <2>7 DEF Goes, Write, Arm, SettleRead, Take, Pay, Dies
  <2>8. ASSUME NEW h \in Hosts, HostDrop(h) \/ HostReturn(h)
        PROVE  UNCHANGED <<status, pool, resumeSeq>>
    BY <2>8 DEF HostDrop, HostReturn
  <2>9. ASSUME NEW g \in Gifts, GiftLooks(g) \/ GiftScores(g)
        PROVE  UNCHANGED <<status, pool, resumeSeq>>
    BY <2>9 DEF GiftLooks, GiftScores
  <2>10. CASE UNCHANGED battleVars
    BY <2>10 DEF battleVars
  <2> QED
    BY <2>4, <2>5, <2>6, <2>7, <2>8, <2>9, <2>10 DEF BattleNext
<1> QED
  BY <1>1, Invariance, PTL DEF BattleSpec, FinalIsFinal
-----------------------------------------------------------------------------
(* The pool's arithmetic, which rounds down at every cut.                  *)

LEMMA MulMonotone ==
  ASSUME NEW c \in Nat, NEW a \in Int, NEW b \in Int, a <= b
  PROVE  c * a <= c * b
<1>1. c * (b - a) >= 0
  OBVIOUS
<1>2. c * (b - a) = c * b - c * a
  OBVIOUS
<1> QED
  BY <1>1, <1>2

(* A slice is no more than its share, in ten thousandths of the whole.     *)
LEMMA SliceFits ==
  ASSUME NEW a \in Nat, NEW b \in Nat
  PROVE  Slice(a, b) \in Nat /\ Slice(a, b) * 10000 <= a * b
<1>1. a * b \in Nat
  OBVIOUS
<1>2. \A x \in Nat : x \div 10000 \in Nat /\ (x \div 10000) * 10000 <= x
  OBVIOUS
<1> QED
  BY <1>1, <1>2 DEF Slice

(* What everybody gets of an even split adds up to no more than was split. *)
LEMMA SplitFits ==
  ASSUME NEW a \in Nat, NEW S, IsFiniteSet(S), S # {}
  PROVE  Split(a, S) \in Nat /\ Split(a, S) <= a
<1>1. \A n \in Nat \ {0} : a \div n \in Nat /\ n * (a \div n) \in Nat /\ n * (a \div n) <= a
  <2> SUFFICES ASSUME NEW n \in Nat, n # 0
               PROVE  a \div n \in Nat /\ n * (a \div n) \in Nat /\ n * (a \div n) <= a
    OBVIOUS
  <2>1. a \div n \in Nat /\ n * (a \div n) <= a
    OBVIOUS
  <2>2. \A k \in Nat : n * k \in Nat
    OBVIOUS
  <2> QED
    BY <2>1, <2>2
<1>2. Cardinality(S) \in Nat \ {0}
  BY FS_CardinalityType, FS_EmptySet
<1> QED
  BY <1>1, <1>2 DEF Split

LEMMA SharesFit ==
  ASSUME NEW s \in Nat, NEW a \in Nat, NEW b \in Nat, NEW c \in Nat, a + b + c <= 10000
  PROVE  s * a + s * b + s * c <= s * 10000
<1>1. s * a + s * b + s * c = s * (a + b + c)
  OBVIOUS
<1> QED
  BY <1>1, MulMonotone

LEMMA BpsAre ==
  PoolBps \in Nat /\ WinnerBps \in Nat /\ ParticipationBps \in Nat /\ BonusBps \in Nat
BY SplitAssumption

LEMMA GiftsAdd ==
  ASSUME NEW S \in SUBSET Gifts
  PROVE  SumOver(Worth, S) \in Nat
BY FiniteAssumption, SumNat DEF SumOver

(* The pool as a settlement writes it, from scores read before the coins   *)
(* were added up.                                                          *)
LEMMA PoolFits ==
  ASSUME NEW seen \in SUBSET Gifts, NEW S \in SUBSET Gifts
  PROVE  LET q == PoolOf(seen, S)
         IN  /\ q.size \in Nat /\ q.size * 10000 <= PoolBps * SumOver(Worth, S)
             /\ q.won + q.taken + q.bonus <= q.size
             /\ q.winner = Nothing => q.won = 0
<1> DEFINE q == PoolOf(seen, S)
           size == Slice(SumOver(Worth, S), PoolBps)
           winners == {p \in Players : Leaders(seen) = {Side[p]}}
<1>0. PoolBps \in Nat /\ WinnerBps \in Nat /\ ParticipationBps \in Nat /\ BonusBps \in Nat
  BY BpsAre
<1>1. size \in Nat /\ size * 10000 <= SumOver(Worth, S) * PoolBps
  <2> DEFINE source == SumOver(Worth, S)
  <2>1. source \in Nat
    BY GiftsAdd
  <2> HIDE DEF source
  <2>2. Slice(source, PoolBps) \in Nat /\ Slice(source, PoolBps) * 10000 <= source * PoolBps
    BY <1>0, <2>1, SliceFits
  <2> QED
    BY <2>2 DEF source
<1>2. /\ q.size = size
      /\ q.won = IF winners = {} THEN 0 ELSE Split(Slice(size, WinnerBps), winners)
      /\ q.taken = Split(Slice(size, ParticipationBps), Players)
      /\ q.bonus = IF S = {} THEN 0 ELSE Slice(size, BonusBps)
      /\ q.winner = IF winners = {} THEN Nothing ELSE CHOOSE t \in Leaders(seen) : TRUE
  BY DEF PoolOf
<1>3. q.size \in Nat /\ q.size * 10000 <= PoolBps * SumOver(Worth, S)
  <2>1. SumOver(Worth, S) * PoolBps = PoolBps * SumOver(Worth, S)
    BY <1>0, GiftsAdd
  <2> QED
    BY <1>1, <1>2, <2>1
<1>4. q.winner = Nothing => q.won = 0
  <2> SUFFICES ASSUME winners # {} PROVE q.winner # Nothing
    BY <1>2
  <2>1. PICK p \in Players : Leaders(seen) = {Side[p]}
    OBVIOUS
  <2>2. Side[p] \in Teams
    OBVIOUS
  <2>3. (CHOOSE t \in Leaders(seen) : TRUE) = Side[p]
    BY <2>1
  <2> QED
    BY <1>2, <2>2, <2>3
<1>5. /\ q.won \in Nat /\ q.won * 10000 <= size * WinnerBps
      /\ q.taken \in Nat /\ q.taken * 10000 <= size * ParticipationBps
      /\ q.bonus \in Nat /\ q.bonus * 10000 <= size * BonusBps
  <2>1. /\ Slice(size, WinnerBps) \in Nat /\ Slice(size, WinnerBps) * 10000 <= size * WinnerBps
        /\ Slice(size, ParticipationBps) \in Nat
        /\ Slice(size, ParticipationBps) * 10000 <= size * ParticipationBps
        /\ Slice(size, BonusBps) \in Nat /\ Slice(size, BonusBps) * 10000 <= size * BonusBps
    <3> HIDE DEF size, q
    <3> DEFINE WithinSlice(b) == Slice(size, b) \in Nat /\ Slice(size, b) * 10000 <= size * b
    <3>1. \A b \in Nat : WithinSlice(b)
      <4>1. size \in Nat
        BY <1>1
      <4> QED
        BY <4>1, SliceFits
    <3>2. WithinSlice(WinnerBps) /\ WithinSlice(ParticipationBps) /\ WithinSlice(BonusBps)
      <4> HIDE DEF WithinSlice
      <4> QED
        BY <1>0, <3>1, Zenon
    <3> QED
      BY <3>2
  <2>2. \A b \in Nat : size * b \in Nat
    BY <1>1
  <2> HIDE DEF size, q
  <2>3. q.won \in Nat /\ q.won <= Slice(size, WinnerBps)
    <3>1. CASE winners = {}
      BY <1>2, <2>1, <3>1
    <3>2. CASE winners # {}
      <4>1. IsFiniteSet(winners)
        BY FiniteAssumption, FS_Subset
      <4> HIDE DEF winners
      <4> QED
        BY <1>2, <2>1, <3>2, <4>1, SplitFits
    <3> QED
      BY <3>1, <3>2
  <2>4. q.taken \in Nat /\ q.taken <= Slice(size, ParticipationBps)
    <3>1. Players # {}
      BY DEF Range, Teams
    <3> QED
      BY <1>2, <2>1, <3>1, FiniteAssumption, SplitFits
  <2>5. q.bonus \in Nat /\ q.bonus <= Slice(size, BonusBps)
    BY <1>2, <2>1
  <2> QED
    BY <1>0, <2>1, <2>2, <2>3, <2>4, <2>5
<1>6. q.won + q.taken + q.bonus <= size
  <2>1. size * WinnerBps + size * ParticipationBps + size * BonusBps <= size * 10000
    BY <1>0, <1>1, SharesFit, SplitAssumption
  <2>2. size * WinnerBps \in Nat /\ size * ParticipationBps \in Nat /\ size * BonusBps \in Nat
    <3>1. \A b \in Nat : size * b \in Nat
      BY <1>1
    <3> QED
      BY <1>0, <3>1
  <2> HIDE DEF size, q
  <2> QED
    BY <1>1, <1>5, <2>1, <2>2
<1> QED
  BY <1>2, <1>3, <1>4, <1>6

(* A gift that commits after the settlement only adds to what was given.   *)
LEMMA MoreIsGiven ==
  ASSUME NEW S \in SUBSET Gifts, NEW g \in Gifts
  PROVE  SumOver(Worth, S) <= SumOver(Worth, S \cup {g})
<1>1. CASE g \in S
  <2>1. S \cup {g} = S
    BY <1>1
  <2>2. SumOver(Worth, S) <= SumOver(Worth, S)
    BY GiftsAdd
  <2> QED
    BY <2>1, <2>2, Zenon
<1>2. CASE g \notin S
  <2>1. IsFiniteSet(S) /\ \A x \in S \cup {g} : Worth[x] \in Int
    BY FiniteAssumption, FS_Subset
  <2>2. SumFunctionOnSet(Worth, S \cup {g}) = Worth[g] + SumFunctionOnSet(Worth, S)
    BY <1>2, <2>1, SumAdd
  <2>3. SumFunctionOnSet(Worth, S) \in Nat /\ Worth[g] \in Nat
    BY GiftsAdd DEF SumOver
  <2> QED
    BY <2>2, <2>3 DEF SumOver
<1> QED
  BY <1>1, <1>2

-----------------------------------------------------------------------------
(* PoolIsCovered is inductive with the type: the pool is written once and  *)
(* from what is given by then.                                             *)
PoolInv ==
    pool # Nothing =>
        /\ pool.size \in Nat
        /\ pool.size * 10000 <= PoolBps * SumOver(Worth, given)
        /\ pool.won + pool.taken + pool.bonus <= pool.size
        /\ pool.winner = Nothing => pool.won = 0

(* Who writes the pool, and who adds to what is given.                     *)
LEMMA PoolMoves ==
  ASSUME [BattleNext]_battleVars
  PROVE  \/ pool' = pool /\ given' = given
         \/ pool' = pool /\ \E g \in Gifts : given' = given \cup {g}
         \/ given' = given /\ \E p \in BattleProcs : pool' = PoolOf(battleJob[p].seen, given)
<1> USE DEF battleRow, ledger
<1>1. CASE RoomStep
  BY <1>1 DEF RoomStep, Invite, Send, Invited, Tally, Respond, Cancel, Start, Pause, Resume, EndBattle
<1>2. CASE HandleStart \/ HandleEnd \/ Tick
  BY <1>2 DEF HandleStart, HandleEnd, Tick
<1>3. CASE Sweeping
  BY <1>3 DEF Sweeping, SweepSettles, SweepDeadRooms, SweepCountdowns, SweepInvitations, Expired,
         SweepStranded
<1>4. ASSUME NEW p \in BattleProcs, Write(p) \/ Arm(p) \/ SettleRead(p) \/ Take(p) \/ Dies(p)
      PROVE  pool' = pool /\ given' = given
  BY <1>4 DEF Write, Arm, SettleRead, Take, Dies
<1>5. ASSUME NEW p \in BattleProcs, Pay(p)
      PROVE  given' = given /\ (pool' = pool \/ pool' = PoolOf(battleJob[p].seen, given))
  BY <1>5 DEF Pay
<1>6. ASSUME NEW h \in Hosts, HostDrop(h) \/ HostReturn(h)
      PROVE  pool' = pool /\ given' = given
  BY <1>6 DEF HostDrop, HostReturn
<1>7. ASSUME NEW g \in Gifts, GiftLooks(g) \/ GiftScores(g)
      PROVE  pool' = pool /\ (given' = given \/ given' = given \cup {g})
  BY <1>7 DEF GiftLooks, GiftScores
<1>8. CASE UNCHANGED battleVars
  BY <1>8 DEF battleVars
<1> QED
  BY <1>1, <1>2, <1>3, <1>4, <1>5, <1>6, <1>7, <1>8 DEF BattleNext, Goes

LEMMA PoolStep ==
  ASSUME BattleTypeOK, PoolInv, [BattleNext]_battleVars
  PROVE  PoolInv'
<1>0. given \in SUBSET Gifts /\ PoolBps \in Nat
  BY BpsAre DEF BattleTypeOK
<1>1. CASE pool' = pool /\ given' = given
  BY <1>1 DEF PoolInv
<1>2. ASSUME NEW g \in Gifts, pool' = pool, given' = given \cup {g} PROVE PoolInv'
  <2> DEFINE old == SumOver(Worth, given)
             new == SumOver(Worth, given \cup {g})
  <2>1. old \in Nat /\ new \in Nat /\ old <= new
    BY <1>0, GiftsAdd, MoreIsGiven
  <2>2. SumOver(Worth, given') = new
    BY <1>2
  <2> HIDE DEF old, new
  <2>3. PoolBps * old <= PoolBps * new /\ PoolBps * old \in Int /\ PoolBps * new \in Int
    BY <1>0, <2>1, MulMonotone
  <2>4. pool # Nothing => pool.size * 10000 <= PoolBps * new
    <3> SUFFICES ASSUME pool # Nothing PROVE pool.size * 10000 <= PoolBps * new
      OBVIOUS
    <3>1. pool.size \in Nat /\ pool.size * 10000 <= PoolBps * old
      BY DEF PoolInv, old
    <3> QED
      BY <2>3, <3>1
  <2> QED
    BY <1>2, <2>2, <2>4 DEF PoolInv
<1>3. ASSUME NEW p \in BattleProcs, given' = given, pool' = PoolOf(battleJob[p].seen, given) PROVE PoolInv'
  <2>1. battleJob[p].seen \in SUBSET Gifts
    BY DEF BattleTypeOK, JobType
  <2> DEFINE q == PoolOf(battleJob[p].seen, given)
  <2>2. /\ q.size \in Nat /\ q.size * 10000 <= PoolBps * SumOver(Worth, given)
        /\ q.won + q.taken + q.bonus <= q.size
        /\ q.winner = Nothing => q.won = 0
    BY <1>0, <2>1, PoolFits
  <2>3. pool' = q
    BY <1>3
  <2> HIDE DEF q
  <2> QED
    BY <1>3, <2>2, <2>3 DEF PoolInv
<1> QED
  BY PoolMoves, <1>1, <1>2, <1>3

(* The pool is a share of the coins really spent, and what is handed out   *)
(* never exceeds it, whatever is given late and however often it scored.   *)
THEOREM PoolIsAlwaysCovered == BattleSpec => []PoolIsCovered
<1>1. BattleInit => PoolInv
  BY DEF BattleInit, PoolInv
<1>2. BattleTypeOK /\ PoolInv /\ [BattleNext]_battleVars => PoolInv'
  BY PoolStep
<1>3. PoolInv => PoolIsCovered
  BY DEF PoolInv, PoolIsCovered
<1> QED
  BY <1>1, <1>2, <1>3, TypeCorrect, PTL DEF BattleSpec

(* A battle starts agreed and ends paid.                                   *)
THEOREM BattleIsAlwaysOK == BattleSpec => []BattleOK
BY TypeCorrect, AlwaysAgreed, AlwaysPaid, PoolIsAlwaysCovered, PTL DEF BattleOK
=============================================================================

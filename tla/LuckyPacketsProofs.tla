-------------------------- MODULE LuckyPacketsProofs --------------------------
(***************************************************************************)
(* Every slot of a lucky packet pays and a refunded packet pays nobody     *)
(* more, for any number of users, packets, claims, sweeping processes and  *)
(* crashes, any sizes of packets, and wallets that refuse at will.         *)
(* Assumed: no lock lapses while its holder works (~LocksLapse).           *)
(*                                                                         *)
(* Whoever has read a packet to draw from it or to refund it holds its     *)
(* lock until he has written (HoldInv), so what he read is what the row    *)
(* still says (DrawInv, SweepInv).  A refund is posted only for a packet   *)
(* that is due, and no draw begins for one (RefundInv).                    *)
(***************************************************************************)
EXTENDS LuckyPackets, Sums

-----------------------------------------------------------------------------
Holding == {"read", "apply", "credit", "stamp", "refund", "mark"}
Base(o) == o.total \div o.winners
Rest(o) == o.total % o.winners
(* Of the first Rest(o) slots of a FIXED packet, those still to be drawn.  *)
Extra(o, slots) == Greater(0, Rest(o) - (o.winners - slots))

JobOK ==
    /\ DOMAIN job = Procs
    /\ \A r \in Procs :
         /\ DOMAIN job[r] = {"packet", "key", "amount", "complete", "list"}
         /\ job[r].amount \in Int /\ job[r].complete \in BOOLEAN

(* A row is inserted for a call that was debited; before that it is empty. *)
RowInv ==
    /\ \A p \in Packets :
         /\ packet[p].status # "none" =>
              packet[p].key \in CreateKeys /\ OfferOf(p).total >= OfferOf(p).winners
         /\ packet[p].status = "none" => packet[p] = NoPacket /\ share[p] = <<>> /\ ~Due(p)
         /\ \A u \in DOMAIN share[p] : share[p][u] \in Int
    /\ \A r \in Procs : pc[r] = "insert" =>
         job[r].key \in CreateKeys /\ Offer[job[r].key].total >= Offer[job[r].key].winners

(* Who works on a packet has read which.                                   *)
WorkInv ==
    \A r \in Procs : pc[r] \in Holding =>
        /\ job[r].packet \in Packets /\ packet[job[r].packet].status # "none"
        /\ pc[r] \in {"read", "apply", "credit", "stamp"} => r \in Reqs

(* A credit pays the row that was written for it, and comes after it.      *)
CreditInv ==
    /\ \A r \in Reqs : pc[r] \in {"credit", "stamp"} =>
         /\ Caller[r] \in DOMAIN share[job[r].packet]
         /\ job[r].amount = share[job[r].packet][Caller[r]]
    /\ \A p \in Packets, u \in Users : ClaimKey(p, u) \in used => u \in DOMAIN share[p]

(* Who works on a packet holds its lock.                                   *)
LockInv == \A r \in Procs : pc[r] \in Holding => lock[job[r].packet] = r

(* What a draw was computed from is still so, and nothing was refunded.    *)
DrawInv ==
    \A r \in Reqs : pc[r] = "apply" =>
        LET p == job[r].packet IN
        /\ packet[p].status = "ACTIVE" /\ packet[p].slots > 0 /\ ~Refunded(p)
        /\ job[r].amount \in ClaimAmounts(packet[p])
        /\ job[r].complete <=> packet[p].slots <= 1

(* A sweep refunds what is left of a packet that is due and still open.    *)
SweepInv ==
    \A r \in Procs : pc[r] \in {"refund", "mark"} =>
        LET p == job[r].packet IN
        Due(p) /\ packet[p].status = "ACTIVE" /\ job[r].amount = packet[p].coins

RefundInv == \A p \in Packets : Refunded(p) => Due(p)

(* What is left of a FIXED packet is its remaining slots' even shares.     *)
FixedInv ==
    \A p \in Packets : packet[p].status # "none" =>
        LET o == OfferOf(p) IN
        /\ packet[p].slots \in 0 .. o.winners
        /\ o.dist = "FIXED" =>
             /\ packet[p].coins = packet[p].slots * Base(o) + Extra(o, packet[p].slots)
             /\ \A u \in DOMAIN share[p] : share[p][u] \in Base(o) .. (Base(o) + 1)

(* What holds of the rows even when a lock lapses under its holder, and    *)
(* what needs the locks.                                                   *)
ShapeInv == TypeOK /\ JobOK /\ RowInv /\ WorkInv
RowsInv == ShapeInv /\ CreditInv /\ SharesAddUp
HeldInv == LockInv /\ DrawInv /\ SweepInv /\ RefundInv
PaysInv == FixedInv /\ EverySlotPays
IInv == RowsInv /\ HeldInv /\ PaysInv

-----------------------------------------------------------------------------
(* Small facts.                                                            *)

LEMMA ProcsAre ==
  /\ None \notin Procs /\ Gone \notin Procs /\ \A r \in Reqs : r \in Procs
  /\ \A s \in Sweepers : s \in Procs
  /\ \A p \in Packets : p \in Locks
  /\ "monitor" \in Locks
BY ProcsAssumption DEF Procs, Locks

LEMMA OfferIs ==
  ASSUME NEW k \in CreateKeys
  PROVE  /\ Offer[k].creator \in Users /\ Offer[k].total \in Nat /\ Offer[k].winners \in Nat
         /\ Offer[k].winners > 0 /\ Offer[k].dist \in {"RANDOM", "FIXED"}
BY OfferAssumption DEF OfferType

LEMMA PacketIs ==
  ASSUME TypeOK, NEW p \in Packets
  PROVE  /\ packet[p].coins \in Int /\ packet[p].slots \in Int
         /\ packet[p].status \in {"none", "ACTIVE", "COMPLETED", "EXPIRED", "REFUNDED"}
         /\ DOMAIN packet[p] = {"status", "coins", "slots", "key"}
         /\ DOMAIN packet = Packets /\ DOMAIN share = Packets
BY DEF TypeOK

LEMMA Frees ==
  ASSUME TypeOK, NEW r, NEW ls, Free(r, ls), NEW l \in Locks
  PROVE  lock'[l] = IF l \in ls /\ lock[l] = r THEN None ELSE lock[l]
BY DEF Free

LEMMA Takes ==
  ASSUME TypeOK, NEW r, NEW l \in Locks, Take(r, l)
  PROVE  lock[l] = None /\ lock'[l] = r /\ \A k \in Locks : k # l => lock'[k] = lock[k]
BY DEF TypeOK, Take

LEMMA Goes ==
  ASSUME TypeOK, NEW r \in Procs, NEW l, Goto(r, l)
  PROVE  pc'[r] = l /\ \A q \in Procs : q # r => pc'[q] = pc[q]
BY DEF TypeOK, Goto

(* The wallet uses up a key, or knows it already.                          *)
LEMMA Posts ==
  ASSUME TypeOK, NEW k \in WalletKeys, NEW c, W!Post(k, c)
  PROVE  /\ gold' \in [Users -> [{GOLD} -> Int]] /\ used' = used \cup {k}
         /\ k \in used => gold' = gold
         /\ k \notin used =>
              /\ c \in WalletCalls
              /\ gold'[c.user][GOLD] = gold[c.user][GOLD] + W!Signed(c)
              /\ \A v \in Users : v # c.user => gold'[v] = gold[v]
<1>1. CASE k \in used
  BY <1>1 DEF W!Post, W!accounts, TypeOK
<1>2. CASE k \notin used
  <2>1. /\ used' = used \cup {k} /\ c \in WalletCalls
        /\ gold' = [gold EXCEPT ![c.user][c.cur] = @ + W!Signed(c)]
    BY <1>2 DEF W!Post, W!Move
  <2>2. W!Signed(c) \in Int /\ c.user \in Users /\ c.cur = GOLD
    BY <2>1 DEF W!Signed, W!Unmoved, WalletCalls
  <2>3. /\ gold' \in [Users -> [{GOLD} -> Int]]
        /\ gold'[c.user][GOLD] = gold[c.user][GOLD] + W!Signed(c)
        /\ \A v \in Users : v # c.user => gold'[v] = gold[v]
    <3> DEFINE d == W!Signed(c)
               u == c.user
    <3>1. gold' = [gold EXCEPT ![u] = [gold[u] EXCEPT ![GOLD] = gold[u][GOLD] + d]]
      BY <2>1, <2>2
    <3>2. d \in Int /\ u \in Users /\ gold \in [Users -> [{GOLD} -> Int]]
      BY <2>2 DEF TypeOK
    <3> HIDE DEF d, u
    <3>3. gold[u] \in [{GOLD} -> Int]
      BY <3>2
    <3>4. /\ [gold[u] EXCEPT ![GOLD] = gold[u][GOLD] + d] \in [{GOLD} -> Int]
          /\ [gold[u] EXCEPT ![GOLD] = gold[u][GOLD] + d][GOLD] = gold[u][GOLD] + d
      BY <3>2, <3>3
    <3>5. /\ gold' \in [Users -> [{GOLD} -> Int]]
          /\ gold'[u][GOLD] = gold[u][GOLD] + d
          /\ \A v \in Users : v # u => gold'[v] = gold[v]
      BY <3>1, <3>2, <3>4
    <3> QED
      BY <3>5 DEF d, u
  <2> QED
    BY <1>2, <2>1, <2>3
<1> QED
  BY <1>1, <1>2

LEMMA KeysAre ==
  /\ \A k \in CreateKeys : CreateKey(k) \in WalletKeys
  /\ \A p \in Packets, u \in Users : ClaimKey(p, u) \in WalletKeys
  /\ \A p \in Packets : RefundKey(p) \in WalletKeys
  /\ \A u \in Users : ReversalKey(u) \in WalletKeys
BY DEF WalletKeys

LEMMA RefundKeys ==
  ASSUME NEW p
  PROVE  /\ \A k : RefundKey(p) # CreateKey(k)
         /\ \A q, u : RefundKey(p) # ClaimKey(q, u)
         /\ \A u : RefundKey(p) # ReversalKey(u)
         /\ \A q : RefundKey(p) = RefundKey(q) => p = q
BY DEF RefundKey, CreateKey, ClaimKey, ReversalKey

-----------------------------------------------------------------------------
(* Who moves what.                                                         *)

ClaimActs(r) ==
    \/ \E k \in CreateKeys : CreateDebit(r, k)
    \/ CreateInsert(r)
    \/ \E p \in Packets : ClaimLock(r, p)
    \/ ClaimStep(r)
Acts(r) == (r \in Reqs /\ ClaimActs(r)) \/ (r \in Sweepers /\ SweepStep(r)) \/ Crash(r)
Around == UNCHANGED <<packet, share, stamped, pc, job>>

LEMMA NextIs ==
  [Next]_vars => \/ \E r \in Procs : Acts(r)
                 \/ Around /\ UNCHANGED lock
                 \/ Around /\ \E l \in Locks : LockExpires(l)
<1> SUFFICES ASSUME [Next]_vars
             PROVE  \/ \E r \in Procs : Acts(r)
                    \/ Around /\ UNCHANGED lock
                    \/ Around /\ \E l \in Locks : LockExpires(l)
  OBVIOUS
<1> USE ProcsAre
<1>1. CASE \E r \in Reqs : ClaimActs(r)
  BY <1>1 DEF Acts
<1>2. CASE \E s \in Sweepers : SweepStep(s)
  BY <1>2 DEF Acts
<1>3. CASE \E p \in Packets : Expire(p)
  BY <1>3 DEF Expire, Around
<1>4. CASE \E l \in Locks : LockExpires(l)
  BY <1>4 DEF LockExpires, Around, rows
<1>5. CASE \E r \in Procs : Crash(r)
  BY <1>5 DEF Acts
<1>6. CASE \E u \in Users : ReversePurchase(u)
  BY <1>6 DEF ReversePurchase, Around, rows
<1>7. CASE UNCHANGED vars
  BY <1>7 DEF vars, Around
<1> QED
  BY <1>1, <1>2, <1>3, <1>4, <1>5, <1>6, <1>7 DEF Next, ClaimActs

(* A step of one process leaves the others where they are.                 *)
Same(q) == /\ pc'[q] = pc[q] /\ job'[q].packet = job[q].packet /\ job'[q].key = job[q].key
           /\ job'[q].amount = job[q].amount /\ job'[q].complete = job[q].complete
Idles(r) == pc'[r] \in {"idle", "done", "next"}
Lets(r) == \A l \in Locks : \/ lock'[l] = lock[l] \/ lock[l] = None
                            \/ lock[l] = r /\ Idles(r)

LEMMA FinishIs ==
  ASSUME TypeOK, NEW r \in Procs, Finish(r)
  PROVE  Idles(r) /\ Lets(r) /\ \A q \in Procs : q # r => pc'[q] = pc[q]
BY Frees, Goes, ProcsAre DEF Finish, Idles, Lets

LEMMA EndSweepIs ==
  ASSUME TypeOK, NEW r \in Procs, EndSweep(r)
  PROVE  Idles(r) /\ Lets(r) /\ \A q \in Procs : q # r => pc'[q] = pc[q]
BY Frees, Goes DEF EndSweep, Idles, Lets

(* What a step of a process makes of its position and of its locks.        *)
Arrives(r) ==
    \/ Idles(r)
    \/ Same(r)
    \/ r \in Reqs /\ pc'[r] = "insert" /\ \E k \in CreateKeys : CreateDebit(r, k) /\ job'[r].key = k
    \/ /\ r \in Reqs /\ pc'[r] = "read" /\ UNCHANGED <<packet, share>>
       /\ job'[r].packet \in Packets /\ lock'[job'[r].packet] = r
       /\ packet[job'[r].packet].status # "none"
    \/ /\ r \in Reqs /\ pc[r] = "read" /\ pc'[r] = "apply" /\ ClaimRead(r)
       /\ Claimable(job[r].packet) /\ job'[r].packet = job[r].packet
       /\ job'[r].amount \in ClaimAmounts(packet[job[r].packet])
       /\ job'[r].complete <=> packet[job[r].packet].slots <= 1
    \/ r \in Reqs /\ pc[r] = "apply" /\ pc'[r] = "credit" /\ ApplyClaim(r) /\ job' = job
    \/ r \in Reqs /\ pc[r] = "credit" /\ pc'[r] = "stamp" /\ ClaimCredit(r) /\ job' = job
    \/ /\ pc'[r] = "refund" /\ UNCHANGED <<packet, share, overdue, used>>
       /\ job'[r].packet \in Packets /\ lock'[job'[r].packet] = r
       /\ Due(job'[r].packet) /\ packet[job'[r].packet].status = "ACTIVE"
       /\ job'[r].amount = packet[job'[r].packet].coins
    \/ pc[r] = "refund" /\ pc'[r] = "mark" /\ SweepRefund(r) /\ job' = job
Moves(r) == /\ Lets(r) /\ Arrives(r)
            /\ DOMAIN job' = Procs /\ DOMAIN job'[r] = DOMAIN job[r]
            /\ \A q \in Procs : q # r => pc'[q] = pc[q] /\ job'[q] = job[q]
            /\ job'[r].amount \in Int /\ job'[r].complete \in BOOLEAN

LEMMA CreateMoves ==
  ASSUME ShapeInv, NEW r \in Reqs, NEW k \in CreateKeys, CreateDebit(r, k)
  PROVE  Moves(r)
<1>1. /\ Goto(r, "insert") /\ job' = [job EXCEPT ![r].key = k] /\ lock' = lock /\ r \in Procs
  BY ProcsAre DEF CreateDebit
<1>2. pc'[r] = "insert" /\ \A q \in Procs : q # r => pc'[q] = pc[q]
  BY <1>1, Goes DEF ShapeInv
<1>3. /\ job'[r].key = k /\ DOMAIN job' = Procs /\ DOMAIN job'[r] = DOMAIN job[r]
      /\ \A q \in Procs : q # r => job'[q] = job[q]
      /\ job'[r].amount = job[r].amount /\ job'[r].complete = job[r].complete
  BY <1>1 DEF ShapeInv, JobOK
<1> QED
  BY <1>1, <1>2, <1>3 DEF Moves, Arrives, Lets, ShapeInv, JobOK

LEMMA InsertMoves ==
  ASSUME ShapeInv, NEW r \in Reqs, CreateInsert(r)
  PROVE  Moves(r)
BY Goes, ProcsAre DEF CreateInsert, Moves, Arrives, Lets, ShapeInv, JobOK, Idles

LEMMA LockMoves ==
  ASSUME ShapeInv, NEW r \in Reqs, NEW p \in Packets, ClaimLock(r, p)
  PROVE  Moves(r)
<1>1. /\ Goto(r, "read") /\ job' = [job EXCEPT ![r].packet = p] /\ Take(r, p) /\ r \in Procs
      /\ packet[p].status # "none" /\ p \in Locks /\ UNCHANGED <<packet, share>>
  BY ProcsAre DEF ClaimLock, rows
<1>2. pc'[r] = "read" /\ \A q \in Procs : q # r => pc'[q] = pc[q]
  BY <1>1, Goes DEF ShapeInv
<1>3. /\ job'[r].packet = p /\ DOMAIN job' = Procs /\ DOMAIN job'[r] = DOMAIN job[r]
      /\ \A q \in Procs : q # r => job'[q] = job[q]
      /\ job'[r].amount = job[r].amount /\ job'[r].complete = job[r].complete
  BY <1>1 DEF ShapeInv, JobOK
<1>4. lock'[p] = r /\ Lets(r)
  BY <1>1, Takes DEF ShapeInv, Lets
<1> QED
  BY <1>1, <1>2, <1>3, <1>4 DEF Moves, Arrives, ShapeInv, JobOK

LEMMA Divides ==
  ASSUME NEW a \in Int, NEW b \in Nat \ {0}
  PROVE  /\ a \div b \in Int /\ a % b \in 0 .. (b - 1) /\ a = b * (a \div b) + (a % b)
         /\ a >= b => a \div b >= 1
         /\ a >= 0 => a \div b >= 0
OBVIOUS

(* What computeClaimAmount may draw is a whole number of coins.            *)
LEMMA AmountsAre ==
  ASSUME ShapeInv, NEW p \in Packets, packet[p].status # "none", NEW a \in ClaimAmounts(packet[p])
  PROVE  LET o == OfferOf(p) IN
         /\ a \in Int /\ o = Offer[packet[p].key] /\ packet[p].key \in CreateKeys
         /\ packet[p].slots <= 1 => a = packet[p].coins
         /\ packet[p].slots > 1 /\ o.dist = "FIXED" =>
              a = Base(o) + (IF o.winners - packet[p].slots < Rest(o) THEN 1 ELSE 0)
         /\ packet[p].slots > 1 /\ o.dist # "FIXED" =>
              a >= 1 /\ (a <= packet[p].coins - (packet[p].slots - 1) \/ a = 1)
<1> DEFINE row == packet[p]
           o == Offer[row.key]
<1>1. /\ row.key \in CreateKeys /\ row.coins \in Int /\ row.slots \in Int /\ OfferOf(p) = o
      /\ o.total \in Nat /\ o.winners \in Nat /\ o.winners > 0
  BY PacketIs, OfferIs DEF ShapeInv, RowInv, OfferOf
<1>2. o.total \div o.winners \in Int /\ o.total % o.winners \in Int
  <2>1. o.total \in Int /\ o.winners \in Nat \ {0}
    BY <1>1
  <2>2. \A a1 \in Int, b1 \in Nat \ {0} : a1 \div b1 \in Int /\ a1 % b1 \in Int
    BY Divides
  <2> HIDE DEF o
  <2> QED
    BY <2>1, <2>2, Zenon
<1>3. CASE row.slots <= 1
  BY <1>1, <1>3 DEF ClaimAmounts
<1>4. CASE row.slots > 1 /\ o.dist = "FIXED"
  <2>1. a \in {o.total \div o.winners + IF o.winners - row.slots < o.total % o.winners THEN 1 ELSE 0}
    BY <1>1, <1>4 DEF ClaimAmounts
  <2> HIDE DEF o, row
  <2>2. a = Base(o) + (IF o.winners - row.slots < Rest(o) THEN 1 ELSE 0) /\ a \in Int
    BY <2>1, <1>2 DEF Base, Rest
  <2> QED
    BY <1>1, <1>4, <2>2 DEF row, o
<1>5. CASE row.slots > 1 /\ o.dist # "FIXED"
  <2>1. a \in 1 .. Greater(1, Lesser(row.coins - (row.slots - 1),
                                      Greater(1, (2 * row.coins) \div row.slots)))
    BY <1>1, <1>5 DEF ClaimAmounts
  <2>2. (2 * row.coins) \div row.slots \in Int
    <3>1. 2 * row.coins \in Int /\ row.slots \in Nat \ {0}
      BY <1>1, <1>5
    <3> HIDE DEF row
    <3> QED
      BY <3>1, Divides
  <2>3. a \in Int /\ a >= 1 /\ (a <= row.coins - (row.slots - 1) \/ a = 1)
    <3> DEFINE d == (2 * row.coins) \div row.slots
               c == row.coins
               n == row.slots
    <3>1. d \in Int /\ c \in Int /\ n \in Int /\ a \in 1 .. Greater(1, Lesser(c - (n - 1), Greater(1, d)))
      BY <1>1, <2>1, <2>2
    <3> HIDE DEF d, c, n
    <3>2. a \in Int /\ a >= 1 /\ (a <= c - (n - 1) \/ a = 1)
      BY <3>1 DEF Greater, Lesser
    <3> QED
      BY <3>2 DEF c, n
  <2> QED
    BY <1>1, <1>5, <2>3
<1> QED
  BY <1>1, <1>3, <1>4, <1>5

LEMMA ReadMoves ==
  ASSUME ShapeInv, NEW r \in Reqs, ClaimRead(r)
  PROVE  Moves(r)
<1> DEFINE p == job[r].packet
<1>1. pc[r] = "read" /\ r \in Procs
  BY ProcsAre DEF ClaimRead
<1>2. p \in Packets /\ packet[p].status # "none"
  BY <1>1 DEF ShapeInv, WorkInv, Holding
<1>3. CASE Claimable(p)
  <2>1. PICK a \in ClaimAmounts(packet[p]) :
             job' = [job EXCEPT ![r].amount = a, ![r].complete = packet[p].slots <= 1]
    BY <1>3 DEF ClaimRead
  <2>2. Goto(r, "apply") /\ lock' = lock
    BY <1>3 DEF ClaimRead
  <2>3. a \in Int
    BY <1>2, AmountsAre
  <2>4. /\ job'[r].amount = a /\ job'[r].complete = (packet[p].slots <= 1)
        /\ job'[r].packet = p /\ DOMAIN job' = Procs /\ DOMAIN job'[r] = DOMAIN job[r]
        /\ \A q \in Procs : q # r => job'[q] = job[q]
    BY <1>1, <2>1 DEF ShapeInv, JobOK
  <2>5. pc'[r] = "apply" /\ \A q \in Procs : q # r => pc'[q] = pc[q]
    BY <1>1, <2>2, Goes DEF ShapeInv
  <2>6. job'[r].complete \in BOOLEAN
    BY <2>4, <1>2, PacketIs DEF ShapeInv
  <2> QED
    BY <1>1, <1>3, <2>1, <2>2, <2>3, <2>4, <2>5, <2>6 DEF Moves, Arrives, Lets
<1>4. CASE ~Claimable(p)
  <2>1. Finish(r) /\ job' = job
    BY <1>4 DEF ClaimRead
  <2> QED
    BY <1>1, <2>1, FinishIs DEF Moves, Arrives, ShapeInv, JobOK
<1> QED
  BY <1>3, <1>4

LEMMA ClaimMoves ==
  ASSUME ShapeInv, NEW r \in Reqs,
         ApplyClaim(r) \/ AlreadyClaimed(r) \/ ClaimCredit(r) \/ ClaimStamp(r)
  PROVE  Moves(r)
<1>0. r \in Procs /\ TypeOK /\ JobOK
  BY ProcsAre DEF ShapeInv
<1>1. CASE ApplyClaim(r)
  <2>1. pc[r] = "apply" /\ Goto(r, "credit") /\ lock' = lock /\ job' = job
    BY <1>1 DEF ApplyClaim
  <2>2. pc'[r] = "credit" /\ \A q \in Procs : q # r => pc'[q] = pc[q]
    BY <1>0, <2>1, Goes
  <2> QED
    BY <1>0, <1>1, <2>1, <2>2 DEF Moves, Arrives, Lets, JobOK
<1>2. CASE AlreadyClaimed(r)
  <2>1. Finish(r) /\ job' = job
    BY <1>2 DEF AlreadyClaimed
  <2> QED
    BY <1>0, <2>1, FinishIs DEF Moves, Arrives, JobOK
<1>3. CASE ClaimCredit(r)
  <2>1. CASE Goto(r, "stamp") /\ lock' = lock /\ job' = job
    <3>1. pc'[r] = "stamp" /\ pc[r] = "credit" /\ \A q \in Procs : q # r => pc'[q] = pc[q]
      BY <1>0, <1>3, <2>1, Goes DEF ClaimCredit
    <3> QED
      BY <1>0, <1>3, <2>1, <3>1 DEF Moves, Arrives, Lets, JobOK
  <2>2. CASE Finish(r) /\ job' = job
    BY <1>0, <2>2, FinishIs DEF Moves, Arrives, JobOK
  <2> QED
    BY <1>3, <2>1, <2>2 DEF ClaimCredit
<1>4. CASE ClaimStamp(r)
  <2>1. Finish(r) /\ job' = job
    BY <1>4 DEF ClaimStamp
  <2> QED
    BY <1>0, <2>1, FinishIs DEF Moves, Arrives, JobOK
<1> QED
  BY <1>1, <1>2, <1>3, <1>4

LEMMA SweepMoves ==
  ASSUME ShapeInv, NEW r \in Sweepers, SweepStep(r)
  PROVE  Moves(r)
<1>0. r \in Procs /\ TypeOK /\ JobOK
  BY ProcsAre DEF ShapeInv
<1>1. CASE SweepStart(r)
  <2>1. /\ Take(r, "monitor") /\ Goto(r, "next")
        /\ job' = [job EXCEPT ![r].list =
                  SelectSeq(overdue, LAMBDA p : packet[p].status = "ACTIVE")]
    BY <1>1 DEF SweepStart
  <2>2. /\ DOMAIN job' = Procs /\ DOMAIN job'[r] = DOMAIN job[r]
        /\ \A q \in Procs : q # r => job'[q] = job[q]
        /\ job'[r].amount = job[r].amount /\ job'[r].complete = job[r].complete
    BY <1>0, <2>1 DEF JobOK
  <2>3. pc'[r] = "next" /\ \A q \in Procs : q # r => pc'[q] = pc[q]
    BY <1>0, <2>1, Goes
  <2>4. Lets(r)
    BY <1>0, <2>1, Takes, ProcsAre DEF Lets
  <2> QED
    BY <1>0, <2>2, <2>3, <2>4 DEF Moves, Arrives, Idles, JobOK
<1>2. CASE SweepEnd(r) \/ SweepBusy(r)
  <2>1. EndSweep(r) /\ job' = job
    BY <1>2 DEF SweepEnd, SweepBusy
  <2> QED
    BY <1>0, <2>1, EndSweepIs DEF Moves, Arrives, JobOK
<1>3. CASE SweepRead(r)
  <2> DEFINE p == Head(job[r].list)
  <2>1. CASE Due(p) /\ packet[p].status = "ACTIVE"
    <3>1. /\ lock[p] = None /\ lock' = [lock EXCEPT ![p] = r] /\ Goto(r, "refund")
          /\ job' = [job EXCEPT ![r].list = Tail(@), ![r].packet = p, ![r].amount = packet[p].coins]
          /\ UNCHANGED <<packet, share, overdue, used>>
      BY <1>3, <2>1 DEF SweepRead, rows, wallet
    <3>2. p \in Packets
      BY <1>0, <2>1 DEF Due, Range, TypeOK
    <3>3. /\ job'[r].packet = p /\ job'[r].amount = packet[p].coins
          /\ job'[r].complete = job[r].complete
          /\ DOMAIN job' = Procs /\ DOMAIN job'[r] = DOMAIN job[r]
          /\ \A q \in Procs : q # r => job'[q] = job[q]
      BY <1>0, <3>1 DEF JobOK
    <3>4. pc'[r] = "refund" /\ \A q \in Procs : q # r => pc'[q] = pc[q]
      BY <1>0, <3>1, Goes
    <3>5. lock'[p] = r /\ Lets(r)
      BY <1>0, <3>1, <3>2, ProcsAre DEF Lets, TypeOK
    <3>6. packet[p].coins \in Int
      BY <1>0, <3>2, PacketIs
    <3> HIDE DEF p
    <3> QED
      BY <1>0, <2>1, <3>1, <3>2, <3>3, <3>4, <3>5, <3>6 DEF Moves, Arrives, JobOK
  <2>2. CASE ~(Due(p) /\ packet[p].status = "ACTIVE")
    <3>1. /\ job' = [job EXCEPT ![r].list = Tail(@)] /\ lock' = lock /\ pc' = pc
      BY <1>3, <2>2 DEF SweepRead
    <3>2. /\ job'[r].packet = job[r].packet /\ job'[r].amount = job[r].amount
          /\ job'[r].key = job[r].key /\ job'[r].complete = job[r].complete
          /\ DOMAIN job' = Procs /\ DOMAIN job'[r] = DOMAIN job[r]
          /\ \A q \in Procs : q # r => job'[q] = job[q]
      BY <1>0, <3>1 DEF JobOK
    <3> QED
      BY <1>0, <3>1, <3>2 DEF Moves, Arrives, Same, Lets, JobOK
  <2> QED
    BY <2>1, <2>2
<1>4. CASE SweepRefund(r)
  <2>0. pc[r] = "refund" /\ job' = job
    BY <1>4 DEF SweepRefund
  <2>1. CASE Goto(r, "mark") /\ lock' = lock
    <3>1. pc'[r] = "mark" /\ \A q \in Procs : q # r => pc'[q] = pc[q]
      BY <1>0, <2>1, Goes
    <3> QED
      BY <1>0, <1>4, <2>0, <2>1, <3>1 DEF Moves, Arrives, Lets, JobOK
  <2>2. CASE EndSweep(r)
    BY <1>0, <2>0, <2>2, EndSweepIs DEF Moves, Arrives, JobOK
  <2> QED
    BY <1>4, <2>1, <2>2 DEF SweepRefund
<1>5. CASE SweepMark(r)
  <2>1. Goto(r, "next") /\ Free(r, {job[r].packet}) /\ job' = job
    BY <1>5 DEF SweepMark
  <2>2. pc'[r] = "next" /\ \A q \in Procs : q # r => pc'[q] = pc[q]
    BY <1>0, <2>1, Goes
  <2>3. Lets(r)
    BY <1>0, <2>1, <2>2, Frees DEF Lets, Idles
  <2> QED
    BY <1>0, <2>1, <2>2, <2>3 DEF Moves, Arrives, Idles, JobOK
<1> QED
  BY <1>1, <1>2, <1>3, <1>4, <1>5 DEF SweepStep

LEMMA CrashMoves ==
  ASSUME ShapeInv, NEW r \in Procs, Crash(r)
  PROVE  Moves(r)
<1>0. TypeOK /\ JobOK
  BY DEF ShapeInv
<1>1. /\ lock' = [l \in Locks |-> IF lock[l] = r THEN Gone ELSE lock[l]]
      /\ Goto(r, IF r \in Sweepers THEN "idle" ELSE "done") /\ job' = job
  BY DEF Crash
<1>2. pc'[r] \in {"idle", "done"} /\ \A q \in Procs : q # r => pc'[q] = pc[q]
  BY <1>0, <1>1, Goes
<1>3. Lets(r)
  BY <1>1, <1>2 DEF Lets, Idles
<1> QED
  BY <1>0, <1>1, <1>2, <1>3 DEF Moves, Arrives, Idles, JobOK

LEMMA StepMoves ==
  ASSUME ShapeInv, NEW r \in Procs, Acts(r)
  PROVE  Moves(r)
<1>1. CASE r \in Reqs /\ ClaimActs(r)
  BY <1>1, CreateMoves, InsertMoves, LockMoves, ReadMoves, ClaimMoves DEF ClaimActs, ClaimStep
<1>2. CASE r \in Sweepers /\ SweepStep(r)
  BY <1>2, SweepMoves
<1>3. CASE Crash(r)
  BY <1>3, CrashMoves
<1> QED
  BY <1>1, <1>2, <1>3 DEF Acts

-----------------------------------------------------------------------------
(* What a step makes of the rows.                                          *)

SameRows(q) == packet'[q] = packet[q] /\ share'[q] = share[q]
OthersSame(p) == \A q \in Packets : q # p => SameRows(q)

LEMMA InsertIs ==
  ASSUME ShapeInv, NEW r \in Reqs, CreateInsert(r)
  PROVE  \E p \in Packets :
           /\ packet[p].status = "none" /\ OthersSame(p) /\ share' = share
           /\ packet'[p] = [status |-> "ACTIVE", coins |-> Offer[job[r].key].total,
                            slots |-> Offer[job[r].key].winners, key |-> job[r].key]
           /\ job[r].key \in CreateKeys
           /\ Offer[job[r].key].total >= Offer[job[r].key].winners
           /\ packet' = [packet EXCEPT ![p] = packet'[p]]
           /\ packet'[p].key = job[r].key /\ packet'[p].status = "ACTIVE"
           /\ packet'[p].coins = Offer[job[r].key].total
           /\ packet'[p].slots = Offer[job[r].key].winners
<1>1. PICK p \in Packets :
        /\ pc[r] = "insert" /\ packet[p].status = "none" /\ share' = share
        /\ packet' = [packet EXCEPT ![p] =
               LET o == Offer[job[r].key] IN
               [status |-> "ACTIVE", coins |-> o.total, slots |-> o.winners, key |-> job[r].key]]
  BY DEF CreateInsert
<1>2. DOMAIN packet = Packets
  BY DEF ShapeInv, TypeOK
<1>3. job[r].key \in CreateKeys /\ Offer[job[r].key].total >= Offer[job[r].key].winners
  BY <1>1, ProcsAre DEF ShapeInv, RowInv
<1> QED
  BY <1>1, <1>2, <1>3 DEF OthersSame, SameRows

LEMMA ApplyIs ==
  ASSUME ShapeInv, NEW r \in Reqs, ApplyClaim(r)
  PROVE  LET p == job[r].packet
             u == Caller[r] IN
         /\ p \in Packets /\ u \in Users /\ u \notin DOMAIN share[p] /\ OthersSame(p)
         /\ packet[p].status # "none" /\ pc[r] = "apply" /\ job' = job
         /\ job[r].amount \in Int /\ job[r].complete \in BOOLEAN
         /\ packet'[p].coins = packet[p].coins - job[r].amount
         /\ packet'[p].slots = packet[p].slots - 1 /\ packet'[p].key = packet[p].key
         /\ packet'[p].status = IF job[r].complete THEN "COMPLETED" ELSE packet[p].status
         /\ DOMAIN share'[p] = DOMAIN share[p] \cup {u}
         /\ share'[p][u] = job[r].amount
         /\ \A v \in DOMAIN share[p] : share'[p][v] = share[p][v]
         /\ DOMAIN share' = Packets
         /\ packet' \in [Packets -> [status : {"none", "ACTIVE", "COMPLETED", "EXPIRED", "REFUNDED"},
                                     coins : Int, slots : Int, key : CreateKeys \cup {None}]]
<1> DEFINE p == job[r].packet
           u == Caller[r]
           a == job[r].amount
           f == job[r].complete
           old == share[p]
           new == [v \in DOMAIN old \cup {u} |-> IF v = u THEN a ELSE old[v]]
<1>1. /\ pc[r] = "apply" /\ u \notin DOMAIN old /\ job' = job /\ r \in Procs
      /\ share' = [share EXCEPT ![p] = new]
      /\ packet' = [packet EXCEPT ![p].coins = @ - a, ![p].slots = @ - 1,
                          ![p].status = IF f THEN "COMPLETED" ELSE @]
  BY ProcsAre DEF ApplyClaim
<1>2. /\ p \in Packets /\ packet[p].status # "none" /\ a \in Int /\ f \in BOOLEAN
      /\ u \in Users /\ DOMAIN share = Packets
  BY <1>1, OfferAssumption DEF ShapeInv, WorkInv, Holding, JobOK, TypeOK
<1>3. packet \in [Packets -> [status : {"none", "ACTIVE", "COMPLETED", "EXPIRED", "REFUNDED"},
                              coins : Int, slots : Int, key : CreateKeys \cup {None}]]
  BY DEF ShapeInv, TypeOK
<1>4. /\ share'[p] = new /\ \A q \in Packets : q # p => share'[q] = share[q]
      /\ DOMAIN share' = Packets
  <2> HIDE DEF new, p
  <2> QED
    BY <1>1, <1>2
<1>5. DOMAIN new = DOMAIN old \cup {u} /\ new[u] = a /\ \A v \in DOMAIN old : new[v] = old[v]
  BY <1>1
<1>6. LET row == [status |-> IF f THEN "COMPLETED" ELSE packet[p].status,
                  coins |-> packet[p].coins - a, slots |-> packet[p].slots - 1,
                  key |-> packet[p].key] IN
      /\ packet' = [packet EXCEPT ![p] = row]
      /\ row \in [status : {"none", "ACTIVE", "COMPLETED", "EXPIRED", "REFUNDED"},
                  coins : Int, slots : Int, key : CreateKeys \cup {None}]
  <2>1. packet[p] = [status |-> packet[p].status, coins |-> packet[p].coins,
                     slots |-> packet[p].slots, key |-> packet[p].key]
    BY <1>2, <1>3
  <2> HIDE DEF p, a, f
  <2> QED
    BY <1>1, <1>2, <1>3, <2>1
<1> HIDE DEF new, p, u, a, f, old
<1>7. /\ \A q \in Packets : q # p => packet'[q] = packet[q]
      /\ packet'[p].coins = packet[p].coins - a
      /\ packet'[p].slots = packet[p].slots - 1 /\ packet'[p].key = packet[p].key
      /\ packet'[p].status = IF f THEN "COMPLETED" ELSE packet[p].status
      /\ packet' \in [Packets -> [status : {"none", "ACTIVE", "COMPLETED", "EXPIRED", "REFUNDED"},
                                     coins : Int, slots : Int, key : CreateKeys \cup {None}]]
  BY <1>2, <1>3, <1>6
<1>8. OthersSame(p)
  BY <1>4, <1>7 DEF OthersSame, SameRows
<1> QED
  BY <1>1, <1>2, <1>4, <1>5, <1>7, <1>8 DEF p, u, a, f, old

LEMMA MarkIs ==
  ASSUME ShapeInv, NEW s \in Sweepers, SweepMark(s)
  PROVE  LET p == job[s].packet IN
         /\ p \in Packets /\ OthersSame(p) /\ share' = share /\ pc[s] = "mark"
         /\ packet[p].status # "none"
         /\ packet'[p].coins = packet[p].coins /\ packet'[p].slots = packet[p].slots
         /\ packet'[p].key = packet[p].key /\ packet'[p].status \in {"REFUNDED", "EXPIRED"}
         /\ packet' \in [Packets -> [status : {"none", "ACTIVE", "COMPLETED", "EXPIRED", "REFUNDED"},
                                     coins : Int, slots : Int, key : CreateKeys \cup {None}]]
<1> DEFINE p == job[s].packet
           e == IF job[s].amount > 0 THEN "REFUNDED" ELSE "EXPIRED"
<1>1. /\ packet' = [packet EXCEPT ![p].status = e] /\ share' = share
      /\ pc[s] = "mark" /\ s \in Procs
  BY ProcsAre DEF SweepMark
<1>2. p \in Packets /\ packet[p].status # "none"
  BY <1>1 DEF ShapeInv, WorkInv, Holding
<1>3. packet \in [Packets -> [status : {"none", "ACTIVE", "COMPLETED", "EXPIRED", "REFUNDED"},
                              coins : Int, slots : Int, key : CreateKeys \cup {None}]]
  BY DEF ShapeInv, TypeOK
<1>4. e \in {"REFUNDED", "EXPIRED"}
  OBVIOUS
<1> HIDE DEF p, e
<1>5. /\ \A q \in Packets : q # p => packet'[q] = packet[q]
      /\ packet'[p].coins = packet[p].coins /\ packet'[p].slots = packet[p].slots
      /\ packet'[p].key = packet[p].key /\ packet'[p].status = e
      /\ packet' \in [Packets -> [status : {"none", "ACTIVE", "COMPLETED", "EXPIRED", "REFUNDED"},
                                     coins : Int, slots : Int, key : CreateKeys \cup {None}]]
  BY <1>1, <1>2, <1>3, <1>4
<1> QED
  BY <1>1, <1>2, <1>4, <1>5 DEF OthersSame, SameRows, p

(* Nobody else writes the rows.                                            *)
LEMMA RowSteps ==
  ASSUME [Next]_vars
  PROVE  \/ UNCHANGED <<packet, share>>
         \/ \E r \in Reqs : CreateInsert(r) \/ ApplyClaim(r)
         \/ \E s \in Sweepers : SweepMark(s)
<1>1. ASSUME NEW r \in Procs, Acts(r)
      PROVE  \/ UNCHANGED <<packet, share>>
             \/ r \in Reqs /\ (CreateInsert(r) \/ ApplyClaim(r))
             \/ r \in Sweepers /\ SweepMark(r)
  <2>1. ASSUME NEW k \in CreateKeys, CreateDebit(r, k) PROVE UNCHANGED <<packet, share>>
    BY <2>1 DEF CreateDebit, rows
  <2>2. ASSUME NEW p \in Packets, ClaimLock(r, p) PROVE UNCHANGED <<packet, share>>
    BY <2>2 DEF ClaimLock, rows
  <2>3. CASE ClaimRead(r)
    BY <2>3 DEF ClaimRead, rows
  <2>4. CASE AlreadyClaimed(r)
    BY <2>4 DEF AlreadyClaimed, rows
  <2>5. CASE ClaimCredit(r)
    BY <2>5 DEF ClaimCredit, rows
  <2>6. CASE ClaimStamp(r)
    BY <2>6 DEF ClaimStamp
  <2>7. CASE SweepStart(r)
    BY <2>7 DEF SweepStart, rows
  <2>8. CASE SweepEnd(r) \/ SweepBusy(r)
    BY <2>8 DEF SweepEnd, SweepBusy, rows
  <2>9. CASE SweepRead(r)
    BY <2>9 DEF SweepRead, rows
  <2>10. CASE SweepRefund(r)
    BY <2>10 DEF SweepRefund, rows
  <2>11. CASE Crash(r)
    BY <2>11 DEF Crash, rows
  <2> QED
    BY <1>1, <2>1, <2>2, <2>3, <2>4, <2>5, <2>6, <2>7, <2>8, <2>9, <2>10, <2>11
    DEF Acts, ClaimActs, ClaimStep, SweepStep
<1> QED
  BY <1>1, NextIs DEF Around

(* A packet keeps its call and never goes back to being none.              *)
LEMMA StatusStays ==
  ASSUME ShapeInv, [Next]_vars, NEW p \in Packets, packet[p].status # "none"
  PROVE  packet'[p].status # "none" /\ packet'[p].key = packet[p].key
<1>1. ASSUME NEW r \in Reqs, CreateInsert(r)
      PROVE  packet'[p] = packet[p]
  BY <1>1, InsertIs DEF OthersSame, SameRows
<1>2. ASSUME NEW r \in Reqs, ApplyClaim(r)
      PROVE  packet'[p].status # "none" /\ packet'[p].key = packet[p].key
  BY <1>2, ApplyIs DEF OthersSame, SameRows
<1>3. ASSUME NEW s \in Sweepers, SweepMark(s)
      PROVE  packet'[p].status # "none" /\ packet'[p].key = packet[p].key
  BY <1>3, MarkIs DEF OthersSame, SameRows
<1> QED
  BY <1>1, <1>2, <1>3, RowSteps

-----------------------------------------------------------------------------
(* What a step makes of the wallet, of the locks and of the positions.     *)

Posted(k, c) == W!Post(k, c) /\ UNCHANGED rows
CreateCall(k) == Gold("moveDebit", Offer[k].creator, Offer[k].total)
ClaimCall(r) == Gold("moveCredit", Caller[r], job[r].amount)
RefundCall(s) == Gold("moveCredit", OfferOf(job[s].packet).creator, job[s].amount)
ReversalCall(u) == Gold("reverse", u, Chargeback[u])

LEMMA WalletSteps ==
  ASSUME [Next]_vars
  PROVE  \/ UNCHANGED wallet
         \/ \E k \in CreateKeys : Posted(CreateKey(k), CreateCall(k))
         \/ \E r \in Reqs : /\ pc[r] = "credit"
                            /\ Posted(ClaimKey(job[r].packet, Caller[r]), ClaimCall(r))
         \/ \E s \in Sweepers : /\ pc[s] = "refund"
                                /\ Posted(RefundKey(job[s].packet), RefundCall(s))
         \/ \E u \in Users : ReversalKey(u) \notin used /\ Posted(ReversalKey(u), ReversalCall(u))
<1>1. ASSUME NEW r \in Reqs, NEW k \in CreateKeys, CreateDebit(r, k)
      PROVE  Posted(CreateKey(k), CreateCall(k))
  BY <1>1 DEF CreateDebit, Posted, CreateCall
<1>2. ASSUME NEW r \in Reqs, ClaimCredit(r)
      PROVE  \/ UNCHANGED wallet
             \/ pc[r] = "credit" /\ Posted(ClaimKey(job[r].packet, Caller[r]), ClaimCall(r))
  BY <1>2 DEF ClaimCredit, Posted, ClaimCall
<1>3. ASSUME NEW s \in Sweepers, SweepRefund(s)
      PROVE  \/ UNCHANGED wallet
             \/ pc[s] = "refund" /\ Posted(RefundKey(job[s].packet), RefundCall(s))
  BY <1>3 DEF SweepRefund, Posted, RefundCall, wallet
<1>4. ASSUME NEW u \in Users, ReversePurchase(u)
      PROVE  ReversalKey(u) \notin used /\ Posted(ReversalKey(u), ReversalCall(u))
  BY <1>4 DEF ReversePurchase, Posted, ReversalCall
<1>5. ASSUME NEW r \in Reqs, \/ CreateInsert(r) \/ ClaimRead(r) \/ ApplyClaim(r)
                             \/ AlreadyClaimed(r) \/ ClaimStamp(r)
                             \/ \E p \in Packets : ClaimLock(r, p)
      PROVE  UNCHANGED wallet
  BY <1>5 DEF CreateInsert, ClaimRead, ApplyClaim, AlreadyClaimed, ClaimStamp, ClaimLock, wallet
<1>6. ASSUME NEW s \in Sweepers, \/ SweepStart(s) \/ SweepEnd(s) \/ SweepBusy(s) \/ SweepRead(s)
                                 \/ SweepMark(s)
      PROVE  UNCHANGED wallet
  BY <1>6 DEF SweepStart, SweepEnd, SweepBusy, SweepRead, SweepMark, wallet
<1>7. ASSUME \/ \E p \in Packets : Expire(p)
             \/ \E l \in Locks : LockExpires(l)
             \/ \E r \in Procs : Crash(r)
             \/ UNCHANGED vars
      PROVE  UNCHANGED wallet
  BY <1>7 DEF Expire, LockExpires, Crash, vars, wallet
<1> DEFINE Goal == \/ UNCHANGED wallet
                   \/ \E k \in CreateKeys : Posted(CreateKey(k), CreateCall(k))
                   \/ \E r \in Reqs : /\ pc[r] = "credit"
                                      /\ Posted(ClaimKey(job[r].packet, Caller[r]), ClaimCall(r))
                   \/ \E s \in Sweepers : /\ pc[s] = "refund"
                                          /\ Posted(RefundKey(job[s].packet), RefundCall(s))
                   \/ \E u \in Users : ReversalKey(u) \notin used /\ Posted(ReversalKey(u), ReversalCall(u))
<1>8. ASSUME NEW r \in Reqs, ClaimActs(r) PROVE Goal
  BY <1>1, <1>2, <1>5, <1>8 DEF ClaimActs, ClaimStep
<1>9. ASSUME NEW s \in Sweepers, SweepStep(s) PROVE Goal
  BY <1>3, <1>6, <1>9 DEF SweepStep
<1>10. ASSUME NEW u \in Users, ReversePurchase(u) PROVE Goal
  BY <1>4, <1>10
<1>11. ASSUME \/ \E p \in Packets : Expire(p)
              \/ \E l \in Locks : LockExpires(l)
              \/ \E r \in Procs : Crash(r)
              \/ UNCHANGED vars
       PROVE  Goal
  BY <1>7, <1>11
<1> HIDE DEF Goal
<1>12. \/ \E r \in Reqs : ClaimActs(r)
       \/ \E s \in Sweepers : SweepStep(s)
       \/ \E u \in Users : ReversePurchase(u)
       \/ \E p \in Packets : Expire(p)
       \/ \E l \in Locks : LockExpires(l)
       \/ \E r \in Procs : Crash(r)
       \/ UNCHANGED vars
  BY DEF Next, ClaimActs
<1>13. Goal
  BY <1>8, <1>9, <1>10, <1>11, <1>12
<1> QED
  BY <1>13 DEF Goal

LEMMA WalletTyped ==
  ASSUME ShapeInv, [Next]_vars
  PROVE  gold' \in [Users -> [{GOLD} -> Int]] /\ used' \subseteq WalletKeys /\ used \subseteq used'
<1>0. TypeOK
  BY DEF ShapeInv
<1>1. CASE UNCHANGED wallet
  BY <1>0, <1>1 DEF wallet, TypeOK
<1>2. ASSUME NEW k \in WalletKeys, NEW c, Posted(k, c)
      PROVE  gold' \in [Users -> [{GOLD} -> Int]] /\ used' \subseteq WalletKeys /\ used \subseteq used'
  <2>1. gold' \in [Users -> [{GOLD} -> Int]] /\ used' = used \cup {k}
    BY <1>0, <1>2, Posts DEF Posted
  <2> QED
    BY <1>0, <2>1 DEF TypeOK
<1>3. ASSUME NEW r \in Reqs, pc[r] = "credit"
      PROVE  ClaimKey(job[r].packet, Caller[r]) \in WalletKeys
  BY <1>3, KeysAre, ProcsAre, OfferAssumption DEF ShapeInv, WorkInv, Holding
<1>4. ASSUME NEW s \in Sweepers, pc[s] = "refund"
      PROVE  RefundKey(job[s].packet) \in WalletKeys
  BY <1>4, KeysAre, ProcsAre DEF ShapeInv, WorkInv, Holding
<1> QED
  BY <1>1, <1>2, <1>3, <1>4, KeysAre, WalletSteps

LEMMA FreeTyped == ASSUME TypeOK, NEW r \in Procs, NEW ls, Free(r, ls)
                   PROVE  lock' \in [Locks -> Procs \cup {None, Gone}]
BY DEF TypeOK, Free

LEMMA TakeTyped == ASSUME TypeOK, NEW r \in Procs, NEW l, Take(r, l)
                   PROVE  lock' \in [Locks -> Procs \cup {None, Gone}]
BY DEF TypeOK, Take

Places == {"idle", "insert", "read", "apply", "credit", "stamp", "next", "refund", "mark", "done"}
LEMMA GotoTyped == ASSUME TypeOK, NEW r \in Procs, NEW l \in Places, Goto(r, l)
                   PROVE  pc' \in [Procs -> Places]
BY DEF TypeOK, Goto, Places

Controls == /\ lock' \in [Locks -> Procs \cup {None, Gone}]
            /\ pc' \in [Procs -> Places] /\ crashes' \in 0 .. MaxCrashes

LEMMA ControlIs ==
  ASSUME ShapeInv, [Next]_vars
  PROVE  Controls
<1>0. /\ TypeOK /\ crashes \in 0 .. MaxCrashes /\ pc \in [Procs -> Places]
      /\ lock \in [Locks -> Procs \cup {None, Gone}]
  BY DEF ShapeInv, TypeOK, Places
<1>a. {"idle", "insert", "read", "apply", "credit", "stamp", "next", "refund", "mark", "done"} = Places
  BY DEF Places
<1>1. ASSUME NEW r \in Procs, Finish(r), crashes' = crashes
      PROVE  Controls
  BY <1>0, <1>1, <1>a, FreeTyped, GotoTyped DEF Finish, Controls
<1>2. ASSUME NEW r \in Procs, EndSweep(r), crashes' = crashes
      PROVE  Controls
  BY <1>0, <1>2, <1>a, FreeTyped, GotoTyped DEF EndSweep, Controls
<1>3. ASSUME NEW r \in Procs, NEW l \in Places, Goto(r, l), lock' = lock, crashes' = crashes
      PROVE  Controls
  BY <1>0, <1>3, GotoTyped DEF Controls
<1>4. ASSUME NEW r \in Procs, NEW l \in Places, Goto(r, l), NEW k, Take(r, k), crashes' = crashes
      PROVE  Controls
  BY <1>0, <1>4, GotoTyped, TakeTyped DEF Controls
<1>5. ASSUME NEW r \in Reqs, NEW k \in CreateKeys, CreateDebit(r, k)
      PROVE  Controls
  BY <1>3, <1>5, <1>a, ProcsAre DEF CreateDebit
<1>6. ASSUME NEW r \in Reqs, CreateInsert(r) PROVE Controls
  BY <1>3, <1>6, <1>a, ProcsAre DEF CreateInsert
<1>7. ASSUME NEW r \in Reqs, NEW p \in Packets, ClaimLock(r, p) PROVE Controls
  BY <1>4, <1>7, <1>a, ProcsAre DEF ClaimLock
<1>8. ASSUME NEW r \in Reqs, ClaimRead(r) PROVE Controls
  BY <1>1, <1>3, <1>8, <1>a, ProcsAre DEF ClaimRead
<1>9. ASSUME NEW r \in Reqs, ApplyClaim(r) PROVE Controls
  BY <1>3, <1>9, <1>a, ProcsAre DEF ApplyClaim
<1>10. ASSUME NEW r \in Reqs, AlreadyClaimed(r) PROVE Controls
  BY <1>1, <1>10, ProcsAre DEF AlreadyClaimed
<1>11. ASSUME NEW r \in Reqs, ClaimCredit(r) PROVE Controls
  BY <1>1, <1>3, <1>11, <1>a, ProcsAre DEF ClaimCredit
<1>12. ASSUME NEW r \in Reqs, ClaimStamp(r) PROVE Controls
  BY <1>1, <1>12, ProcsAre DEF ClaimStamp
<1>13. ASSUME NEW r \in Sweepers, SweepStart(r) PROVE Controls
  BY <1>4, <1>13, <1>a, ProcsAre DEF SweepStart
<1>14. ASSUME NEW r \in Sweepers, SweepEnd(r) \/ SweepBusy(r) PROVE Controls
  BY <1>2, <1>14, ProcsAre DEF SweepEnd, SweepBusy
<1>15. ASSUME NEW r \in Sweepers, SweepRead(r) PROVE Controls
  <2> DEFINE p == Head(job[r].list)
  <2>1. CASE Due(p) /\ packet[p].status = "ACTIVE"
    <3>1. /\ lock' = [lock EXCEPT ![p] = r] /\ Goto(r, "refund") /\ crashes' = crashes
      BY <1>15, <2>1 DEF SweepRead
    <3>2. lock' \in [Locks -> Procs \cup {None, Gone}] /\ pc' \in [Procs -> Places]
      <4> HIDE DEF p
      <4> QED
        BY <1>0, <1>a, <3>1, GotoTyped, ProcsAre
    <3> QED
      BY <1>0, <3>1, <3>2 DEF Controls
  <2>2. CASE ~(Due(p) /\ packet[p].status = "ACTIVE")
    BY <1>0, <1>15, <2>2 DEF SweepRead, Controls
  <2> QED
    BY <2>1, <2>2
<1>16. ASSUME NEW r \in Sweepers, SweepRefund(r) PROVE Controls
  BY <1>2, <1>3, <1>16, <1>a, ProcsAre DEF SweepRefund
<1>17. ASSUME NEW r \in Sweepers, SweepMark(r) PROVE Controls
  <2>1. Goto(r, "next") /\ Free(r, {job[r].packet}) /\ crashes' = crashes /\ r \in Procs
    BY <1>17, ProcsAre DEF SweepMark
  <2> QED
    BY <1>0, <1>a, <2>1, FreeTyped, GotoTyped DEF Controls
<1>18. ASSUME NEW p \in Packets, Expire(p) PROVE Controls
  BY <1>0, <1>18 DEF Expire, Controls
<1>19. ASSUME NEW l \in Locks, LockExpires(l) PROVE Controls
  BY <1>0, <1>19 DEF LockExpires, Controls
<1>20. ASSUME NEW r \in Procs, Crash(r) PROVE Controls
  <2>1. /\ crashes' \in 0 .. MaxCrashes
        /\ lock' = [l \in Locks |-> IF lock[l] = r THEN Gone ELSE lock[l]]
        /\ Goto(r, IF r \in Sweepers THEN "idle" ELSE "done")
    BY <1>0, <1>20, LapseAssumption DEF Crash
  <2>2. lock' \in [Locks -> Procs \cup {None, Gone}]
    BY <1>0, <2>1
  <2>3. (IF r \in Sweepers THEN "idle" ELSE "done") \in Places
    BY <1>a
  <2> QED
    BY <1>0, <2>1, <2>2, <2>3, GotoTyped DEF Controls
<1>21. ASSUME NEW u \in Users, ReversePurchase(u) PROVE Controls
  BY <1>0, <1>21 DEF ReversePurchase, Controls
<1>22. CASE UNCHANGED vars
  BY <1>0, <1>22 DEF vars, Controls
<1> QED
  BY <1>5, <1>6, <1>7, <1>8, <1>9, <1>10, <1>11, <1>12, <1>13, <1>14, <1>15, <1>16, <1>17, <1>18,
     <1>19, <1>20, <1>21, <1>22 DEF Next, ClaimStep, SweepStep

LEMMA DueIs ==
  ASSUME TypeOK, [Next]_vars
  PROVE  /\ overdue' \in Seq(Packets)
         /\ \A p \in Packets : Due(p) => Due(p)'
         /\ \A p \in Packets : Due(p)' => Due(p) \/ (packet[p].status # "none" /\ packet'[p] = packet[p])
<1>1. overdue \in Seq(Packets)
  BY DEF TypeOK
<1>2. CASE UNCHANGED overdue
  BY <1>1, <1>2 DEF Due
<1>3. ASSUME NEW q \in Packets, Expire(q)
      PROVE  /\ overdue' \in Seq(Packets)
             /\ \A p \in Packets : Due(p) => Due(p)'
             /\ \A p \in Packets : Due(p)' => Due(p) \/ (packet[p].status # "none" /\ packet'[p] = packet[p])
  <2>1. overdue' = Append(overdue, q) /\ packet[q].status # "none" /\ packet' = packet
    BY <1>3 DEF Expire
  <2>2. Range(Append(overdue, q)) = Range(overdue) \cup {q} /\ Append(overdue, q) \in Seq(Packets)
    BY <1>1 DEF Range
  <2> QED
    BY <2>1, <2>2 DEF Due
<1>4. ASSUME NEW r \in Procs, Acts(r)
      PROVE  UNCHANGED overdue
  BY <1>4 DEF Acts, ClaimActs, ClaimStep, SweepStep, rows, CreateDebit, CreateInsert, ClaimLock, ClaimRead,
     ApplyClaim, AlreadyClaimed, ClaimCredit, ClaimStamp, SweepStart, SweepEnd, SweepBusy,
     SweepRead, SweepRefund, SweepMark, Crash
<1>5. ASSUME \/ \E l \in Locks : LockExpires(l)
             \/ \E u \in Users : ReversePurchase(u)
             \/ UNCHANGED vars
      PROVE  UNCHANGED overdue
  BY <1>5 DEF LockExpires, ReversePurchase, vars, rows
<1>6. \/ \E r \in Procs : Acts(r)
      \/ \E p \in Packets : Expire(p)
      \/ \E l \in Locks : LockExpires(l)
      \/ \E u \in Users : ReversePurchase(u)
      \/ UNCHANGED vars
  BY ProcsAre DEF Next, Acts, ClaimActs
<1> QED
  BY <1>2, <1>3, <1>4, <1>5, <1>6

(* A claim's shares stay; those of a new claim are whole coins.            *)
LEMMA SharesGrow ==
  ASSUME ShapeInv, [Next]_vars, NEW p \in Packets
  PROVE  /\ DOMAIN share' = Packets
         /\ DOMAIN share[p] \subseteq DOMAIN share'[p] /\ DOMAIN share'[p] \subseteq Users
         /\ \A u \in DOMAIN share[p] : share'[p][u] = share[p][u]
         /\ \A u \in DOMAIN share'[p] : share'[p][u] \in Int
<1>1. /\ DOMAIN share = Packets /\ DOMAIN share[p] \subseteq Users
      /\ \A u \in DOMAIN share[p] : share[p][u] \in Int
  BY DEF ShapeInv, TypeOK, RowInv
<1>2. CASE UNCHANGED share
  BY <1>1, <1>2
<1>3. ASSUME NEW r \in Reqs, ApplyClaim(r)
      PROVE  /\ DOMAIN share' = Packets
             /\ DOMAIN share[p] \subseteq DOMAIN share'[p] /\ DOMAIN share'[p] \subseteq Users
             /\ \A u \in DOMAIN share[p] : share'[p][u] = share[p][u]
             /\ \A u \in DOMAIN share'[p] : share'[p][u] \in Int
  <2> DEFINE q == job[r].packet
             c == Caller[r]
  <2>1. /\ c \in Users /\ DOMAIN share' = Packets /\ job[r].amount \in Int
        /\ q # p => share'[p] = share[p]
        /\ DOMAIN share'[q] = DOMAIN share[q] \cup {c} /\ share'[q][c] = job[r].amount
        /\ \A v \in DOMAIN share[q] : share'[q][v] = share[q][v]
    BY <1>3, ApplyIs DEF OthersSame, SameRows
  <2> HIDE DEF q, c
  <2> QED
    BY <1>1, <2>1
<1> QED
  BY <1>2, <1>3, RowSteps, InsertIs, MarkIs

LEMMA PacketTyped ==
  ASSUME ShapeInv, [Next]_vars
  PROVE  packet' \in [Packets -> [status : {"none", "ACTIVE", "COMPLETED", "EXPIRED", "REFUNDED"},
                                  coins : Int, slots : Int, key : CreateKeys \cup {None}]]
<1>1. packet \in [Packets -> [status : {"none", "ACTIVE", "COMPLETED", "EXPIRED", "REFUNDED"},
                              coins : Int, slots : Int, key : CreateKeys \cup {None}]]
  BY DEF ShapeInv, TypeOK
<1>2. ASSUME NEW r \in Reqs, CreateInsert(r)
      PROVE  packet' \in [Packets -> [status : {"none", "ACTIVE", "COMPLETED", "EXPIRED", "REFUNDED"},
                                      coins : Int, slots : Int, key : CreateKeys \cup {None}]]
  <2> DEFINE k == job[r].key
  <2>1. PICK p \in Packets :
          /\ packet' = [packet EXCEPT ![p] = packet'[p]]
          /\ packet'[p] = [status |-> "ACTIVE", coins |-> Offer[k].total,
                           slots |-> Offer[k].winners, key |-> k]
          /\ k \in CreateKeys
    BY <1>2, InsertIs
  <2>2. Offer[k].total \in Int /\ Offer[k].winners \in Int
    BY <2>1, OfferIs
  <2> HIDE DEF k
  <2>3. packet'[p] \in [status : {"none", "ACTIVE", "COMPLETED", "EXPIRED", "REFUNDED"},
                        coins : Int, slots : Int, key : CreateKeys \cup {None}]
    BY <2>1, <2>2
  <2> QED
    BY <1>1, <2>1, <2>3
<1> QED
  BY <1>1, <1>2, RowSteps, ApplyIs, MarkIs

LEMMA TypeStep ==
  ASSUME ShapeInv, CreditInv, [Next]_vars
  PROVE  TypeOK'
<1>0. TypeOK
  BY DEF ShapeInv
<1>1. gold' \in [Users -> [{GOLD} -> Int]] /\ used' \subseteq WalletKeys
  BY WalletTyped
<1>2. Controls
  BY ControlIs
<1>3. overdue' \in Seq(Packets)
  BY <1>0, DueIs
<1>4. \A p \in Packets : DOMAIN share'[p] \subseteq Users /\ DOMAIN share[p] \subseteq DOMAIN share'[p]
  BY SharesGrow
<1>5. DOMAIN share' = Packets
  BY <1>0, RowSteps, ApplyIs, InsertIs, MarkIs DEF TypeOK
<1>6. stamped' \in [Packets -> SUBSET Users] /\ \A p \in Packets : stamped'[p] \subseteq DOMAIN share'[p]
  <2>1. stamped \in [Packets -> SUBSET Users] /\ \A p \in Packets : stamped[p] \subseteq DOMAIN share[p]
    BY <1>0 DEF TypeOK
  <2>2. CASE UNCHANGED stamped
    BY <1>4, <2>1, <2>2
  <2>3. ASSUME NEW r \in Reqs, ClaimStamp(r)
        PROVE  stamped' \in [Packets -> SUBSET Users] /\ \A p \in Packets : stamped'[p] \subseteq DOMAIN share'[p]
    <3> DEFINE q == job[r].packet
               u == Caller[r]
    <3>1. stamped' = [stamped EXCEPT ![q] = @ \cup {u}] /\ share' = share /\ pc[r] = "stamp"
      BY <2>3 DEF ClaimStamp
    <3>2. q \in Packets /\ u \in Users /\ u \in DOMAIN share[q]
      BY <3>1, ProcsAre, OfferAssumption DEF ShapeInv, WorkInv, Holding, CreditInv
    <3> HIDE DEF q, u
    <3> QED
      BY <2>1, <3>1, <3>2
  <2>4. ASSUME NEW r \in Procs, Acts(r), ~(r \in Reqs /\ ClaimStamp(r))
        PROVE  UNCHANGED stamped
    BY <2>4 DEF Acts, ClaimActs, ClaimStep, SweepStep, rows, CreateDebit, CreateInsert, ClaimLock,
       ClaimRead, ApplyClaim, AlreadyClaimed, ClaimCredit, SweepStart, SweepEnd, SweepBusy,
       SweepRead, SweepRefund, SweepMark, Crash
  <2> QED
    BY <2>2, <2>3, <2>4, NextIs DEF Around
<1> QED
  BY <1>1, <1>2, <1>3, <1>4, <1>5, <1>6, PacketTyped DEF TypeOK, Controls, Places

LEMMA JobStep ==
  ASSUME ShapeInv, [Next]_vars
  PROVE  JobOK'
<1>1. ASSUME NEW r \in Procs, Acts(r)
      PROVE  JobOK'
  <2>1. Moves(r)
    BY <1>1, StepMoves
  <2>2. /\ DOMAIN job' = Procs
        /\ \A q \in Procs : /\ DOMAIN job'[q] = {"packet", "key", "amount", "complete", "list"}
                            /\ job'[q].amount \in Int /\ job'[q].complete \in BOOLEAN
    BY <1>1, <2>1 DEF Moves, ShapeInv, JobOK
  <2> QED
    BY <2>2 DEF JobOK
<1>2. CASE job' = job
  BY <1>2 DEF ShapeInv, JobOK
<1> QED
  BY <1>1, <1>2, NextIs DEF Around

-----------------------------------------------------------------------------
(* The rows, locks or no locks.                                            *)

LEMMA RowStep ==
  ASSUME ShapeInv, [Next]_vars
  PROVE  RowInv'
<1>0. TypeOK /\ RowInv
  BY DEF ShapeInv
<1>1. ASSUME NEW p \in Packets, packet'[p].status # "none"
      PROVE  /\ packet'[p].key \in CreateKeys
             /\ Offer[packet'[p].key].total >= Offer[packet'[p].key].winners
  <2>1. CASE packet[p].status # "none"
    <3>1. packet'[p].key = packet[p].key
      BY <2>1, StatusStays
    <3> QED
      BY <1>0, <2>1, <3>1 DEF RowInv, OfferOf
  <2>2. CASE packet[p].status = "none"
    <3>1. PICK r \in Reqs : CreateInsert(r)
      BY <1>1, <2>2, RowSteps, ApplyIs, MarkIs DEF OthersSame, SameRows
    <3>2. /\ packet'[p].key = job[r].key /\ job[r].key \in CreateKeys
          /\ Offer[job[r].key].total >= Offer[job[r].key].winners
      <4>1. PICK q \in Packets :
              /\ OthersSame(q) /\ packet'[q].key = job[r].key /\ job[r].key \in CreateKeys
              /\ Offer[job[r].key].total >= Offer[job[r].key].winners
        BY <3>1, InsertIs
      <4>2. q = p
        BY <1>1, <2>2, <4>1 DEF OthersSame, SameRows
      <4> QED
        BY <4>1, <4>2
    <3> QED
      BY <3>2
  <2> QED
    BY <2>1, <2>2
<1>2. ASSUME NEW p \in Packets, packet'[p].status = "none"
      PROVE  packet'[p] = NoPacket /\ share'[p] = <<>> /\ ~Due(p)'
  <2>1. packet[p].status = "none"
    BY <1>2, StatusStays
  <2>2. packet[p] = NoPacket /\ share[p] = <<>> /\ ~Due(p)
    BY <1>0, <2>1 DEF RowInv
  <2>3. packet'[p] = packet[p] /\ share'[p] = share[p]
    <3>1. ASSUME NEW r \in Reqs, CreateInsert(r)
          PROVE  SameRows(p)
      <4>1. PICK q \in Packets : OthersSame(q) /\ packet'[q].status = "ACTIVE"
        BY <3>1, InsertIs
      <4> QED
        BY <1>2, <4>1 DEF OthersSame
    <3>2. ASSUME NEW r \in Reqs, ApplyClaim(r)
          PROVE  SameRows(p)
      BY <2>1, <3>2, ApplyIs DEF OthersSame
    <3>3. ASSUME NEW s \in Sweepers, SweepMark(s)
          PROVE  SameRows(p)
      BY <2>1, <3>3, MarkIs DEF OthersSame
    <3> QED
      BY <3>1, <3>2, <3>3, RowSteps DEF SameRows
  <2> QED
    BY <1>0, <2>1, <2>2, <2>3, DueIs
<1>3. \A p \in Packets : \A u \in DOMAIN share'[p] : share'[p][u] \in Int
  BY SharesGrow
<1>4. ASSUME NEW q \in Procs, pc'[q] = "insert"
      PROVE  job'[q].key \in CreateKeys /\ Offer[job'[q].key].total >= Offer[job'[q].key].winners
  <2>1. CASE pc[q] = "insert" /\ job'[q].key = job[q].key
    BY <1>0, <2>1 DEF RowInv
  <2>2. ASSUME NEW r \in Procs, Acts(r)
        PROVE  \/ pc[q] = "insert" /\ job'[q].key = job[q].key
               \/ \E k \in CreateKeys : Offer[k].total >= Offer[k].winners /\ job'[q].key = k
    <3>1. Moves(r)
      BY <2>2, StepMoves
    <3>2. CASE q # r
      BY <1>4, <3>1, <3>2 DEF Moves
    <3>3. CASE q = r
      BY <1>4, <3>1, <3>3 DEF Moves, Arrives, Idles, Same, CreateDebit
    <3> QED
      BY <3>2, <3>3
  <2> QED
    BY <1>4, <2>1, <2>2, NextIs DEF Around
<1> QED
  BY <1>1, <1>2, <1>3, <1>4 DEF RowInv, OfferOf

LEMMA WorkStep ==
  ASSUME ShapeInv, [Next]_vars
  PROVE  WorkInv'
<1> SUFFICES ASSUME NEW q \in Procs, pc'[q] \in Holding
             PROVE  /\ job'[q].packet \in Packets /\ packet'[job'[q].packet].status # "none"
                    /\ pc'[q] \in {"read", "apply", "credit", "stamp"} => q \in Reqs
  BY DEF WorkInv
<1>0. WorkInv
  BY DEF ShapeInv
<1>1. CASE pc'[q] = pc[q] /\ job'[q].packet = job[q].packet
  BY <1>0, <1>1, StatusStays DEF WorkInv
<1>2. ASSUME NEW r \in Procs, Acts(r)
      PROVE  \/ pc'[q] = pc[q] /\ job'[q].packet = job[q].packet
             \/ /\ job'[q].packet \in Packets /\ packet[job'[q].packet].status # "none"
                /\ pc'[q] \in {"read", "apply", "credit", "stamp"} => q \in Reqs
  <2>1. Moves(r)
    BY <1>2, StepMoves
  <2>2. CASE q # r
    BY <2>1, <2>2 DEF Moves
  <2>3. CASE q = r
    <3>1. pc[q] \in Holding => job[q].packet \in Packets /\ packet[job[q].packet].status # "none"
      BY <1>0 DEF WorkInv
    <3> QED
      BY <2>1, <2>3, <3>1 DEF Moves, Arrives, Idles, Same, Holding
  <2> QED
    BY <2>2, <2>3
<1> QED
  BY <1>1, <1>2, StatusStays, NextIs DEF Around

LEMMA ShapeStep ==
  ASSUME ShapeInv, CreditInv, [Next]_vars
  PROVE  ShapeInv'
BY TypeStep, JobStep, RowStep, WorkStep DEF ShapeInv

LEMMA KeysDiffer ==
  /\ \A p, u, k : ClaimKey(p, u) # CreateKey(k)
  /\ \A p, u, q : ClaimKey(p, u) # RefundKey(q)
  /\ \A p, u, v : ClaimKey(p, u) # ReversalKey(v)
  /\ \A p, u, q, v : ClaimKey(p, u) = ClaimKey(q, v) => p = q /\ u = v
BY DEF RefundKey, CreateKey, ClaimKey, ReversalKey

(* The keys a step of the wallet uses up.                                  *)
LEMMA UsedIs ==
  ASSUME ShapeInv, [Next]_vars
  PROVE  /\ \A p \in Packets, u \in Users :
              ClaimKey(p, u) \in used' \ used =>
                \E r \in Reqs : pc[r] = "credit" /\ job[r].packet = p /\ Caller[r] = u
         /\ \A p \in Packets :
              RefundKey(p) \in used' \ used =>
                \E s \in Sweepers : pc[s] = "refund" /\ job[s].packet = p
<1>1. \/ used' = used
      \/ \E k \in CreateKeys : used' = used \cup {CreateKey(k)}
      \/ \E r \in Reqs : pc[r] = "credit" /\ used' = used \cup {ClaimKey(job[r].packet, Caller[r])}
      \/ \E s \in Sweepers : pc[s] = "refund" /\ used' = used \cup {RefundKey(job[s].packet)}
      \/ \E u \in Users : used' = used \cup {ReversalKey(u)}
  <2>1. ASSUME NEW k, NEW c, Posted(k, c)
        PROVE  used' = used \cup {k}
    BY <2>1 DEF Posted, W!Post, W!Move, W!accounts
  <2> QED
    BY <2>1, WalletSteps DEF wallet
<1> QED
  BY <1>1, KeysDiffer, RefundKeys

LEMMA CreditStep ==
  ASSUME ShapeInv, CreditInv, [Next]_vars
  PROVE  CreditInv'
<1>1. ASSUME NEW q \in Reqs, pc'[q] \in {"credit", "stamp"}
      PROVE  /\ Caller[q] \in DOMAIN share'[job'[q].packet]
             /\ job'[q].amount = share'[job'[q].packet][Caller[q]]
  <2> DEFINE p == job[q].packet
  <2>0. q \in Procs
    BY ProcsAre
  <2>1. CASE pc[q] \in {"credit", "stamp"} /\ job'[q].packet = p /\ job'[q].amount = job[q].amount
    <3>1. p \in Packets /\ Caller[q] \in DOMAIN share[p] /\ job[q].amount = share[p][Caller[q]]
      BY <2>0, <2>1 DEF ShapeInv, WorkInv, Holding, CreditInv
    <3> HIDE DEF p
    <3> QED
      BY <2>1, <3>1, SharesGrow
  <2>2. CASE ApplyClaim(q) /\ job' = job
    BY <2>2, ApplyIs
  <2>3. ASSUME NEW r \in Procs, Acts(r)
        PROVE  \/ pc[q] \in {"credit", "stamp"} /\ job'[q].packet = p /\ job'[q].amount = job[q].amount
               \/ ApplyClaim(q) /\ job' = job
    <3>1. Moves(r)
      BY <2>3, StepMoves
    <3>2. CASE q # r
      BY <1>1, <2>0, <3>1, <3>2 DEF Moves
    <3>3. CASE q = r
      BY <1>1, <3>1, <3>3 DEF Moves, Arrives, Idles, Same
    <3> QED
      BY <3>2, <3>3
  <2> QED
    BY <1>1, <2>1, <2>2, <2>3, NextIs DEF Around
<1>2. ASSUME NEW p \in Packets, NEW u \in Users, ClaimKey(p, u) \in used'
      PROVE  u \in DOMAIN share'[p]
  <2>1. u \in DOMAIN share[p]
    BY <1>2, UsedIs DEF CreditInv
  <2> QED
    BY <2>1, SharesGrow
<1> QED
  BY <1>1, <1>2 DEF CreditInv

-----------------------------------------------------------------------------
(* What is left and what was drawn add up to the packet.                   *)

LEMMA SharesFinite ==
  ASSUME TypeOK, NEW p \in Packets
  PROVE  IsFiniteSet(DOMAIN share[p]) /\ Cardinality(DOMAIN share[p]) \in Nat
BY FiniteAssumption, FS_Subset, FS_CardinalityType DEF TypeOK

LEMMA SharesStep ==
  ASSUME ShapeInv, SharesAddUp, [Next]_vars
  PROVE  SharesAddUp'
<1> SUFFICES ASSUME NEW p \in Packets, packet'[p].status # "none"
             PROVE  /\ packet'[p].coins + SumFunction(share'[p]) = Offer[packet'[p].key].total
                    /\ packet'[p].slots + Cardinality(DOMAIN share'[p]) = Offer[packet'[p].key].winners
  BY DEF SharesAddUp, Claimed, OfferOf
<1>0. TypeOK
  BY DEF ShapeInv
<1>1. packet[p].status # "none" =>
        /\ packet[p].coins + SumFunction(share[p]) = Offer[packet[p].key].total
        /\ packet[p].slots + Cardinality(DOMAIN share[p]) = Offer[packet[p].key].winners
  BY DEF SharesAddUp, Claimed, OfferOf
<1>2. CASE SameRows(p)
  BY <1>1, <1>2 DEF SameRows
<1>3. ASSUME NEW r \in Reqs, CreateInsert(r)
      PROVE  /\ packet'[p].coins + SumFunction(share'[p]) = Offer[packet'[p].key].total
             /\ packet'[p].slots + Cardinality(DOMAIN share'[p]) = Offer[packet'[p].key].winners
  <2>1. CASE packet[p].status = "none" /\ ~SameRows(p)
    <3>1. /\ share'[p] = <<>> /\ packet'[p].key \in CreateKeys
          /\ packet'[p].coins = Offer[packet'[p].key].total
          /\ packet'[p].slots = Offer[packet'[p].key].winners
      <4>1. PICK q \in Packets :
              /\ OthersSame(q) /\ share' = share /\ job[r].key \in CreateKeys
              /\ packet'[q] = [status |-> "ACTIVE", coins |-> Offer[job[r].key].total,
                               slots |-> Offer[job[r].key].winners, key |-> job[r].key]
        BY <1>3, InsertIs
      <4>2. q = p
        BY <2>1, <4>1 DEF OthersSame
      <4> QED
        BY <2>1, <4>1, <4>2 DEF ShapeInv, RowInv
    <3>2. SumFunction(share'[p]) = 0 /\ Cardinality(DOMAIN share'[p]) = 0
      <4>1. DOMAIN <<>> = {}
        OBVIOUS
      <4> QED
        BY <3>1, <4>1, SumOfAll, SumEmpty, FS_EmptySet
    <3>3. Offer[packet'[p].key].total \in Int /\ Offer[packet'[p].key].winners \in Int
      BY <3>1, OfferIs
    <3> QED
      BY <3>1, <3>2, <3>3
  <2> QED
    BY <1>2, <1>3, <2>1, InsertIs DEF OthersSame
<1>4. ASSUME NEW r \in Reqs, ApplyClaim(r), job[r].packet = p
      PROVE  /\ packet'[p].coins + SumFunction(share'[p]) = Offer[packet'[p].key].total
             /\ packet'[p].slots + Cardinality(DOMAIN share'[p]) = Offer[packet'[p].key].winners
  <2> DEFINE u == Caller[r]
             a == job[r].amount
             D == DOMAIN share[p]
  <2>1. /\ u \notin D /\ packet[p].status # "none" /\ a \in Int
        /\ packet'[p].coins = packet[p].coins - a
        /\ packet'[p].slots = packet[p].slots - 1 /\ packet'[p].key = packet[p].key
        /\ DOMAIN share'[p] = D \cup {u} /\ share'[p][u] = a
        /\ \A v \in D : share'[p][v] = share[p][v]
    BY <1>4, ApplyIs
  <2>2. IsFiniteSet(D) /\ Cardinality(D) \in Nat
    BY <1>0, SharesFinite
  <2>3. \A v \in D : share[p][v] \in Int
    BY DEF ShapeInv, RowInv
  <2> HIDE DEF u, a, D
  <2>4. SumFunctionOnSet(share'[p], D \cup {u}) = a + SumFunctionOnSet(share'[p], D)
    <3>1. \A v \in D \cup {u} : share'[p][v] \in Int
      BY <2>1, <2>3
    <3> QED
      BY <2>1, <2>2, <3>1, SumAdd
  <2>5. SumFunctionOnSet(share'[p], D) = SumFunctionOnSet(share[p], D)
    BY <2>1, <2>2, SumEqual
  <2>6. SumFunctionOnSet(share[p], D) \in Int
    BY <2>2, <2>3, SumInt
  <2>7. SumFunction(share'[p]) = a + SumFunction(share[p]) /\ SumFunction(share[p]) \in Int
    BY <2>1, <2>4, <2>5, <2>6, SumOfAll DEF D
  <2>8. Cardinality(DOMAIN share'[p]) = Cardinality(D) + 1
    BY <2>1, <2>2, FS_AddElement
  <2>9. packet[p].coins \in Int /\ packet[p].slots \in Int
    BY <1>0, PacketIs
  <2> QED
    BY <1>1, <2>1, <2>2, <2>7, <2>8, <2>9 DEF D
<1>5. ASSUME NEW s \in Sweepers, SweepMark(s)
      PROVE  /\ packet'[p].coins + SumFunction(share'[p]) = Offer[packet'[p].key].total
             /\ packet'[p].slots + Cardinality(DOMAIN share'[p]) = Offer[packet'[p].key].winners
  BY <1>1, <1>5, MarkIs DEF OthersSame, SameRows
<1>6. UNCHANGED <<packet, share>> => SameRows(p)
  BY DEF SameRows
<1>7. ASSUME NEW r \in Reqs, ApplyClaim(r), job[r].packet # p
      PROVE  SameRows(p)
  BY <1>7, ApplyIs DEF OthersSame
<1> QED
  BY <1>2, <1>3, <1>4, <1>5, <1>6, <1>7, RowSteps

LEMMA RowsStep ==
  ASSUME RowsInv, [Next]_vars
  PROVE  RowsInv'
BY ShapeStep, CreditStep, SharesStep DEF RowsInv

-----------------------------------------------------------------------------
(* The locks, as long as none lapses.                                      *)

LEMMA LockStep ==
  ASSUME ~LocksLapse, ShapeInv, LockInv, [Next]_vars
  PROVE  LockInv'
<1> SUFFICES ASSUME NEW q \in Procs, pc'[q] \in Holding
             PROVE  lock'[job'[q].packet] = q
  BY DEF LockInv
<1>0. q # None /\ q # Gone
  BY ProcsAre
<1>1. ASSUME pc'[q] = pc[q], job'[q].packet = job[q].packet
      PROVE  lock[job'[q].packet] = q /\ job'[q].packet \in Locks
  BY <1>1, ProcsAre DEF LockInv, ShapeInv, WorkInv
<1>2. ASSUME NEW r \in Procs, Acts(r)
      PROVE  lock'[job'[q].packet] = q
  <2>1. Moves(r)
    BY <1>2, StepMoves
  <2>2. CASE q # r
    <3>1. pc'[q] = pc[q] /\ job'[q].packet = job[q].packet
      BY <2>1, <2>2 DEF Moves
    <3> QED
      BY <1>0, <1>1, <2>1, <2>2, <3>1 DEF Moves, Lets
  <2>3. CASE q = r
    <3>1. pc[q] \in Holding => job[q].packet \in Locks /\ lock[job[q].packet] = q
      BY ProcsAre DEF LockInv, ShapeInv, WorkInv
    <3>2. ~Idles(q)
      BY DEF Idles, Holding
    <3>3. \A l \in Locks : lock[l] = q => lock'[l] = q
      BY <1>0, <2>1, <2>3, <3>2 DEF Moves, Lets
    <3>4. \/ lock'[job'[q].packet] = q
          \/ pc[q] \in Holding /\ job'[q].packet = job[q].packet
      BY <2>1, <2>3, <3>2 DEF Moves, Arrives, Same, Holding
    <3> QED
      BY <3>1, <3>3, <3>4
  <2> QED
    BY <2>2, <2>3
<1>3. CASE Around /\ UNCHANGED lock
  BY <1>1, <1>3 DEF Around
<1>4. ASSUME NEW l \in Locks, LockExpires(l), Around
      PROVE  lock'[job'[q].packet] = q
  <2>1. lock' = [lock EXCEPT ![l] = None] /\ lock[l] = Gone
    BY <1>4 DEF LockExpires
  <2>2. DOMAIN lock = Locks
    BY DEF ShapeInv, TypeOK
  <2> QED
    BY <1>0, <1>1, <1>4, <2>1, <2>2 DEF Around
<1> QED
  BY <1>2, <1>3, <1>4, NextIs

(* Only the holder of a packet's lock writes its row or refunds it.        *)
LEMMA Exclusive ==
  ASSUME ShapeInv, LockInv, [Next]_vars, NEW q \in Procs, pc[q] \in Holding
  PROVE  LET p == job[q].packet IN
         /\ \/ SameRows(p)
            \/ q \in Reqs /\ ApplyClaim(q) /\ pc'[q] = "credit"
            \/ q \in Sweepers /\ SweepMark(q) /\ pc'[q] = "next"
         /\ RefundKey(p) \in used' => RefundKey(p) \in used \/ pc[q] = "refund"
<1> DEFINE p == job[q].packet
<1>1. p \in Packets /\ lock[p] = q /\ packet[p].status # "none" /\ TypeOK
  BY DEF LockInv, ShapeInv, WorkInv
<1>2. \A r \in Procs : pc[r] \in Holding /\ job[r].packet = p => r = q
  BY <1>1 DEF LockInv
<1> HIDE DEF p
<1>3. ASSUME NEW r \in Reqs, CreateInsert(r)
      PROVE  SameRows(p)
  BY <1>1, <1>3, InsertIs DEF OthersSame
<1>4. ASSUME NEW r \in Reqs, ApplyClaim(r), ~SameRows(p)
      PROVE  q \in Reqs /\ ApplyClaim(q) /\ pc'[q] = "credit"
  <2>1. /\ job[r].packet = p /\ pc[r] = "apply" /\ r \in Procs
        /\ Goto(r, "credit")
    BY <1>1, <1>4, ApplyIs, ProcsAre DEF OthersSame, ApplyClaim
  <2>2. r = q
    BY <1>2, <2>1 DEF Holding
  <2> QED
    BY <1>1, <1>4, <2>1, <2>2, Goes
<1>5. ASSUME NEW s \in Sweepers, SweepMark(s), ~SameRows(p)
      PROVE  q \in Sweepers /\ SweepMark(q) /\ pc'[q] = "next"
  <2>1. /\ job[s].packet = p /\ pc[s] = "mark" /\ s \in Procs
        /\ Goto(s, "next")
    BY <1>1, <1>5, MarkIs, ProcsAre DEF OthersSame, SweepMark
  <2>2. s = q
    BY <1>2, <2>1 DEF Holding
  <2> QED
    BY <1>1, <1>5, <2>1, <2>2, Goes
<1>6. RefundKey(p) \in used' => RefundKey(p) \in used \/ pc[q] = "refund"
  BY <1>1, <1>2, UsedIs, ProcsAre DEF Holding
<1>7. UNCHANGED <<packet, share>> => SameRows(p)
  BY DEF SameRows
<1> QED
  BY <1>3, <1>4, <1>5, <1>6, <1>7, RowSteps DEF p, Refunded

LEMMA DrawStep ==
  ASSUME ShapeInv, LockInv, DrawInv, RefundInv, [Next]_vars
  PROVE  DrawInv'
<1> SUFFICES ASSUME NEW q \in Reqs, pc'[q] = "apply"
             PROVE  LET p == job'[q].packet IN
                    /\ packet'[p].status = "ACTIVE" /\ packet'[p].slots > 0 /\ RefundKey(p) \notin used'
                    /\ job'[q].amount \in ClaimAmounts(packet'[p])
                    /\ job'[q].complete <=> packet'[p].slots <= 1
  BY DEF DrawInv, Refunded, ClaimAmounts
<1>0. q \in Procs
  BY ProcsAre
<1>1. CASE pc[q] = "apply" /\ Same(q)
  <2>1. /\ packet[job[q].packet].status = "ACTIVE" /\ packet[job[q].packet].slots > 0
        /\ ~Refunded(job[q].packet) /\ job[q].amount \in ClaimAmounts(packet[job[q].packet])
        /\ job[q].complete <=> packet[job[q].packet].slots <= 1
    BY <1>1 DEF DrawInv
  <2>2. SameRows(job[q].packet) /\ RefundKey(job[q].packet) \notin used'
    <3>1. /\ SameRows(job[q].packet) \/ pc'[q] = "credit" \/ pc'[q] = "next"
          /\ RefundKey(job[q].packet) \in used' => RefundKey(job[q].packet) \in used \/ pc[q] = "refund"
      BY <1>0, <1>1, Exclusive DEF Holding
    <3> QED
      BY <1>1, <2>1, <3>1 DEF Refunded
  <2> QED
    BY <1>1, <2>1, <2>2 DEF SameRows, Same, Refunded
<1>2. ASSUME ClaimRead(q), Claimable(job[q].packet), job'[q].packet = job[q].packet,
             pc[q] = "read",
             job'[q].amount \in ClaimAmounts(packet[job[q].packet]),
             job'[q].complete <=> packet[job[q].packet].slots <= 1
      PROVE  LET p == job'[q].packet IN
             /\ packet'[p].status = "ACTIVE" /\ packet'[p].slots > 0 /\ RefundKey(p) \notin used'
             /\ job'[q].amount \in ClaimAmounts(packet'[p])
             /\ job'[q].complete <=> packet'[p].slots <= 1
  <2>1. packet' = packet /\ used' = used
    BY <1>2 DEF ClaimRead, rows, wallet
  <2>2. job[q].packet \in Packets
    BY <1>0, <1>2 DEF ShapeInv, WorkInv, Holding
  <2>3. packet[job[q].packet].status = "ACTIVE" /\ packet[job[q].packet].slots > 0
        /\ ~Refunded(job[q].packet)
    BY <1>2, <2>2 DEF Claimable, RefundInv
  <2> QED
    BY <1>2, <2>1, <2>3 DEF Refunded
<1>3. ASSUME NEW r \in Procs, Acts(r), ~(pc[q] = "apply" /\ Same(q))
      PROVE  /\ ClaimRead(q) /\ Claimable(job[q].packet) /\ job'[q].packet = job[q].packet
             /\ pc[q] = "read" /\ job'[q].amount \in ClaimAmounts(packet[job[q].packet])
             /\ job'[q].complete <=> packet[job[q].packet].slots <= 1
  <2>1. Moves(r)
    BY <1>3, StepMoves
  <2>2. CASE q # r
    BY <1>0, <1>3, <2>1, <2>2 DEF Moves, Same
  <2>3. CASE q = r
    BY <1>3, <2>1, <2>3 DEF Moves, Arrives, Idles, Same
  <2> QED
    BY <2>2, <2>3
<1>4. CASE Around
  BY <1>1, <1>4 DEF Around, Same
<1> QED
  BY <1>1, <1>2, <1>3, <1>4, NextIs

LEMMA SweepInvStep ==
  ASSUME ShapeInv, LockInv, SweepInv, [Next]_vars
  PROVE  SweepInv'
<1> SUFFICES ASSUME NEW q \in Procs, pc'[q] \in {"refund", "mark"}
             PROVE  LET p == job'[q].packet IN
                    /\ p \in Range(overdue') /\ packet'[p].status = "ACTIVE"
                    /\ job'[q].amount = packet'[p].coins
  BY DEF SweepInv, Due
<1>0. TypeOK
  BY DEF ShapeInv
<1>1. CASE pc[q] \in {"refund", "mark"} /\ job'[q].packet = job[q].packet
           /\ job'[q].amount = job[q].amount
  <2> DEFINE p == job[q].packet
  <2>1. /\ p \in Packets /\ Due(p) /\ packet[p].status = "ACTIVE"
        /\ job[q].amount = packet[p].coins
    BY <1>1 DEF SweepInv, ShapeInv, WorkInv, Holding
  <2>2. SameRows(p)
    BY <1>1, Exclusive DEF Holding, ApplyClaim
  <2> HIDE DEF p
  <2>3. p \in Range(overdue')
    BY <1>0, <2>1, DueIs DEF Due
  <2> QED
    BY <1>1, <2>1, <2>2, <2>3 DEF SameRows, p
<1>2. ASSUME UNCHANGED <<packet, share, overdue, used>>, Due(job'[q].packet),
             packet[job'[q].packet].status = "ACTIVE",
             job'[q].amount = packet[job'[q].packet].coins
      PROVE  LET p == job'[q].packet IN
             /\ p \in Range(overdue') /\ packet'[p].status = "ACTIVE"
             /\ job'[q].amount = packet'[p].coins
  BY <1>2 DEF Due
<1>3. ASSUME NEW r \in Procs, Acts(r)
      PROVE  \/ /\ pc[q] \in {"refund", "mark"} /\ job'[q].packet = job[q].packet
                /\ job'[q].amount = job[q].amount
             \/ /\ UNCHANGED <<packet, share, overdue, used>> /\ Due(job'[q].packet)
                /\ packet[job'[q].packet].status = "ACTIVE"
                /\ job'[q].amount = packet[job'[q].packet].coins
  <2>1. Moves(r)
    BY <1>3, StepMoves
  <2>2. CASE q # r
    BY <2>1, <2>2 DEF Moves
  <2>3. CASE q = r
    BY <2>1, <2>3 DEF Moves, Arrives, Idles, Same
  <2> QED
    BY <2>2, <2>3
<1>4. CASE Around
  BY <1>1, <1>4 DEF Around
<1> QED
  BY <1>1, <1>2, <1>3, <1>4, NextIs

LEMMA RefundStep ==
  ASSUME ShapeInv, SweepInv, RefundInv, [Next]_vars
  PROVE  RefundInv'
<1> SUFFICES ASSUME NEW p \in Packets, RefundKey(p) \in used'
             PROVE  p \in Range(overdue')
  BY DEF RefundInv, Refunded, Due
<1>1. Due(p)
  BY UsedIs, ProcsAre DEF SweepInv, RefundInv, Refunded
<1> QED
  BY <1>1, DueIs DEF ShapeInv, Due

LEMMA HeldStep ==
  ASSUME ~LocksLapse, ShapeInv, HeldInv, [Next]_vars
  PROVE  HeldInv'
BY LockStep, DrawStep, SweepInvStep, RefundStep DEF HeldInv

-----------------------------------------------------------------------------
(* Every slot pays.                                                        *)

LEMMA BaseIs ==
  ASSUME NEW k \in CreateKeys, Offer[k].total >= Offer[k].winners
  PROVE  /\ Base(Offer[k]) \in Int /\ Base(Offer[k]) >= 1
         /\ Rest(Offer[k]) \in 0 .. (Offer[k].winners - 1)
         /\ Offer[k].total = Offer[k].winners * Base(Offer[k]) + Extra(Offer[k], Offer[k].winners)
<1> DEFINE t == Offer[k].total
           w == Offer[k].winners
<1>1. t \in Int /\ w \in Nat \ {0} /\ t >= w
  BY OfferIs
<1>2. \A a \in Int, b \in Nat \ {0} :
        /\ a \div b \in Int /\ a % b \in 0 .. (b - 1) /\ a = b * (a \div b) + (a % b)
        /\ a >= b => a \div b >= 1
  BY Divides
<1> HIDE DEF t, w
<1>3. /\ t \div w \in Int /\ t % w \in 0 .. (w - 1) /\ t = w * (t \div w) + (t % w) /\ t \div w >= 1
  BY <1>1, <1>2
<1>4. Greater(0, (t % w) - (w - w)) = t % w
  <2> DEFINE m == t % w
  <2>1. m \in 0 .. (w - 1) /\ w \in Int
    BY <1>1, <1>3
  <2> HIDE DEF m
  <2>2. Greater(0, m - (w - w)) = m
    BY <2>1 DEF Greater
  <2> QED
    BY <2>2 DEF m
<1> QED
  BY <1>3, <1>4 DEF Base, Rest, Extra, t, w

LEMMA EvenShares ==
  ASSUME NEW w \in Nat, w > 0, NEW b \in Int, b >= 1, NEW m \in 0 .. (w - 1), NEW n \in 1 .. w,
         NEW a \in Int,
         n <= 1 => a = n * b + Greater(0, m - (w - n)),
         n > 1 => a = b + (IF w - n < m THEN 1 ELSE 0)
  PROVE  /\ (n * b + Greater(0, m - (w - n))) - a = (n - 1) * b + Greater(0, m - (w - (n - 1)))
         /\ a \in b .. (b + 1)
<1>1. (n - 1) * b = n * b - b /\ n * b \in Int
  OBVIOUS
<1>2. CASE n = 1
  BY <1>1, <1>2 DEF Greater
<1>3. CASE n > 1
  BY <1>1, <1>3 DEF Greater
<1> QED
  BY <1>2, <1>3

(* What a draw leaves of a packet.                                         *)
LEMMA DrawLeaves ==
  ASSUME RowsInv, DrawInv, PaysInv, NEW r \in Reqs, ApplyClaim(r)
  PROVE  LET p == job[r].packet
             o == OfferOf(p) IN
         /\ job[r].amount >= 1
         /\ packet'[p].slots \in 0 .. o.winners /\ packet'[p].coins >= packet'[p].slots
         /\ packet'[p].status = "COMPLETED" => packet'[p].coins = 0 /\ packet'[p].slots = 0
         /\ o.dist = "FIXED" =>
              /\ packet'[p].coins = packet'[p].slots * Base(o) + Extra(o, packet'[p].slots)
              /\ job[r].amount \in Base(o) .. (Base(o) + 1)
<1> DEFINE p == job[r].packet
           o == OfferOf(p)
           a == job[r].amount
           c == packet[p].coins
           n == packet[p].slots
<1>1. /\ p \in Packets /\ packet[p].status # "none" /\ pc[r] = "apply" /\ a \in Int
      /\ packet'[p].coins = c - a /\ packet'[p].slots = n - 1
      /\ packet'[p].status = IF job[r].complete THEN "COMPLETED" ELSE packet[p].status
  BY ApplyIs DEF RowsInv
<1>2. /\ packet[p].status = "ACTIVE" /\ n > 0 /\ a \in ClaimAmounts(packet[p])
      /\ job[r].complete <=> n <= 1
  BY <1>1 DEF DrawInv
<1>3. /\ o = Offer[packet[p].key] /\ packet[p].key \in CreateKeys
      /\ n <= 1 => a = c
      /\ n > 1 /\ o.dist = "FIXED" => a = Base(o) + (IF o.winners - n < Rest(o) THEN 1 ELSE 0)
      /\ n > 1 /\ o.dist # "FIXED" => a >= 1 /\ (a <= c - (n - 1) \/ a = 1)
  BY <1>1, <1>2, AmountsAre DEF RowsInv
<1>4. /\ Base(o) \in Int /\ Base(o) >= 1 /\ Rest(o) \in 0 .. (o.winners - 1)
      /\ o.winners \in Nat /\ o.winners > 0
  BY <1>1, <1>3, BaseIs, OfferIs DEF RowsInv, ShapeInv, RowInv
<1>5. /\ n \in 1 .. o.winners /\ c \in Int /\ c >= n
      /\ o.dist = "FIXED" => c = n * Base(o) + Extra(o, n)
  <2>1. n \in 0 .. o.winners /\ c >= n /\ (o.dist = "FIXED" => c = n * Base(o) + Extra(o, n))
    BY <1>1 DEF PaysInv, FixedInv, EverySlotPays
  <2>2. c \in Int
    BY <1>1, PacketIs DEF RowsInv, ShapeInv
  <2> HIDE DEF n, c, o
  <2> QED
    BY <1>2, <1>4, <2>1, <2>2
<1> HIDE DEF p, o, a, c, n
<1>6. CASE o.dist = "FIXED"
  <2>1. c - a = (n - 1) * Base(o) + Extra(o, n - 1) /\ a \in Base(o) .. (Base(o) + 1)
    <3> DEFINE w == o.winners
               b == Base(o)
               m == Rest(o)
    <3>1. /\ w \in Nat /\ w > 0 /\ b \in Int /\ b >= 1 /\ m \in 0 .. (w - 1) /\ n \in 1 .. w
          /\ a \in Int
      BY <1>1, <1>4, <1>5
    <3>2. c = n * b + Greater(0, m - (w - n))
      BY <1>5, <1>6 DEF Extra
    <3>3. /\ n <= 1 => a = c
          /\ n > 1 => a = b + (IF w - n < m THEN 1 ELSE 0)
      BY <1>3, <1>6
    <3> HIDE DEF w, b, m
    <3>4. /\ (n * b + Greater(0, m - (w - n))) - a = (n - 1) * b + Greater(0, m - (w - (n - 1)))
          /\ a \in b .. (b + 1)
      BY <3>1, <3>2, <3>3, EvenShares
    <3> QED
      <4>1. c - a = (n - 1) * b + Greater(0, m - (w - (n - 1)))
        BY <3>2, <3>4
      <4>2. Extra(o, n - 1) = Greater(0, m - (w - (n - 1)))
        BY DEF Extra, w, m
      <4> QED
        BY <3>4, <4>1, <4>2, Zenon DEF b
  <2>2. Extra(o, n - 1) \in Int /\ Extra(o, n - 1) >= 0
    BY <1>4, <1>5 DEF Extra, Greater
  <2>3. (n - 1) * Base(o) >= n - 1 /\ (n - 1) * Base(o) \in Int
    <3>1. \A i \in Nat, j \in Int : j >= 1 => i * j >= i /\ i * j \in Int
      OBVIOUS
    <3> QED
      BY <1>4, <1>5, <3>1
  <2>4. c - a >= n - 1 /\ a >= 1
    BY <1>1, <1>4, <1>5, <2>1, <2>2, <2>3
  <2> QED
    BY <1>1, <1>2, <1>3, <1>4, <1>5, <2>1, <2>4 DEF p, o, a
<1>7. CASE o.dist # "FIXED"
  <2>1. a >= 1 /\ c - a >= n - 1
    BY <1>1, <1>3, <1>5, <1>7
  <2> QED
    BY <1>1, <1>2, <1>3, <1>4, <1>5, <1>7, <2>1 DEF p, o, a
<1> QED
  BY <1>6, <1>7

LEMMA PaysStep ==
  ASSUME RowsInv, DrawInv, PaysInv, [Next]_vars
  PROVE  PaysInv'
<1> DEFINE Fine(p) ==
      /\ packet'[p].slots >= 0 /\ packet'[p].coins >= packet'[p].slots
      /\ \A u \in DOMAIN share'[p] : share'[p][u] >= 1
      /\ packet'[p].status = "COMPLETED" => packet'[p].coins = 0 /\ packet'[p].slots = 0
      /\ packet'[p].status # "none" =>
           LET o == Offer[packet'[p].key] IN
           /\ packet'[p].slots \in 0 .. o.winners
           /\ o.dist = "FIXED" =>
                /\ packet'[p].coins = packet'[p].slots * Base(o) + Extra(o, packet'[p].slots)
                /\ \A u \in DOMAIN share'[p] : share'[p][u] \in Base(o) .. (Base(o) + 1)
<1>1. ASSUME NEW p \in Packets
      PROVE  /\ packet[p].slots >= 0 /\ packet[p].coins >= packet[p].slots
             /\ \A u \in DOMAIN share[p] : share[p][u] >= 1
             /\ packet[p].status = "COMPLETED" => packet[p].coins = 0 /\ packet[p].slots = 0
             /\ packet[p].status # "none" =>
                  LET o == Offer[packet[p].key] IN
                  /\ packet[p].slots \in 0 .. o.winners
                  /\ o.dist = "FIXED" =>
                       /\ packet[p].coins = packet[p].slots * Base(o) + Extra(o, packet[p].slots)
                       /\ \A u \in DOMAIN share[p] : share[p][u] \in Base(o) .. (Base(o) + 1)
  BY DEF PaysInv, FixedInv, EverySlotPays, OfferOf
<1>2. ASSUME NEW p \in Packets, SameRows(p)
      PROVE  Fine(p)
  BY <1>1, <1>2 DEF SameRows
<1>3. ASSUME NEW r \in Reqs, CreateInsert(r), NEW p \in Packets
      PROVE  Fine(p)
  <2>1. PICK q \in Packets :
          /\ packet[q].status = "none" /\ OthersSame(q) /\ share' = share
          /\ packet'[q].status = "ACTIVE" /\ packet'[q].key = job[r].key
          /\ packet'[q].coins = Offer[job[r].key].total
          /\ packet'[q].slots = Offer[job[r].key].winners
          /\ job[r].key \in CreateKeys /\ Offer[job[r].key].total >= Offer[job[r].key].winners
    BY <1>3, InsertIs DEF RowsInv
  <2>2. CASE p # q
    BY <1>2, <2>1, <2>2 DEF OthersSame
  <2>3. CASE p = q
    <3> DEFINE o == Offer[job[r].key]
    <3>1. share'[p] = <<>>
      BY <2>1, <2>3 DEF RowsInv, ShapeInv, RowInv
    <3>2. \A u \in DOMAIN share'[p] : FALSE
      BY <3>1
    <3>3. o.winners \in Nat /\ o.total \in Nat /\ o.winners \in 0 .. o.winners
      BY <2>1, OfferIs
    <3>4. o.total = o.winners * Base(o) + Extra(o, o.winners)
      BY <2>1, BaseIs
    <3> HIDE DEF o
    <3>5. /\ packet'[p].status = "ACTIVE" /\ packet'[p].coins = o.total
          /\ packet'[p].slots = o.winners /\ Offer[packet'[p].key] = o /\ o.total >= o.winners
      BY <2>1, <2>3 DEF o
    <3> QED
      BY <3>2, <3>3, <3>4, <3>5
  <2> QED
    BY <2>2, <2>3
<1>4. ASSUME NEW r \in Reqs, ApplyClaim(r), NEW p \in Packets
      PROVE  Fine(p)
  <2> DEFINE q == job[r].packet
             c == Caller[r]
             o == OfferOf(q)
  <2>1. /\ OthersSame(q) /\ q \in Packets /\ packet[q].status # "none"
        /\ packet'[q].key = packet[q].key
        /\ packet'[q].status = IF job[r].complete THEN "COMPLETED" ELSE packet[q].status
        /\ DOMAIN share'[q] = DOMAIN share[q] \cup {c} /\ share'[q][c] = job[r].amount
        /\ \A v \in DOMAIN share[q] : share'[q][v] = share[q][v]
    BY <1>4, ApplyIs DEF RowsInv
  <2>2. CASE p # q
    BY <1>2, <2>1, <2>2 DEF OthersSame
  <2>3. CASE p = q
    <3>1. /\ job[r].amount >= 1
          /\ packet'[q].slots \in 0 .. o.winners /\ packet'[q].coins >= packet'[q].slots
          /\ packet'[q].status = "COMPLETED" => packet'[q].coins = 0 /\ packet'[q].slots = 0
          /\ o.dist = "FIXED" =>
               /\ packet'[q].coins = packet'[q].slots * Base(o) + Extra(o, packet'[q].slots)
               /\ job[r].amount \in Base(o) .. (Base(o) + 1)
      BY <1>4, DrawLeaves
    <3>2. o = Offer[packet'[q].key] /\ o = Offer[packet[q].key]
      BY <2>1 DEF OfferOf
    <3>3. o.winners \in Nat
      BY <2>1, <3>2, OfferIs DEF RowsInv, ShapeInv, RowInv
    <3>4. /\ \A u \in DOMAIN share[q] : share[q][u] >= 1
          /\ o.dist = "FIXED" => \A u \in DOMAIN share[q] : share[q][u] \in Base(o) .. (Base(o) + 1)
      BY <1>1, <2>1, <3>2
    <3> HIDE DEF q, c, o
    <3>5. packet'[q].slots >= 0
      BY <3>1, <3>3
    <3>6. /\ \A u \in DOMAIN share'[q] : share'[q][u] >= 1
          /\ o.dist = "FIXED" => \A u \in DOMAIN share'[q] : share'[q][u] \in Base(o) .. (Base(o) + 1)
      BY <2>1, <3>1, <3>4
    <3>7. Fine(q)
      BY <3>1, <3>2, <3>5, <3>6
    <3> QED
      BY <2>3, <3>7
  <2> QED
    BY <2>2, <2>3
<1>5. ASSUME NEW s \in Sweepers, SweepMark(s), NEW p \in Packets
      PROVE  Fine(p)
  <2> DEFINE q == job[s].packet
  <2>1. /\ OthersSame(q) /\ q \in Packets /\ share' = share /\ packet[q].status # "none"
        /\ packet'[q].coins = packet[q].coins /\ packet'[q].slots = packet[q].slots
        /\ packet'[q].key = packet[q].key /\ packet'[q].status \in {"REFUNDED", "EXPIRED"}
    BY <1>5, MarkIs DEF RowsInv
  <2>2. CASE p # q
    BY <1>2, <2>1, <2>2 DEF OthersSame
  <2>3. CASE p = q
    <3> HIDE DEF q
    <3> QED
      BY <1>1, <2>1, <2>3
  <2> QED
    BY <2>2, <2>3
<1>6. ASSUME UNCHANGED <<packet, share>>, NEW p \in Packets
      PROVE  Fine(p)
  BY <1>2, <1>6 DEF SameRows
<1>7. \A p \in Packets : Fine(p)
  <2> HIDE DEF Fine
  <2> QED
    BY <1>3, <1>4, <1>5, <1>6, RowSteps
<1> QED
  BY <1>7 DEF PaysInv, FixedInv, EverySlotPays, OfferOf

LEMMA RefundedStay ==
  ASSUME RowsInv, HeldInv, [Next]_vars, NEW p \in Packets, Refunded(p)
  PROVE  share'[p] = share[p] /\ packet'[p].coins = packet[p].coins
<1>1. packet[p].status # "none"
  BY DEF HeldInv, RefundInv, RowsInv, ShapeInv, RowInv
<1>2. ASSUME NEW r \in Reqs, CreateInsert(r)
      PROVE  SameRows(p)
  BY <1>1, <1>2, InsertIs DEF OthersSame, RowsInv
<1>3. ASSUME NEW r \in Reqs, ApplyClaim(r)
      PROVE  SameRows(p)
  BY <1>3, ApplyIs DEF OthersSame, RowsInv, HeldInv, DrawInv
<1>4. ASSUME NEW s \in Sweepers, SweepMark(s)
      PROVE  share'[p] = share[p] /\ packet'[p].coins = packet[p].coins
  BY <1>4, MarkIs DEF OthersSame, RowsInv, SameRows
<1> QED
  BY <1>2, <1>3, <1>4, RowSteps DEF SameRows

-----------------------------------------------------------------------------
(* Where the coins are.                                                    *)

Purses == SumFunctionOnSet([u \in Users |-> gold[u][GOLD]], Users)
Totals == [k \in CreateKeys |-> Offer[k].total]
Funded(ks) == {k \in CreateKeys : CreateKey(k) \in ks}
Reverted(ks) == {u \in Users : ReversalKey(u) \in ks}
Credited(p, ks) == {u \in DOMAIN share[p] : ClaimKey(p, u) \in ks}
(* What a packet gave, were these keys used.                               *)
PaidBy(p, ks) == (IF RefundKey(p) \in ks THEN packet[p].coins ELSE 0)
                + SumFunctionOnSet(share[p], Credited(p, ks))
PaidOut(ks) == SumFunctionOnSet([p \in Packets |-> PaidBy(p, ks)], Packets)
Balanced(purses, ks) ==
    purses = SumFunctionOnSet(Fund, Users) - SumFunctionOnSet(Chargeback, Reverted(ks))
             - SumFunctionOnSet(Totals, Funded(ks)) + PaidOut(ks)

LEMMA ConservedIs == CoinsAreConserved <=> Balanced(Purses, used)
BY DEF CoinsAreConserved, Balanced, Purses, Totals, Funded, Reverted, Credited, PaidBy, PaidOut, Worth,
       Refunded

LEMMA PaidInt ==
  ASSUME ShapeInv, NEW p \in Packets, NEW ks
  PROVE  /\ PaidBy(p, ks) \in Int /\ IsFiniteSet(Credited(p, ks))
         /\ SumFunctionOnSet(share[p], Credited(p, ks)) \in Int /\ packet[p].coins \in Int
<1>1. IsFiniteSet(DOMAIN share[p]) /\ Credited(p, ks) \in SUBSET DOMAIN share[p]
  BY SharesFinite DEF ShapeInv, Credited
<1>2. \A u \in DOMAIN share[p] : share[p][u] \in Int
  BY DEF ShapeInv, RowInv
<1>3. SumFunctionOnSet(share[p], Credited(p, ks)) \in Int
  BY <1>1, <1>2, SumInt
<1>4. packet[p].coins \in Int
  BY PacketIs DEF ShapeInv
<1> QED
  BY <1>1, <1>3, <1>4, FS_Subset DEF PaidBy

LEMMA BalanceInt ==
  ASSUME ShapeInv, NEW ks
  PROVE  /\ SumFunctionOnSet(Fund, Users) \in Int
         /\ SumFunctionOnSet(Chargeback, Reverted(ks)) \in Int
         /\ SumFunctionOnSet(Totals, Funded(ks)) \in Int /\ PaidOut(ks) \in Int /\ Purses \in Int
         /\ IsFiniteSet(Reverted(ks)) /\ IsFiniteSet(Funded(ks))
<1>1. Reverted(ks) \in SUBSET Users /\ Funded(ks) \in SUBSET CreateKeys
  BY DEF Reverted, Funded
<1>2. IsFiniteSet(Reverted(ks)) /\ IsFiniteSet(Funded(ks))
  BY <1>1, FiniteAssumption, FS_Subset
<1>3. SumFunctionOnSet(Fund, Users) \in Int
  BY FiniteAssumption, FundAssumption, SumInt
<1>4. SumFunctionOnSet(Chargeback, Reverted(ks)) \in Int
  BY <1>1, FiniteAssumption, FundAssumption, SumInt
<1>5. SumFunctionOnSet(Totals, Funded(ks)) \in Int
  <2>1. \A k \in CreateKeys : Totals[k] \in Int
    BY OfferIs DEF Totals
  <2> QED
    BY <1>1, <2>1, FiniteAssumption, SumInt
<1>6. PaidOut(ks) \in Int
  <2> DEFINE f == [p \in Packets |-> PaidBy(p, ks)]
  <2>1. \A p \in Packets : f[p] \in Int
    BY PaidInt
  <2> HIDE DEF f
  <2>2. SumFunctionOnSet(f, Packets) \in Int
    BY <2>1, FiniteAssumption, SumInt
  <2> QED
    BY <2>2 DEF PaidOut, f
<1>7. Purses \in Int
  <2> DEFINE f == [u \in Users |-> gold[u][GOLD]]
  <2>1. \A u \in Users : f[u] \in Int
    BY DEF ShapeInv, TypeOK
  <2> HIDE DEF f
  <2>2. SumFunctionOnSet(f, Users) \in Int
    BY <2>1, FiniteAssumption, SumInt
  <2> QED
    BY <2>2 DEF Purses, f
<1> QED
  BY <1>2, <1>3, <1>4, <1>5, <1>6, <1>7

(* A call with a new key moves its coins, one with a used key none.        *)
LEMMA PursesMove ==
  ASSUME ShapeInv, NEW k \in WalletKeys, NEW c, Posted(k, c), k \notin used
  PROVE  c \in WalletCalls /\ used' = used \cup {k} /\ Purses' = Purses + W!Signed(c)
<1> DEFINE f == [u \in Users |-> gold[u][GOLD]]
           g == [u \in Users |-> gold'[u][GOLD]]
<1>1. /\ gold' \in [Users -> [{GOLD} -> Int]] /\ used' = used \cup {k} /\ c \in WalletCalls
      /\ gold'[c.user][GOLD] = gold[c.user][GOLD] + W!Signed(c)
      /\ \A v \in Users : v # c.user => gold'[v] = gold[v]
  BY Posts DEF Posted, ShapeInv
<1>2. c.user \in Users /\ W!Signed(c) \in Int
  BY <1>1 DEF WalletCalls, W!Signed, W!Unmoved
<1>3. \A u \in Users : f[u] \in Int /\ g[u] \in Int
  BY <1>1 DEF ShapeInv, TypeOK
<1>4. g[c.user] = f[c.user] + W!Signed(c) /\ \A u \in Users : u # c.user => f[u] = g[u]
  BY <1>1, <1>2
<1> HIDE DEF f, g
<1>5. SumFunctionOnSet(g, Users) = SumFunctionOnSet(f, Users) - f[c.user] + g[c.user]
  BY <1>2, <1>3, <1>4, FiniteAssumption, SumChange
<1>6. SumFunctionOnSet(f, Users) \in Int
  BY <1>3, FiniteAssumption, SumInt
<1>7. SumFunctionOnSet(g, Users) = SumFunctionOnSet(f, Users) + W!Signed(c)
  BY <1>2, <1>3, <1>4, <1>5, <1>6
<1> QED
  BY <1>1, <1>7 DEF Purses, f, g

LEMMA KeysApart ==
  /\ \A k, u : CreateKey(k) # ReversalKey(u)
  /\ \A k, m : CreateKey(k) = CreateKey(m) => k = m
  /\ \A u, v : ReversalKey(u) = ReversalKey(v) => u = v
BY DEF CreateKey, ReversalKey

LEMMA SignedIs ==
  ASSUME NEW u, NEW a \in Int
  PROVE  /\ W!Signed(Gold("moveDebit", u, a)) = -a
         /\ W!Signed(Gold("moveCredit", u, a)) = a
         /\ W!Signed(Gold("reverse", u, a)) = -a
BY DEF W!Signed, W!Unmoved, W!Credits, Gold

LEMMA CreateBalances ==
  ASSUME ShapeInv, Balanced(Purses, used), NEW k \in CreateKeys, CreateKey(k) \notin used,
         Posted(CreateKey(k), CreateCall(k))
  PROVE  Balanced(Purses', used')
<1> DEFINE ks == used
           js == used \cup {CreateKey(k)}
           a == Offer[k].total
<1>1. used' = js /\ Purses' = Purses + (-a) /\ a \in Int
  BY PursesMove, KeysAre, OfferIs, SignedIs DEF CreateCall
<1>2. Reverted(js) = Reverted(ks) /\ \A p \in Packets : PaidBy(p, js) = PaidBy(p, ks)
  BY KeysApart, KeysDiffer, RefundKeys DEF Reverted, PaidBy, Credited
<1>3. PaidOut(js) = PaidOut(ks)
  BY <1>2 DEF PaidOut
<1>4. Funded(js) = Funded(ks) \cup {k} /\ k \notin Funded(ks)
  BY KeysApart DEF Funded
<1>5. SumFunctionOnSet(Totals, Funded(js)) = a + SumFunctionOnSet(Totals, Funded(ks))
  <2>1. \A m \in Funded(ks) \cup {k} : Totals[m] \in Int
    BY OfferIs DEF Totals, Funded
  <2>2. IsFiniteSet(Funded(ks)) /\ Totals[k] = a
    BY BalanceInt DEF Totals
  <2> HIDE DEF ks, js, a
  <2> QED
    BY <1>4, <2>1, <2>2, SumAdd
<1>6. /\ SumFunctionOnSet(Fund, Users) \in Int /\ Purses \in Int /\ PaidOut(ks) \in Int
      /\ SumFunctionOnSet(Chargeback, Reverted(ks)) \in Int
      /\ SumFunctionOnSet(Totals, Funded(ks)) \in Int
  BY BalanceInt
<1>7. Balanced(Purses, ks)
  OBVIOUS
<1> HIDE DEF ks, js, a
<1> QED
  BY <1>1, <1>2, <1>3, <1>5, <1>6, <1>7 DEF Balanced

LEMMA ReversalBalances ==
  ASSUME ShapeInv, Balanced(Purses, used), NEW u \in Users, ReversalKey(u) \notin used,
         Posted(ReversalKey(u), ReversalCall(u))
  PROVE  Balanced(Purses', used')
<1> DEFINE ks == used
           js == used \cup {ReversalKey(u)}
           a == Chargeback[u]
<1>1. used' = js /\ Purses' = Purses + (-a) /\ a \in Int
  BY PursesMove, KeysAre, FundAssumption, SignedIs DEF ReversalCall
<1>2. Funded(js) = Funded(ks) /\ \A p \in Packets : PaidBy(p, js) = PaidBy(p, ks)
  BY KeysApart, KeysDiffer, RefundKeys DEF Funded, PaidBy, Credited
<1>3. PaidOut(js) = PaidOut(ks)
  BY <1>2 DEF PaidOut
<1>4. Reverted(js) = Reverted(ks) \cup {u} /\ u \notin Reverted(ks)
  BY KeysApart DEF Reverted
<1>5. SumFunctionOnSet(Chargeback, Reverted(js)) = a + SumFunctionOnSet(Chargeback, Reverted(ks))
  <2>1. \A v \in Reverted(ks) \cup {u} : Chargeback[v] \in Int
    BY FundAssumption DEF Reverted
  <2>2. IsFiniteSet(Reverted(ks)) /\ Chargeback[u] = a
    BY BalanceInt
  <2> HIDE DEF ks, js, a
  <2> QED
    BY <1>4, <2>1, <2>2, SumAdd
<1>6. /\ SumFunctionOnSet(Fund, Users) \in Int /\ Purses \in Int /\ PaidOut(ks) \in Int
      /\ SumFunctionOnSet(Chargeback, Reverted(ks)) \in Int
      /\ SumFunctionOnSet(Totals, Funded(ks)) \in Int
  BY BalanceInt
<1>7. Balanced(Purses, ks)
  OBVIOUS
<1> HIDE DEF ks, js, a
<1> QED
  BY <1>1, <1>2, <1>3, <1>5, <1>6, <1>7 DEF Balanced

(* One packet gives more.                                                  *)
LEMMA PaidChange ==
  ASSUME ShapeInv, NEW ks, NEW js, NEW q \in Packets, NEW a \in Int,
         PaidBy(q, js) = PaidBy(q, ks) + a,
         \A p \in Packets : p # q => PaidBy(p, js) = PaidBy(p, ks)
  PROVE  PaidOut(js) = PaidOut(ks) + a
<1> DEFINE f == [p \in Packets |-> PaidBy(p, ks)]
           g == [p \in Packets |-> PaidBy(p, js)]
<1>1. \A p \in Packets : f[p] \in Int /\ g[p] \in Int
  BY PaidInt
<1>2. g[q] = f[q] + a /\ \A p \in Packets : p # q => f[p] = g[p]
  OBVIOUS
<1> HIDE DEF f, g
<1>3. SumFunctionOnSet(g, Packets) = SumFunctionOnSet(f, Packets) - f[q] + g[q]
  BY <1>1, <1>2, FiniteAssumption, SumChange
<1>4. SumFunctionOnSet(f, Packets) \in Int
  BY <1>1, FiniteAssumption, SumInt
<1>5. SumFunctionOnSet(g, Packets) = SumFunctionOnSet(f, Packets) + a
  BY <1>1, <1>2, <1>3, <1>4
<1> QED
  BY <1>5 DEF PaidOut, f, g

LEMMA ClaimBalances ==
  ASSUME ShapeInv, CreditInv, Balanced(Purses, used), NEW r \in Reqs, pc[r] = "credit",
         ClaimKey(job[r].packet, Caller[r]) \notin used,
         Posted(ClaimKey(job[r].packet, Caller[r]), ClaimCall(r))
  PROVE  Balanced(Purses', used')
<1> DEFINE q == job[r].packet
           u == Caller[r]
           ks == used
           js == used \cup {ClaimKey(q, u)}
           a == job[r].amount
<1>1. /\ q \in Packets /\ u \in Users /\ u \in DOMAIN share[q] /\ a = share[q][u] /\ a \in Int
  BY ProcsAre, OfferAssumption DEF ShapeInv, WorkInv, JobOK, Holding, CreditInv
<1>2. used' = js /\ Purses' = Purses + a
  BY <1>1, PursesMove, KeysAre, SignedIs DEF ClaimCall
<1>3. Funded(js) = Funded(ks) /\ Reverted(js) = Reverted(ks)
  BY KeysApart, KeysDiffer, RefundKeys DEF Funded, Reverted
<1>4. ASSUME NEW p \in Packets, p # q
      PROVE  PaidBy(p, js) = PaidBy(p, ks)
  BY <1>4, KeysDiffer, RefundKeys DEF PaidBy, Credited
<1>5. PaidBy(q, js) = PaidBy(q, ks) + a
  <2>1. Credited(q, js) = Credited(q, ks) \cup {u} /\ u \notin Credited(q, ks)
    BY <1>1, KeysDiffer DEF Credited
  <2>2. (RefundKey(q) \in js) = (RefundKey(q) \in ks)
    BY RefundKeys
  <2>3. \A v \in Credited(q, ks) \cup {u} : share[q][v] \in Int
    BY <1>1 DEF Credited, ShapeInv, RowInv
  <2>4. /\ IsFiniteSet(Credited(q, ks)) /\ packet[q].coins \in Int
        /\ SumFunctionOnSet(share[q], Credited(q, ks)) \in Int
    BY <1>1, PaidInt
  <2> HIDE DEF q, u, ks, js, a
  <2>5. SumFunctionOnSet(share[q], Credited(q, js)) = a + SumFunctionOnSet(share[q], Credited(q, ks))
    BY <1>1, <2>1, <2>3, <2>4, SumAdd
  <2> QED
    BY <1>1, <2>2, <2>4, <2>5 DEF PaidBy
<1>6. /\ SumFunctionOnSet(Fund, Users) \in Int /\ Purses \in Int /\ PaidOut(ks) \in Int
      /\ SumFunctionOnSet(Chargeback, Reverted(ks)) \in Int
      /\ SumFunctionOnSet(Totals, Funded(ks)) \in Int
  BY BalanceInt
<1>7. Balanced(Purses, ks)
  OBVIOUS
<1> HIDE DEF q, u, ks, js, a
<1>8. PaidOut(js) = PaidOut(ks) + a
  BY <1>1, <1>4, <1>5, PaidChange
<1> QED
  BY <1>1, <1>2, <1>3, <1>6, <1>7, <1>8 DEF Balanced

LEMMA RefundBalances ==
  ASSUME ShapeInv, SweepInv, Balanced(Purses, used), NEW s \in Sweepers, pc[s] = "refund",
         RefundKey(job[s].packet) \notin used,
         Posted(RefundKey(job[s].packet), RefundCall(s))
  PROVE  Balanced(Purses', used')
<1> DEFINE q == job[s].packet
           ks == used
           js == used \cup {RefundKey(q)}
           a == job[s].amount
<1>1. q \in Packets /\ a = packet[q].coins /\ a \in Int
  BY ProcsAre DEF ShapeInv, WorkInv, JobOK, Holding, SweepInv
<1>2. used' = js /\ Purses' = Purses + a
  BY <1>1, PursesMove, KeysAre, SignedIs DEF RefundCall
<1>3. Funded(js) = Funded(ks) /\ Reverted(js) = Reverted(ks)
  BY RefundKeys DEF Funded, Reverted
<1>4. \A p \in Packets : Credited(p, js) = Credited(p, ks)
  BY RefundKeys DEF Credited
<1>5. ASSUME NEW p \in Packets, p # q
      PROVE  PaidBy(p, js) = PaidBy(p, ks)
  BY <1>4, <1>5, RefundKeys DEF PaidBy
<1>6. PaidBy(q, js) = PaidBy(q, ks) + a
  <2>1. RefundKey(q) \in js /\ RefundKey(q) \notin ks
    OBVIOUS
  <2>2. packet[q].coins \in Int /\ SumFunctionOnSet(share[q], Credited(q, ks)) \in Int
    BY <1>1, PaidInt
  <2> HIDE DEF q, ks, js, a
  <2> QED
    BY <1>1, <1>4, <2>1, <2>2 DEF PaidBy
<1>7. /\ SumFunctionOnSet(Fund, Users) \in Int /\ Purses \in Int /\ PaidOut(ks) \in Int
      /\ SumFunctionOnSet(Chargeback, Reverted(ks)) \in Int
      /\ SumFunctionOnSet(Totals, Funded(ks)) \in Int
  BY BalanceInt
<1>8. Balanced(Purses, ks)
  OBVIOUS
<1> HIDE DEF q, ks, js, a
<1>9. PaidOut(js) = PaidOut(ks) + a
  BY <1>1, <1>5, <1>6, PaidChange
<1> QED
  BY <1>1, <1>2, <1>3, <1>7, <1>8, <1>9 DEF Balanced

(* A call that repeats a key changes nothing.                              *)
LEMMA RepeatBalances ==
  ASSUME ShapeInv, Balanced(Purses, used), NEW k \in WalletKeys, NEW c, Posted(k, c), k \in used
  PROVE  Balanced(Purses', used')
<1>1. gold' = gold /\ used' = used
  BY Posts DEF Posted, ShapeInv
<1> QED
  BY <1>1 DEF Purses

LEMMA ConservedStep ==
  ASSUME RowsInv, HeldInv, CoinsAreConserved, [Next]_vars
  PROVE  CoinsAreConserved'
<1>0. Balanced(Purses, used) /\ ShapeInv /\ CreditInv /\ SweepInv
  BY ConservedIs DEF RowsInv, HeldInv
<1>1. ASSUME UNCHANGED wallet
      PROVE  CoinsAreConserved'
  <2>1. gold' = gold /\ used' = used
    BY <1>1 DEF wallet
  <2>2. ASSUME NEW p \in Packets
        PROVE  Worth(p)' = PaidBy(p, used)
    <3>1. Refunded(p) => packet'[p].coins = packet[p].coins
      BY RefundedStay
    <3>2. {u \in DOMAIN share'[p] : ClaimKey(p, u) \in used} = Credited(p, used)
      <4>1. /\ DOMAIN share[p] \subseteq DOMAIN share'[p] /\ DOMAIN share'[p] \subseteq Users
        BY <1>0, SharesGrow
      <4> QED
        BY <1>0, <4>1 DEF Credited, CreditInv
    <3>3. SumFunctionOnSet(share'[p], Credited(p, used)) = SumFunctionOnSet(share[p], Credited(p, used))
      <4>1. \A u \in Credited(p, used) : share'[p][u] = share[p][u]
        BY <1>0, SharesGrow DEF Credited
      <4>2. IsFiniteSet(Credited(p, used))
        BY <1>0, PaidInt
      <4> QED
        BY <4>1, <4>2, SumEqual
    <3> QED
      BY <2>1, <3>1, <3>2, <3>3 DEF Worth, PaidBy, Refunded
  <2>3. [p \in Packets |-> Worth(p)'] = [p \in Packets |-> PaidBy(p, used)]
    BY <2>2
  <2>4. Balanced(Purses, used)
    BY <1>0
  <2> QED
    BY <2>1, <2>3, <2>4 DEF CoinsAreConserved, Balanced, Purses, Totals, Funded, Reverted, PaidOut
<1>2. ASSUME UNCHANGED rows, Balanced(Purses', used')
      PROVE  CoinsAreConserved'
  <2>1. share' = share /\ packet' = packet
    BY <1>2 DEF rows
  <2> QED
    BY <1>2, <2>1 DEF CoinsAreConserved, Balanced, Purses, Totals, Funded, Reverted, Credited, PaidBy,
       PaidOut, Worth, Refunded
<1>3. ASSUME NEW k \in CreateKeys, Posted(CreateKey(k), CreateCall(k))
      PROVE  Balanced(Purses', used')
  BY <1>0, <1>3, CreateBalances, RepeatBalances, KeysAre
<1>4. ASSUME NEW r \in Reqs, pc[r] = "credit",
             Posted(ClaimKey(job[r].packet, Caller[r]), ClaimCall(r))
      PROVE  Balanced(Purses', used')
  <2>1. ClaimKey(job[r].packet, Caller[r]) \in WalletKeys
    BY <1>0, <1>4, KeysAre, ProcsAre, OfferAssumption DEF ShapeInv, WorkInv, Holding
  <2> QED
    BY <1>0, <1>4, <2>1, ClaimBalances, RepeatBalances
<1>5. ASSUME NEW s \in Sweepers, pc[s] = "refund", Posted(RefundKey(job[s].packet), RefundCall(s))
      PROVE  Balanced(Purses', used')
  <2>1. RefundKey(job[s].packet) \in WalletKeys
    BY <1>0, <1>5, KeysAre, ProcsAre DEF ShapeInv, WorkInv, Holding
  <2> QED
    BY <1>0, <1>5, <2>1, RefundBalances, RepeatBalances
<1>6. ASSUME NEW u \in Users, ReversalKey(u) \notin used, Posted(ReversalKey(u), ReversalCall(u))
      PROVE  Balanced(Purses', used')
  BY <1>0, <1>6, ReversalBalances
<1>7. ASSUME NEW k, NEW c, Posted(k, c)
      PROVE  UNCHANGED rows
  BY <1>7 DEF Posted
<1> QED
  BY <1>1, <1>2, <1>3, <1>4, <1>5, <1>6, <1>7, WalletSteps

-----------------------------------------------------------------------------
(* The theorems.                                                           *)

LEMMA InitIsOK ==
  ASSUME Init
  PROVE  IInv /\ CoinsAreConserved
<1>1. /\ gold = [u \in Users |-> [c \in {GOLD} |-> Fund[u]]] /\ used = {}
      /\ packet = [p \in Packets |-> NoPacket] /\ share = [p \in Packets |-> <<>>]
      /\ stamped = [p \in Packets |-> {}] /\ overdue = <<>>
      /\ lock = [l \in Locks |-> None] /\ pc = [r \in Procs |-> "idle"]
      /\ job = [r \in Procs |-> NoJob] /\ crashes = 0
  BY DEF Init
<1>2. NoPacket = [status |-> "none", coins |-> 0, slots |-> 0, key |-> None]
  BY DEF NoPacket
<1>3. DOMAIN <<>> = {} /\ Range(<<>>) = {}
  BY DEF Range
<1>4. TypeOK
  <2>1. gold \in [Users -> [{GOLD} -> Int]]
    BY <1>1, FundAssumption
  <2>2. overdue \in Seq(Packets) /\ crashes \in 0 .. MaxCrashes
    BY <1>1, LapseAssumption
  <2> QED
    BY <1>1, <1>2, <1>3, <2>1, <2>2 DEF TypeOK
<1>5. JobOK
  <2>1. /\ DOMAIN NoJob = {"packet", "key", "amount", "complete", "list"}
        /\ NoJob.amount \in Int /\ NoJob.complete \in BOOLEAN
    BY DEF NoJob
  <2> QED
    BY <1>1, <2>1 DEF JobOK
<1>6. RowInv
  BY <1>1, <1>2, <1>3 DEF RowInv, Due
<1>7. WorkInv /\ LockInv /\ SweepInv
  BY <1>1 DEF WorkInv, LockInv, SweepInv, Holding
<1>8. CreditInv /\ DrawInv
  BY <1>1, ProcsAre DEF CreditInv, DrawInv
<1>9. RefundInv /\ SharesAddUp /\ FixedInv
  BY <1>1, <1>2 DEF RefundInv, Refunded, SharesAddUp, FixedInv
<1>10. EverySlotPays
  BY <1>1, <1>2, <1>3 DEF EverySlotPays
<1>11. CoinsAreConserved
  <2>1. [u \in Users |-> gold[u][GOLD]] = Fund
    <3>1. \A u \in Users : gold[u][GOLD] = Fund[u]
      BY <1>1
    <3> QED
      BY <3>1, FundAssumption
  <2>2. /\ {u \in Users : ReversalKey(u) \in used} = {}
        /\ {k \in CreateKeys : CreateKey(k) \in used} = {}
    BY <1>1
  <2>3. \A p \in Packets : Worth(p) = 0
    <3>1. \A p \in Packets : {u \in DOMAIN share[p] : ClaimKey(p, u) \in used} = {}
      BY <1>1
    <3> QED
      BY <1>1, <3>1, SumEmpty DEF Worth, Refunded
  <2>4. SumFunctionOnSet([p \in Packets |-> Worth(p)], Packets) = 0
    <3> DEFINE f == [p \in Packets |-> Worth(p)]
    <3>1. \A p \in Packets : f[p] = 0
      BY <2>3
    <3> HIDE DEF f
    <3> QED
      <4>1. SumFunctionOnSet(f, Packets) = 0
        BY <3>1, FiniteAssumption, SumZero
      <4> QED
        BY <4>1 DEF f
  <2>5. SumFunctionOnSet(Fund, Users) \in Int
    BY FiniteAssumption, FundAssumption, SumInt
  <2> QED
    <3>1. /\ SumFunctionOnSet(Chargeback, {u \in Users : ReversalKey(u) \in used}) = 0
          /\ SumFunctionOnSet([k \in CreateKeys |-> Offer[k].total],
                              {k \in CreateKeys : CreateKey(k) \in used}) = 0
      BY <2>2, SumEmpty
    <3> QED
      BY <2>1, <2>4, <2>5, <3>1 DEF CoinsAreConserved
<1> QED
  BY <1>4, <1>5, <1>6, <1>7, <1>8, <1>9, <1>10, <1>11 DEF IInv, RowsInv, ShapeInv, HeldInv, PaysInv

LEMMA FairFollows == ASSUME RowsInv, PaysInv PROVE FixedIsFair
<1> SUFFICES ASSUME NEW p \in Packets, packet[p].status # "none", OfferOf(p).dist = "FIXED",
                    NEW u \in DOMAIN share[p], NEW v \in DOMAIN share[p]
             PROVE  share[p][u] - share[p][v] <= 1
  BY DEF FixedIsFair
<1> DEFINE b == Base(OfferOf(p))
<1>1. share[p][u] \in b .. (b + 1) /\ share[p][v] \in b .. (b + 1)
  BY DEF PaysInv, FixedInv
<1>2. b \in Int
  BY BaseIs DEF RowsInv, ShapeInv, RowInv, OfferOf
<1> HIDE DEF b
<1> QED
  BY <1>1, <1>2

(* The rows are well formed, and what is left of a packet and the shares   *)
(* drawn from it add up to its coins and slots: the claim row and the      *)
(* decrement are one transaction.  No lock is relied on.                   *)
THEOREM SharesAlwaysAddUp == Spec => [](TypeOK /\ SharesAddUp)
<1>1. Init => RowsInv
  BY InitIsOK DEF IInv
<1>2. RowsInv /\ [Next]_vars => RowsInv'
  BY RowsStep
<1>3. RowsInv => TypeOK /\ SharesAddUp
  BY DEF RowsInv, ShapeInv
<1> QED
  BY <1>1, <1>2, <1>3, PTL DEF Spec

LEMMA Inductive == ASSUME ~LocksLapse PROVE Spec => [](IInv /\ CoinsAreConserved)
<1>1. Init => IInv /\ CoinsAreConserved
  BY InitIsOK
<1>2. IInv /\ CoinsAreConserved /\ [Next]_vars => (IInv /\ CoinsAreConserved)'
  BY RowsStep, HeldStep, PaysStep, ConservedStep DEF IInv, RowsInv, HeldInv
<1> QED
  BY <1>1, <1>2, PTL DEF Spec

(* computeClaimAmount and applyClaim: every slot pays at least a coin, a   *)
(* completed packet is empty, and FIXED shares differ by one at most.      *)
THEOREM SharesAreRight == ASSUME ~LocksLapse PROVE Spec => []SharesOK
<1>1. IInv => SharesOK
  BY FairFollows DEF IInv, RowsInv, ShapeInv, PaysInv, SharesOK
<1> QED
  BY <1>1, Inductive, PTL

(* create, claim and the sweep together: the wallets hold what they held   *)
(* at first, less the packets paid for and the claw-backs, plus the shares *)
(* credited and the refunds.                                               *)
THEOREM PacketsConserve == ASSUME ~LocksLapse PROVE Spec => []CoinsAreConserved
BY Inductive, PTL

(* refundExpired: once a packet's remainder went back to its creator,      *)
(* nobody draws from it, even if the sweep died before it said so.         *)
THEOREM RefundsAreFinal == ASSUME ~LocksLapse PROVE Spec => RefundIsFinal
<1>1. IInv /\ [Next]_vars =>
        [\A p \in Packets : Refunded(p) =>
           share'[p] = share[p] /\ packet'[p].coins = packet[p].coins]_vars
  BY RefundedStay DEF IInv
<1>2. Spec => [][\A p \in Packets : Refunded(p) =>
           share'[p] = share[p] /\ packet'[p].coins = packet[p].coins]_vars
  BY <1>1, Inductive, PTL DEF Spec
<1> QED
  BY <1>2 DEF RefundIsFinal
=============================================================================

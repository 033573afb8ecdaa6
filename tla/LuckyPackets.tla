---------------------------- MODULE LuckyPackets ----------------------------
(***************************************************************************)
(* Lucky packets: a creator funds a packet of coins with some winner       *)
(* slots, members claim shares of it, and a sweep refunds what is left     *)
(* when the packet expires.  A claim holds the packet's Redis lock over    *)
(* read, draw, database transaction and wallet credit; each of those is a  *)
(* step here, and the lock, the process or the wallet may fail between any *)
(* two of them.  The wallet is the promise made by Accounts.               *)
(***************************************************************************)
EXTENDS Integers, Sequences, FiniteSets, Functions

CONSTANTS
    Users, Packets,
    CreateKeys,   \* client idempotency keys of create calls
    Offer,        \* the body of the call: creator, coins, winners, distribution
    Reqs,         \* create and claim requests
    Caller,       \* the user who makes each of them
    Sweepers,     \* instances of the expiry monitor, one per API process
    Fund,         \* coins each user starts with
    Chargeback,   \* coins a refunded purchase may take from each user, 0: none
    LocksLapse,   \* whether a lock's TTL can run out while its holder works
    MaxCrashes,   \* bound on process crashes
    GOLD, None, Gone

OfferType == [creator : Users, total : Nat, winners : Nat \ {0}, dist : {"RANDOM", "FIXED"}]
Locks == Packets \cup {"monitor"}
Procs == Reqs \cup Sweepers

ASSUME OfferAssumption == Offer \in [CreateKeys -> OfferType] /\ Caller \in [Reqs -> Users]
ASSUME LapseAssumption == LocksLapse \in BOOLEAN /\ MaxCrashes \in Nat
ASSUME FundAssumption == Fund \in [Users -> Nat] /\ Chargeback \in [Users -> Nat]
ASSUME FiniteAssumption == IsFiniteSet(Users) /\ IsFiniteSet(Packets) /\ IsFiniteSet(CreateKeys)
ASSUME ProcsAssumption == Reqs \cap Sweepers = {} /\ None \notin Procs /\ Gone \notin Procs

VARIABLES
    gold, used,   \* the wallet
    packet,       \* lucky_packets rows
    share,        \* lucky_packet_claims rows: claimant -> amount
    stamped,      \* claimants whose row has its walletTxnId
    overdue,      \* packets past expiresAt, in the order of expiresAt
    lock,         \* Redis locks: holder, None, or Gone when the holder died
    pc, job,      \* where each process is, and what it has read so far
    crashes

vars == <<gold, used, packet, share, stamped, overdue, lock, pc, job, crashes>>
rows == <<packet, share, stamped, overdue>>
wallet == <<gold, used>>

-----------------------------------------------------------------------------
(* The wallet, as WALLET_SERVICE offers it.                                *)

CreateKey(k) == <<"create", k>>
ClaimKey(p, u) == <<"claim", p, u>>
RefundKey(p) == <<"refund", p>>
ReversalKey(u) == <<"reversal", u>>

WalletKeys == {CreateKey(k) : k \in CreateKeys} \cup {ReversalKey(u) : u \in Users}
              \cup {ClaimKey(p, u) : p \in Packets, u \in Users}
              \cup {RefundKey(p) : p \in Packets}
WalletCalls == [kind : {"moveCredit", "moveDebit", "reverse"}, user : Users,
                cur : {GOLD}, amt : Int]

W == INSTANCE Accounts WITH
       balance <- gold, Currencies <- {GOLD}, Legacy <- {}, Keys <- WalletKeys,
       Calls <- [k \in WalletKeys |-> WalletCalls]

Gold(kind, u, a) == [kind |-> kind, user |-> u, cur |-> GOLD, amt |-> a]

-----------------------------------------------------------------------------
NoPacket == [status |-> "none", coins |-> 0, slots |-> 0, key |-> None]
NoJob == [packet |-> None, key |-> None, amount |-> 0, complete |-> FALSE,
          list |-> <<>>]

Init ==
    /\ gold = [u \in Users |-> [c \in {GOLD} |-> Fund[u]]] /\ used = {}
    /\ packet = [p \in Packets |-> NoPacket]
    /\ share = [p \in Packets |-> <<>>] /\ stamped = [p \in Packets |-> {}]
    /\ overdue = <<>>
    /\ lock = [l \in Locks |-> None]
    /\ pc = [r \in Procs |-> "idle"] /\ job = [r \in Procs |-> NoJob]
    /\ crashes = 0

Goto(r, l) == pc' = [pc EXCEPT ![r] = l]
Take(r, l) == lock[l] = None /\ lock' = [lock EXCEPT ![l] = r]
Free(r, ls) == lock' = [l \in Locks |-> IF l \in ls /\ lock[l] = r THEN None ELSE lock[l]]
Due(p) == p \in Range(overdue)
OfferOf(p) == Offer[packet[p].key]

(* The request answers its client, having released the packet's lock.      *)
Finish(r) == Goto(r, "done") /\ Free(r, Packets)

-----------------------------------------------------------------------------
(* create: debit under the client's key, then insert the row.              *)

CreateDebit(r, k) ==
    LET o == Offer[k]
        c == Gold("moveDebit", o.creator, o.total) IN
    /\ pc[r] = "idle" /\ Caller[r] = o.creator /\ o.total >= o.winners
    /\ W!Accepts(CreateKey(k), c) /\ W!Post(CreateKey(k), c)
    /\ Goto(r, "insert") /\ job' = [job EXCEPT ![r].key = k]
    /\ UNCHANGED rows /\ UNCHANGED <<lock, crashes>>

CreateInsert(r) ==
    \E p \in Packets :
        /\ pc[r] = "insert" /\ packet[p].status = "none"
        /\ packet' = [packet EXCEPT ![p] =
               LET o == Offer[job[r].key] IN
               [status |-> "ACTIVE", coins |-> o.total, slots |-> o.winners, key |-> job[r].key]]
        /\ Goto(r, "done")
        /\ UNCHANGED <<gold, used, share, stamped, overdue, lock, job, crashes>>

-----------------------------------------------------------------------------
(* claim, all of it under the packet's lock.                               *)

ClaimLock(r, p) ==
    /\ pc[r] = "idle" /\ packet[p].status # "none"
    /\ Take(r, p) /\ Goto(r, "read")
    /\ job' = [job EXCEPT ![r].packet = p]
    /\ UNCHANGED rows /\ UNCHANGED wallet /\ UNCHANGED crashes

Lesser(a, b) == IF a < b THEN a ELSE b
Greater(a, b) == IF a > b THEN a ELSE b

(* computeClaimAmount: the last slot takes what is left; FIXED splits      *)
(* evenly, the first slots taking the remainder; RANDOM draws up to twice  *)
(* the average and leaves a coin for every other slot.                     *)
ClaimAmounts(row) ==
    LET o == Offer[row.key]
        base == o.total \div o.winners
        index == o.winners - row.slots
        reserveCap == row.coins - (row.slots - 1)
        doubleAverage == Greater(1, (2 * row.coins) \div row.slots) IN
    CASE row.slots <= 1 -> {row.coins}
      [] row.slots > 1 /\ o.dist = "FIXED" ->
             {base + IF index < o.total % o.winners THEN 1 ELSE 0}
      [] OTHER -> 1 .. Greater(1, Lesser(reserveCap, doubleAverage))

(* Faulty variant: only the sweep looks at expiresAt.                      *)
ClaimableWhenDue(p) == packet[p].status = "ACTIVE" /\ packet[p].slots > 0

Claimable(p) == packet[p].status = "ACTIVE" /\ packet[p].slots > 0 /\ ~Due(p)

ClaimRead(r) ==
    LET p == job[r].packet IN
    /\ pc[r] = "read"
    /\ \/ /\ Claimable(p)
          /\ \E a \in ClaimAmounts(packet[p]) :
                job' = [job EXCEPT ![r].amount = a, ![r].complete = packet[p].slots <= 1]
          /\ Goto(r, "apply") /\ UNCHANGED lock
       \/ ~Claimable(p) /\ Finish(r) /\ UNCHANGED job
    /\ UNCHANGED rows /\ UNCHANGED wallet /\ UNCHANGED crashes

(* Faulty variant: the claim row is upserted.                              *)
ApplyClaimUpsert(r) ==
    LET p == job[r].packet IN
    /\ pc[r] = "apply"
    /\ share' = [share EXCEPT ![p] = [v \in DOMAIN @ \cup {Caller[r]} |->
                          IF v = Caller[r] THEN job[r].amount ELSE @[v]]]
    /\ packet' = [packet EXCEPT ![p].coins = @ - job[r].amount, ![p].slots = @ - 1,
                          ![p].status = IF job[r].complete THEN "COMPLETED" ELSE @]
    /\ Goto(r, "credit")
    /\ UNCHANGED <<gold, used, stamped, overdue, lock, job, crashes>>

(* The claim row and the decrement in one transaction; (packet, user) is   *)
(* unique.                                                                 *)
ApplyClaim(r) ==
    LET p == job[r].packet
        u == Caller[r] IN
    /\ pc[r] = "apply" /\ u \notin DOMAIN share[p]
    /\ share' = [share EXCEPT ![p] = [v \in DOMAIN @ \cup {u} |->
                                         IF v = u THEN job[r].amount ELSE @[v]]]
    /\ packet' = [packet EXCEPT ![p].coins = @ - job[r].amount, ![p].slots = @ - 1,
                          ![p].status = IF job[r].complete THEN "COMPLETED" ELSE @]
    /\ Goto(r, "credit")
    /\ UNCHANGED <<gold, used, stamped, overdue, lock, job, crashes>>

AlreadyClaimed(r) ==
    /\ pc[r] = "apply" /\ Caller[r] \in DOMAIN share[job[r].packet]
    /\ Finish(r)
    /\ UNCHANGED rows /\ UNCHANGED wallet /\ UNCHANGED <<job, crashes>>

ClaimCredit(r) ==
    LET k == ClaimKey(job[r].packet, Caller[r])
        c == Gold("moveCredit", Caller[r], job[r].amount) IN
    /\ pc[r] = "credit"
    /\ \/ W!Accepts(k, c) /\ W!Post(k, c) /\ Goto(r, "stamp") /\ UNCHANGED lock
       \/ ~W!Accepts(k, c) /\ Finish(r) /\ UNCHANGED wallet      \* the call throws
    /\ UNCHANGED rows /\ UNCHANGED <<job, crashes>>

(* setClaimTxn and the events.                                             *)
ClaimStamp(r) ==
    /\ pc[r] = "stamp"
    /\ stamped' = [stamped EXCEPT ![job[r].packet] = @ \cup {Caller[r]}]
    /\ Finish(r)
    /\ UNCHANGED <<packet, share, overdue, job, crashes>> /\ UNCHANGED wallet

-----------------------------------------------------------------------------
(* The expiry monitor: one sweep at a time across the fleet, oldest first. *)
(* An exception anywhere ends the sweep.                                   *)

EndSweep(s) == Goto(s, "idle") /\ Free(s, Locks)

SweepStart(s) ==
    /\ pc[s] = "idle" /\ Take(s, "monitor") /\ Goto(s, "next")
    /\ job' = [job EXCEPT ![s].list =
                  SelectSeq(overdue, LAMBDA p : packet[p].status = "ACTIVE")]
    /\ UNCHANGED rows /\ UNCHANGED wallet /\ UNCHANGED crashes

SweepEnd(s) ==
    /\ pc[s] = "next" /\ job[s].list = <<>> /\ EndSweep(s)
    /\ UNCHANGED rows /\ UNCHANGED wallet /\ UNCHANGED <<job, crashes>>

SweepBusy(s) ==
    /\ pc[s] = "next" /\ job[s].list # <<>> /\ lock[Head(job[s].list)] # None
    /\ EndSweep(s)
    /\ UNCHANGED rows /\ UNCHANGED wallet /\ UNCHANGED <<job, crashes>>

(* Faulty variant: the refund does not take the packet's lock.             *)
SweepReadUnlocked(s) ==
    LET p == Head(job[s].list) IN
    /\ pc[s] = "next" /\ job[s].list # <<>> /\ packet[p].status = "ACTIVE"
    /\ Goto(s, "refund")
    /\ job' = [job EXCEPT ![s].list = Tail(@), ![s].packet = p, ![s].amount = packet[p].coins]
    /\ UNCHANGED rows /\ UNCHANGED wallet /\ UNCHANGED <<lock, crashes>>

(* The packet is read again under its lock, its deadline too.              *)
SweepRead(s) ==
    LET p == Head(job[s].list) IN
    /\ pc[s] = "next" /\ job[s].list # <<>> /\ lock[p] = None
    /\ IF Due(p) /\ packet[p].status = "ACTIVE"
       THEN /\ lock' = [lock EXCEPT ![p] = s] /\ Goto(s, "refund")
            /\ job' = [job EXCEPT ![s].list = Tail(@), ![s].packet = p,
                                  ![s].amount = packet[p].coins]
       ELSE /\ job' = [job EXCEPT ![s].list = Tail(@)]
            /\ UNCHANGED <<lock, pc>>
    /\ UNCHANGED rows /\ UNCHANGED wallet /\ UNCHANGED crashes

SweepRefund(s) ==
    LET p == job[s].packet
        c == Gold("moveCredit", OfferOf(p).creator, job[s].amount) IN
    /\ pc[s] = "refund"
    /\ \/ job[s].amount <= 0 /\ Goto(s, "mark") /\ UNCHANGED <<gold, used, lock>>
       \/ /\ W!Accepts(RefundKey(p), c) /\ W!Post(RefundKey(p), c)
          /\ Goto(s, "mark") /\ UNCHANGED lock
       \/ /\ job[s].amount > 0 /\ ~W!Accepts(RefundKey(p), c)
          /\ EndSweep(s) /\ UNCHANGED wallet
    /\ UNCHANGED rows /\ UNCHANGED <<job, crashes>>

SweepMark(s) ==
    LET p == job[s].packet IN
    /\ pc[s] = "mark"
    /\ packet' = [packet EXCEPT ![p].status = IF job[s].amount > 0 THEN "REFUNDED" ELSE "EXPIRED"]
    /\ Goto(s, "next") /\ Free(s, {p})
    /\ UNCHANGED <<share, stamped, overdue, job, crashes>> /\ UNCHANGED wallet

-----------------------------------------------------------------------------
(* Time, failure, and what other modules do to a wallet.                   *)

Expire(p) ==
    /\ packet[p].status # "none" /\ ~Due(p)
    /\ overdue' = Append(overdue, p)
    /\ UNCHANGED <<packet, share, stamped, lock, pc, job, crashes>> /\ UNCHANGED wallet

(* Faulty variant: the monitor's lock has no TTL.                          *)
LockExpiresButMonitor(l) ==
    /\ l # "monitor" /\ lock[l] = Gone
    /\ lock' = [lock EXCEPT ![l] = None]
    /\ UNCHANGED rows /\ UNCHANGED wallet /\ UNCHANGED <<pc, job, crashes>>

LockExpires(l) ==
    /\ lock[l] = Gone \/ (LocksLapse /\ lock[l] # None)
    /\ lock' = [lock EXCEPT ![l] = None]
    /\ UNCHANGED rows /\ UNCHANGED wallet /\ UNCHANGED <<pc, job, crashes>>

(* The process dies; a sweeper is started again, a request is not.         *)
Crash(r) ==
    /\ pc[r] \notin {"idle", "done"} /\ crashes < MaxCrashes
    /\ crashes' = crashes + 1
    /\ lock' = [l \in Locks |-> IF lock[l] = r THEN Gone ELSE lock[l]]
    /\ Goto(r, IF r \in Sweepers THEN "idle" ELSE "done")
    /\ UNCHANGED rows /\ UNCHANGED wallet /\ UNCHANGED job

(* A refunded purchase takes its coins back, even below zero.              *)
ReversePurchase(u) ==
    /\ Chargeback[u] > 0 /\ ReversalKey(u) \notin used
    /\ W!Post(ReversalKey(u), Gold("reverse", u, Chargeback[u]))
    /\ UNCHANGED rows /\ UNCHANGED <<lock, pc, job, crashes>>

ClaimStep(r) == ClaimRead(r) \/ ApplyClaim(r) \/ AlreadyClaimed(r) \/ ClaimCredit(r)
                \/ ClaimStamp(r)
SweepStep(s) == SweepStart(s) \/ SweepEnd(s) \/ SweepBusy(s) \/ SweepRead(s)
                \/ SweepRefund(s) \/ SweepMark(s)

Next ==
    \/ \E r \in Reqs :
         \/ \E k \in CreateKeys : CreateDebit(r, k)
         \/ CreateInsert(r)
         \/ \E p \in Packets : ClaimLock(r, p)
         \/ ClaimStep(r)
    \/ \E s \in Sweepers : SweepStep(s)
    \/ \E p \in Packets : Expire(p)
    \/ \E l \in Locks : LockExpires(l)
    \/ \E r \in Procs : Crash(r)
    \/ \E u \in Users : ReversePurchase(u)

Spec == Init /\ [][Next]_vars

(* Started requests run on, the monitor's timer keeps firing, a dead       *)
(* holder's lock times out and the clock passes every expiresAt.           *)
FairSpec ==
    /\ Spec
    /\ \A r \in Reqs : WF_vars(CreateInsert(r) \/ ClaimStep(r))
    /\ \A s \in Sweepers : SF_vars(SweepStart(s)) /\ WF_vars(SweepStep(s))
    /\ \A l \in Locks : WF_vars(lock[l] = Gone /\ LockExpires(l))
    /\ \A p \in Packets : WF_vars(Expire(p))

-----------------------------------------------------------------------------
Claimed(p) == SumFunction(share[p])
Refunded(p) == RefundKey(p) \in used

TypeOK ==
    /\ gold \in [Users -> [{GOLD} -> Int]] /\ used \subseteq WalletKeys
    /\ packet \in [Packets -> [status : {"none", "ACTIVE", "COMPLETED", "EXPIRED", "REFUNDED"},
                               coins : Int, slots : Int, key : CreateKeys \cup {None}]]
    /\ DOMAIN share = Packets /\ stamped \in [Packets -> SUBSET Users]
    /\ \A p \in Packets : DOMAIN share[p] \subseteq Users /\ stamped[p] \subseteq DOMAIN share[p]
    /\ overdue \in Seq(Packets)
    /\ lock \in [Locks -> Procs \cup {None, Gone}]
    /\ pc \in [Procs -> {"idle", "insert", "read", "apply", "credit", "stamp", "next",
                          "refund", "mark", "done"}]
    /\ crashes \in 0 .. MaxCrashes

(* The claim row and the counters change in one transaction: whatever      *)
(* raced or lapsed, what is left and what was drawn add up to the packet.  *)
SharesAddUp ==
    \A p \in Packets : packet[p].status # "none" =>
        /\ packet[p].coins + Claimed(p) = OfferOf(p).total
        /\ packet[p].slots + Cardinality(DOMAIN share[p]) = OfferOf(p).winners

(* "every slot receives at least 1 coin" and "the sum of all claims equals *)
(* totalCoins": an open packet keeps a coin for every slot, a completed    *)
(* one has none left, and no slot is drawn twice.                          *)
EverySlotPays ==
    \A p \in Packets :
        /\ packet[p].slots >= 0 /\ packet[p].coins >= packet[p].slots
        /\ \A u \in DOMAIN share[p] : share[p][u] >= 1
        /\ packet[p].status = "COMPLETED" => packet[p].coins = 0 /\ packet[p].slots = 0

(* FIXED shares differ by a coin at most.                                  *)
FixedIsFair ==
    \A p \in Packets : packet[p].status # "none" /\ OfferOf(p).dist = "FIXED" =>
        \A u, v \in DOMAIN share[p] : share[p][u] - share[p][v] <= 1

(* What computeClaimAmount and applyClaim promise of the shares together.  *)
SharesOK == TypeOK /\ SharesAddUp /\ EverySlotPays /\ FixedIsFair

(* "Unclaimed coins are refunded": the refund is what claims left, neither *)
(* more because of a claim that was still running when the packet expired, *)
(* nor of a sweep that died and was repeated.  Seen in the wallet: coins   *)
(* are only moved by packets and claw-backs.                               *)
Worth(p) == (IF Refunded(p) THEN packet[p].coins ELSE 0)
            + SumFunctionOnSet(share[p], {u \in DOMAIN share[p] : ClaimKey(p, u) \in used})
CoinsAreConserved ==
    SumFunctionOnSet([u \in Users |-> gold[u][GOLD]], Users)
      = SumFunctionOnSet(Fund, Users)
        - SumFunctionOnSet(Chargeback, {u \in Users : ReversalKey(u) \in used})
        - SumFunctionOnSet([k \in CreateKeys |-> Offer[k].total],
                           {k \in CreateKeys : CreateKey(k) \in used})
        + SumFunctionOnSet([p \in Packets |-> Worth(p)], Packets)

(* Once a packet's remainder is refunded nobody draws from it, although it *)
(* stays ACTIVE until the sweep, or after a crash the next one, marks it.  *)
RefundIsFinal ==
    [][\A p \in Packets : Refunded(p) =>
         share'[p] = share[p] /\ packet'[p].coins = packet[p].coins]_vars

(* "Unclaimed coins are refunded to the creator on expiry."                *)
EveryPacketEnds ==
    \A p \in Packets : packet[p].status = "ACTIVE" ~> packet[p].status \notin {"none", "ACTIVE"}
=============================================================================

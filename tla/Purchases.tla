------------------------------ MODULE Purchases ------------------------------
(***************************************************************************)
(* Coin purchases paid through Google Play.  A client opens an order, pays *)
(* Play and hands the purchase token to verifyAndFulfillPurchase; a super  *)
(* admin may do so too.  Fulfilment is a chain of single commits: receipt  *)
(* row, wallet credit, verified flag, order status, consume at Play.  A    *)
(* reconciliation sweep expires orders and repeats consumes, and Play's    *)
(* refund notifications reverse the credit.  Nothing locks an order, so    *)
(* all of these interleave and each may stop after any commit.  The wallet *)
(* is the promise made by Accounts.                                        *)
(***************************************************************************)
EXTENDS Integers, FiniteSets, Functions

CONSTANTS
    Customers, Orders,
    Tokens,       \* purchases at Play, each named by its Play order id
    Owner,        \* the user of each order
    Coins,        \* totalCoins of each order
    Buyer,        \* the account each purchase is bound to
    Requests,     \* fulfilment requests under way
    By,           \* who makes them, a user or Admin
    Sweepers,     \* runs of the consume retry
    Handlers,     \* deliveries of refund notifications under way
    MaxFaults,    \* bound on dying processes, exceptions and failing Play calls
    COINS, Admin, Nil

ASSUME OrderAssumption ==
    /\ Owner \in [Orders -> Customers] /\ Coins \in [Orders -> Nat \ {0}]
    /\ Buyer \in [Tokens -> Customers] /\ Nil \notin Orders \cup Tokens
ASSUME PurchaseProcAssumption ==
    /\ By \in [Requests -> Customers \cup {Admin}] /\ Admin \notin Customers
    /\ Requests \cap Sweepers = {} /\ (Requests \cup Sweepers) \cap Handlers = {}
ASSUME FaultAssumption == MaxFaults \in Nat
ASSUME FiniteAssumption == IsFiniteSet(Tokens)

VARIABLES
    gold, used,   \* the wallet
    order,        \* purchase_orders rows: status, consumedAt
    receipt,      \* payment_receipts rows, unique by providerTxnId
    play,         \* what Play says of each purchase
    acked,        \* purchases whose refund notification got a 200
    step, job,    \* where each process is, and what it has read so far
    faults

purchaseVars == <<gold, used, order, receipt, play, acked, step, job, faults>>
wallet == <<gold, used>>

Procs == Requests \cup Sweepers \cup Handlers

-----------------------------------------------------------------------------
(* The wallet, as creditWallet and reverseWallet offer it.                 *)

RechargeKey(t) == <<"RECHARGE", t>>
ReversalKey(t) == <<"REVERSAL", t>>
WalletKeys == {RechargeKey(t) : t \in Tokens} \cup {ReversalKey(t) : t \in Tokens}
WalletCalls == [kind : {"credit", "reverse"}, user : Customers, cur : {COINS}, amt : Nat]

W == INSTANCE Accounts WITH
       balance <- gold, Users <- Customers, Currencies <- {COINS}, Legacy <- {},
       Keys <- WalletKeys, Calls <- [k \in WalletKeys |-> WalletCalls]

GoldOf(kind, o) == [kind |-> kind, user |-> Owner[o], cur |-> COINS, amt |-> Coins[o]]

-----------------------------------------------------------------------------
NoReceipt == [order |-> Nil, verified |-> FALSE]
Job(o, t) == [order |-> o, token |-> t, found |-> Nil]
NoJob == Job(Nil, Nil)

PurchaseInit ==
    /\ gold = [u \in Customers |-> [c \in {COINS} |-> 0]] /\ used = {}
    /\ order = [o \in Orders |-> [status |-> "none", consumedAt |-> FALSE]]
    /\ receipt = [t \in Tokens |-> NoReceipt]
    /\ play = [t \in Tokens |-> [state |-> "pending", consumed |-> FALSE]]
    /\ acked = {}
    /\ step = [p \in Procs |-> "idle"] /\ job = [p \in Procs |-> NoJob]
    /\ faults = 0

Move(p, l) == step' = [step EXCEPT ![p] = l]
Finish(p) == Move(p, "idle") /\ job' = [job EXCEPT ![p] = NoJob]
SetStatus(o, s) == order' = [order EXCEPT ![o].status = s]
Fault == faults < MaxFaults /\ faults' = faults + 1

-----------------------------------------------------------------------------
(* Orders: the client opens one, the sweep expires the overdue ones.       *)

CreateOrder(o) ==
    /\ order[o].status = "none" /\ SetStatus(o, "CREATED")
    /\ UNCHANGED <<gold, used, receipt, play, acked, step, job, faults>>

ExpireOrder(o) ==
    /\ order[o].status = "CREATED" /\ SetStatus(o, "EXPIRED")
    /\ UNCHANGED <<gold, used, receipt, play, acked, step, job, faults>>

-----------------------------------------------------------------------------
(* Fulfilment.  A COMPLETED order is answered as already processed, a      *)
(* CANCELLED or EXPIRED one is refused; neither changes anything.          *)

FulfilStart(r, o, t) ==
    /\ step[r] = "idle" /\ By[r] \in {Owner[o], Admin}
    /\ order[o].status \in {"CREATED", "FAILED", "REFUNDED"}
    /\ job' = [job EXCEPT ![r] = Job(o, t)] /\ Move(r, "verify")
    /\ UNCHANGED <<gold, used, order, receipt, play, acked, faults>>

(* What Play's answer must say for this order.                             *)
Genuine(o, t) == play[t] = [state |-> "purchased", consumed |-> FALSE] /\ Buyer[t] = Owner[o]

VerifyReceipt(r) ==
    /\ step[r] = "verify"
    /\ \/ Genuine(job[r].order, job[r].token) /\ Move(r, "replay") /\ UNCHANGED faults
       \/ ~Genuine(job[r].order, job[r].token) /\ Move(r, "fail") /\ UNCHANGED faults
       \/ Move(r, "fail") /\ Fault                          \* no answer from Play
    /\ UNCHANGED <<gold, used, order, receipt, play, acked, job>>

(* The status is written whatever it has become since.                     *)
FailOrder(r) ==
    /\ step[r] = "fail" /\ SetStatus(job[r].order, "FAILED") /\ Finish(r)
    /\ UNCHANGED <<gold, used, receipt, play, acked, faults>>

(* Faulty variants of what may be replayed: anyone's leftover receipt, and *)
(* no leftover at all.                                                     *)
ReplayableByAny(o, t) == ~receipt[t].verified /\ o \in Orders
ReplayableNever(o, t) == receipt[t] = NoReceipt /\ o \in Orders

(* A fresh token, or the unverified leftover of this very order.           *)
Replayable(o, t) == ~receipt[t].verified /\ receipt[t].order \in {Nil, o}

CheckReplay(r) ==
    LET t == job[r].token IN
    /\ step[r] = "replay"
    /\ \/ /\ Replayable(job[r].order, t) /\ Move(r, "record")
          /\ job' = [job EXCEPT ![r].found = receipt[t].order]
       \/ ~Replayable(job[r].order, t) /\ Finish(r)
    /\ UNCHANGED <<gold, used, order, receipt, play, acked, faults>>

(* The row found is overwritten as unverified; a new one fails on the      *)
(* unique providerTxnId when another request has inserted it meanwhile.    *)
RecordReceipt(r) ==
    LET t == job[r].token IN
    /\ step[r] = "record"
    /\ \/ /\ job[r].found # Nil \/ receipt[t] = NoReceipt
          /\ receipt' = [receipt EXCEPT ![t] = [order |-> job[r].order, verified |-> FALSE]]
          /\ Move(r, "credit") /\ UNCHANGED job
       \/ job[r].found = Nil /\ receipt[t] # NoReceipt /\ Finish(r) /\ UNCHANGED receipt
    /\ UNCHANGED <<gold, used, order, play, acked, faults>>

CreditCoins(r) ==
    /\ step[r] = "credit" /\ Move(r, "mark")
    /\ W!Post(RechargeKey(job[r].token), GoldOf("credit", job[r].order))
    /\ UNCHANGED <<order, receipt, play, acked, job, faults>>

MarkVerified(r) ==
    /\ step[r] = "mark" /\ Move(r, "complete")
    /\ receipt' = [receipt EXCEPT ![job[r].token].verified = TRUE]
    /\ UNCHANGED <<gold, used, order, play, acked, job, faults>>

CompleteOrder(r) ==
    /\ step[r] = "complete" /\ Move(r, "consume")
    /\ SetStatus(job[r].order, "COMPLETED")
    /\ UNCHANGED <<gold, used, receipt, play, acked, job, faults>>

(* Consumes last; a failure is audited and left to the sweep.              *)
Consume(p) ==
    /\ step[p] = "consume"
    /\ \/ /\ play[job[p].token].state = "purchased" /\ Move(p, "stamp")
          /\ play' = [play EXCEPT ![job[p].token].consumed = TRUE]
          /\ UNCHANGED <<job, faults>>
       \/ play[job[p].token].state # "purchased" /\ Finish(p) /\ UNCHANGED <<play, faults>>
       \/ Finish(p) /\ Fault /\ UNCHANGED play
    /\ UNCHANGED <<gold, used, order, receipt, acked>>

StampConsumed(p) ==
    /\ step[p] = "stamp" /\ Finish(p)
    /\ order' = [order EXCEPT ![job[p].order].consumedAt = TRUE]
    /\ UNCHANGED <<gold, used, receipt, play, acked, faults>>

FulfilStep(r) == VerifyReceipt(r) \/ FailOrder(r) \/ CheckReplay(r) \/ RecordReceipt(r)
                 \/ CreditCoins(r) \/ MarkVerified(r) \/ CompleteOrder(r)
                 \/ Consume(r) \/ StampConsumed(r)

-----------------------------------------------------------------------------
(* The sweep repeats the consume of orders whose consume never landed.     *)

SweepPick(s) ==
    \E t \in Tokens :
        LET o == receipt[t].order IN
        /\ step[s] = "idle" /\ receipt[t].verified
        /\ order[o] = [status |-> "COMPLETED", consumedAt |-> FALSE]
        /\ job' = [job EXCEPT ![s] = Job(o, t)] /\ Move(s, "consume")
        /\ UNCHANGED <<gold, used, order, receipt, play, acked, faults>>

SweepStep(s) == SweepPick(s) \/ Consume(s) \/ StampConsumed(s)

-----------------------------------------------------------------------------
(* Play's refund notification, delivered at least once.  The order is      *)
(* found by its reference or its receipt; one that is not COMPLETED is     *)
(* answered with a 200.                                                    *)

Refundable(o) == o # Nil /\ order[o].status = "COMPLETED"

Notify(n, t) ==
    LET o == receipt[t].order IN
    /\ step[n] = "idle" /\ play[t].state = "voided"
    /\ \/ /\ Refundable(o) /\ Move(n, "reverse")
          /\ job' = [job EXCEPT ![n] = Job(o, t)] /\ UNCHANGED acked
       \/ ~Refundable(o) /\ acked' = acked \cup {t} /\ UNCHANGED <<step, job>>
    /\ UNCHANGED <<gold, used, order, receipt, play, faults>>

Reverse(n) ==
    /\ step[n] = "reverse" /\ Move(n, "refunded")
    /\ W!Post(ReversalKey(job[n].token), GoldOf("reverse", job[n].order))
    /\ UNCHANGED <<order, receipt, play, acked, job, faults>>

MarkRefunded(n) ==
    /\ step[n] = "refunded" /\ Finish(n)
    /\ SetStatus(job[n].order, "REFUNDED") /\ acked' = acked \cup {job[n].token}
    /\ UNCHANGED <<gold, used, receipt, play, faults>>

NotifyStep(n) == (\E t \in Tokens : Notify(n, t)) \/ Reverse(n) \/ MarkRefunded(n)

-----------------------------------------------------------------------------
(* Play itself, and failure: a process dies, or a call throws, among them  *)
(* the wallet's under an economy freeze.                                   *)

Pay(t) ==
    /\ play[t].state = "pending" /\ play' = [play EXCEPT ![t].state = "purchased"]
    /\ UNCHANGED <<gold, used, order, receipt, acked, step, job, faults>>

Void(t) ==
    /\ play[t].state = "purchased" /\ play' = [play EXCEPT ![t].state = "voided"]
    /\ UNCHANGED <<gold, used, order, receipt, acked, step, job, faults>>

Stop(p) ==
    /\ step[p] # "idle" /\ Fault /\ Finish(p)
    /\ UNCHANGED <<gold, used, order, receipt, play, acked>>

PurchaseNext ==
    \/ \E o \in Orders : CreateOrder(o) \/ ExpireOrder(o)
    \/ \E r \in Requests :
         \/ \E o \in Orders, t \in Tokens : FulfilStart(r, o, t)
         \/ FulfilStep(r)
    \/ \E s \in Sweepers : SweepStep(s)
    \/ \E n \in Handlers : NotifyStep(n)
    \/ \E t \in Tokens : Pay(t) \/ Void(t)
    \/ \E p \in Procs : Stop(p)

PurchaseSpec == PurchaseInit /\ [][PurchaseNext]_purchaseVars

(* Started requests run on, the sweep's cron keeps firing, and Play        *)
(* redelivers a purchase to the app that has an order for it.              *)
FairPurchases ==
    /\ PurchaseSpec
    /\ \A r \in Requests : WF_purchaseVars(FulfilStep(r))
    /\ \A s \in Sweepers : WF_purchaseVars(SweepStep(s))
    /\ \A n \in Handlers : WF_purchaseVars(Reverse(n) \/ MarkRefunded(n))
    /\ \A t \in Tokens, o \in Orders :
         SF_purchaseVars(\E r \in Requests : receipt[t].order = o /\ FulfilStart(r, o, t))

-----------------------------------------------------------------------------
Credited(t) == RechargeKey(t) \in used
Reversed(t) == ReversalKey(t) \in used

JobType == [order : Orders \cup {Nil}, token : Tokens \cup {Nil}, found : Orders \cup {Nil}]

PcType == {"idle", "verify", "fail", "replay", "record", "credit", "mark", "complete",
           "consume", "stamp", "reverse", "refunded"}

PurchaseTypeOK ==
    /\ gold \in [Customers -> [{COINS} -> Int]] /\ used \subseteq WalletKeys
    /\ order \in [Orders -> [status : {"none", "CREATED", "EXPIRED", "FAILED", "COMPLETED", "REFUNDED"},
                             consumedAt : BOOLEAN]]
    /\ receipt \in [Tokens -> [order : Orders, verified : BOOLEAN] \cup {NoReceipt}]
    /\ play \in [Tokens -> [state : {"pending", "purchased", "voided"}, consumed : BOOLEAN]]
    /\ acked \subseteq Tokens
    /\ step \in [Procs -> PcType]
    /\ job \in [Procs -> JobType]
    /\ faults \in 0 .. MaxFaults

(* Every order that was completed has a purchase of its own whose coins    *)
(* were credited: no two orders are settled by one payment, whichever of   *)
(* the requests that submit it comes first.                                *)
CompletedIsPaid ==
    \A o \in Orders : order[o].status \in {"COMPLETED", "REFUNDED"} =>
        \E t \in Tokens : receipt[t].order = o /\ Credited(t)

(* The flag that blocks replays is only set when the coins exist, so it    *)
(* never blocks the retry of a purchase that bought nothing.               *)
VerifiedIsCredited == \A t \in Tokens : receipt[t].verified => Credited(t)

(* "Consume LAST": a purchase that can no longer be redelivered has been   *)
(* credited.                                                               *)
ConsumedIsCredited == \A t \in Tokens : play[t].consumed => Credited(t)

(* Coins go to the account that paid, also when an admin retries with the  *)
(* token of somebody else's purchase.                                      *)
BuyerIsCredited == \A t \in Tokens : Credited(t) => Buyer[t] = Owner[receipt[t].order]

(* A refund only takes coins of an order that was given coins.             *)
ReversedWasCredited ==
    \A t \in Tokens : Reversed(t) =>
        \E s \in Tokens : receipt[s].order = receipt[t].order /\ Credited(s)

(* Nothing fulfil or the refund notifications mark outruns the wallet.     *)
FlagsAreEarned ==
    CompletedIsPaid /\ VerifiedIsCredited /\ ConsumedIsCredited /\ ReversedWasCredited

(* Every coin of a user was paid for: a replayed credit or reversal moves  *)
(* the amount of the order its purchase paid, once.                        *)
PaidFor(u, t) == receipt[t].order # Nil /\ Owner[receipt[t].order] = u
Gained(u) ==
    [t \in Tokens |->
        IF PaidFor(u, t)
        THEN (IF Credited(t) THEN Coins[receipt[t].order] ELSE 0)
             - (IF Reversed(t) THEN Coins[receipt[t].order] ELSE 0)
        ELSE 0]
CoinsArePaidFor == \A u \in Customers : gold[u][COINS] = SumFunction(Gained(u))

(* "The self-healing retry path": a fulfilment that stopped after writing  *)
(* its receipt row is completed by a later one, unless the order expired   *)
(* or Play voided the purchase.                                            *)
ReceiptHeals ==
    \A t \in Tokens : receipt[t].order # Nil ~>
        \/ Credited(t) \/ play[t].state = "voided"
        \/ receipt[t].order # Nil /\ order[receipt[t].order].status = "EXPIRED"
=============================================================================

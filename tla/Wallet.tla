------------------------------- MODULE Wallet -------------------------------
(***************************************************************************)
(* The wallet: balance columns, the idempotency-keyed transaction table,   *)
(* the append-only ledger and coin reservations.  Two code paths write the *)
(* same row.  Path A (WalletService.move, used by gifts, casino, packets,  *)
(* withdrawals) serialises on a Redis lock, locks the row and writes an    *)
(* ABSOLUTE balance computed from what it read.  Path B                    *)
(* (WalletTransactionService, used by admins, purchases and refunds) takes *)
(* no Redis lock and writes INCREMENTS under the row lock.  A request is a *)
(* process; its steps are the points at which another request can run.     *)
(*                                                                         *)
(* Every request is one call of Call, named by its idempotency key; a      *)
(* retry is another request with the same key.  The ledger is kept as the  *)
(* signed sum per wallet and currency that reconciliation reads.  A wallet *)
(* row that does not exist yet is the all-zero ACTIVE row it is created as.*)
(***************************************************************************)
EXTENDS Integers, Functions

CONSTANTS
    Users,       \* wallet ids, ordered: the sort order of the row locks
    Currencies,  \* WalletCurrency
    Legacy,      \* FREE and EARNINGS: members Path B has no column for
    GOLD,        \* the currency availableBalance and reservedBalance are about
    Keys,        \* idempotency keys
    Call,        \* the call each key stands for
    Holds,       \* reservation ids
    HoldOf,      \* the reserveCoins call that creates each of them
    Reqs,        \* requests: one run of a service method each
    None

Kinds == {"moveCredit", "moveDebit", "credit", "debit", "reverse", "transfer"}
PathA == {"moveCredit", "moveDebit"}
Statuses == {"ACTIVE", "SUSPENDED"}
HoldStatuses == {"none", "HELD", "RELEASED", "CONSUMED"}

CallType == [kind : Kinds, user : Users, to : Users, cur : Currencies, amt : Int]
HoldType == [user : Users, amt : Nat \ {0}]

ASSUME UsersAssumption == Users \subseteq Nat
ASSUME CurrenciesAssumption == GOLD \in Currencies /\ Legacy \subseteq Currencies \ {GOLD}
ASSUME CallAssumption == Call \in [Keys -> CallType]
ASSUME HoldAssumption == HoldOf \in [Holds -> HoldType] /\ Holds \cap Keys = {}
ASSUME NoneAssumption == None \notin Reqs /\ None \notin Keys /\ None \notin Holds

VARIABLES
    bal,         \* goldBalance, diamondBalance, gameBalance, ... per user
    avail,       \* availableBalance
    reserved,    \* reservedBalance
    status,      \* wallet status
    frozen,      \* emergency freeze, or the wallet feature flag being off
    applied,     \* committed wallet_transactions rows per idempotency key
    ledger,      \* credits minus debits over the ledger rows, per user and currency
    published,   \* CREDITED / DEBITED publications per key
    held,        \* status of each reservation row
    pc, task,    \* where each request is, and the key or reservation it works on
    snap,        \* what a Path A request read under its row lock
    walletLock,  \* wallet:lock:<user> in Redis: the request whose token it holds
    rowLock,     \* SELECT ... FOR UPDATE on the wallets row
    result,      \* what the request returned
    debt,        \* history: the sum clawed back by reversals
    net          \* history: net ledger rows of transfers

money == <<bal, avail, reserved, ledger, applied, debt, net>>
vars == <<bal, avail, reserved, status, frozen, applied, ledger, published, held,
          pc, task, snap, walletLock, rowLock, result, debt, net>>

Zero == [u \in Users |-> [c \in Currencies |-> 0]]
Row(u) == [bal |-> bal[u], reserved |-> reserved[u], status |-> status[u]]
RowType == [bal : [Currencies -> Int], reserved : Int, status : Statuses]

PCs == {"idle", "waitLock", "checkKey", "openTx", "write", "check", "tx", "tx2",
        "publish", "reserve", "release", "consume", "done"}
Results == {"none", "applied", "duplicate", "rejected", "busy", "crashed"}

Init ==
    /\ bal = Zero /\ ledger = Zero /\ debt = Zero /\ net = Zero
    /\ avail = [u \in Users |-> 0] /\ reserved = [u \in Users |-> 0]
    /\ status = [u \in Users |-> "ACTIVE"]
    /\ frozen = FALSE
    /\ applied = [k \in Keys |-> 0] /\ published = [k \in Keys |-> 0]
    /\ held = [h \in Holds |-> "none"]
    /\ pc = [r \in Reqs |-> "idle"] /\ task = [r \in Reqs |-> None]
    /\ snap = [r \in Reqs |-> [bal |-> [c \in Currencies |-> 0],
                               reserved |-> 0, status |-> "ACTIVE"]]
    /\ walletLock = [u \in Users |-> None] /\ rowLock = [u \in Users |-> None]
    /\ result = [r \in Reqs |-> "none"]

-----------------------------------------------------------------------------
(* How a request moves on, and how it ends.                                *)

My(r) == Call[task[r]]

Goto(r, l) == pc' = [pc EXCEPT ![r] = l]

(* The `finally` of withLock: compare-and-delete, so only one's own token.  *)
Unlock(r) == walletLock' = [u \in Users |-> IF walletLock[u] = r THEN None ELSE walletLock[u]]

(* End of transaction, committed or rolled back.                           *)
FreeRows(r) == rowLock' = [u \in Users |-> IF rowLock[u] = r THEN None ELSE rowLock[u]]

Return(r, res) ==
    /\ Goto(r, "done")
    /\ result' = [result EXCEPT ![r] = res]
    /\ UNCHANGED <<status, frozen, task, snap>>

(* A request that ends without having changed anything.                    *)
Reject(r, res) ==
    /\ Return(r, res) /\ Unlock(r) /\ FreeRows(r)
    /\ UNCHANGED money /\ UNCHANGED <<published, held>>

(* The transaction of request r commits; what is left is to publish.       *)
Committed(r) ==
    /\ Goto(r, "publish")
    /\ applied' = [applied EXCEPT ![task[r]] = @ + 1]
    /\ FreeRows(r)
    /\ UNCHANGED <<status, frozen, published, held, task, snap, walletLock, result>>

Validated(k) == Call[k].amt > 0 /\ (Call[k].kind # "moveCredit" => ~frozen)

Admit(r, k) ==
    /\ pc[r] = "idle" /\ Validated(k)
    /\ task' = [task EXCEPT ![r] = k]
    /\ Goto(r, IF Call[k].kind \in PathA THEN "waitLock" ELSE "check")
    /\ UNCHANGED money
    /\ UNCHANGED <<status, frozen, published, held, snap, walletLock, rowLock, result>>

Refuse(r, k) ==
    /\ pc[r] = "idle" /\ ~Validated(k)
    /\ task' = [task EXCEPT ![r] = k]
    /\ Goto(r, "done")
    /\ result' = [result EXCEPT ![r] = "rejected"]
    /\ UNCHANGED money
    /\ UNCHANGED <<status, frozen, published, held, snap, walletLock, rowLock>>

-----------------------------------------------------------------------------
(* Path A: WalletService.move and WalletRepository.applyMovement.          *)

TakeLock(r) ==
    /\ pc[r] = "waitLock" /\ walletLock[My(r).user] = None
    /\ walletLock' = [walletLock EXCEPT ![My(r).user] = r]
    /\ Goto(r, "checkKey")
    /\ UNCHANGED money
    /\ UNCHANGED <<status, frozen, published, held, task, snap, rowLock, result>>

(* Faulty variant: withLock retries without a budget.                      *)
LockRetriesForever(r) == FALSE /\ Reject(r, "busy")

(* The retry budget ran out while another request held the lock.           *)
LockBusy(r) ==
    /\ pc[r] = "waitLock" /\ walletLock[My(r).user] # None
    /\ Reject(r, "busy")

CheckKey(r) ==
    /\ pc[r] = "checkKey"
    /\ IF applied[task[r]] > 0
       THEN Reject(r, "duplicate")
       ELSE /\ Goto(r, "openTx")
            /\ UNCHANGED money
            /\ UNCHANGED <<status, frozen, published, held, task, snap, walletLock, rowLock, result>>

(* Faulty variant: the balance is read without FOR UPDATE.                 *)
OpenRowUnlocked(r) ==
    /\ pc[r] = "openTx"
    /\ snap' = [snap EXCEPT ![r] = Row(My(r).user)]
    /\ Goto(r, "write")
    /\ UNCHANGED money
    /\ UNCHANGED <<status, frozen, published, held, task, walletLock, rowLock, result>>

OpenRow(r) ==
    /\ pc[r] = "openTx" /\ rowLock[My(r).user] = None
    /\ rowLock' = [rowLock EXCEPT ![My(r).user] = r]
    /\ snap' = [snap EXCEPT ![r] = Row(My(r).user)]
    /\ Goto(r, "write")
    /\ UNCHANGED money
    /\ UNCHANGED <<status, frozen, published, held, task, walletLock, result>>

Delta(c) == IF c.kind \in {"moveCredit", "credit"} THEN c.amt ELSE -c.amt

After(r) == snap[r].bal[My(r).cur] + Delta(My(r))

(* Faulty variants: no unique index on the key, no status or balance check. *)
MoveRefusedNoIndex(r) == snap[r].status # "ACTIVE" \/ After(r) < 0
MoveRefusedNoFunds(r) == snap[r].status # "ACTIVE" \/ applied[task[r]] > 0
MoveRefusedNoStatus(r) == After(r) < 0 \/ applied[task[r]] > 0

MoveRefused(r) ==
    \/ snap[r].status # "ACTIVE"
    \/ After(r) < 0
    \/ applied[task[r]] > 0          \* P2002, which this path does not recover

(* The positive part: availableBalance is never written below zero here.     *)
Floor0(n) == IF n > 0 THEN n ELSE 0

ApplyMovement(r) ==
    LET c == My(r) IN
    /\ pc[r] = "write" /\ ~MoveRefused(r)
    /\ bal' = [bal EXCEPT ![c.user][c.cur] = After(r)]
    /\ avail' = [avail EXCEPT ![c.user] =
                    IF c.cur = GOLD THEN Floor0(After(r) - snap[r].reserved) ELSE @]
    /\ ledger' = [ledger EXCEPT ![c.user][c.cur] = @ + Delta(c)]
    /\ Committed(r)
    /\ UNCHANGED <<reserved, debt, net>>

MovementFails(r) ==
    /\ pc[r] = "write" /\ MoveRefused(r)
    /\ Reject(r, "rejected")

-----------------------------------------------------------------------------
(* Path B: WalletTransactionService.                                       *)

Sufficient(u, c, a) == (IF c \in Legacy THEN avail[u] ELSE bal[u][c]) >= a

Valid(c) ==
    CASE c.kind = "credit"   -> status[c.user] = "ACTIVE"
      [] c.kind = "debit"    -> status[c.user] = "ACTIVE" /\ Sufficient(c.user, c.cur, c.amt)
      [] c.kind = "transfer" -> /\ status[c.user] = "ACTIVE" /\ status[c.to] = "ACTIVE"
                                /\ avail[c.user] >= c.amt
      [] OTHER               -> TRUE       \* reverseWallet skips both checks

PreCheck(r) ==
    /\ pc[r] = "check"
    /\ CASE applied[task[r]] > 0                      -> Reject(r, "duplicate")
         [] applied[task[r]] = 0 /\ ~Valid(My(r))     -> Reject(r, "rejected")
         [] OTHER -> /\ Goto(r, "tx")
                     /\ UNCHANGED money
                     /\ UNCHANGED <<status, frozen, published, held, task, snap,
                                    walletLock, rowLock, result>>


(* Inside the transaction: re-validate under the row lock, then insert the *)
(* header; losing the race on the unique key is answered as a replay.      *)
TxFails(r) ==
    \/ ~Valid(My(r)) /\ Reject(r, "rejected")
    \/ Valid(My(r)) /\ applied[task[r]] > 0 /\ Reject(r, "duplicate")

TxOpens(r) == Valid(My(r)) /\ applied[task[r]] = 0

(* The increments: the matching column, and availableBalance for GOLD.     *)
Increment(c) ==
    /\ bal' = [bal EXCEPT ![c.user][c.cur] = IF c.cur \in Legacy THEN @ ELSE @ + Delta(c)]
    /\ avail' = [avail EXCEPT ![c.user] = IF c.cur = GOLD THEN @ + Delta(c) ELSE @]
    /\ ledger' = [ledger EXCEPT ![c.user][c.cur] = @ + Delta(c)]
    /\ UNCHANGED <<reserved, net>>

CreditTx(r) ==
    /\ pc[r] = "tx" /\ My(r).kind = "credit" /\ rowLock[My(r).user] = None
    /\ \/ TxFails(r)
       \/ TxOpens(r) /\ Increment(My(r)) /\ Committed(r) /\ UNCHANGED debt

DebitTx(r) ==
    /\ pc[r] = "tx" /\ My(r).kind = "debit" /\ rowLock[My(r).user] = None
    /\ \/ TxFails(r)
       \/ TxOpens(r) /\ Increment(My(r)) /\ Committed(r) /\ UNCHANGED debt

ReverseTx(r) ==
    LET c == My(r) IN
    /\ pc[r] = "tx" /\ c.kind = "reverse" /\ rowLock[c.user] = None
    /\ \/ TxFails(r)
       \/ /\ TxOpens(r) /\ Increment(c) /\ Committed(r)
          /\ debt' = [debt EXCEPT ![c.user][c.cur] = @ + c.amt]

(* Faulty variant: the sender's row is always locked first.                *)
LockOrderUnsorted(c) == <<c.user, c.to>>

(* [senderWallet.id, recipientWallet.id].sort()                            *)
LockOrder(c) == IF c.user < c.to THEN <<c.user, c.to>> ELSE <<c.to, c.user>>
FirstRow(c) == LockOrder(c)[1]
SecondRow(c) == LockOrder(c)[2]

TransferLock(r) ==
    /\ pc[r] = "tx" /\ My(r).kind = "transfer" /\ rowLock[FirstRow(My(r))] = None
    /\ rowLock' = [rowLock EXCEPT ![FirstRow(My(r))] = r]
    /\ Goto(r, "tx2")
    /\ UNCHANGED money
    /\ UNCHANGED <<status, frozen, published, held, task, snap, walletLock, result>>

(* The paired ledger rows: a DEBIT on the sender, a CREDIT on the recipient. *)
Paired(f, c) ==
    [u \in Users |-> [d \in Currencies |->
        f[u][d] + (IF u = c.to /\ d = c.cur THEN c.amt ELSE 0)
                - (IF u = c.user /\ d = c.cur THEN c.amt ELSE 0)]]

(* Only availableBalance moves; goldBalance does not.  A transfer to       *)
(* oneself only decrements.                                                *)
TransferTx(r) ==
    LET c == My(r) IN
    /\ pc[r] = "tx2" /\ rowLock[SecondRow(c)] \in {None, r}
    /\ \/ TxFails(r)
       \/ /\ TxOpens(r)
          /\ avail' = [u \in Users |->
                         CASE u = c.user            -> avail[u] - c.amt
                           [] u = c.to /\ u # c.user -> avail[u] + c.amt
                           [] OTHER                 -> avail[u]]
          /\ ledger' = Paired(ledger, c)
          /\ net' = Paired(net, c)
          /\ Committed(r)
          /\ UNCHANGED <<bal, reserved, debt>>

(* publishMovement / publish, then the request returns.                    *)
Publish(r) ==
    /\ pc[r] = "publish"
    /\ published' = [published EXCEPT ![task[r]] = @ + 1]
    /\ Return(r, "applied") /\ Unlock(r)
    /\ UNCHANGED money /\ UNCHANGED <<held, rowLock>>

-----------------------------------------------------------------------------
(* Reservations.  release and consume read the row's status before they    *)
(* open a transaction, and do not read it again inside.                    *)

CanHold(h) == status[HoldOf[h].user] = "ACTIVE" /\ avail[HoldOf[h].user] >= HoldOf[h].amt

ReserveCheck(r, h) ==
    /\ pc[r] = "idle" /\ ~frozen /\ held[h] = "none" /\ CanHold(h)
    /\ \A q \in Reqs : task[q] # h
    /\ task' = [task EXCEPT ![r] = h] /\ Goto(r, "reserve")
    /\ UNCHANGED money
    /\ UNCHANGED <<status, frozen, published, held, snap, walletLock, rowLock, result>>

ReadHeld(r, h, next) ==
    /\ pc[r] = "idle" /\ held[h] = "HELD"
    /\ task' = [task EXCEPT ![r] = h] /\ Goto(r, next)
    /\ UNCHANGED money
    /\ UNCHANGED <<status, frozen, published, held, snap, walletLock, rowLock, result>>

ReleaseRead(r, h) == ReadHeld(r, h, "release")
ConsumeRead(r, h) == ReadHeld(r, h, "consume")

(* The update of the wallets row and of the reservation row, in one        *)
(* transaction: available and reserved move by da and dr.                  *)
HoldTx(r, da, dr, st) ==
    LET h == task[r] IN
    /\ rowLock[HoldOf[h].user] = None
    /\ avail' = [avail EXCEPT ![HoldOf[h].user] = @ + da]
    /\ reserved' = [reserved EXCEPT ![HoldOf[h].user] = @ + dr]
    /\ held' = [held EXCEPT ![h] = st]
    /\ Return(r, "applied")
    /\ UNCHANGED <<bal, ledger, applied, debt, net, published, walletLock, rowLock>>

(* Faulty variant: no re-validation under FOR UPDATE.                      *)
ReserveTxUnchecked(r) ==
    pc[r] = "reserve" /\ HoldTx(r, -HoldOf[task[r]].amt, HoldOf[task[r]].amt, "HELD")

ReserveTx(r) ==
    /\ pc[r] = "reserve"
    /\ \/ CanHold(task[r]) /\ HoldTx(r, -HoldOf[task[r]].amt, HoldOf[task[r]].amt, "HELD")
       \/ /\ ~CanHold(task[r]) /\ rowLock[HoldOf[task[r]].user] = None
          /\ Reject(r, "rejected")

ReleaseTx(r) ==
    pc[r] = "release" /\ HoldTx(r, HoldOf[task[r]].amt, -HoldOf[task[r]].amt, "RELEASED")

ConsumeTx(r) == pc[r] = "consume" /\ HoldTx(r, 0, -HoldOf[task[r]].amt, "CONSUMED")

-----------------------------------------------------------------------------
(* What happens around the requests.                                       *)

(* The PX timeout of the Redis lock lapses while its holder still runs.    *)
LockExpires(u) ==
    /\ walletLock[u] # None
    /\ walletLock' = [walletLock EXCEPT ![u] = None]
    /\ UNCHANGED money
    /\ UNCHANGED <<status, frozen, published, held, pc, task, snap, rowLock, result>>

(* The API process dies: an open transaction rolls back, a Redis lock stays.*)
Crash(r) ==
    /\ pc[r] \notin {"idle", "done"}
    /\ Return(r, "crashed") /\ FreeRows(r)
    /\ UNCHANGED money /\ UNCHANGED <<published, held, walletLock>>

UpdateWalletStatus(u, s) ==
    /\ rowLock[u] = None /\ status[u] # s
    /\ status' = [status EXCEPT ![u] = s]
    /\ UNCHANGED money
    /\ UNCHANGED <<frozen, published, held, pc, task, snap, walletLock, rowLock, result>>

SetFrozen(b) ==
    /\ frozen # b /\ frozen' = b
    /\ UNCHANGED money
    /\ UNCHANGED <<status, published, held, pc, task, snap, walletLock, rowLock, result>>

Step(r) ==
    \/ TakeLock(r) \/ LockBusy(r) \/ CheckKey(r) \/ OpenRow(r)
    \/ ApplyMovement(r) \/ MovementFails(r)
    \/ PreCheck(r) \/ CreditTx(r) \/ DebitTx(r) \/ ReverseTx(r)
    \/ TransferLock(r) \/ TransferTx(r) \/ Publish(r)
    \/ ReserveTx(r) \/ ReleaseTx(r) \/ ConsumeTx(r)

Next ==
    \/ \E r \in Reqs :
         \/ \E k \in Keys : Admit(r, k) \/ Refuse(r, k)
         \/ \E h \in Holds : ReserveCheck(r, h) \/ ReleaseRead(r, h) \/ ConsumeRead(r, h)
         \/ Step(r) \/ Crash(r)
    \/ \E u \in Users : LockExpires(u) \/ \E s \in Statuses : UpdateWalletStatus(u, s)
    \/ \E b \in BOOLEAN : SetFrozen(b)

Spec == Init /\ [][Next]_vars

(* A request in progress is run by the event loop until it returns.        *)
FairSpec == Spec /\ \A r \in Reqs : WF_vars(Step(r))

-----------------------------------------------------------------------------
(* Type invariant.                                                         *)
TypeOK ==
    /\ bal \in [Users -> [Currencies -> Int]]
    /\ ledger \in [Users -> [Currencies -> Int]]
    /\ debt \in [Users -> [Currencies -> Int]]
    /\ net \in [Users -> [Currencies -> Int]]
    /\ avail \in [Users -> Int] /\ reserved \in [Users -> Int]
    /\ status \in [Users -> Statuses] /\ frozen \in BOOLEAN
    /\ applied \in [Keys -> Nat] /\ published \in [Keys -> Nat]
    /\ held \in [Holds -> HoldStatuses]
    /\ pc \in [Reqs -> PCs] /\ task \in [Reqs -> Keys \cup Holds \cup {None}]
    /\ snap \in [Reqs -> RowType]
    /\ walletLock \in [Users -> Reqs \cup {None}] /\ rowLock \in [Users -> Reqs \cup {None}]
    /\ result \in [Reqs -> Results]

(* The comment in applyMovement: without the row lock a Path A absolute    *)
(* write could "silently LOSE" a concurrent Path B movement.  With it, in  *)
(* every currency Path B knows, the ledger and the column differ by        *)
(* exactly the transfers, which post ledger rows and no column.            *)
LedgerExplainsColumns ==
    \A u \in Users, c \in Currencies \ Legacy : ledger[u][c] = bal[u][c] + net[u][c]

(* Between the read and the absolute write of a Path A movement nobody     *)
(* else changes the row: FOR UPDATE is "shared with Path B".               *)
SnapshotIsRow ==
    \A r \in Reqs : pc[r] = "write" =>
        rowLock[My(r).user] = r /\ snap[r] = Row(My(r).user)

(* Racing debits cannot overdraw: only reverseWallet takes a column below  *)
(* zero, and never by more than it clawed back.                            *)
OnlyReversalsOverdraw == \A u \in Users, c \in Currencies : bal[u][c] + debt[u][c] >= 0

(* However requests with one idempotency key race, retry, crash or outlive *)
(* their Redis lock, at most one of them commits.                          *)
AtMostOncePerKey == \A k \in Keys : applied[k] <= 1

(* A caller that was answered, as the winner or as a replay, can rely on   *)
(* the movement being committed.                                           *)
AnsweredMeansCommitted ==
    \A r \in Reqs : result[r] \in {"applied", "duplicate"} /\ task[r] \in Keys
                        => applied[task[r]] = 1

(* "a rollback can never emit a phantom event", and a replay does not      *)
(* publish a second time.                                                  *)
NoPhantomEvent == \A k \in Keys : published[k] <= applied[k]

(* What an idempotency key is worth to its caller: one commit, behind every *)
(* answer and every event.                                                 *)
Idempotence == AtMostOncePerKey /\ AnsweredMeansCommitted /\ NoPhantomEvent

(* "Prevent deadlocks by sorting the IDs": no two transfers hold the row   *)
(* the other is waiting for.                                               *)
NoRowDeadlock ==
    ~ \E q, r \in Reqs :
        /\ q # r /\ pc[q] = "tx2" /\ pc[r] = "tx2"
        /\ rowLock[SecondRow(My(q))] = r /\ rowLock[SecondRow(My(r))] = q

(* The comment in reserveCoins: re-checking under FOR UPDATE "closes that   *)
(* TOCTOU", so a hold that is granted was covered by what was available.   *)
ReserveIsCovered ==
    [][\A h \in Holds : held[h] = "none" /\ held'[h] = "HELD"
          => avail'[HoldOf[h].user] >= 0]_vars

(* A suspended wallet's columns move only for a claw-back.                 *)
SuspendedOnlyReversed ==
    [][\A u \in Users : bal'[u] # bal[u] /\ status[u] # "ACTIVE"
          => \E k \in Keys : applied'[k] > applied[k] /\ Call[k].kind = "reverse"]_vars

(* The whole of it: what callers see of the columns and the keys is what   *)
(* Accounts allows, however the requests interleave, expire and crash.     *)
Promise == INSTANCE Accounts WITH
               balance <- bal, used <- {k \in Keys : applied[k] > 0},
               Calls <- [k \in Keys |-> {Call[k]}]
Refinement == Promise!Spec

(* Nobody waits forever on a Redis lock or on a row.                       *)
EveryRequestReturns == \A r \in Reqs : pc[r] # "idle" ~> pc[r] = "done"
=============================================================================

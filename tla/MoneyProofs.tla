----------------------------- MODULE MoneyProofs ----------------------------
(***************************************************************************)
(* The wallet, and the purchases that pay coins into it, for any number of *)
(* users, calls, orders, purchases, requests and faults.                   *)
(*                                                                         *)
(* The wallet.  A Path A request that is about to write owns the row and   *)
(* its snapshot still is the row (SnapshotIsRow), because every other      *)
(* writer waits for the row lock; so its absolute write is the increment   *)
(* the ledger records.  The unique index makes a commit under a key final, *)
(* and the request that committed is the only one to publish.              *)
(*                                                                         *)
(* Purchases.  A receipt row never changes its order, a used wallet key    *)
(* stays used, and a request's position says how much of the chain it has  *)
(* committed.                                                              *)
(***************************************************************************)
EXTENDS Wallet, Purchases, Sums, TLAPS

(* Which request may be at which step with which task.                     *)
TaskOK(r) ==
    /\ pc[r] \in {"waitLock", "checkKey", "openTx", "write"} =>
         task[r] \in Keys /\ My(r).kind \in PathA /\ My(r).amt > 0
    /\ pc[r] \in {"check", "tx", "tx2"} =>
         task[r] \in Keys /\ My(r).kind \notin PathA /\ My(r).amt > 0
    /\ pc[r] = "tx2" => My(r).kind = "transfer"
    /\ pc[r] = "publish" => task[r] \in Keys
    /\ pc[r] \in {"reserve", "release", "consume"} => task[r] \in Holds
    /\ pc[r] # "done" => result[r] = "none"
TasksOK == \A r \in Reqs : TaskOK(r)

PublishOnce ==
    /\ \A r \in Reqs : pc[r] = "publish" => applied[task[r]] = 1 /\ published[task[r]] = 0
    /\ \A q, r \in Reqs : pc[q] = "publish" /\ pc[r] = "publish" /\ task[q] = task[r] => q = r

DebtOK == \A u \in Users, c \in Currencies : debt[u][c] >= 0

IInv ==
    /\ TypeOK /\ TasksOK /\ SnapshotIsRow /\ PublishOnce /\ DebtOK
    /\ AtMostOncePerKey /\ NoPhantomEvent /\ AnsweredMeansCommitted
    /\ LedgerExplainsColumns /\ OnlyReversalsOverdraw

USE UsersAssumption, CurrenciesAssumption, CallAssumption, HoldAssumption, NoneAssumption

Table == [Users -> [Currencies -> Int]]

LEMMA Cell ==
  ASSUME NEW f \in Table, NEW u \in Users, NEW c \in Currencies PROVE f[u][c] \in Int
  BY DEF Table

(* One cell of a per-user, per-currency table is set.                      *)
LEMMA SetCell ==
  ASSUME NEW f \in Table, NEW u \in Users, NEW c \in Currencies, NEW n \in Int
  PROVE  /\ [f EXCEPT ![u][c] = n] \in Table
         /\ f[u][c] \in Int
         /\ \A v \in Users, d \in Currencies :
              [f EXCEPT ![u][c] = n][v][d] = IF v = u /\ d = c THEN n ELSE f[v][d]
         /\ \A v \in Users \ {u} : [f EXCEPT ![u][c] = n][v] = f[v]
  BY DEF Table

LEMMA SetEntry ==
  ASSUME NEW f \in [Users -> Int], NEW u \in Users, NEW n \in Int
  PROVE  [f EXCEPT ![u] = @ + n] \in [Users -> Int]
<1>1. f[u] + n \in Int
  OBVIOUS
<1> QED
  BY <1>1

LEMMA InitIInv == Init => IInv
<1> SUFFICES ASSUME Init PROVE IInv
  OBVIOUS
<1>1. TypeOK
  <2>1. snap \in [Reqs -> RowType]
    BY DEF Init, RowType, Statuses
  <2>2. frozen \in BOOLEAN
    BY DEF Init
  <2> QED
    BY <2>1, <2>2 DEF Init, TypeOK, Zero, Statuses, HoldStatuses, PCs, Results
<1>2. TasksOK /\ SnapshotIsRow /\ PublishOnce
  BY DEF Init, TasksOK, TaskOK, SnapshotIsRow, PublishOnce
<1>3. AtMostOncePerKey /\ NoPhantomEvent /\ AnsweredMeansCommitted
  BY DEF Init, AtMostOncePerKey, NoPhantomEvent, AnsweredMeansCommitted
<1>4. DebtOK /\ LedgerExplainsColumns /\ OnlyReversalsOverdraw
  BY DEF Init, Zero, DebtOK, LedgerExplainsColumns, OnlyReversalsOverdraw
<1> QED
  BY <1>1, <1>2, <1>3, <1>4 DEF IInv

(* A request that ends without committing anything keeps the invariant:    *)
(* the rows it frees are its own, and nobody else's snapshot changes.      *)
LEMMA RejectIInv ==
  ASSUME IInv, NEW r \in Reqs, pc[r] \notin {"idle", "done"},
         NEW res \in {"duplicate", "rejected", "busy"},
         res = "duplicate" /\ task[r] \in Keys => applied[task[r]] > 0,
         Reject(r, res)
  PROVE  IInv'
<1> USE DEF Reject, Return, Goto, money
<1>1. TypeOK'
  BY DEF IInv, TypeOK, Unlock, FreeRows, PCs, Results
<1>2. TasksOK'
  BY DEF IInv, TypeOK, TasksOK, TaskOK, My
<1>3. SnapshotIsRow'
  BY DEF IInv, TypeOK, TasksOK, TaskOK, SnapshotIsRow, FreeRows, My, Row, CallType
<1>4. PublishOnce'
  BY DEF IInv, TypeOK, PublishOnce
<1>5. AtMostOncePerKey' /\ NoPhantomEvent'
  BY DEF IInv, AtMostOncePerKey, NoPhantomEvent
<1>6. AnsweredMeansCommitted'
  BY DEF IInv, TypeOK, AtMostOncePerKey, AnsweredMeansCommitted
<1>7. DebtOK' /\ LedgerExplainsColumns' /\ OnlyReversalsOverdraw'
  BY DEF IInv, DebtOK, LedgerExplainsColumns, OnlyReversalsOverdraw
<1> QED
  BY <1>1, <1>2, <1>3, <1>4, <1>5, <1>6, <1>7 DEF IInv

(* A step that only moves a request on.                                    *)
LEMMA QuietIInv ==
  ASSUME IInv, NEW r \in Reqs, NEW l \in PCs \ {"write", "publish", "done"},
         Goto(r, l), TaskOK(r)',
         task' \in [Reqs -> Keys \cup Holds \cup {None}],
         \A q \in Reqs \ {r} : task'[q] = task[q],
         pc[r] \notin {"done"},
         walletLock' \in [Users -> Reqs \cup {None}],
         rowLock' \in [Users -> Reqs \cup {None}],
         \A u \in Users : rowLock[u] # None => rowLock'[u] = rowLock[u],
         UNCHANGED money,
         UNCHANGED <<status, frozen, published, held, snap, result>>
  PROVE  IInv'
<1> USE DEF Goto, money
<1>1. TypeOK'
  BY DEF IInv, TypeOK
<1>2. TasksOK'
  BY DEF IInv, TypeOK, TasksOK, TaskOK, My
<1>3. SnapshotIsRow'
  <2> SUFFICES ASSUME NEW q \in Reqs, pc'[q] = "write"
               PROVE  (rowLock[My(q).user] = q /\ snap[q] = Row(My(q).user))'
    BY DEF SnapshotIsRow
  <2>1. pc[q] = "write" /\ task'[q] = task[q]
    BY DEF IInv, TypeOK
  <2>2. rowLock[My(q).user] = q /\ snap[q] = Row(My(q).user) /\ My(q).user \in Users
    BY <2>1 DEF IInv, SnapshotIsRow, TasksOK, TaskOK, My, CallType
  <2>3. My(q)' = My(q)
    BY <2>1 DEF My
  <2>4. q # None
    BY NoneAssumption
  <2>5. rowLock'[My(q).user] = q
    BY <2>2, <2>4
  <2>6. Row(My(q).user)' = Row(My(q).user)
    BY <2>3 DEF Row
  <2> QED
    BY <2>2, <2>3, <2>5, <2>6
<1>4. PublishOnce'
  BY DEF IInv, TypeOK, PublishOnce
<1>5. AtMostOncePerKey' /\ NoPhantomEvent'
  BY DEF IInv, AtMostOncePerKey, NoPhantomEvent
<1>6. AnsweredMeansCommitted'
  BY DEF IInv, TypeOK, TasksOK, TaskOK, AnsweredMeansCommitted
<1>7. DebtOK' /\ LedgerExplainsColumns' /\ OnlyReversalsOverdraw'
  BY DEF IInv, DebtOK, LedgerExplainsColumns, OnlyReversalsOverdraw
<1> QED
  BY <1>1, <1>2, <1>3, <1>4, <1>5, <1>6, <1>7 DEF IInv

(* What a committing transaction leaves to be shown, given what it did to  *)
(* the columns: the row it wrote is its own or was free, so no snapshot    *)
(* becomes stale; the key was unused, so it is committed once.             *)
LEMMA CommitIInv ==
  ASSUME IInv, NEW r \in Reqs, task[r] \in Keys, applied[task[r]] = 0,
         pc[r] \notin {"idle", "done", "publish"},
         Committed(r),
         bal' \in [Users -> [Currencies -> Int]], ledger' \in [Users -> [Currencies -> Int]],
         debt' \in [Users -> [Currencies -> Int]], net' \in [Users -> [Currencies -> Int]],
         avail' \in [Users -> Int], reserved' = reserved,
         \A u \in Users : bal'[u] # bal[u] => rowLock[u] \in {None, r},
         DebtOK', LedgerExplainsColumns', OnlyReversalsOverdraw'
  PROVE  IInv'
<1> USE DEF Committed, Goto
<1>1. TypeOK'
  BY DEF IInv, TypeOK, FreeRows, PCs
<1>2. TasksOK'
  BY DEF IInv, TypeOK, TasksOK, TaskOK, My
<1>3. SnapshotIsRow'
  <2> SUFFICES ASSUME NEW q \in Reqs, pc'[q] = "write"
               PROVE  (rowLock[My(q).user] = q /\ snap[q] = Row(My(q).user))'
    BY DEF SnapshotIsRow
  <2>1. q # r /\ pc[q] = "write" /\ task'[q] = task[q]
    BY DEF IInv, TypeOK
  <2>2. rowLock[My(q).user] = q /\ snap[q] = Row(My(q).user) /\ My(q).user \in Users
    BY <2>1 DEF IInv, SnapshotIsRow, TasksOK, TaskOK, My, CallType
  <2>3. bal'[My(q).user] = bal[My(q).user]
    BY <2>1, <2>2
  <2> QED
    BY <2>1, <2>2, <2>3 DEF My, Row, FreeRows
<1>4. PublishOnce' /\ NoPhantomEvent'
  BY DEF IInv, TypeOK, TasksOK, TaskOK, PublishOnce, NoPhantomEvent, AtMostOncePerKey
<1>5. AtMostOncePerKey'
  BY DEF IInv, TypeOK, AtMostOncePerKey
<1>6. AnsweredMeansCommitted'
  BY DEF IInv, TypeOK, AnsweredMeansCommitted
<1> QED
  BY <1>1, <1>2, <1>3, <1>4, <1>5, <1>6 DEF IInv

(* The steps that only move a request on, and those that turn it away.     *)
LEMMA AdmitIInv ==
  ASSUME IInv, NEW r \in Reqs, NEW k \in Keys, Admit(r, k) PROVE IInv'
<1>1. (IF Call[k].kind \in PathA THEN "waitLock" ELSE "check") \in PCs \ {"write", "publish", "done"}
  BY DEF PCs
<1>2. TaskOK(r)'
  BY DEF IInv, TypeOK, TasksOK, TaskOK, Admit, Validated, Goto, My
<1> QED
  BY <1>1, <1>2, QuietIInv DEF Admit, IInv, TypeOK

LEMMA RefuseIInv ==
  ASSUME IInv, NEW r \in Reqs, NEW k \in Keys, Refuse(r, k) PROVE IInv'
<1> USE DEF Refuse, Goto, money
<1>1. TypeOK'
  BY DEF IInv, TypeOK, PCs, Results
<1>2. TasksOK' /\ PublishOnce'
  BY DEF IInv, TypeOK, TasksOK, TaskOK, PublishOnce, My
<1>3. SnapshotIsRow'
  BY DEF IInv, TypeOK, SnapshotIsRow, My, Row
<1>4. AtMostOncePerKey' /\ NoPhantomEvent' /\ AnsweredMeansCommitted'
  BY DEF IInv, TypeOK, AtMostOncePerKey, NoPhantomEvent, AnsweredMeansCommitted
<1>5. DebtOK' /\ LedgerExplainsColumns' /\ OnlyReversalsOverdraw'
  BY DEF IInv, DebtOK, LedgerExplainsColumns, OnlyReversalsOverdraw
<1> QED
  BY <1>1, <1>2, <1>3, <1>4, <1>5 DEF IInv

LEMMA LockStepsIInv ==
  ASSUME IInv, NEW r \in Reqs, TakeLock(r) \/ LockBusy(r) \/ CheckKey(r) PROVE IInv'
<1>0. {"checkKey", "openTx"} \subseteq PCs \ {"write", "publish", "done"}
  BY DEF PCs
<1>1. CASE TakeLock(r)
  <2>1. TaskOK(r)'
    BY <1>1 DEF IInv, TypeOK, TasksOK, TaskOK, TakeLock, Goto, My
  <2> QED
    BY <1>0, <1>1, <2>1, QuietIInv DEF TakeLock, IInv, TypeOK
<1>2. CASE LockBusy(r)
  BY <1>2, RejectIInv DEF LockBusy
<1>3. CASE CheckKey(r) /\ applied[task[r]] > 0
  BY <1>3, RejectIInv DEF CheckKey
<1>4. CASE CheckKey(r) /\ ~(applied[task[r]] > 0)
  <2>1. TaskOK(r)'
    BY <1>4 DEF IInv, TypeOK, TasksOK, TaskOK, CheckKey, Goto, My
  <2> QED
    BY <1>0, <1>4, <2>1, QuietIInv DEF CheckKey, IInv, TypeOK
<1> QED
  BY <1>1, <1>2, <1>3, <1>4

LEMMA PreCheckIInv ==
  ASSUME IInv, NEW r \in Reqs, PreCheck(r) PROVE IInv'
<1>0. "tx" \in PCs \ {"write", "publish", "done"} /\ applied[task[r]] \in Nat /\ task[r] \in Keys
  BY DEF PCs, IInv, TypeOK, TasksOK, TaskOK, PreCheck
<1>1. CASE applied[task[r]] > 0
  BY <1>0, <1>1, RejectIInv DEF PreCheck
<1>2. CASE applied[task[r]] = 0 /\ ~Valid(My(r))
  BY <1>0, <1>2, RejectIInv DEF PreCheck
<1>3. CASE applied[task[r]] = 0 /\ Valid(My(r))
  <2>1. /\ pc[r] = "check" /\ Goto(r, "tx") /\ UNCHANGED money
        /\ UNCHANGED <<status, frozen, published, held, task, snap, walletLock, rowLock, result>>
    BY <1>3 DEF PreCheck
  <2>2. TaskOK(r)'
    BY <2>1 DEF IInv, TypeOK, TasksOK, TaskOK, Goto, My
  <2> QED
    BY <1>0, <2>1, <2>2, QuietIInv DEF IInv, TypeOK
<1> QED
  BY <1>0, <1>1, <1>2, <1>3

LEMMA TransferLockIInv ==
  ASSUME IInv, NEW r \in Reqs, TransferLock(r) PROVE IInv'
<1>1. "tx2" \in PCs \ {"write", "publish", "done"}
  BY DEF PCs
<1>2. TaskOK(r)'
  BY DEF IInv, TypeOK, TasksOK, TaskOK, TransferLock, Goto, My
<1> QED
  BY <1>1, <1>2, QuietIInv DEF TransferLock, IInv, TypeOK

LEMMA HoldReadsIInv ==
  ASSUME IInv, NEW r \in Reqs, NEW h \in Holds,
         ReserveCheck(r, h) \/ ReleaseRead(r, h) \/ ConsumeRead(r, h)
  PROVE  IInv'
<1>1. PICK l \in {"reserve", "release", "consume"} :
        /\ pc[r] = "idle" /\ Goto(r, l) /\ task' = [task EXCEPT ![r] = h]
        /\ UNCHANGED money
        /\ UNCHANGED <<status, frozen, published, held, snap, walletLock, rowLock, result>>
  BY DEF ReserveCheck, ReleaseRead, ConsumeRead, ReadHeld
<1>2. l \in PCs \ {"write", "publish", "done"}
  BY DEF PCs
<1>3. TaskOK(r)'
  BY <1>1 DEF IInv, TypeOK, TasksOK, TaskOK, Goto
<1> QED
  BY <1>1, <1>2, <1>3, QuietIInv DEF IInv, TypeOK

(* Path A reads the row under its lock: the snapshot is the row.           *)
LEMMA OpenRowIInv ==
  ASSUME IInv, NEW r \in Reqs, OpenRow(r) PROVE IInv'
<1> USE DEF OpenRow, Goto, money
<1>0. task[r] \in Keys /\ My(r).user \in Users /\ My(r)' = My(r)
  BY DEF IInv, TasksOK, TaskOK, My, CallType
<1>1. TypeOK'
  <2>1. Row(My(r).user) \in RowType
    BY <1>0 DEF IInv, TypeOK, Row, RowType
  <2> QED
    BY <1>0, <2>1 DEF IInv, TypeOK, PCs
<1>2. TasksOK'
  BY DEF IInv, TypeOK, TasksOK, TaskOK, My
<1>3. SnapshotIsRow'
  <2> SUFFICES ASSUME NEW q \in Reqs, pc'[q] = "write"
               PROVE  (rowLock[My(q).user] = q /\ snap[q] = Row(My(q).user))'
    BY DEF SnapshotIsRow
  <2>1. CASE q = r
    BY <1>0, <2>1 DEF IInv, TypeOK, Row
  <2>2. CASE q # r
    <3>1. pc[q] = "write" /\ task'[q] = task[q]
      BY <2>2 DEF IInv, TypeOK
    <3>2. rowLock[My(q).user] = q /\ snap[q] = Row(My(q).user) /\ My(q).user \in Users
      BY <3>1 DEF IInv, SnapshotIsRow, TasksOK, TaskOK, My, CallType
    <3>3. My(q).user # My(r).user
      BY <3>2
    <3> QED
      BY <2>2, <3>1, <3>2, <3>3 DEF My, Row, IInv, TypeOK
  <2> QED
    BY <2>1, <2>2
<1>4. PublishOnce'
  BY DEF IInv, TypeOK, PublishOnce
<1>5. AtMostOncePerKey' /\ NoPhantomEvent' /\ AnsweredMeansCommitted'
  BY DEF IInv, TypeOK, AtMostOncePerKey, NoPhantomEvent, AnsweredMeansCommitted
<1>6. DebtOK' /\ LedgerExplainsColumns' /\ OnlyReversalsOverdraw'
  BY DEF IInv, DebtOK, LedgerExplainsColumns, OnlyReversalsOverdraw
<1> QED
  BY <1>1, <1>2, <1>3, <1>4, <1>5, <1>6 DEF IInv

(* Path A commits: by SnapshotIsRow the absolute write is the increment    *)
(* the ledger row records.                                                 *)
LEMMA AfterIsIncrement ==
  ASSUME IInv, NEW r \in Reqs, pc[r] = "write"
  PROVE  /\ task[r] \in Keys /\ My(r) \in CallType /\ My(r).amt > 0 /\ My(r).kind \in PathA
         /\ After(r) = bal[My(r).user][My(r).cur] + Delta(My(r))
         /\ Delta(My(r)) \in Int
         /\ rowLock[My(r).user] = r
<1>1. task[r] \in Keys /\ My(r) \in CallType /\ My(r).amt > 0 /\ My(r).kind \in PathA
  BY DEF IInv, TasksOK, TaskOK, My
<1>2. Delta(My(r)) \in Int
  BY <1>1 DEF Delta, CallType
<1>3. snap[r] = Row(My(r).user) /\ rowLock[My(r).user] = r
  BY DEF IInv, SnapshotIsRow
<1> QED
  BY <1>1, <1>2, <1>3 DEF After, Row

LEMMA ApplyMovementIInv ==
  ASSUME IInv, NEW r \in Reqs, ApplyMovement(r) PROVE IInv'
<1> DEFINE c == My(r)
<1>0. pc[r] = "write"
  BY DEF ApplyMovement
<1>1. /\ task[r] \in Keys /\ c \in CallType /\ c.user \in Users /\ c.cur \in Currencies
      /\ Delta(c) \in Int /\ After(r) = bal[c.user][c.cur] + Delta(c) /\ rowLock[c.user] = r
  BY <1>0, AfterIsIncrement DEF CallType
<1>a. bal \in Table /\ ledger \in Table /\ debt \in Table
  BY DEF IInv, TypeOK, Table
<1>2. After(r) \in Int /\ After(r) >= 0 /\ applied[task[r]] = 0
  <2>1. bal[c.user][c.cur] \in Int
    BY <1>1, <1>a, Cell
  <2>a. applied[task[r]] \in Nat
    BY <1>1 DEF IInv, TypeOK
  <2>2. ~(After(r) < 0) /\ ~(applied[task[r]] > 0)
    BY DEF ApplyMovement, MoveRefused
  <2> HIDE DEF c
  <2> QED
    BY <1>1, <2>1, <2>2, <2>a
<1>3. /\ bal' = [bal EXCEPT ![c.user][c.cur] = After(r)]
      /\ ledger' = [ledger EXCEPT ![c.user][c.cur] = @ + Delta(c)]
      /\ Committed(r) /\ UNCHANGED <<reserved, debt, net>>
  BY DEF ApplyMovement
<1>4. bal' \in Table /\ ledger' \in Table
  <2> HIDE DEF c
  <2>0. ledger[c.user][c.cur] \in Int
    BY <1>1, <1>a, Cell
  <2>1. ledger[c.user][c.cur] + Delta(c) \in Int
    BY <1>1, <2>0
  <2> QED
    BY <1>1, <1>2, <1>3, <1>a, <2>1, SetCell
<1>5. avail' \in [Users -> Int]
  <2>1. Floor0(After(r) - snap[r].reserved) \in Int
    BY <1>2 DEF Floor0, IInv, TypeOK, RowType
  <2> QED
    BY <1>1, <2>1 DEF IInv, TypeOK, ApplyMovement
<1>6. \A u \in Users : bal'[u] # bal[u] => rowLock[u] \in {None, r}
  BY <1>1, <1>3 DEF IInv, TypeOK
<1>7. DebtOK' /\ LedgerExplainsColumns' /\ OnlyReversalsOverdraw'
  BY <1>1, <1>2, <1>3 DEF IInv, TypeOK, DebtOK, LedgerExplainsColumns, OnlyReversalsOverdraw
<1> QED
  BY <1>0, <1>1, <1>2, <1>3, <1>4, <1>5, <1>6, <1>7, CommitIInv DEF IInv, TypeOK, Table

(* Path B's increments, under a row nobody else has locked.                *)
LEMMA IncrementIInv ==
  ASSUME IInv, NEW r \in Reqs, pc[r] = "tx", rowLock[My(r).user] = None,
         TxOpens(r), Increment(My(r)), Committed(r),
         \/ My(r).kind \in {"credit", "debit"} /\ debt' = debt
         \/ /\ My(r).kind = "reverse"
            /\ debt' = [debt EXCEPT ![My(r).user][My(r).cur] = @ + My(r).amt]
  PROVE  IInv'
<1> DEFINE c == My(r)
<1>1. /\ task[r] \in Keys /\ c \in CallType /\ c.amt > 0 /\ c.amt \in Int
      /\ c.user \in Users /\ c.cur \in Currencies
  BY DEF IInv, TasksOK, TaskOK, My, CallType
<1>2. Delta(c) \in Int /\ (c.kind = "credit" => Delta(c) = c.amt)
      /\ (c.kind \in {"debit", "reverse"} => Delta(c) = -c.amt)
  BY <1>1 DEF Delta
<1>3. applied[task[r]] = 0 /\ Valid(c)
  BY DEF TxOpens
<1>4. c.kind = "debit" /\ c.cur \notin Legacy => bal[c.user][c.cur] >= c.amt
  BY <1>3 DEF Valid, Sufficient
<1>a. bal \in Table /\ ledger \in Table /\ debt \in Table
  BY DEF IInv, TypeOK, Table
<1>b. /\ bal' = [bal EXCEPT ![c.user][c.cur] = IF c.cur \in Legacy THEN @ ELSE @ + Delta(c)]
      /\ ledger' = [ledger EXCEPT ![c.user][c.cur] = @ + Delta(c)]
      /\ net' = net /\ reserved' = reserved
  BY DEF Increment
<1>c. bal' \in Table /\ ledger' \in Table
  <2> HIDE DEF c
  <2>1. /\ bal[c.user][c.cur] \in Int /\ ledger[c.user][c.cur] \in Int
    BY <1>1, <1>a, Cell
  <2>2. /\ (IF c.cur \in Legacy THEN bal[c.user][c.cur] ELSE bal[c.user][c.cur] + Delta(c)) \in Int
        /\ ledger[c.user][c.cur] + Delta(c) \in Int
    BY <2>1, <1>2
  <2>3. bal' \in Table
    BY ZenonT(30), <1>1, <1>a, <1>b, <2>2, SetCell
  <2>4. ledger' \in Table
    BY ZenonT(30), <1>1, <1>a, <1>b, <2>2, SetCell
  <2> QED
    BY <2>3, <2>4
<1>d. debt' \in Table
  <2>1. CASE debt' = debt
    BY <2>1, <1>a
  <2>2. CASE debt' = [debt EXCEPT ![c.user][c.cur] = @ + c.amt]
    <3> HIDE DEF c
    <3>0. debt[c.user][c.cur] \in Int
      BY <1>1, <1>a, Cell
    <3>1. debt[c.user][c.cur] + c.amt \in Int
      BY <1>1, <3>0
    <3> QED
      BY ZenonT(30), <1>1, <1>a, <2>2, <3>1, SetCell
  <2> QED
    BY <2>1, <2>2
<1>5. avail' \in [Users -> Int]
  <2>1. avail' = [avail EXCEPT ![c.user] = IF c.cur = GOLD THEN @ + Delta(c) ELSE @]
    BY DEF Increment
  <2>2. avail \in [Users -> Int]
    BY DEF IInv, TypeOK
  <2> HIDE DEF c
  <2> QED
    BY <1>1, <1>2, <2>1, <2>2
<1>6. \A u \in Users : bal'[u] # bal[u] => rowLock[u] \in {None, r}
  BY <1>1 DEF IInv, TypeOK, Increment
<1>7. DebtOK'
  BY <1>1 DEF IInv, TypeOK, DebtOK
<1>8. LedgerExplainsColumns'
  <2> SUFFICES ASSUME NEW u \in Users, NEW d \in Currencies \ Legacy
               PROVE  ledger'[u][d] = bal'[u][d] + net'[u][d]
    BY DEF LedgerExplainsColumns
  <2>1. /\ ledger[u][d] = bal[u][d] + net[u][d]
        /\ bal[u][d] \in Int /\ ledger[u][d] \in Int /\ net[u][d] \in Int
    BY DEF IInv, TypeOK, LedgerExplainsColumns
  <2> HIDE DEF c
  <2> QED
    BY <1>1, <1>2, <1>a, <1>b, <2>1 DEF Table
<1>9. OnlyReversalsOverdraw'
  <2> SUFFICES ASSUME NEW u \in Users, NEW d \in Currencies
               PROVE  bal'[u][d] + debt'[u][d] >= 0
    BY DEF OnlyReversalsOverdraw
  <2>1. bal[u][d] \in Int /\ debt[u][d] \in Int /\ bal[u][d] + debt[u][d] >= 0 /\ debt[u][d] >= 0
    BY DEF IInv, TypeOK, OnlyReversalsOverdraw, DebtOK
  <2>2. CASE u = c.user /\ d = c.cur
    BY <1>1, <1>2, <1>4, <2>1, <2>2 DEF IInv, TypeOK, Increment
  <2>3. CASE ~(u = c.user /\ d = c.cur)
    BY <1>1, <2>1, <2>3 DEF IInv, TypeOK, Increment
  <2> QED
    BY <2>2, <2>3
<1> QED
  BY <1>1, <1>3, <1>b, <1>c, <1>d, <1>5, <1>6, <1>7, <1>8, <1>9, CommitIInv DEF IInv, TypeOK, Table

LEMMA TxFailsIInv ==
  ASSUME IInv, NEW r \in Reqs, pc[r] \in {"tx", "tx2"}, TxFails(r) PROVE IInv'
  BY RejectIInv DEF TxFails

LEMMA MoveTxIInv ==
  ASSUME IInv, NEW r \in Reqs, CreditTx(r) \/ DebitTx(r) \/ ReverseTx(r) PROVE IInv'
<1>0. pc[r] = "tx" /\ rowLock[My(r).user] = None
  BY DEF CreditTx, DebitTx, ReverseTx
<1>1. CASE TxFails(r)
  BY <1>0, <1>1, TxFailsIInv
<1>2. CASE ~TxFails(r)
  <2>1. TxOpens(r) /\ Increment(My(r)) /\ Committed(r)
    BY <1>2 DEF CreditTx, DebitTx, ReverseTx
  <2>2. \/ My(r).kind \in {"credit", "debit"} /\ debt' = debt
        \/ /\ My(r).kind = "reverse"
           /\ debt' = [debt EXCEPT ![My(r).user][My(r).cur] = @ + My(r).amt]
    BY <1>2 DEF CreditTx, DebitTx, ReverseTx
  <2> QED
    BY <1>0, <2>1, <2>2, IncrementIInv
<1> QED
  BY <1>1, <1>2

(* A transfer posts the same two rows to the ledger and to net.            *)
LEMMA TransferTxIInv ==
  ASSUME IInv, NEW r \in Reqs, TransferTx(r) PROVE IInv'
<1> DEFINE c == My(r)
<1>0. pc[r] = "tx2"
  BY DEF TransferTx
<1>1. /\ task[r] \in Keys /\ c \in CallType /\ c.amt \in Int /\ -c.amt \in Int
      /\ c.user \in Users /\ c.to \in Users /\ c.cur \in Currencies
  BY <1>0 DEF IInv, TasksOK, TaskOK, My, CallType
<1>2. CASE TxFails(r)
  BY <1>0, <1>2, TxFailsIInv
<1>3. CASE ~TxFails(r)
  <2>1. /\ TxOpens(r) /\ Committed(r) /\ UNCHANGED <<bal, reserved, debt>>
        /\ avail' = [u \in Users |->
                       CASE u = c.user            -> avail[u] - c.amt
                         [] u = c.to /\ u # c.user -> avail[u] + c.amt
                         [] OTHER                 -> avail[u]]
        /\ ledger' = Paired(ledger, c)
        /\ net' = Paired(net, c)
    BY <1>3 DEF TransferTx
  <2>2. avail \in [Users -> Int] /\ ledger \in Table /\ net \in Table /\ bal \in Table
    BY DEF IInv, TypeOK, Table
  <2>3. avail' \in [Users -> Int]
    <3> HIDE DEF c
    <3> QED
      BY <1>1, <2>1, <2>2
  <2>4. ledger' \in Table /\ net' \in Table
    <3> HIDE DEF c
    <3> QED
      BY <1>1, <2>1, <2>2 DEF Table, Paired
  <2>5. LedgerExplainsColumns'
    <3> SUFFICES ASSUME NEW u \in Users, NEW d \in Currencies \ Legacy
                 PROVE  ledger'[u][d] = bal'[u][d] + net'[u][d]
      BY DEF LedgerExplainsColumns
    <3>1. /\ ledger[u][d] = bal[u][d] + net[u][d]
          /\ bal[u][d] \in Int /\ ledger[u][d] \in Int /\ net[u][d] \in Int
      BY DEF IInv, TypeOK, LedgerExplainsColumns
    <3> HIDE DEF c
    <3> DEFINE n == (IF u = c.to /\ d = c.cur THEN c.amt ELSE 0)
               m == (IF u = c.user /\ d = c.cur THEN c.amt ELSE 0)
    <3>2. n \in Int /\ m \in Int
      BY <1>1
    <3>3. ledger'[u][d] = ledger[u][d] + n - m /\ net'[u][d] = net[u][d] + n - m
      BY <2>1 DEF Paired
    <3>4. bal'[u][d] = bal[u][d]
      BY <2>1
    <3> HIDE DEF n, m
    <3> QED
      BY <3>1, <3>2, <3>3, <3>4
  <2>6. DebtOK' /\ OnlyReversalsOverdraw'
    BY <2>1 DEF IInv, DebtOK, OnlyReversalsOverdraw
  <2>7. applied[task[r]] = 0
    BY <2>1 DEF TxOpens
  <2> QED
    BY <1>0, <1>1, <2>1, <2>2, <2>3, <2>4, <2>5, <2>6, <2>7, CommitIInv DEF IInv, TypeOK, Table
<1> QED
  BY <1>2, <1>3

LEMMA PublishIInv ==
  ASSUME IInv, NEW r \in Reqs, Publish(r) PROVE IInv'
<1> USE DEF Publish, Return, Goto, money
<1>0. task[r] \in Keys /\ applied[task[r]] = 1 /\ published[task[r]] = 0
  BY DEF IInv, TasksOK, TaskOK, PublishOnce
<1>1. TypeOK'
  BY <1>0 DEF IInv, TypeOK, Unlock, PCs, Results
<1>2. TasksOK'
  BY DEF IInv, TypeOK, TasksOK, TaskOK, My
<1>3. SnapshotIsRow'
  BY DEF IInv, TypeOK, SnapshotIsRow, My, Row
<1>4. PublishOnce'
  BY DEF IInv, TypeOK, TasksOK, TaskOK, PublishOnce
<1>5. AtMostOncePerKey' /\ NoPhantomEvent' /\ AnsweredMeansCommitted'
  BY <1>0 DEF IInv, TypeOK, AtMostOncePerKey, NoPhantomEvent, AnsweredMeansCommitted
<1>6. DebtOK' /\ LedgerExplainsColumns' /\ OnlyReversalsOverdraw'
  BY DEF IInv, DebtOK, LedgerExplainsColumns, OnlyReversalsOverdraw
<1> QED
  BY <1>1, <1>2, <1>3, <1>4, <1>5, <1>6 DEF IInv

(* Reservations write the row only when nobody has locked it.              *)
LEMMA HoldTxIInv ==
  ASSUME IInv, NEW r \in Reqs, pc[r] \in {"reserve", "release", "consume"},
         NEW da \in Int, NEW dr \in Int, NEW st \in HoldStatuses, HoldTx(r, da, dr, st)
  PROVE  IInv'
<1>0. task[r] \in Holds /\ HoldOf[task[r]].user \in Users /\ rowLock[HoldOf[task[r]].user] = None
  BY DEF IInv, TasksOK, TaskOK, HoldType, HoldTx
<1>a. avail' \in [Users -> Int] /\ reserved' \in [Users -> Int]
  <2> DEFINE u == HoldOf[task[r]].user
  <2>1. avail' = [avail EXCEPT ![u] = @ + da] /\ reserved' = [reserved EXCEPT ![u] = @ + dr]
    BY DEF HoldTx
  <2>2. avail \in [Users -> Int] /\ reserved \in [Users -> Int] /\ u \in Users
    BY <1>0 DEF IInv, TypeOK
  <2> HIDE DEF u
  <2>3. avail' \in [Users -> Int]
    BY <2>1, <2>2, SetEntry
  <2>4. reserved' \in [Users -> Int]
    BY <2>1, <2>2, SetEntry
  <2> QED
    BY <2>3, <2>4
<1> USE DEF HoldTx, Return, Goto
<1>1. TypeOK'
  <2>2. held' \in [Holds -> HoldStatuses] /\ pc' \in [Reqs -> PCs] /\ result' \in [Reqs -> Results]
    BY <1>0 DEF IInv, TypeOK, PCs, Results
  <2> QED
    BY <1>a, <2>2 DEF IInv, TypeOK
<1>2. TasksOK'
  BY DEF IInv, TypeOK, TasksOK, TaskOK, My
<1>3. SnapshotIsRow'
  <2> SUFFICES ASSUME NEW q \in Reqs, pc'[q] = "write"
               PROVE  (rowLock[My(q).user] = q /\ snap[q] = Row(My(q).user))'
    BY DEF SnapshotIsRow
  <2>1. pc[q] = "write" /\ task'[q] = task[q]
    BY DEF IInv, TypeOK
  <2>2. rowLock[My(q).user] = q /\ snap[q] = Row(My(q).user) /\ My(q).user \in Users
    BY <2>1 DEF IInv, SnapshotIsRow, TasksOK, TaskOK, My, CallType
  <2>3. reserved'[My(q).user] = reserved[My(q).user]
    BY <1>0, <2>2 DEF IInv, TypeOK
  <2> QED
    BY <2>1, <2>2, <2>3 DEF My, Row
<1>4. PublishOnce'
  BY DEF IInv, TypeOK, PublishOnce
<1>5. AtMostOncePerKey' /\ NoPhantomEvent' /\ AnsweredMeansCommitted'
  BY <1>0 DEF IInv, TypeOK, AtMostOncePerKey, NoPhantomEvent, AnsweredMeansCommitted
<1>6. DebtOK' /\ LedgerExplainsColumns' /\ OnlyReversalsOverdraw'
  BY DEF IInv, DebtOK, LedgerExplainsColumns, OnlyReversalsOverdraw
<1> QED
  BY <1>1, <1>2, <1>3, <1>4, <1>5, <1>6 DEF IInv

LEMMA HoldStepsIInv ==
  ASSUME IInv, NEW r \in Reqs, ReserveTx(r) \/ ReleaseTx(r) \/ ConsumeTx(r) PROVE IInv'
<1>0. pc[r] \in {"reserve", "release", "consume"} /\ task[r] \in Holds /\ task[r] \notin Keys
  BY DEF IInv, TasksOK, TaskOK, ReserveTx, ReleaseTx, ConsumeTx
<1>1. HoldOf[task[r]].amt \in Int /\ -HoldOf[task[r]].amt \in Int
  BY <1>0 DEF HoldType
<1>2. {"HELD", "RELEASED", "CONSUMED"} \subseteq HoldStatuses
  BY DEF HoldStatuses
<1>3. CASE Reject(r, "rejected")
  BY <1>0, <1>3, RejectIInv
<1>4. CASE HoldTx(r, -HoldOf[task[r]].amt, HoldOf[task[r]].amt, "HELD")
  BY <1>0, <1>1, <1>2, <1>4, HoldTxIInv
<1>5. CASE HoldTx(r, HoldOf[task[r]].amt, -HoldOf[task[r]].amt, "RELEASED")
  BY <1>0, <1>1, <1>2, <1>5, HoldTxIInv
<1>6. CASE HoldTx(r, 0, -HoldOf[task[r]].amt, "CONSUMED")
  BY <1>0, <1>1, <1>2, <1>6, HoldTxIInv
<1> QED
  BY <1>3, <1>4, <1>5, <1>6 DEF ReserveTx, ReleaseTx, ConsumeTx

LEMMA CrashIInv ==
  ASSUME IInv, NEW r \in Reqs, Crash(r) PROVE IInv'
<1> USE DEF Crash, Return, Goto, money
<1>1. TypeOK'
  BY DEF IInv, TypeOK, FreeRows, PCs, Results
<1>2. TasksOK'
  BY DEF IInv, TypeOK, TasksOK, TaskOK, My
<1>3. SnapshotIsRow'
  BY DEF IInv, TypeOK, TasksOK, TaskOK, SnapshotIsRow, FreeRows, My, Row, CallType
<1>4. PublishOnce'
  BY DEF IInv, TypeOK, PublishOnce
<1>5. AtMostOncePerKey' /\ NoPhantomEvent' /\ AnsweredMeansCommitted'
  BY DEF IInv, TypeOK, AtMostOncePerKey, NoPhantomEvent, AnsweredMeansCommitted
<1>6. DebtOK' /\ LedgerExplainsColumns' /\ OnlyReversalsOverdraw'
  BY DEF IInv, DebtOK, LedgerExplainsColumns, OnlyReversalsOverdraw
<1> QED
  BY <1>1, <1>2, <1>3, <1>4, <1>5, <1>6 DEF IInv

LEMMA AroundIInv ==
  ASSUME IInv,
         \/ \E u \in Users : LockExpires(u) \/ \E s \in Statuses : UpdateWalletStatus(u, s)
         \/ \E b \in BOOLEAN : SetFrozen(b)
         \/ UNCHANGED vars
  PROVE  IInv'
<1> USE DEF LockExpires, UpdateWalletStatus, SetFrozen, vars, money
<1>0. UNCHANGED <<bal, avail, reserved, ledger, applied, debt, net, published, held, pc, task, snap, rowLock, result>>
  OBVIOUS
<1>1. TypeOK'
  <2>1. frozen' \in BOOLEAN
    BY DEF IInv, TypeOK
  <2>2. status' \in [Users -> Statuses]
    BY DEF IInv, TypeOK
  <2>3. walletLock' \in [Users -> Reqs \cup {None}]
    BY DEF IInv, TypeOK
  <2> QED
    BY <1>0, <2>1, <2>2, <2>3 DEF IInv, TypeOK
<1>2. TasksOK' /\ PublishOnce'
  BY <1>0 DEF IInv, TasksOK, TaskOK, PublishOnce, My
<1>3. SnapshotIsRow'
  <2> SUFFICES ASSUME NEW q \in Reqs, pc'[q] = "write"
               PROVE  (rowLock[My(q).user] = q /\ snap[q] = Row(My(q).user))'
    BY DEF SnapshotIsRow
  <2>1. rowLock[My(q).user] = q /\ snap[q] = Row(My(q).user) /\ My(q).user \in Users
    BY <1>0 DEF IInv, SnapshotIsRow, TasksOK, TaskOK, My, CallType
  <2>2. status'[My(q).user] = status[My(q).user]
    BY <2>1 DEF IInv, TypeOK
  <2> QED
    BY <1>0, <2>1, <2>2 DEF My, Row
<1>4. AtMostOncePerKey' /\ NoPhantomEvent' /\ AnsweredMeansCommitted'
  BY <1>0 DEF IInv, AtMostOncePerKey, NoPhantomEvent, AnsweredMeansCommitted
<1>5. DebtOK' /\ LedgerExplainsColumns' /\ OnlyReversalsOverdraw'
  BY <1>0 DEF IInv, DebtOK, LedgerExplainsColumns, OnlyReversalsOverdraw
<1> QED
  BY <1>1, <1>2, <1>3, <1>4, <1>5 DEF IInv

LEMMA NextIInv == IInv /\ [Next]_vars => IInv'
<1> SUFFICES ASSUME IInv, [Next]_vars PROVE IInv'
  OBVIOUS
<1>1. ASSUME NEW r \in Reqs, NEW k \in Keys, Admit(r, k) \/ Refuse(r, k) PROVE IInv'
  BY <1>1, AdmitIInv, RefuseIInv
<1>2. ASSUME NEW r \in Reqs, NEW h \in Holds,
             ReserveCheck(r, h) \/ ReleaseRead(r, h) \/ ConsumeRead(r, h)
      PROVE  IInv'
  BY <1>2, HoldReadsIInv
<1>3. ASSUME NEW r \in Reqs, Step(r) PROVE IInv'
  <2>1. CASE TakeLock(r) \/ LockBusy(r) \/ CheckKey(r)
    BY <2>1, LockStepsIInv
  <2>2. CASE OpenRow(r)
    BY <2>2, OpenRowIInv
  <2>3. CASE ApplyMovement(r)
    BY <2>3, ApplyMovementIInv
  <2>4. CASE MovementFails(r)
    BY <2>4, RejectIInv DEF MovementFails
  <2>5. CASE PreCheck(r)
    BY <2>5, PreCheckIInv
  <2>6. CASE CreditTx(r) \/ DebitTx(r) \/ ReverseTx(r)
    BY <2>6, MoveTxIInv
  <2>7. CASE TransferLock(r) \/ TransferTx(r)
    BY <2>7, TransferLockIInv, TransferTxIInv
  <2>8. CASE Publish(r)
    BY <2>8, PublishIInv
  <2>9. CASE ReserveTx(r) \/ ReleaseTx(r) \/ ConsumeTx(r)
    BY <2>9, HoldStepsIInv
  <2> QED
    BY <1>3, <2>1, <2>2, <2>3, <2>4, <2>5, <2>6, <2>7, <2>8, <2>9 DEF Step
<1>4. ASSUME NEW r \in Reqs, Crash(r) PROVE IInv'
  BY <1>4, CrashIInv
<1>5. CASE \/ \E u \in Users : LockExpires(u) \/ \E s \in Statuses : UpdateWalletStatus(u, s)
           \/ \E b \in BOOLEAN : SetFrozen(b)
           \/ UNCHANGED vars
  BY <1>5, AroundIInv
<1> QED
  BY <1>1, <1>2, <1>3, <1>4, <1>5 DEF Next

LEMMA SpecIInv == Spec => []IInv
<1>1. Init => IInv
  BY InitIInv
<1>2. IInv /\ [Next]_vars => IInv'
  BY NextIInv
<1> QED
  BY <1>1, <1>2, PTL DEF Spec

(* Every variable keeps its type in every reachable state.                 *)
THEOREM TypeCorrect == Spec => []TypeOK
<1>1. IInv => TypeOK
  BY DEF IInv
<1> QED
  BY <1>1, SpecIInv, PTL

(* applyMovement's row lock: no other writer gets between its read and its *)
(* absolute write.                                                         *)
THEOREM NoLostUpdate == Spec => []SnapshotIsRow
<1>1. IInv => SnapshotIsRow
  BY DEF IInv
<1> QED
  BY <1>1, SpecIInv, PTL

(* Reconciliation: outside transfers, the two paths never make a column    *)
(* drift from its ledger, whatever they interleave with.                   *)
THEOREM LedgerSound == Spec => []LedgerExplainsColumns
<1>1. IInv => LedgerExplainsColumns
  BY DEF IInv
<1> QED
  BY <1>1, SpecIInv, PTL

(* Debits never overdraw, however they race; only a reversal can.          *)
THEOREM NoOverdraft == Spec => []OnlyReversalsOverdraw
<1>1. IInv => OnlyReversalsOverdraw
  BY DEF IInv
<1> QED
  BY <1>1, SpecIInv, PTL

(* The idempotency contract: one commit per key, every answer stands for   *)
(* it, and it is published at most once and never without it.              *)
THEOREM Idempotent == Spec => []Idempotence
<1>1. IInv => Idempotence
  BY DEF IInv, Idempotence
<1> QED
  BY <1>1, SpecIInv, PTL

-----------------------------------------------------------------------------
(* The wallet implements Accounts.                                         *)

Used == {k \in Keys : applied[k] > 0}

LEMMA CommitUses ==
  ASSUME IInv, NEW r \in Reqs, task[r] \in Keys, applied[task[r]] = 0, Committed(r)
  PROVE  task[r] \notin Used /\ Used' = Used \cup {task[r]}
<1>1. applied' = [applied EXCEPT ![task[r]] = 1] /\ applied \in [Keys -> Nat]
  BY DEF Committed, IInv, TypeOK
<1> QED
  BY <1>1 DEF Used

(* A commit that moves the column by what the call is worth is a Move.     *)
LEMMA CommitMoves ==
  ASSUME IInv, NEW r \in Reqs, task[r] \in Keys, applied[task[r]] = 0, Committed(r),
         My(r).amt > 0,
         Promise!Covered(My(r)),
         bal' = [bal EXCEPT ![My(r).user][My(r).cur] = @ + Promise!Signed(My(r))]
  PROVE  Promise!Next
<1>1. Call[task[r]] = My(r)
  BY DEF My
<1>2. task[r] \notin Used /\ Used' = Used \cup {task[r]}
  BY CommitUses
<1>3. PICK k \in Keys : k = task[r]
  OBVIOUS
<1>4. Promise!Move(k, Call[k])
  BY <1>1, <1>2, <1>3 DEF Promise!Move, Used
<1> QED
  BY <1>4 DEF Promise!Next

LEMMA ApplyMoves ==
  ASSUME IInv, NEW r \in Reqs, ApplyMovement(r) PROVE Promise!Next
<1> DEFINE c == My(r)
<1>0. pc[r] = "write"
  BY DEF ApplyMovement
<1>1. /\ task[r] \in Keys /\ c \in CallType /\ c.amt > 0 /\ c.kind \in PathA
      /\ c.user \in Users /\ c.cur \in Currencies
      /\ Delta(c) \in Int /\ After(r) = bal[c.user][c.cur] + Delta(c)
  BY <1>0, AfterIsIncrement DEF CallType
<1>2. Promise!Signed(c) = Delta(c)
  BY <1>1 DEF Promise!Signed, Promise!Unmoved, Promise!Credits, Delta, PathA
<1>3. bal[c.user][c.cur] \in Int
  BY <1>1, Cell DEF IInv, TypeOK, Table
<1>4. After(r) >= 0 /\ applied[task[r]] = 0 /\ Committed(r)
  <2>1. ~(After(r) < 0) /\ ~(applied[task[r]] > 0) /\ Committed(r)
    BY DEF ApplyMovement, MoveRefused
  <2>2. applied[task[r]] \in Nat
    BY <1>1 DEF IInv, TypeOK
  <2> HIDE DEF c
  <2> QED
    BY <1>1, <1>3, <2>1, <2>2
<1>5. Promise!Covered(c)
  BY <1>1, <1>2, <1>4 DEF Promise!Covered
<1>6. bal' = [bal EXCEPT ![c.user][c.cur] = @ + Promise!Signed(c)]
  <2>1. bal' = [bal EXCEPT ![c.user][c.cur] = After(r)]
    BY DEF ApplyMovement
  <2> QED
    BY <1>1, <1>2, <2>1
<1> QED
  BY <1>1, <1>4, <1>5, <1>6, CommitMoves

LEMMA IncrementMoves ==
  ASSUME IInv, NEW r \in Reqs, pc[r] = "tx", My(r).kind \in {"credit", "debit", "reverse"},
         TxOpens(r), Increment(My(r)), Committed(r)
  PROVE  Promise!Next
<1> DEFINE c == My(r)
<1>1. /\ task[r] \in Keys /\ c \in CallType /\ c.amt > 0 /\ c.amt \in Int
      /\ c.user \in Users /\ c.cur \in Currencies
  BY DEF IInv, TasksOK, TaskOK, My, CallType
<1>2. Promise!Signed(c) = IF c.cur \in Legacy THEN 0 ELSE Delta(c)
  BY DEF Promise!Signed, Promise!Unmoved, Promise!Credits, Delta
<1>3. bal \in Table /\ bal[c.user][c.cur] \in Int
  BY <1>1, Cell DEF IInv, TypeOK, Table
<1>4. applied[task[r]] = 0
  BY DEF TxOpens
<1>5. Promise!Covered(c)
  <2> SUFFICES ASSUME c.kind = "debit", Promise!Signed(c) < 0
               PROVE  bal[c.user][c.cur] + Promise!Signed(c) >= 0
    BY DEF Promise!Covered, Promise!Spends
  <2>1. c.cur \notin Legacy
    BY <1>2
  <2>2. bal[c.user][c.cur] >= c.amt
    BY <2>1 DEF TxOpens, Valid, Sufficient
  <2>3. Promise!Signed(c) = -c.amt
    BY <1>2, <2>1 DEF Delta
  <2> HIDE DEF c
  <2> QED
    BY <1>1, <1>3, <2>2, <2>3
<1>6. bal' = [bal EXCEPT ![c.user][c.cur] = @ + Promise!Signed(c)]
  <2>1. bal' = [bal EXCEPT ![c.user][c.cur] = IF c.cur \in Legacy THEN @ ELSE @ + Delta(c)]
    BY DEF Increment
  <2> HIDE DEF c
  <2>2. CASE c.cur \in Legacy
    <3>1. bal[c.user][c.cur] + Promise!Signed(c) = bal[c.user][c.cur]
      BY <1>2, <1>3, <2>2
    <3> QED
      BY <2>1, <2>2, <3>1
  <2>3. CASE c.cur \notin Legacy
    BY <1>2, <2>1, <2>3
  <2> QED
    BY <2>2, <2>3
<1> QED
  BY <1>1, <1>4, <1>5, <1>6, CommitMoves

LEMMA TransferMoves ==
  ASSUME IInv, NEW r \in Reqs, TransferTx(r), ~TxFails(r) PROVE Promise!Next
<1> DEFINE c == My(r)
<1>1. /\ task[r] \in Keys /\ c.amt > 0 /\ c.kind = "transfer"
      /\ c.user \in Users /\ c.cur \in Currencies
  BY DEF IInv, TasksOK, TaskOK, My, CallType, TransferTx
<1>2. Promise!Signed(c) = 0
  BY <1>1 DEF Promise!Signed, Promise!Unmoved
<1>3. applied[task[r]] = 0 /\ Committed(r) /\ bal' = bal
  BY DEF TransferTx, TxOpens
<1>4. Promise!Covered(c)
  BY <1>1 DEF Promise!Covered, Promise!Spends
<1>5. bal' = [bal EXCEPT ![c.user][c.cur] = @ + Promise!Signed(c)]
  <2>1. bal \in Table /\ bal[c.user][c.cur] \in Int
    BY <1>1, Cell DEF IInv, TypeOK, Table
  <2> HIDE DEF c
  <2>2. bal[c.user][c.cur] + Promise!Signed(c) = bal[c.user][c.cur]
    BY <1>2, <2>1
  <2>3. [bal EXCEPT ![c.user][c.cur] = bal[c.user][c.cur]] = bal
    BY <2>1 DEF Table
  <2> QED
    BY <1>3, <2>2, <2>3
<1> QED
  BY <1>1, <1>3, <1>4, <1>5, CommitMoves

LEMMA Stutters ==
  ASSUME bal' = bal, applied' = applied PROVE UNCHANGED Promise!accounts
  BY DEF Promise!accounts

LEMMA NextMoves == IInv /\ [Next]_vars => [Promise!Next]_(Promise!accounts)
<1> SUFFICES ASSUME IInv, [Next]_vars PROVE Promise!Next \/ UNCHANGED Promise!accounts
  OBVIOUS
<1>1. ASSUME NEW r \in Reqs, NEW k \in Keys, Admit(r, k) \/ Refuse(r, k)
      PROVE  UNCHANGED Promise!accounts
  BY <1>1, Stutters DEF Admit, Refuse, money
<1>2. ASSUME NEW r \in Reqs, NEW h \in Holds,
             ReserveCheck(r, h) \/ ReleaseRead(r, h) \/ ConsumeRead(r, h)
      PROVE  UNCHANGED Promise!accounts
  BY <1>2, Stutters DEF ReserveCheck, ReleaseRead, ConsumeRead, ReadHeld, money
<1>3. ASSUME NEW r \in Reqs, Step(r) PROVE Promise!Next \/ UNCHANGED Promise!accounts
  <2>1. CASE TakeLock(r) \/ LockBusy(r) \/ CheckKey(r) \/ OpenRow(r) \/ MovementFails(r)
    BY <2>1, Stutters DEF TakeLock, LockBusy, CheckKey, OpenRow, MovementFails, Reject, money
  <2>2. CASE ApplyMovement(r)
    BY <2>2, ApplyMoves
  <2>3. CASE PreCheck(r)
    <3>1. UNCHANGED money
      BY <2>3 DEF PreCheck, Reject
    <3> QED
      BY <3>1, Stutters DEF money
  <2>4. CASE TxFails(r)
    BY <2>4, Stutters DEF TxFails, Reject, money
  <2>5. CASE ~TxFails(r) /\ (CreditTx(r) \/ DebitTx(r) \/ ReverseTx(r))
    BY <2>5, IncrementMoves DEF CreditTx, DebitTx, ReverseTx
  <2>6. CASE ~TxFails(r) /\ TransferTx(r)
    BY <2>6, TransferMoves
  <2>7. CASE TransferLock(r) \/ Publish(r)
    BY <2>7, Stutters DEF TransferLock, Publish, money
  <2>8. CASE ReserveTx(r) \/ ReleaseTx(r) \/ ConsumeTx(r)
    BY <2>8, Stutters DEF ReserveTx, ReleaseTx, ConsumeTx, HoldTx, Reject, money
  <2> QED
    BY <1>3, <2>1, <2>2, <2>3, <2>4, <2>5, <2>6, <2>7, <2>8 DEF Step
<1>4. ASSUME NEW r \in Reqs, Crash(r) PROVE UNCHANGED Promise!accounts
  BY <1>4, Stutters DEF Crash, money
<1>5. CASE \/ \E u \in Users : LockExpires(u) \/ \E s \in Statuses : UpdateWalletStatus(u, s)
           \/ \E b \in BOOLEAN : SetFrozen(b)
           \/ UNCHANGED vars
  BY <1>5, Stutters DEF LockExpires, UpdateWalletStatus, SetFrozen, vars, money
<1> QED
  BY <1>1, <1>2, <1>3, <1>4, <1>5 DEF Next

(* Two code paths, a lock that may lapse, retries and crashes: together    *)
(* they implement one atomic movement per key.                             *)
THEOREM ImplementsAccounts == Spec => Refinement
<1>1. Init => Promise!Init
  BY DEF Init, Promise!Init, Zero
<1>2. IInv /\ [Next]_vars => [Promise!Next]_(Promise!accounts)
  BY NextMoves
<1> QED
  BY <1>1, <1>2, SpecIInv, PTL DEF Spec, Refinement, Promise!Spec

-----------------------------------------------------------------------------
(* What the row locks are for, beyond the balances: transfers that cross   *)
(* do not wait for each other, a hold that is granted was covered, and a   *)
(* suspended wallet pays nothing.  The invariant is the one above, and     *)
(* that a row is held only by the request that is between its read and its *)
(* write (RowHeld).                                                        *)

Holding(r, u) ==
    \/ pc[r] = "write" /\ u = My(r).user
    \/ pc[r] = "tx2" /\ u = FirstRow(My(r))
RowHeld == \A u \in Users, r \in Reqs : rowLock[u] = r => Holding(r, u)

USE UsersAssumption, CurrenciesAssumption, CallAssumption, HoldAssumption, NoneAssumption

(* A step of one request, which holds no row afterwards but those it kept. *)
LEMMA Frees ==
  ASSUME IInv, RowHeld, NEW r \in Reqs,
         pc' \in [Reqs -> PCs],
         \A q \in Reqs \ {r} : pc'[q] = pc[q] /\ task'[q] = task[q],
         \/ FreeRows(r)
         \/ rowLock' = rowLock /\ pc[r] \notin {"write", "tx2"}
  PROVE  RowHeld'
<1> SUFFICES ASSUME NEW u \in Users, NEW q \in Reqs, rowLock'[u] = q PROVE Holding(q, u)'
  BY DEF RowHeld
<1>1. rowLock[u] = q /\ q # r
  BY DEF IInv, TypeOK, FreeRows, RowHeld, Holding
<1>2. Holding(q, u) /\ pc'[q] = pc[q] /\ task'[q] = task[q]
  BY <1>1 DEF RowHeld
<1> QED
  BY <1>2 DEF Holding, My, FirstRow, LockOrder

LEMMA Others ==
  ASSUME IInv, NEW r \in Reqs, NEW l \in PCs, Goto(r, l)
  PROVE  /\ pc' \in [Reqs -> PCs] /\ pc'[r] = l
         /\ \A q \in Reqs \ {r} : pc'[q] = pc[q]
BY DEF IInv, TypeOK, Goto

LEMMA RejectFrees ==
  ASSUME IInv, RowHeld, NEW r \in Reqs, NEW res, Reject(r, res)
  PROVE  RowHeld'
<1>1. pc' \in [Reqs -> PCs] /\ \A q \in Reqs \ {r} : pc'[q] = pc[q]
  BY Others DEF Reject, Return, PCs
<1> QED
  BY <1>1, Frees DEF Reject, Return

LEMMA CommittedFrees ==
  ASSUME IInv, RowHeld, NEW r \in Reqs, Committed(r)
  PROVE  RowHeld'
<1>1. pc' \in [Reqs -> PCs] /\ \A q \in Reqs \ {r} : pc'[q] = pc[q]
  BY Others DEF Committed, PCs
<1> QED
  BY <1>1, Frees DEF Committed

(* A request takes one row and moves on to where it holds it.              *)
LEMMA Takes ==
  ASSUME IInv, RowHeld, NEW r \in Reqs, NEW l \in PCs, NEW v \in Users,
         pc[r] \notin {"write", "tx2"}, Goto(r, l), task' = task,
         rowLock[v] = None, rowLock' = [rowLock EXCEPT ![v] = r],
         \/ l = "write" /\ v = My(r).user
         \/ l = "tx2" /\ v = FirstRow(My(r))
  PROVE  RowHeld'
<1> SUFFICES ASSUME NEW u \in Users, NEW q \in Reqs, rowLock'[u] = q PROVE Holding(q, u)'
  BY DEF RowHeld
<1>1. pc'[r] = l /\ \A p \in Reqs \ {r} : pc'[p] = pc[p]
  BY Others
<1>2. CASE u = v
  <2>1. q = r
    BY <1>2 DEF IInv, TypeOK
  <2> QED
    BY <1>1, <1>2, <2>1 DEF Holding, My
<1>3. CASE u # v
  <2>1. rowLock[u] = q
    BY <1>3 DEF IInv, TypeOK
  <2>2. Holding(q, u) /\ q # r
    BY <2>1 DEF RowHeld, Holding
  <2> QED
    BY <1>1, <2>2 DEF Holding, My
<1> QED
  BY <1>2, <1>3

LEMMA NextRowHeld ==
  ASSUME IInv, RowHeld, [Next]_vars
  PROVE  RowHeld'
<1>1. ASSUME NEW r \in Reqs, NEW k \in Keys, Admit(r, k) \/ Refuse(r, k) PROVE RowHeld'
  <2>1. pc' \in [Reqs -> PCs] /\ \A q \in Reqs \ {r} : pc'[q] = pc[q] /\ task'[q] = task[q]
    BY <1>1 DEF Admit, Refuse, Goto, IInv, TypeOK, PCs
  <2> QED
    BY <1>1, <2>1, Frees DEF Admit, Refuse
<1>2. ASSUME NEW r \in Reqs, NEW h \in Holds,
             ReserveCheck(r, h) \/ ReleaseRead(r, h) \/ ConsumeRead(r, h)
      PROVE  RowHeld'
  <2>1. pc' \in [Reqs -> PCs] /\ \A q \in Reqs \ {r} : pc'[q] = pc[q] /\ task'[q] = task[q]
    BY <1>2 DEF ReserveCheck, ReleaseRead, ConsumeRead, ReadHeld, Goto, IInv, TypeOK, PCs
  <2> QED
    BY <1>2, <2>1, Frees DEF ReserveCheck, ReleaseRead, ConsumeRead, ReadHeld
<1>3. ASSUME NEW r \in Reqs, Step(r) PROVE RowHeld'
  <2> DEFINE Moves == pc' \in [Reqs -> PCs] /\ \A q \in Reqs \ {r} : pc'[q] = pc[q] /\ task'[q] = task[q]
  <2>1. CASE LockBusy(r) \/ MovementFails(r)
    BY <2>1, RejectFrees DEF LockBusy, MovementFails
  <2>2. CASE TakeLock(r)
    <3>1. Moves
      BY <2>2 DEF TakeLock, Goto, IInv, TypeOK, PCs
    <3> QED
      BY <2>2, <3>1, Frees DEF TakeLock
  <2>3. CASE CheckKey(r) \/ PreCheck(r)
    <3>1. CASE \E res : Reject(r, res)
      BY <3>1, RejectFrees
    <3>2. CASE ~\E res : Reject(r, res)
      <4>1. /\ pc[r] \in {"checkKey", "check"} /\ rowLock' = rowLock /\ task' = task
            /\ Goto(r, "openTx") \/ Goto(r, "tx")
        BY <2>3, <3>2 DEF CheckKey, PreCheck
      <4>2. Moves
        BY <4>1, Others DEF PCs
      <4> QED
        BY <4>1, <4>2, Frees
    <3> QED
      BY <3>1, <3>2
  <2>4. CASE OpenRow(r)
    <3>1. My(r).user \in Users /\ "write" \in PCs
      BY <2>4 DEF OpenRow, IInv, TasksOK, TaskOK, My, CallType, PCs
    <3> QED
      BY <2>4, <3>1, Takes DEF OpenRow
  <2>5. CASE TransferLock(r)
    <3>1. FirstRow(My(r)) \in Users /\ "tx2" \in PCs
      BY <2>5 DEF TransferLock, IInv, TasksOK, TaskOK, My, CallType, PCs, FirstRow, LockOrder
    <3> QED
      BY <2>5, <3>1, Takes DEF TransferLock
  <2>6. CASE ApplyMovement(r)
    BY <2>6, CommittedFrees DEF ApplyMovement
  <2>7. CASE CreditTx(r) \/ DebitTx(r) \/ ReverseTx(r) \/ TransferTx(r)
    <3>1. Committed(r) \/ \E res : Reject(r, res)
      BY <2>7 DEF CreditTx, DebitTx, ReverseTx, TransferTx, TxFails
    <3> QED
      BY <3>1, CommittedFrees, RejectFrees
  <2>8. CASE Publish(r)
    <3>1. Moves
      BY <2>8 DEF Publish, Return, Goto, IInv, TypeOK, PCs
    <3> QED
      BY <2>8, <3>1, Frees DEF Publish
  <2>9. CASE ReserveTx(r) \/ ReleaseTx(r) \/ ConsumeTx(r)
    <3>1. CASE \E res : Reject(r, res)
      BY <3>1, RejectFrees
    <3>2. CASE ~\E res : Reject(r, res)
      <4>1. pc[r] \in {"reserve", "release", "consume"} /\ Return(r, "applied") /\ rowLock' = rowLock
        BY <2>9, <3>2 DEF ReserveTx, ReleaseTx, ConsumeTx, HoldTx
      <4>2. Moves
        BY <4>1, Others DEF Return, PCs
      <4> QED
        BY <4>1, <4>2, Frees
    <3> QED
      BY <3>1, <3>2
  <2> QED
    BY <1>3, <2>1, <2>2, <2>3, <2>4, <2>5, <2>6, <2>7, <2>8, <2>9 DEF Step
<1>4. ASSUME NEW r \in Reqs, Crash(r) PROVE RowHeld'
  <2>1. pc' \in [Reqs -> PCs] /\ \A q \in Reqs \ {r} : pc'[q] = pc[q]
    BY <1>4, Others DEF Crash, Return, PCs
  <2> QED
    BY <1>4, <2>1, Frees DEF Crash, Return
<1>5. CASE \/ \E u \in Users : LockExpires(u) \/ \E s \in Statuses : UpdateWalletStatus(u, s)
           \/ \E b \in BOOLEAN : SetFrozen(b)
           \/ UNCHANGED vars
  <2>1. UNCHANGED <<pc, task, rowLock>>
    BY <1>5 DEF LockExpires, UpdateWalletStatus, SetFrozen, vars
  <2> QED
    BY <2>1 DEF RowHeld, Holding, My
<1> QED
  BY <1>1, <1>2, <1>3, <1>4, <1>5 DEF Next

LEMMA SpecRowHeld == Spec => []RowHeld
<1>1. Init => RowHeld
  BY DEF Init, RowHeld
<1> QED
  BY <1>1, NextRowHeld, SpecIInv, PTL DEF Spec

-----------------------------------------------------------------------------
(* "Prevent deadlocks by sorting the IDs": two transfers that wait for     *)
(* each other would each hold the smaller row of one and the greater of    *)
(* the other.                                                              *)
THEOREM NeverDeadlocked == Spec => []NoRowDeadlock
<1>1. IInv /\ RowHeld => NoRowDeadlock
  <2> SUFFICES ASSUME IInv, RowHeld,
                      NEW q \in Reqs, NEW r \in Reqs, q # r, pc[q] = "tx2", pc[r] = "tx2",
                      rowLock[SecondRow(My(q))] = r, rowLock[SecondRow(My(r))] = q
               PROVE  FALSE
    BY DEF NoRowDeadlock
  <2>1. My(q) \in CallType /\ My(r) \in CallType
    BY DEF IInv, TasksOK, TaskOK, My
  <2>2. \A c \in CallType : /\ FirstRow(c) \in Nat /\ SecondRow(c) \in Users /\ SecondRow(c) \in Nat
                            /\ FirstRow(c) <= SecondRow(c)
    <3> SUFFICES ASSUME NEW c \in CallType
                 PROVE  /\ FirstRow(c) \in Nat /\ SecondRow(c) \in Users /\ SecondRow(c) \in Nat
                        /\ FirstRow(c) <= SecondRow(c)
      OBVIOUS
    <3>1. c.user \in Users /\ c.to \in Users /\ c.user \in Nat /\ c.to \in Nat
      BY DEF CallType
    <3>2. CASE c.user < c.to
      BY <3>1, <3>2 DEF FirstRow, SecondRow, LockOrder
    <3>3. CASE ~(c.user < c.to)
      BY <3>1, <3>3 DEF FirstRow, SecondRow, LockOrder
    <3> QED
      BY <3>2, <3>3
  <2>3. SecondRow(My(q)) = FirstRow(My(r)) /\ SecondRow(My(r)) = FirstRow(My(q))
    BY <2>1, <2>2 DEF RowHeld, Holding
  <2>4. SecondRow(My(q)) = SecondRow(My(r))
    BY <2>1, <2>2, <2>3
  <2> QED
    BY <2>4
<1> QED
  BY <1>1, SpecIInv, SpecRowHeld, PTL

(* The re-check under FOR UPDATE: what is reserved was available.          *)
THEOREM HoldsAreCovered == Spec => ReserveIsCovered
<1>1. IInv /\ [Next]_vars =>
        [\A h \in Holds : held[h] = "none" /\ held'[h] = "HELD" => avail'[HoldOf[h].user] >= 0]_vars
  <2> SUFFICES ASSUME IInv, [Next]_vars, NEW h \in Holds, held[h] = "none", held'[h] = "HELD"
               PROVE  avail'[HoldOf[h].user] >= 0
    OBVIOUS
  <2>1. PICK r \in Reqs : ReserveTx(r) \/ ReleaseTx(r) \/ ConsumeTx(r)
    <3>1. held' # held
      OBVIOUS
    <3>2. ASSUME NEW r \in Reqs,
                 \/ \E k \in Keys : Admit(r, k) \/ Refuse(r, k)
                 \/ \E i \in Holds : ReserveCheck(r, i) \/ ReleaseRead(r, i) \/ ConsumeRead(r, i)
                 \/ TakeLock(r) \/ LockBusy(r) \/ CheckKey(r) \/ OpenRow(r) \/ MovementFails(r)
                 \/ PreCheck(r) \/ Publish(r) \/ TransferLock(r) \/ Crash(r)
          PROVE  held' = held
      BY <3>2 DEF Admit, Refuse, ReserveCheck, ReleaseRead, ConsumeRead, ReadHeld, TakeLock,
         LockBusy, CheckKey, OpenRow, MovementFails, PreCheck, Publish, TransferLock, Reject, Crash
    <3>3. ASSUME NEW r \in Reqs,
                 ApplyMovement(r) \/ CreditTx(r) \/ DebitTx(r) \/ ReverseTx(r) \/ TransferTx(r)
          PROVE  held' = held
      BY <3>3 DEF ApplyMovement, CreditTx, DebitTx, ReverseTx, TransferTx, TxFails, Committed, Reject
    <3>4. ASSUME \/ \E u2 \in Users : LockExpires(u2)
                                       \/ \E s \in Statuses : UpdateWalletStatus(u2, s)
                 \/ \E b \in BOOLEAN : SetFrozen(b)
                 \/ UNCHANGED vars
          PROVE  held' = held
      BY <3>4 DEF LockExpires, UpdateWalletStatus, SetFrozen, vars
    <3> QED
      BY <3>1, <3>2, <3>3, <3>4 DEF Next, Step
  <2>2. task[r] \in Holds
    BY <2>1 DEF ReserveTx, ReleaseTx, ConsumeTx, IInv, TasksOK, TaskOK
  <2>3. /\ CanHold(task[r]) /\ task[r] = h
        /\ avail' = [avail EXCEPT ![HoldOf[h].user] = @ - HoldOf[h].amt]
    BY <2>1, <2>2 DEF ReserveTx, ReleaseTx, ConsumeTx, HoldTx, Reject, IInv, TypeOK
  <2>4. HoldOf[h].user \in Users /\ HoldOf[h].amt \in Nat /\ avail[HoldOf[h].user] \in Int
    BY DEF IInv, TypeOK, HoldType
  <2>5. avail[HoldOf[h].user] >= HoldOf[h].amt
    BY <2>3 DEF CanHold
  <2>6. avail'[HoldOf[h].user] = avail[HoldOf[h].user] - HoldOf[h].amt
    BY <2>3, <2>4 DEF IInv, TypeOK
  <2> QED
    BY <2>4, <2>5, <2>6
<1> QED
  BY <1>1, SpecIInv, PTL DEF Spec, ReserveIsCovered

(* A suspended wallet's columns move only for a claw-back: both paths look *)
(* at the status they hold under the row lock.                             *)
THEOREM SuspendedStandsStill == Spec => SuspendedOnlyReversed
<1>1. IInv /\ [Next]_vars =>
        [\A u \in Users : bal'[u] # bal[u] /\ status[u] # "ACTIVE"
           => \E k \in Keys : applied'[k] > applied[k] /\ Call[k].kind = "reverse"]_vars
  <2> SUFFICES ASSUME IInv, [Next]_vars, NEW u \in Users, bal'[u] # bal[u], status[u] # "ACTIVE"
               PROVE  \E k \in Keys : applied'[k] > applied[k] /\ Call[k].kind = "reverse"
    OBVIOUS
  <2>1. PICK r \in Reqs : ApplyMovement(r) \/ CreditTx(r) \/ DebitTx(r) \/ ReverseTx(r)
    <3>1. bal' # bal
      OBVIOUS
    <3>2. ASSUME NEW r \in Reqs,
                 \/ \E k \in Keys : Admit(r, k) \/ Refuse(r, k)
                 \/ \E h \in Holds : ReserveCheck(r, h) \/ ReleaseRead(r, h) \/ ConsumeRead(r, h)
                 \/ ReserveTx(r) \/ ReleaseTx(r) \/ ConsumeTx(r) \/ Crash(r)
          PROVE  bal' = bal
      BY <3>2 DEF Admit, Refuse, ReserveCheck, ReleaseRead, ConsumeRead, ReadHeld, ReserveTx,
         ReleaseTx, ConsumeTx, HoldTx, Reject, Crash, money
    <3>3. ASSUME NEW r \in Reqs,
                 \/ TakeLock(r) \/ LockBusy(r) \/ CheckKey(r) \/ OpenRow(r) \/ MovementFails(r)
                 \/ PreCheck(r) \/ Publish(r)
          PROVE  bal' = bal
      BY <3>3 DEF TakeLock, LockBusy, CheckKey, OpenRow, MovementFails, PreCheck, Publish, Reject,
         money
    <3>4. ASSUME NEW r \in Reqs, TransferLock(r) \/ TransferTx(r)
          PROVE  bal' = bal
      BY <3>4 DEF TransferLock, TransferTx, TxFails, Reject, money
    <3>5. ASSUME \/ \E u2 \in Users : LockExpires(u2)
                                       \/ \E s \in Statuses : UpdateWalletStatus(u2, s)
                 \/ \E b \in BOOLEAN : SetFrozen(b)
                 \/ UNCHANGED vars
          PROVE  bal' = bal
      BY <3>5 DEF LockExpires, UpdateWalletStatus, SetFrozen, money, vars
    <3> QED
      BY <3>1, <3>2, <3>3, <3>4, <3>5 DEF Next, Step
  <2>2. task[r] \in Keys /\ My(r) \in CallType
    BY <2>1 DEF ApplyMovement, CreditTx, DebitTx, ReverseTx, IInv, TasksOK, TaskOK, My
  <2>3. u = My(r).user
    BY <2>1, <2>2 DEF ApplyMovement, CreditTx, DebitTx, ReverseTx, TxFails, Reject, Increment, money,
       IInv, TypeOK, CallType
  <2>4. ~ApplyMovement(r)
    <3> SUFFICES ASSUME ApplyMovement(r) PROVE FALSE
      OBVIOUS
    <3>1. snap[r] = Row(u)
      BY <2>3 DEF ApplyMovement, IInv, SnapshotIsRow
    <3>2. snap[r].status = status[u]
      BY <3>1 DEF Row
    <3> QED
      BY <3>2 DEF ApplyMovement, MoveRefused
  <2>5. ~(CreditTx(r) \/ DebitTx(r))
    BY <2>3 DEF CreditTx, DebitTx, TxFails, TxOpens, Reject, Valid, money
  <2>6. ReverseTx(r) /\ Committed(r)
    BY <2>1, <2>4, <2>5 DEF ReverseTx, TxFails, Reject, money
  <2>7. applied'[task[r]] = applied[task[r]] + 1 /\ applied[task[r]] \in Nat /\ My(r).kind = "reverse"
    BY <2>2, <2>6 DEF ReverseTx, Committed, IInv, TypeOK
  <2> QED
    BY <2>2, <2>7 DEF My
<1> QED
  BY <1>1, SpecIInv, PTL DEF Spec, SuspendedOnlyReversed

-----------------------------------------------------------------------------
(* Purchases.                                                              *)
Fulfilling == {"replay", "record", "credit", "mark", "complete"}
Recorded == {"credit", "mark", "complete", "consume", "stamp"}
Creditors == {"mark", "complete", "consume", "stamp"}
Refunding == {"reverse", "refunded"}

HasReceipt(t) == receipt[t].order # Nil
PaidOrder(o) == \E t \in Tokens : receipt[t].order = o /\ Credited(t)

(* What a process holds at each of its positions.                          *)
JobOk(p) ==
    /\ step[p] # "idle" => job[p].order \in Orders /\ job[p].token \in Tokens
    /\ step[p] \in Fulfilling => Buyer[job[p].token] = Owner[job[p].order]
    /\ step[p] = "record" /\ job[p].found # Nil => receipt[job[p].token].order = job[p].order
    /\ step[p] \in Recorded => receipt[job[p].token].order = job[p].order
    /\ step[p] \in Creditors => Credited(job[p].token)
    /\ step[p] \in Refunding => /\ receipt[job[p].token].order = job[p].order
                                /\ PaidOrder(job[p].order)
JobInv == \A p \in Procs : JobOk(p)

ReceiptInv ==
    \A t \in Tokens :
        /\ HasReceipt(t) => Buyer[t] = Owner[receipt[t].order]
        /\ Credited(t) => HasReceipt(t)

PurchaseInv == PurchaseTypeOK /\ JobInv /\ ReceiptInv /\ CompletedIsPaid /\ VerifiedIsCredited
        /\ ConsumedIsCredited /\ ReversedWasCredited

(* Receipts keep their order and the wallet its keys.                      *)
Monotone ==
    /\ used \subseteq used'
    /\ \A t \in Tokens : HasReceipt(t) => receipt'[t].order = receipt[t].order

-----------------------------------------------------------------------------
(* The two families of keys are disjoint and name their purchase.          *)
LEMMA KeysDiffer ==
    \A s, t \in Tokens : /\ RechargeKey(s) # ReversalKey(t)
                         /\ RechargeKey(s) = RechargeKey(t) => s = t
                         /\ ReversalKey(s) = ReversalKey(t) => s = t
BY DEF RechargeKey, ReversalKey

(* A posted call uses its key and no other.                                *)
LEMMA PostUses ==
    ASSUME NEW k, NEW c, W!Post(k, c)
    PROVE  used' = used \cup {k}
BY DEF W!Post, W!Move, W!accounts

(* Posting an order's coins keeps the wallet well typed.                   *)
LEMMA PostType ==
    ASSUME NEW k \in WalletKeys, NEW o \in Orders, NEW kind \in {"credit", "reverse"},
           gold \in [Customers -> [{COINS} -> Int]], used \subseteq WalletKeys,
           W!Post(k, GoldOf(kind, o))
    PROVE  gold' \in [Customers -> [{COINS} -> Int]] /\ used' \subseteq WalletKeys
<1>1. used' \subseteq WalletKeys
  BY PostUses
<1>2. Owner[o] \in Customers /\ Coins[o] \in Int
  BY OrderAssumption
<1>3. W!Signed(GoldOf(kind, o)) \in Int
  BY <1>2 DEF W!Signed, W!Unmoved, W!Credits, GoldOf
<1>4. CASE k \in used
  BY <1>1, <1>4 DEF W!Post, W!accounts
<1>5. CASE k \notin used
  <2>1. gold' = [gold EXCEPT ![Owner[o]][COINS] = @ + W!Signed(GoldOf(kind, o))]
    BY <1>5 DEF W!Post, W!Move, GoldOf
  <2> DEFINE d == W!Signed(GoldOf(kind, o))
             mine == gold[Owner[o]]
             sum == [mine EXCEPT ![COINS] = @ + d]
  <2>a. d \in Int
    BY <1>3
  <2> HIDE DEF d
  <2>b. mine \in [{COINS} -> Int]
    BY <1>2
  <2>c. mine[COINS] \in Int
    BY <2>b
  <2>2. mine[COINS] + d \in Int
    BY <2>a, <2>c
  <2>3. sum \in [{COINS} -> Int]
    BY <2>2, <2>b
  <2>4. gold' = [gold EXCEPT ![Owner[o]] = sum]
    BY <2>1 DEF d
  <2> HIDE DEF sum
  <2> QED BY <1>1, <1>2, <2>3, <2>4
<1> QED BY <1>4, <1>5

(* A process's new job is well typed when it names an order and a purchase *)
(* or nothing.                                                             *)
LEMMA JobTyped ==
    ASSUME NEW o \in Orders \cup {Nil}, NEW t \in Tokens \cup {Nil},
           NEW p \in Procs, job \in [Procs -> JobType], job' = [job EXCEPT ![p] = Job(o, t)]
    PROVE  job' \in [Procs -> JobType]
<1>1. Job(o, t) \in JobType
  BY DEF Job, JobType
<1> QED BY <1>1

LEMMA FinishTyped ==
    ASSUME PurchaseTypeOK, NEW p \in Procs, Finish(p)
    PROVE  job' \in [Procs -> JobType] /\ step' \in [Procs -> PcType]
<1>1. job' \in [Procs -> JobType]
  BY JobTyped DEF Finish, NoJob, PurchaseTypeOK
<1>2. step' \in [Procs -> PcType]
  BY DEF Finish, Move, PurchaseTypeOK, PcType
<1> QED BY <1>1, <1>2

LEMMA InitPurchaseInv == PurchaseInit => PurchaseInv
<1> SUFFICES ASSUME PurchaseInit PROVE PurchaseInv
  OBVIOUS
<1>1. PurchaseTypeOK
  BY FaultAssumption DEF PurchaseInit, PurchaseTypeOK, PcType, JobType, Job, NoReceipt, NoJob
<1>2. JobInv
  BY DEF PurchaseInit, JobInv, JobOk, Fulfilling, Recorded, Creditors, Refunding
<1>3. ReceiptInv /\ VerifiedIsCredited /\ ConsumedIsCredited /\ ReversedWasCredited
  BY DEF PurchaseInit, ReceiptInv, VerifiedIsCredited, ConsumedIsCredited, ReversedWasCredited,
     HasReceipt, Credited, Reversed, NoReceipt
<1>4. CompletedIsPaid
  BY DEF PurchaseInit, CompletedIsPaid
<1> QED BY <1>1, <1>2, <1>3, <1>4 DEF PurchaseInv

-----------------------------------------------------------------------------
(* What was paid for stays paid for.                                       *)
LEMMA PaidKeep ==
    ASSUME PurchaseTypeOK, Monotone, NEW o \in Orders, PaidOrder(o)
    PROVE  PaidOrder(o)'
<1>1. PICK t \in Tokens : receipt[t].order = o /\ Credited(t)
  BY DEF PaidOrder
<1>2. receipt'[t].order = o /\ Credited(t)'
  BY <1>1, OrderAssumption DEF Monotone, HasReceipt, Credited, RechargeKey
<1> QED BY <1>2 DEF PaidOrder

(* A process that does not move keeps what it holds.                       *)
LEMMA OthersKeep ==
    ASSUME PurchaseTypeOK, Monotone, NEW q \in Procs, JobOk(q), step'[q] = step[q], job'[q] = job[q]
    PROVE  JobOk(q)'
<1>1. step[q] \in Refunding => job[q].order \in Orders
  BY DEF JobOk, Refunding
<1>2. step[q] \in Refunding => PaidOrder(job[q].order)'
  BY <1>1, PaidKeep DEF JobOk
<1>3. step[q] \in Recorded \cup Refunding \/ (step[q] = "record" /\ job[q].found # Nil)
        => /\ HasReceipt(job[q].token)
           /\ job[q].token \in Tokens
  BY OrderAssumption DEF JobOk, HasReceipt, Recorded, Refunding
<1>4. receipt'[job[q].token].order = receipt[job[q].token].order
        \/ ~(step[q] \in Recorded \cup Refunding \/ (step[q] = "record" /\ job[q].found # Nil))
  BY <1>3 DEF Monotone
<1>5. Credited(job[q].token) => (RechargeKey(job'[q].token) \in used')
  BY DEF Monotone, Credited
<1>6. /\ step'[q] # "idle" => job'[q].order \in Orders /\ job'[q].token \in Tokens
      /\ step'[q] \in Fulfilling => Buyer[job'[q].token] = Owner[job'[q].order]
      /\ step'[q] = "record" /\ job'[q].found # Nil => receipt'[job'[q].token].order = job'[q].order
      /\ step'[q] \in Recorded => receipt'[job'[q].token].order = job'[q].order
      /\ step'[q] \in Creditors => RechargeKey(job'[q].token) \in used'
      /\ step'[q] \in Refunding => receipt'[job'[q].token].order = job'[q].order
  BY <1>4, <1>5 DEF JobOk
<1> QED BY <1>2, <1>6 DEF JobOk, Credited, RechargeKey

(* The wallet and the receipts untouched, an order completed or a purchase *)
(* consumed only if it was paid for: then all that was paid for remains.   *)
LEMMA QuietStep ==
    ASSUME PurchaseInv, PurchaseTypeOK', UNCHANGED <<used, receipt>>,
           \A o \in Orders : order'[o].status \in {"COMPLETED", "REFUNDED"}
                => order[o].status \in {"COMPLETED", "REFUNDED"} \/ PaidOrder(o),
           \A t \in Tokens : play'[t].consumed => play[t].consumed \/ Credited(t)
    PROVE  /\ Monotone
           /\ ReceiptInv' /\ CompletedIsPaid' /\ VerifiedIsCredited'
           /\ ConsumedIsCredited' /\ ReversedWasCredited'
<1>1. Monotone
  BY DEF Monotone
<1>2. ReceiptInv' /\ VerifiedIsCredited' /\ ReversedWasCredited'
  BY DEF PurchaseInv, ReceiptInv, VerifiedIsCredited, ReversedWasCredited, HasReceipt, Credited,
     Reversed, RechargeKey, ReversalKey
<1>3. CompletedIsPaid'
  BY DEF PurchaseInv, CompletedIsPaid, PaidOrder, Credited, RechargeKey
<1>4. ConsumedIsCredited'
  BY DEF PurchaseInv, ConsumedIsCredited, Credited, RechargeKey
<1> QED BY <1>1, <1>2, <1>3, <1>4

(* Only the process p moved, and it holds what its new position asks for.  *)
LEMMA JobStep ==
    ASSUME PurchaseInv, Monotone, NEW p \in Procs, JobOk(p)',
           \A q \in Procs \ {p} : step'[q] = step[q] /\ job'[q] = job[q]
    PROVE  JobInv'
<1>1. ASSUME NEW q \in Procs \ {p} PROVE JobOk(q)'
  BY <1>1, OthersKeep DEF PurchaseInv, JobInv
<1> QED BY <1>1 DEF JobInv

LEMMA IdleJob == ASSUME NEW p \in Procs, step'[p] = "idle" PROVE JobOk(p)'
BY DEF JobOk, Fulfilling, Recorded, Creditors, Refunding

LEMMA MovesAlone ==
    ASSUME PurchaseTypeOK, NEW p \in Procs, NEW l, NEW j,
           step' = [step EXCEPT ![p] = l], job' = [job EXCEPT ![p] = j] \/ job' = job
    PROVE  /\ step'[p] = l
           /\ \A q \in Procs \ {p} : step'[q] = step[q] /\ job'[q] = job[q]
BY DEF PurchaseTypeOK

-----------------------------------------------------------------------------
(* The steps that write neither the wallet nor a receipt.                  *)

LEMMA FinishKeeps ==
    ASSUME PurchaseInv, NEW p \in Procs, Finish(p), Monotone
    PROVE  JobInv'
<1>1. step'[p] = "idle" /\ \A q \in Procs \ {p} : step'[q] = step[q] /\ job'[q] = job[q]
  BY DEF Finish, Move, PurchaseInv, PurchaseTypeOK
<1>2. JobOk(p)'
  BY <1>1, IdleJob
<1> QED BY <1>1, <1>2, JobStep

LEMMA StillKeeps == ASSUME PurchaseInv, Monotone, UNCHANGED <<step, job>> PROVE JobInv'
BY OthersKeep DEF PurchaseInv, JobInv

LEMMA FulfilStartKeeps ==
    ASSUME PurchaseInv, NEW r \in Requests, NEW o \in Orders, NEW t \in Tokens, FulfilStart(r, o, t)
    PROVE  PurchaseInv'
<1>1. r \in Procs
  BY DEF Procs
<1>2. PurchaseTypeOK'
  <2>1. job' \in [Procs -> JobType]
    BY <1>1, JobTyped DEF FulfilStart, PurchaseInv, PurchaseTypeOK
  <2> QED BY <1>1, <2>1 DEF FulfilStart, Move, PurchaseInv, PurchaseTypeOK, PcType
<1>3. /\ Monotone /\ ReceiptInv' /\ CompletedIsPaid' /\ VerifiedIsCredited'
      /\ ConsumedIsCredited' /\ ReversedWasCredited'
  BY <1>2, QuietStep DEF FulfilStart
<1>4. JobOk(r)' /\ \A q \in Procs \ {r} : step'[q] = step[q] /\ job'[q] = job[q]
  <2>1. /\ step'[r] = "verify" /\ job'[r] = Job(o, t)
        /\ \A q \in Procs \ {r} : step'[q] = step[q] /\ job'[q] = job[q]
    BY <1>1 DEF FulfilStart, Move, PurchaseInv, PurchaseTypeOK
  <2> QED BY <2>1 DEF Job, JobOk, Fulfilling, Recorded, Creditors, Refunding
<1>5. JobInv'
  BY <1>1, <1>3, <1>4, JobStep
<1> QED BY <1>2, <1>3, <1>5 DEF PurchaseInv

LEMMA VerifyReceiptKeeps ==
    ASSUME PurchaseInv, NEW r \in Requests, VerifyReceipt(r)
    PROVE  PurchaseInv'
<1>1. r \in Procs /\ JobOk(r)
  BY DEF Procs, PurchaseInv, JobInv
<1>2. PurchaseTypeOK'
  <2>1. faults' \in 0 .. MaxFaults
    BY FaultAssumption DEF VerifyReceipt, Fault, PurchaseInv, PurchaseTypeOK
  <2>2. \E l \in {"replay", "fail"} : step' = [step EXCEPT ![r] = l]
    BY DEF VerifyReceipt, Move
  <2> QED BY <1>1, <2>1, <2>2 DEF VerifyReceipt, PurchaseInv, PurchaseTypeOK, PcType
<1>3. /\ Monotone /\ ReceiptInv' /\ CompletedIsPaid' /\ VerifiedIsCredited'
      /\ ConsumedIsCredited' /\ ReversedWasCredited'
  BY <1>2, QuietStep DEF VerifyReceipt
<1>4. JobOk(r)' /\ \A q \in Procs \ {r} : step'[q] = step[q] /\ job'[q] = job[q]
  BY <1>1 DEF VerifyReceipt, Genuine, Move, PurchaseInv, PurchaseTypeOK, JobOk, Fulfilling, Recorded,
     Creditors, Refunding
<1>5. JobInv'
  BY <1>1, <1>3, <1>4, JobStep
<1> QED BY <1>2, <1>3, <1>5 DEF PurchaseInv

LEMMA FailOrderKeeps ==
    ASSUME PurchaseInv, NEW r \in Requests, FailOrder(r)
    PROVE  PurchaseInv'
<1>1. r \in Procs /\ JobOk(r)
  BY DEF Procs, PurchaseInv, JobInv
<1>2. job[r].order \in Orders
  BY <1>1 DEF FailOrder, JobOk
<1>3. PurchaseTypeOK'
  BY ZenonT(30), <1>1, <1>2, FinishTyped DEF FailOrder, SetStatus, PurchaseInv, PurchaseTypeOK
<1>4. \A o \in Orders : order'[o].status \in {"COMPLETED", "REFUNDED"}
                           => order[o].status \in {"COMPLETED", "REFUNDED"}
  BY <1>2 DEF FailOrder, SetStatus, PurchaseInv, PurchaseTypeOK
<1>5. /\ Monotone /\ ReceiptInv' /\ CompletedIsPaid' /\ VerifiedIsCredited'
      /\ ConsumedIsCredited' /\ ReversedWasCredited'
  BY <1>3, <1>4, QuietStep DEF FailOrder
<1>6. JobInv'
  BY <1>1, <1>5, FinishKeeps DEF FailOrder
<1> QED BY <1>3, <1>5, <1>6 DEF PurchaseInv

LEMMA CheckReplayKeeps ==
    ASSUME PurchaseInv, NEW r \in Requests, CheckReplay(r)
    PROVE  PurchaseInv'
<1>1. r \in Procs /\ JobOk(r)
  BY DEF Procs, PurchaseInv, JobInv
<1>2. PurchaseTypeOK'
  <2>1. \E l \in {"record", "idle"} : step' = [step EXCEPT ![r] = l]
    BY DEF CheckReplay, Finish, Move
  <2>3. job' \in [Procs -> JobType]
    <3>1. CASE Finish(r)
      BY <1>1, <3>1, FinishTyped DEF PurchaseInv
    <3>2. CASE ~Finish(r)
      <4>1. job' = [job EXCEPT ![r].found = receipt[job[r].token].order]
        BY <3>2 DEF CheckReplay
      <4>2. job[r].token \in Tokens
        BY <1>1 DEF CheckReplay, JobOk
      <4>3. receipt[job[r].token].order \in Orders \cup {Nil}
        BY <4>2 DEF PurchaseInv, PurchaseTypeOK, NoReceipt
      <4>4. [job[r] EXCEPT !.found = receipt[job[r].token].order] \in JobType
        <5>1. job[r] \in JobType
          BY <1>1 DEF PurchaseInv, PurchaseTypeOK
        <5> QED
          BY <4>3, <5>1 DEF JobType
      <4> QED BY <1>1, <4>1, <4>4 DEF PurchaseInv, PurchaseTypeOK
    <3> QED BY <3>1, <3>2
  <2> QED BY <1>1, <2>1, <2>3 DEF CheckReplay, PurchaseInv, PurchaseTypeOK, PcType
<1>3. /\ Monotone /\ ReceiptInv' /\ CompletedIsPaid' /\ VerifiedIsCredited'
      /\ ConsumedIsCredited' /\ ReversedWasCredited'
  BY <1>2, QuietStep DEF CheckReplay
<1>4. CASE Finish(r)
  BY <1>1, <1>2, <1>3, <1>4, FinishKeeps DEF PurchaseInv
<1>5. CASE ~Finish(r)
  <2>1. /\ step' = [step EXCEPT ![r] = "record"] /\ Replayable(job[r].order, job[r].token)
        /\ job' = [job EXCEPT ![r].found = receipt[job[r].token].order]
        /\ receipt' = receipt
    BY <1>5 DEF CheckReplay, Move
  <2>2. job[r].token \in Tokens /\ job[r].order \in Orders
    BY <1>1, <1>5 DEF CheckReplay, JobOk
  <2>3. receipt[job[r].token].order # Nil => receipt[job[r].token].order = job[r].order
    BY <2>1 DEF Replayable
  <2>a. /\ step'[r] = "record" /\ job'[r].order = job[r].order /\ job'[r].token = job[r].token
        /\ job'[r].found = receipt[job[r].token].order
    BY <1>1, <2>1 DEF PurchaseInv, PurchaseTypeOK, JobType
  <2>b. Buyer[job[r].token] = Owner[job[r].order]
    BY <1>1 DEF CheckReplay, JobOk, Fulfilling
  <2>4. JobOk(r)'
    BY <2>1, <2>2, <2>3, <2>a, <2>b DEF JobOk, Fulfilling, Recorded, Creditors, Refunding
  <2>5. \A q \in Procs \ {r} : step'[q] = step[q] /\ job'[q] = job[q]
    BY <2>1 DEF PurchaseInv, PurchaseTypeOK
  <2>6. JobInv'
    BY <1>1, <1>3, <2>4, <2>5, JobStep
  <2> QED BY <1>2, <1>3, <2>6 DEF PurchaseInv
<1> QED BY <1>4, <1>5
LEMMA CreateOrderKeeps ==
    ASSUME PurchaseInv, NEW o \in Orders, CreateOrder(o)
    PROVE  PurchaseInv'
<1>t. PurchaseTypeOK'
  BY DEF CreateOrder, SetStatus, PurchaseInv, PurchaseTypeOK
<1>q. /\ Monotone /\ ReceiptInv' /\ CompletedIsPaid' /\ VerifiedIsCredited'
      /\ ConsumedIsCredited' /\ ReversedWasCredited'
  <2>1. \A x \in Orders : order'[x].status \in {"COMPLETED", "REFUNDED"}
                            => order[x].status \in {"COMPLETED", "REFUNDED"}
    BY DEF CreateOrder, SetStatus, PurchaseInv, PurchaseTypeOK
  <2> QED BY <1>t, <2>1, QuietStep DEF CreateOrder
<1>j. JobInv'
  BY <1>q, StillKeeps DEF CreateOrder
<1> QED BY <1>t, <1>q, <1>j DEF PurchaseInv

LEMMA ExpireOrderKeeps ==
    ASSUME PurchaseInv, NEW o \in Orders, ExpireOrder(o)
    PROVE  PurchaseInv'
<1>t. PurchaseTypeOK'
  BY DEF ExpireOrder, SetStatus, PurchaseInv, PurchaseTypeOK
<1>q. /\ Monotone /\ ReceiptInv' /\ CompletedIsPaid' /\ VerifiedIsCredited'
      /\ ConsumedIsCredited' /\ ReversedWasCredited'
  <2>1. \A x \in Orders : order'[x].status \in {"COMPLETED", "REFUNDED"}
                            => order[x].status \in {"COMPLETED", "REFUNDED"}
    BY DEF ExpireOrder, SetStatus, PurchaseInv, PurchaseTypeOK
  <2> QED BY <1>t, <2>1, QuietStep DEF ExpireOrder
<1>j. JobInv'
  BY <1>q, StillKeeps DEF ExpireOrder
<1> QED BY <1>t, <1>q, <1>j DEF PurchaseInv

LEMMA PayKeeps ==
    ASSUME PurchaseInv, NEW t \in Tokens, Pay(t)
    PROVE  PurchaseInv'
<1>t. PurchaseTypeOK'
  BY DEF Pay, PurchaseInv, PurchaseTypeOK
<1>q. /\ Monotone /\ ReceiptInv' /\ CompletedIsPaid' /\ VerifiedIsCredited'
      /\ ConsumedIsCredited' /\ ReversedWasCredited'
  <2>1. \A x \in Tokens : play'[x].consumed => play[x].consumed
    BY DEF Pay, PurchaseInv, PurchaseTypeOK
  <2> QED BY <1>t, <2>1, QuietStep DEF Pay
<1>j. JobInv'
  BY <1>q, StillKeeps DEF Pay
<1> QED BY <1>t, <1>q, <1>j DEF PurchaseInv

LEMMA VoidKeeps ==
    ASSUME PurchaseInv, NEW t \in Tokens, Void(t)
    PROVE  PurchaseInv'
<1>t. PurchaseTypeOK'
  BY DEF Void, PurchaseInv, PurchaseTypeOK
<1>q. /\ Monotone /\ ReceiptInv' /\ CompletedIsPaid' /\ VerifiedIsCredited'
      /\ ConsumedIsCredited' /\ ReversedWasCredited'
  <2>1. \A x \in Tokens : play'[x].consumed => play[x].consumed
    BY DEF Void, PurchaseInv, PurchaseTypeOK
  <2> QED BY <1>t, <2>1, QuietStep DEF Void
<1>j. JobInv'
  BY <1>q, StillKeeps DEF Void
<1> QED BY <1>t, <1>q, <1>j DEF PurchaseInv

LEMMA StopKeeps ==
    ASSUME PurchaseInv, NEW p \in Procs, Stop(p)
    PROVE  PurchaseInv'
<1>t. PurchaseTypeOK'
  <2>1. faults' \in 0 .. MaxFaults
    BY FaultAssumption DEF Stop, Fault, PurchaseInv, PurchaseTypeOK
  <2> QED BY <2>1, FinishTyped DEF Stop, PurchaseInv, PurchaseTypeOK
<1>q. /\ Monotone /\ ReceiptInv' /\ CompletedIsPaid' /\ VerifiedIsCredited'
      /\ ConsumedIsCredited' /\ ReversedWasCredited'
  BY <1>t, QuietStep DEF Stop
<1>j. JobInv'
  BY <1>q, FinishKeeps DEF Stop
<1> QED BY <1>t, <1>q, <1>j DEF PurchaseInv

LEMMA CompleteOrderKeeps ==
    ASSUME PurchaseInv, NEW r \in Requests, CompleteOrder(r)
    PROVE  PurchaseInv'
<1>1. r \in Procs /\ JobOk(r)
  BY DEF Procs, PurchaseInv, JobInv
<1>2. /\ job[r].order \in Orders /\ job[r].token \in Tokens
      /\ receipt[job[r].token].order = job[r].order /\ Credited(job[r].token)
  BY <1>1 DEF CompleteOrder, JobOk, Recorded, Creditors
<1>t. PurchaseTypeOK'
  BY ZenonT(30), <1>1, <1>2 DEF CompleteOrder, SetStatus, Move, PurchaseInv, PurchaseTypeOK, PcType
<1>q. /\ Monotone /\ ReceiptInv' /\ CompletedIsPaid' /\ VerifiedIsCredited'
      /\ ConsumedIsCredited' /\ ReversedWasCredited'
  <2>1. \A o \in Orders : order'[o].status \in {"COMPLETED", "REFUNDED"}
          => order[o].status \in {"COMPLETED", "REFUNDED"} \/ PaidOrder(o)
    BY <1>2 DEF CompleteOrder, SetStatus, PaidOrder, PurchaseInv, PurchaseTypeOK
  <2> QED BY <1>t, <2>1, QuietStep DEF CompleteOrder
<1>j. JobInv'
  <2>1. /\ step'[r] = "consume" /\ job' = job
        /\ \A q \in Procs \ {r} : step'[q] = step[q] /\ job'[q] = job[q]
    BY <1>1 DEF CompleteOrder, Move, PurchaseInv, PurchaseTypeOK
  <2>2. Credited(job[r].token)' /\ receipt' = receipt
    BY <1>2 DEF CompleteOrder, Credited, RechargeKey
  <2>3. JobOk(r)'
    BY <1>2, <2>1, <2>2 DEF JobOk, Credited, RechargeKey, Fulfilling, Recorded, Creditors, Refunding
  <2> QED BY <1>1, <1>q, <2>1, <2>3, JobStep
<1> QED BY <1>t, <1>q, <1>j DEF PurchaseInv

LEMMA StampConsumedKeeps ==
    ASSUME PurchaseInv, NEW p \in Procs, StampConsumed(p)
    PROVE  PurchaseInv'
<1>1. job[p].order \in Orders
  BY DEF StampConsumed, PurchaseInv, JobInv, JobOk
<1>t. PurchaseTypeOK'
  BY ZenonT(30), <1>1, FinishTyped DEF StampConsumed, PurchaseInv, PurchaseTypeOK
<1>q. /\ Monotone /\ ReceiptInv' /\ CompletedIsPaid' /\ VerifiedIsCredited'
      /\ ConsumedIsCredited' /\ ReversedWasCredited'
  <2>1. \A o \in Orders : order'[o].status = order[o].status
    BY <1>1 DEF StampConsumed, PurchaseInv, PurchaseTypeOK
  <2> QED BY <1>t, <2>1, QuietStep DEF StampConsumed
<1>j. JobInv'
  BY <1>q, FinishKeeps DEF StampConsumed
<1> QED BY <1>t, <1>q, <1>j DEF PurchaseInv

(* Google's record of a token keeps its shape when the consume call sets    *)
(* the flag of one purchase.                                                *)
LEMMA ConsumedTyped ==
    ASSUME NEW t \in Tokens,
           play \in [Tokens -> [state : {"pending", "purchased", "voided"}, consumed : BOOLEAN]]
    PROVE  [play EXCEPT ![t].consumed = TRUE]
             \in [Tokens -> [state : {"pending", "purchased", "voided"}, consumed : BOOLEAN]]
<1>1. [play[t] EXCEPT !.consumed = TRUE]
        \in [state : {"pending", "purchased", "voided"}, consumed : BOOLEAN]
  OBVIOUS
<1> QED BY <1>1

LEMMA ConsumeKeeps ==
    ASSUME PurchaseInv, NEW p \in Procs, Consume(p)
    PROVE  PurchaseInv'
<1>1. /\ job[p].order \in Orders /\ job[p].token \in Tokens
      /\ receipt[job[p].token].order = job[p].order /\ Credited(job[p].token)
  BY DEF Consume, PurchaseInv, JobInv, JobOk, Recorded, Creditors
<1>t. PurchaseTypeOK'
  <2>1. faults' \in 0 .. MaxFaults
    BY FaultAssumption DEF Consume, Fault, PurchaseInv, PurchaseTypeOK
  <2>2. play' \in [Tokens -> [state : {"pending", "purchased", "voided"}, consumed : BOOLEAN]]
    <3>1. play' = play \/ play' = [play EXCEPT ![job[p].token].consumed = TRUE]
      BY DEF Consume
    <3> QED BY <1>1, <3>1, ConsumedTyped DEF PurchaseInv, PurchaseTypeOK
  <2>3. step' \in [Procs -> PcType] /\ job' \in [Procs -> JobType]
    BY FinishTyped DEF Consume, Move, PurchaseInv, PurchaseTypeOK, PcType
  <2> QED BY <2>1, <2>2, <2>3 DEF Consume, PurchaseInv, PurchaseTypeOK
<1>q. /\ Monotone /\ ReceiptInv' /\ CompletedIsPaid' /\ VerifiedIsCredited'
      /\ ConsumedIsCredited' /\ ReversedWasCredited'
  <2>1. \A t \in Tokens : play'[t].consumed => play[t].consumed \/ Credited(t)
    BY <1>1 DEF Consume, PurchaseInv, PurchaseTypeOK
  <2> QED BY <1>t, <2>1, QuietStep DEF Consume
<1>j. JobInv'
  <2>1. CASE Finish(p)
    BY <1>q, <2>1, FinishKeeps
  <2>2. CASE ~Finish(p)
    <3>1. /\ step'[p] = "stamp" /\ job' = job
          /\ \A q \in Procs \ {p} : step'[q] = step[q] /\ job'[q] = job[q]
      BY <2>2 DEF Consume, Move, PurchaseInv, PurchaseTypeOK
    <3>2. RechargeKey(job[p].token) \in used' /\ receipt' = receipt
      BY <1>1 DEF Consume, Credited
    <3>3. JobOk(p)'
      BY <1>1, <3>1, <3>2 DEF JobOk, Credited, RechargeKey, Fulfilling, Recorded, Creditors, Refunding
    <3> QED BY <1>q, <3>1, <3>3, JobStep
  <2> QED BY <2>1, <2>2
<1> QED BY <1>t, <1>q, <1>j DEF PurchaseInv

LEMMA SweepPickKeeps ==
    ASSUME PurchaseInv, NEW s \in Sweepers, SweepPick(s)
    PROVE  PurchaseInv'
<1>1. s \in Procs
  BY DEF Procs
<1>2. PICK t \in Tokens :
        /\ receipt[t].verified
        /\ job' = [job EXCEPT ![s] = Job(receipt[t].order, t)]
        /\ step' = [step EXCEPT ![s] = "consume"]
        /\ UNCHANGED <<gold, used, order, receipt, play, acked, faults>>
  BY DEF SweepPick, Move
<1>3. Credited(t) /\ receipt[t].order \in Orders
  BY <1>2 DEF PurchaseInv, VerifiedIsCredited, ReceiptInv, HasReceipt, PurchaseTypeOK, NoReceipt
<1>t. PurchaseTypeOK'
  <2>1. job' \in [Procs -> JobType]
    BY <1>1, <1>2, <1>3, JobTyped DEF PurchaseInv, PurchaseTypeOK
  <2> QED BY <1>1, <1>2, <2>1 DEF PurchaseInv, PurchaseTypeOK, PcType
<1>q. /\ Monotone /\ ReceiptInv' /\ CompletedIsPaid' /\ VerifiedIsCredited'
      /\ ConsumedIsCredited' /\ ReversedWasCredited'
  BY <1>t, <1>2, QuietStep
<1>j. JobInv'
  <2>1. /\ step'[s] = "consume" /\ job'[s] = Job(receipt[t].order, t)
        /\ \A q \in Procs \ {s} : step'[q] = step[q] /\ job'[q] = job[q]
    BY <1>1, <1>2 DEF PurchaseInv, PurchaseTypeOK
  <2>2. RechargeKey(t) \in used' /\ receipt' = receipt
    BY <1>2, <1>3 DEF Credited
  <2>3. JobOk(s)'
    BY <1>3, <2>1, <2>2 DEF Job, JobOk, Credited, RechargeKey, Fulfilling, Recorded,
       Creditors, Refunding
  <2> QED BY <1>1, <1>q, <2>1, <2>3, JobStep
<1> QED BY <1>t, <1>q, <1>j DEF PurchaseInv

LEMMA NotifyKeeps ==
    ASSUME PurchaseInv, NEW n \in Handlers, NEW t \in Tokens, Notify(n, t)
    PROVE  PurchaseInv'
<1>1. n \in Procs
  BY DEF Procs
<1>2. CASE Refundable(receipt[t].order)
  <2>1. /\ job' = [job EXCEPT ![n] = Job(receipt[t].order, t)]
        /\ step' = [step EXCEPT ![n] = "reverse"]
        /\ UNCHANGED <<gold, used, order, receipt, play, acked, faults>>
    BY <1>2 DEF Notify, Move
  <2>2. receipt[t].order \in Orders
    BY <1>2 DEF Refundable, PurchaseInv, PurchaseTypeOK, NoReceipt
  <2>3. PaidOrder(receipt[t].order)
    BY <1>2, <2>2 DEF Refundable, PurchaseInv, CompletedIsPaid, PaidOrder
  <2>t. PurchaseTypeOK'
    <3>1. job' \in [Procs -> JobType]
      BY <1>1, <2>1, <2>2, JobTyped DEF PurchaseInv, PurchaseTypeOK
    <3> QED BY <1>1, <2>1, <3>1 DEF PurchaseInv, PurchaseTypeOK, PcType
  <2>q. /\ Monotone /\ ReceiptInv' /\ CompletedIsPaid' /\ VerifiedIsCredited'
        /\ ConsumedIsCredited' /\ ReversedWasCredited'
    BY <2>t, <2>1, QuietStep
  <2>4. /\ step'[n] = "reverse" /\ job'[n] = Job(receipt[t].order, t)
        /\ \A q \in Procs \ {n} : step'[q] = step[q] /\ job'[q] = job[q]
    BY <1>1, <2>1 DEF PurchaseInv, PurchaseTypeOK
  <2>5. PaidOrder(receipt[t].order)'
    BY <2>2, <2>3, <2>q, <2>1, PaidKeep DEF PurchaseInv
  <2>6. JobOk(n)'
    BY <2>1, <2>2, <2>4, <2>5 DEF Job, JobOk, Fulfilling, Recorded, Creditors, Refunding
  <2>7. JobInv'
    BY <1>1, <2>q, <2>4, <2>6, JobStep
  <2> QED BY <2>t, <2>q, <2>7 DEF PurchaseInv
<1>3. CASE ~Refundable(receipt[t].order)
  <2>1. acked' = acked \cup {t} /\ UNCHANGED <<gold, used, order, receipt, play, step, job, faults>>
    BY <1>3 DEF Notify
  <2>t. PurchaseTypeOK'
    BY <2>1 DEF PurchaseInv, PurchaseTypeOK
  <2>q. /\ Monotone /\ ReceiptInv' /\ CompletedIsPaid' /\ VerifiedIsCredited'
        /\ ConsumedIsCredited' /\ ReversedWasCredited'
    BY <2>t, <2>1, QuietStep
  <2>2. JobInv'
    BY <2>1, <2>q, StillKeeps
  <2> QED BY <2>t, <2>q, <2>2 DEF PurchaseInv
<1> QED BY <1>2, <1>3

LEMMA MarkRefundedKeeps ==
    ASSUME PurchaseInv, NEW n \in Handlers, MarkRefunded(n)
    PROVE  PurchaseInv'
<1>1. n \in Procs /\ JobOk(n)
  BY DEF Procs, PurchaseInv, JobInv
<1>2. job[n].order \in Orders /\ job[n].token \in Tokens /\ PaidOrder(job[n].order)
  BY <1>1 DEF MarkRefunded, JobOk, Refunding
<1>t. PurchaseTypeOK'
  BY ZenonT(30), <1>1, <1>2, FinishTyped DEF MarkRefunded, SetStatus, PurchaseInv, PurchaseTypeOK
<1>q. /\ Monotone /\ ReceiptInv' /\ CompletedIsPaid' /\ VerifiedIsCredited'
      /\ ConsumedIsCredited' /\ ReversedWasCredited'
  <2>1. \A o \in Orders : order'[o].status \in {"COMPLETED", "REFUNDED"}
          => order[o].status \in {"COMPLETED", "REFUNDED"} \/ PaidOrder(o)
    BY <1>2 DEF MarkRefunded, SetStatus, PurchaseInv, PurchaseTypeOK
  <2> QED BY <1>t, <2>1, QuietStep DEF MarkRefunded
<1>j. JobInv'
  BY <1>1, <1>q, FinishKeeps DEF MarkRefunded
<1> QED BY <1>t, <1>q, <1>j DEF PurchaseInv

-----------------------------------------------------------------------------
(* The steps that write a receipt or move coins.                           *)

LEMMA RecordReceiptKeeps ==
    ASSUME PurchaseInv, NEW r \in Requests, RecordReceipt(r)
    PROVE  PurchaseInv'
<1> DEFINE t == job[r].token
           o == job[r].order
<1>1. r \in Procs /\ JobOk(r)
  BY DEF Procs, PurchaseInv, JobInv
<1>2. /\ o \in Orders /\ t \in Tokens /\ Buyer[t] = Owner[o]
      /\ job[r].found # Nil => receipt[t].order = o
  BY <1>1 DEF RecordReceipt, JobOk, Fulfilling
<1>3. CASE Finish(r) /\ UNCHANGED receipt
  <2>1. UNCHANGED <<gold, used, order, play, acked, faults>>
    BY DEF RecordReceipt
  <2>t. PurchaseTypeOK'
    BY <1>1, <1>3, <2>1, FinishTyped DEF PurchaseInv, PurchaseTypeOK
  <2>q. /\ Monotone /\ ReceiptInv' /\ CompletedIsPaid' /\ VerifiedIsCredited'
        /\ ConsumedIsCredited' /\ ReversedWasCredited'
    BY <1>3, <2>t, <2>1, QuietStep
  <2>2. JobInv'
    BY <1>1, <1>3, <2>q, FinishKeeps
  <2> QED BY <2>t, <2>q, <2>2 DEF PurchaseInv
<1>4. CASE ~(Finish(r) /\ UNCHANGED receipt)
  <2>1. /\ job[r].found # Nil \/ receipt[t] = NoReceipt
        /\ receipt' = [receipt EXCEPT ![t] = [order |-> o, verified |-> FALSE]]
        /\ step' = [step EXCEPT ![r] = "credit"]
        /\ UNCHANGED <<gold, used, order, play, acked, job, faults>>
    BY <1>4 DEF RecordReceipt, Move
  <2>t. PurchaseTypeOK'
    BY <1>1, <1>2, <2>1 DEF PurchaseInv, PurchaseTypeOK, PcType
  <2>2. Monotone
    BY <1>2, <2>1 DEF Monotone, HasReceipt, NoReceipt, PurchaseInv, PurchaseTypeOK
  <2>3. /\ \A s \in Tokens : s # t => receipt'[s] = receipt[s]
        /\ receipt'[t] = [order |-> o, verified |-> FALSE]
    <3> DEFINE row == [order |-> o, verified |-> FALSE]
    <3>1. DOMAIN receipt = Tokens /\ receipt' = [receipt EXCEPT ![t] = row] /\ t \in Tokens
      BY <1>2, <2>1 DEF PurchaseInv, PurchaseTypeOK
    <3> HIDE DEF row, t
    <3>2. /\ \A s \in Tokens : s # t => receipt'[s] = receipt[s]
          /\ receipt'[t] = row
      BY <3>1
    <3> QED BY <3>2 DEF row
  <2>4. ReceiptInv'
    <3> SUFFICES ASSUME NEW s \in Tokens
                 PROVE  /\ receipt'[s].order # Nil => Buyer[s] = Owner[receipt'[s].order]
                        /\ RechargeKey(s) \in used => receipt'[s].order # Nil
      BY <2>1 DEF ReceiptInv, HasReceipt, Credited, RechargeKey
    <3>1. CASE s = t
      BY <1>2, <2>3, <3>1, OrderAssumption
    <3>2. CASE s # t
      BY <2>3, <3>2 DEF PurchaseInv, ReceiptInv, HasReceipt, Credited
    <3> QED BY <3>1, <3>2
  <2>5. CompletedIsPaid'
    <3>1. \A x \in Orders : PaidOrder(x) => PaidOrder(x)'
      BY <2>2, PaidKeep DEF PurchaseInv
    <3> QED BY <2>1, <3>1 DEF PurchaseInv, CompletedIsPaid, PaidOrder
  <2>6. VerifiedIsCredited' /\ ConsumedIsCredited'
    BY <2>1, <2>3 DEF PurchaseInv, VerifiedIsCredited, ConsumedIsCredited, Credited, RechargeKey
  <2>7. ReversedWasCredited'
    <3> SUFFICES ASSUME NEW x \in Tokens, Reversed(x)
                 PROVE  \E s \in Tokens : receipt'[s].order = receipt'[x].order /\ Credited(s)'
      BY <2>1 DEF ReversedWasCredited, Reversed, ReversalKey, Credited, RechargeKey
    <3>1. PICK s \in Tokens : receipt[s].order = receipt[x].order /\ Credited(s)
      BY DEF PurchaseInv, ReversedWasCredited
    <3>2. HasReceipt(s) /\ HasReceipt(x)
      BY <3>1 DEF PurchaseInv, ReceiptInv, HasReceipt
    <3> QED BY <2>1, <2>2, <3>1, <3>2 DEF Monotone, Credited, RechargeKey
  <2>8. JobOk(r)'
    <3>1. step'[r] = "credit" /\ job' = job /\ receipt'[t].order = o
      BY <1>1, <2>1, <2>3, <1>2 DEF PurchaseInv, PurchaseTypeOK
    <3> QED BY <1>2, <3>1 DEF JobOk, Fulfilling, Recorded, Creditors, Refunding
  <2>9. \A q \in Procs \ {r} : step'[q] = step[q] /\ job'[q] = job[q]
    BY <2>1 DEF PurchaseInv, PurchaseTypeOK
  <2>10. JobInv'
    BY <1>1, <2>2, <2>8, <2>9, JobStep
  <2> QED BY <2>t, <2>4, <2>5, <2>6, <2>7, <2>10 DEF PurchaseInv
<1> QED BY <1>3, <1>4

LEMMA CreditCoinsKeeps ==
    ASSUME PurchaseInv, NEW r \in Requests, CreditCoins(r)
    PROVE  PurchaseInv'
<1> DEFINE t == job[r].token
           o == job[r].order
<1>1. r \in Procs /\ JobOk(r)
  BY DEF Procs, PurchaseInv, JobInv
<1>2. /\ o \in Orders /\ t \in Tokens
      /\ Buyer[t] = Owner[o] /\ receipt[t].order = o
  BY <1>1 DEF CreditCoins, JobOk, Fulfilling, Recorded
<1>3. /\ W!Post(RechargeKey(t), GoldOf("credit", o)) /\ step' = [step EXCEPT ![r] = "mark"]
      /\ UNCHANGED <<order, receipt, play, acked, job, faults>>
  BY DEF CreditCoins, Move
<1>4. used' = used \cup {RechargeKey(t)}
  BY <1>3, PostUses
<1>5. \A s \in Tokens : /\ Credited(s)' <=> Credited(s) \/ s = t
                        /\ Reversed(s)' <=> Reversed(s)
  BY <1>2, <1>4, KeysDiffer DEF Credited, Reversed, RechargeKey, ReversalKey
<1>t. PurchaseTypeOK'
  <2>1. gold' \in [Customers -> [{COINS} -> Int]] /\ used' \subseteq WalletKeys
    BY <1>2, <1>3, PostType DEF WalletKeys, PurchaseInv, PurchaseTypeOK
  <2> QED BY <1>1, <1>3, <2>1 DEF PurchaseInv, PurchaseTypeOK, PcType
<1>6. Monotone
  BY <1>3, <1>4 DEF Monotone
<1>7. ReceiptInv'
  BY <1>2, <1>3, <1>5, OrderAssumption DEF PurchaseInv, ReceiptInv, HasReceipt
<1>8. CompletedIsPaid' /\ VerifiedIsCredited' /\ ConsumedIsCredited'
  BY <1>3, <1>5 DEF PurchaseInv, CompletedIsPaid, VerifiedIsCredited, ConsumedIsCredited
<1>9. ReversedWasCredited'
  BY <1>3, <1>5 DEF PurchaseInv, ReversedWasCredited
<1>10. JobOk(r)'
  <2>1. step'[r] = "mark" /\ job' = job /\ receipt' = receipt /\ RechargeKey(t) \in used'
    BY <1>1, <1>3, <1>4 DEF PurchaseInv, PurchaseTypeOK
  <2> QED BY <1>2, <2>1 DEF JobOk, Credited, RechargeKey, Fulfilling, Recorded, Creditors, Refunding
<1>11. \A q \in Procs \ {r} : step'[q] = step[q] /\ job'[q] = job[q]
  BY <1>3 DEF PurchaseInv, PurchaseTypeOK
<1>j. JobInv'
  BY <1>1, <1>6, <1>10, <1>11, JobStep
<1> QED BY <1>t, <1>7, <1>8, <1>9, <1>j DEF PurchaseInv

LEMMA MarkVerifiedKeeps ==
    ASSUME PurchaseInv, NEW r \in Requests, MarkVerified(r)
    PROVE  PurchaseInv'
<1> DEFINE t == job[r].token
           o == job[r].order
<1>1. r \in Procs /\ JobOk(r)
  BY DEF Procs, PurchaseInv, JobInv
<1>2. /\ o \in Orders /\ t \in Tokens /\ Buyer[t] = Owner[o]
      /\ receipt[t].order = o /\ Credited(t)
  BY <1>1 DEF MarkVerified, JobOk, Fulfilling, Recorded, Creditors
<1>3. /\ receipt' = [receipt EXCEPT ![t].verified = TRUE]
      /\ step' = [step EXCEPT ![r] = "complete"]
      /\ UNCHANGED <<gold, used, order, play, acked, job, faults>>
  BY DEF MarkVerified, Move
<1>4. \A s \in Tokens : /\ receipt'[s].order = receipt[s].order
                        /\ receipt'[s].verified => receipt[s].verified \/ s = t
                        /\ Credited(s)' <=> Credited(s)
                        /\ Reversed(s)' <=> Reversed(s)
  BY <1>2, <1>3 DEF PurchaseInv, PurchaseTypeOK, NoReceipt, Credited, Reversed, RechargeKey, ReversalKey
<1>t. PurchaseTypeOK'
  <2>1. receipt[t] \in [order : Orders, verified : BOOLEAN]
    BY <1>2, OrderAssumption DEF PurchaseInv, PurchaseTypeOK, NoReceipt
  <2>2. receipt' \in [Tokens -> [order : Orders, verified : BOOLEAN] \cup {NoReceipt}]
    BY <1>2, <1>3, <2>1 DEF PurchaseInv, PurchaseTypeOK
  <2> QED BY <1>1, <1>3, <2>2 DEF PurchaseInv, PurchaseTypeOK, PcType
<1>5. Monotone
  BY <1>3, <1>4 DEF Monotone
<1>6. ReceiptInv' /\ ReversedWasCredited'
  BY <1>4 DEF PurchaseInv, ReceiptInv, ReversedWasCredited, HasReceipt
<1>7. CompletedIsPaid' /\ VerifiedIsCredited' /\ ConsumedIsCredited'
  BY <1>2, <1>3, <1>4 DEF PurchaseInv, CompletedIsPaid, VerifiedIsCredited, ConsumedIsCredited
<1>8. JobOk(r)'
  <2>1. step'[r] = "complete" /\ job' = job /\ RechargeKey(t) \in used'
    BY <1>1, <1>2, <1>3 DEF PurchaseInv, PurchaseTypeOK, Credited
  <2>2. receipt'[t].order = o
    BY <1>2, <1>4
  <2> QED BY <1>2, <2>1, <2>2 DEF JobOk, Credited, RechargeKey, Fulfilling, Recorded,
          Creditors, Refunding
<1>9. \A q \in Procs \ {r} : step'[q] = step[q] /\ job'[q] = job[q]
  BY <1>3 DEF PurchaseInv, PurchaseTypeOK
<1>j. JobInv'
  BY <1>1, <1>5, <1>8, <1>9, JobStep
<1> QED BY <1>t, <1>6, <1>7, <1>j DEF PurchaseInv

LEMMA ReverseKeeps ==
    ASSUME PurchaseInv, NEW n \in Handlers, Reverse(n)
    PROVE  PurchaseInv'
<1> DEFINE t == job[n].token
           o == job[n].order
<1>1. n \in Procs /\ JobOk(n)
  BY DEF Procs, PurchaseInv, JobInv
<1>2. /\ o \in Orders /\ t \in Tokens /\ receipt[t].order = o /\ PaidOrder(o)
  BY <1>1 DEF Reverse, JobOk, Refunding
<1>3. /\ W!Post(ReversalKey(t), GoldOf("reverse", o)) /\ step' = [step EXCEPT ![n] = "refunded"]
      /\ UNCHANGED <<order, receipt, play, acked, job, faults>>
  BY DEF Reverse, Move
<1>4. used' = used \cup {ReversalKey(t)}
  BY <1>3, PostUses
<1>5. \A s \in Tokens : /\ Credited(s)' <=> Credited(s)
                        /\ Reversed(s)' <=> Reversed(s) \/ s = t
  BY <1>2, <1>4, KeysDiffer DEF Credited, Reversed, RechargeKey, ReversalKey
<1>t. PurchaseTypeOK'
  <2>1. gold' \in [Customers -> [{COINS} -> Int]] /\ used' \subseteq WalletKeys
    BY <1>2, <1>3, PostType DEF WalletKeys, PurchaseInv, PurchaseTypeOK
  <2> QED BY <1>1, <1>3, <2>1 DEF PurchaseInv, PurchaseTypeOK, PcType
<1>6. Monotone
  BY <1>3, <1>4 DEF Monotone
<1>7. ReceiptInv'
  BY <1>3, <1>5 DEF PurchaseInv, ReceiptInv, HasReceipt
<1>8. CompletedIsPaid' /\ VerifiedIsCredited' /\ ConsumedIsCredited'
  BY <1>3, <1>5 DEF PurchaseInv, CompletedIsPaid, VerifiedIsCredited, ConsumedIsCredited
<1>9. ReversedWasCredited'
  BY <1>2, <1>3, <1>5 DEF PurchaseInv, ReversedWasCredited, PaidOrder
<1>10. JobOk(n)'
  <2>1. step'[n] = "refunded" /\ job' = job /\ receipt' = receipt
    BY <1>1, <1>3 DEF PurchaseInv, PurchaseTypeOK
  <2>2. PaidOrder(o)'
    BY <1>2, <1>3, <1>6, PaidKeep DEF PurchaseInv
  <2> QED BY <1>2, <2>1, <2>2 DEF JobOk, Fulfilling, Recorded, Creditors, Refunding
<1>11. \A q \in Procs \ {n} : step'[q] = step[q] /\ job'[q] = job[q]
  BY <1>3 DEF PurchaseInv, PurchaseTypeOK
<1>j. JobInv'
  BY <1>1, <1>6, <1>10, <1>11, JobStep
<1> QED BY <1>t, <1>7, <1>8, <1>9, <1>j DEF PurchaseInv

-----------------------------------------------------------------------------
LEMMA NextPurchaseInv == PurchaseInv /\ [PurchaseNext]_purchaseVars => PurchaseInv'
<1> SUFFICES ASSUME PurchaseInv, [PurchaseNext]_purchaseVars PROVE PurchaseInv'
  OBVIOUS
<1>1. CASE UNCHANGED purchaseVars
  <2>1. PurchaseTypeOK'
    BY <1>1 DEF purchaseVars, PurchaseInv, PurchaseTypeOK
  <2>2. /\ Monotone /\ ReceiptInv' /\ CompletedIsPaid' /\ VerifiedIsCredited'
        /\ ConsumedIsCredited' /\ ReversedWasCredited'
    BY <1>1, <2>1, QuietStep DEF purchaseVars
  <2>3. JobInv'
    BY <1>1, <2>2, StillKeeps DEF purchaseVars
  <2> QED BY <2>1, <2>2, <2>3 DEF PurchaseInv
<1>2. ASSUME NEW o \in Orders, CreateOrder(o) \/ ExpireOrder(o) PROVE PurchaseInv'
  BY <1>2, CreateOrderKeeps, ExpireOrderKeeps
<1>3. ASSUME NEW r \in Requests, NEW o \in Orders, NEW t \in Tokens, FulfilStart(r, o, t)
      PROVE  PurchaseInv'
  BY <1>3, FulfilStartKeeps
<1>4. ASSUME NEW r \in Requests, FulfilStep(r) PROVE PurchaseInv'
  <2> r \in Procs
    BY DEF Procs
  <2> QED BY <1>4, VerifyReceiptKeeps, FailOrderKeeps, CheckReplayKeeps, RecordReceiptKeeps,
          CreditCoinsKeeps, MarkVerifiedKeeps, CompleteOrderKeeps, ConsumeKeeps,
          StampConsumedKeeps DEF FulfilStep
<1>5. ASSUME NEW s \in Sweepers, SweepStep(s) PROVE PurchaseInv'
  <2> s \in Procs
    BY DEF Procs
  <2> QED BY <1>5, SweepPickKeeps, ConsumeKeeps, StampConsumedKeeps DEF SweepStep
<1>6. ASSUME NEW n \in Handlers, NotifyStep(n) PROVE PurchaseInv'
  BY <1>6, NotifyKeeps, ReverseKeeps, MarkRefundedKeeps DEF NotifyStep
<1>7. ASSUME NEW t \in Tokens, Pay(t) \/ Void(t) PROVE PurchaseInv'
  BY <1>7, PayKeeps, VoidKeeps
<1>8. ASSUME NEW p \in Procs, Stop(p) PROVE PurchaseInv'
  BY <1>8, StopKeeps
<1> QED BY <1>1, <1>2, <1>3, <1>4, <1>5, <1>6, <1>7, <1>8 DEF PurchaseNext

LEMMA Invariance == PurchaseSpec => []PurchaseInv
<1> QED BY InitPurchaseInv, NextPurchaseInv, PTL DEF PurchaseSpec

(* Every variable keeps its type, whatever interleaves.                    *)
THEOREM PurchasesTyped == PurchaseSpec => []PurchaseTypeOK
<1>1. PurchaseInv => PurchaseTypeOK
  BY DEF PurchaseInv
<1> QED BY <1>1, Invariance, PTL

(* However many requests, admins and retries submit however many           *)
(* purchases, no order is ever completed without a purchase of its own.    *)
THEOREM CompletedIsAlwaysPaid == PurchaseSpec => []CompletedIsPaid
<1>1. PurchaseInv => CompletedIsPaid
  BY DEF PurchaseInv
<1> QED BY <1>1, Invariance, PTL

(* The flag that blocks replays never outruns the wallet: whoever is told  *)
(* that a receipt was already credited has the coins.                      *)
THEOREM VerifiedIsAlwaysCredited == PurchaseSpec => []VerifiedIsCredited
<1>1. PurchaseInv => VerifiedIsCredited
  BY DEF PurchaseInv
<1> QED BY <1>1, Invariance, PTL

(* A purchase is never consumed at Play, by its request or by the sweep,   *)
(* before its coins exist.                                                 *)
THEOREM ConsumedIsAlwaysCredited == PurchaseSpec => []ConsumedIsCredited
<1>1. PurchaseInv => ConsumedIsCredited
  BY DEF PurchaseInv
<1> QED BY <1>1, Invariance, PTL

(* An admin's retry included, coins only go to the account that paid.      *)
THEOREM BuyerIsAlwaysCredited == PurchaseSpec => []BuyerIsCredited
<1>1. PurchaseInv => BuyerIsCredited
  BY DEF PurchaseInv, ReceiptInv, BuyerIsCredited
<1> QED BY <1>1, Invariance, PTL

(* Duplicate and early refund notifications never take coins of an order   *)
(* that was given none.                                                    *)
THEOREM ReversedWasAlwaysCredited == PurchaseSpec => []ReversedWasCredited
<1>1. PurchaseInv => ReversedWasCredited
  BY DEF PurchaseInv
<1> QED BY <1>1, Invariance, PTL

(* No mark of fulfil, of the consume sweep or of a refund outruns the      *)
(* wallet.                                                                 *)
THEOREM FlagsAlwaysEarned == PurchaseSpec => []FlagsAreEarned
<1> QED
  BY CompletedIsAlwaysPaid, VerifiedIsAlwaysCredited, ConsumedIsAlwaysCredited,
     ReversedWasAlwaysCredited, PTL DEF FlagsAreEarned

-----------------------------------------------------------------------------
(* The coins.  A purchase's part of a user's coins depends on the order of *)
(* its receipt, which stays, and on its two keys.                          *)

Part(u, t) == Gained(u)[t]
Earned(u) == SumFunctionOnSet(Gained(u), Tokens)

LEMMA EarnedIs == ASSUME NEW u PROVE SumFunction(Gained(u)) = Earned(u)
BY SumOfAll DEF Earned, Gained

LEMMA PartIs ==
    ASSUME NEW u, NEW t \in Tokens
    PROVE  Part(u, t) =
             IF PaidFor(u, t)
             THEN (IF Credited(t) THEN Coins[receipt[t].order] ELSE 0)
                  - (IF Reversed(t) THEN Coins[receipt[t].order] ELSE 0)
             ELSE 0
BY DEF Part, Gained

LEMMA PartInt ==
    ASSUME PurchaseTypeOK, NEW u, NEW t \in Tokens
    PROVE  Part(u, t) \in Int
<1>1. ASSUME receipt[t].order # Nil PROVE Coins[receipt[t].order] \in Int
  <2>1. receipt[t].order \in Orders
    BY <1>1 DEF PurchaseTypeOK, NoReceipt
  <2> QED BY <2>1, OrderAssumption
<1> QED BY <1>1, PartIs DEF PaidFor

LEMMA PartIntNext ==
    ASSUME PurchaseTypeOK', NEW u, NEW t \in Tokens
    PROVE  Part(u, t)' \in Int
<1>1. Part(u, t)' = IF PaidFor(u, t)'
             THEN (IF Credited(t)' THEN Coins[receipt'[t].order] ELSE 0)
                  - (IF Reversed(t)' THEN Coins[receipt'[t].order] ELSE 0)
             ELSE 0
  BY DEF Part, Gained, Credited, Reversed, RechargeKey, ReversalKey
<1>2. ASSUME receipt'[t].order # Nil PROVE Coins[receipt'[t].order] \in Int
  <2>1. receipt'[t].order \in Orders
    BY <1>2 DEF PurchaseTypeOK, NoReceipt
  <2> QED BY <2>1, OrderAssumption
<1> QED BY <1>1, <1>2 DEF PaidFor

(* A purchase whose receipt and keys stay has the same part; one that had  *)
(* no receipt has none until it is credited.                               *)
LEMMA PartKeeps ==
    ASSUME PurchaseInv, Monotone, NEW u, NEW t \in Tokens,
           Credited(t)' <=> Credited(t), Reversed(t)' <=> Reversed(t)
    PROVE  Part(u, t)' = Part(u, t)
<1>1. Part(u, t)' = IF PaidFor(u, t)'
             THEN (IF Credited(t)' THEN Coins[receipt'[t].order] ELSE 0)
                  - (IF Reversed(t)' THEN Coins[receipt'[t].order] ELSE 0)
             ELSE 0
  BY DEF Part, Gained, Credited, Reversed, RechargeKey, ReversalKey
<1>2. CASE HasReceipt(t)
  <2>1. receipt'[t].order = receipt[t].order
    BY <1>2 DEF Monotone
  <2>2. PaidFor(u, t)' <=> PaidFor(u, t)
    BY <2>1 DEF PaidFor
  <2> QED BY <1>1, <2>1, <2>2, PartIs
<1>3. CASE ~HasReceipt(t)
  <2>1. ~Credited(t)
    BY <1>3 DEF PurchaseInv, ReceiptInv
  <2>2. ~Reversed(t)
    <3> SUFFICES ASSUME Reversed(t) PROVE FALSE
      OBVIOUS
    <3>1. PICK s \in Tokens : receipt[s].order = receipt[t].order /\ Credited(s)
      BY DEF PurchaseInv, ReversedWasCredited
    <3> QED BY <1>3, <3>1 DEF PurchaseInv, ReceiptInv, HasReceipt
  <2>3. Part(u, t) = 0
    BY <1>3, PartIs DEF PaidFor, HasReceipt
  <2> QED BY <1>1, <2>1, <2>2, <2>3
<1> QED BY <1>2, <1>3

(* What leaves the wallet alone leaves everybody's explanation alone.      *)
LEMMA CoinsStay ==
    ASSUME PurchaseInv, Monotone, UNCHANGED <<gold, used>>, CoinsArePaidFor
    PROVE  CoinsArePaidFor'
<1>1. ASSUME NEW u \in Customers PROVE gold'[u][COINS] = SumFunction(Gained(u)')
  <2>1. ASSUME NEW t \in Tokens PROVE Gained(u)'[t] = Gained(u)[t]
    <3>1. (Credited(t)' <=> Credited(t)) /\ (Reversed(t)' <=> Reversed(t))
      BY DEF Credited, Reversed, RechargeKey, ReversalKey
    <3>2. Part(u, t)' = Part(u, t)
      BY <3>1, PartKeeps
    <3> QED BY <3>2 DEF Part
  <2>2. SumFunctionOnSet(Gained(u)', Tokens) = SumFunctionOnSet(Gained(u), Tokens)
    BY <2>1, FiniteAssumption, SumEqual
  <2>3. DOMAIN Gained(u)' = Tokens
    BY DEF Gained
  <2>4. SumFunction(Gained(u)') = SumFunctionOnSet(Gained(u)', Tokens)
    BY <2>3, SumOfAll
  <2>5. SumFunction(Gained(u)) = SumFunctionOnSet(Gained(u), Tokens)
    BY EarnedIs DEF Earned
  <2>6. gold[u][COINS] = SumFunction(Gained(u))
    BY DEF CoinsArePaidFor
  <2> QED BY <2>2, <2>4, <2>5, <2>6
<1> QED BY <1>1 DEF CoinsArePaidFor

(* One user's coins and that user's part of one purchase move by the same. *)
LEMMA CoinsMove ==
    ASSUME PurchaseInv, PurchaseTypeOK', Monotone, CoinsArePaidFor,
           NEW o \in Orders, NEW t \in Tokens, receipt[t].order = o,
           NEW d \in Int, gold' = [gold EXCEPT ![Owner[o]][COINS] = @ + d],
           Part(Owner[o], t)' = Part(Owner[o], t) + d,
           \A s \in Tokens : s # t => /\ Credited(s)' <=> Credited(s)
                                      /\ Reversed(s)' <=> Reversed(s)
    PROVE  CoinsArePaidFor'
<1>1. ASSUME NEW u \in Customers PROVE gold'[u][COINS] = SumFunction(Gained(u)')
  <2> DEFINE old == Gained(u)
             new == Gained(u)'
  <2>1. ASSUME NEW s \in Tokens, s # t PROVE old[s] = new[s]
    <3>1. Part(u, s)' = Part(u, s)
      BY <2>1, PartKeeps
    <3> QED BY <3>1 DEF Part
  <2>2. \A s \in Tokens : old[s] \in Int /\ new[s] \in Int
    <3>1. ASSUME NEW s \in Tokens PROVE Part(u, s) \in Int
      BY PartInt DEF PurchaseInv
    <3>2. ASSUME NEW s \in Tokens PROVE Part(u, s)' \in Int
      BY PartIntNext
    <3> QED BY <3>1, <3>2 DEF Part
  <2>3. new[t] = old[t] + (IF u = Owner[o] THEN d ELSE 0)
    <3>1. CASE u = Owner[o]
      BY <3>1 DEF Part
    <3>2. CASE u # Owner[o]
      <4>1. ~PaidFor(u, t) /\ ~PaidFor(u, t)'
        BY <3>2, OrderAssumption DEF PaidFor, Monotone, HasReceipt
      <4>2. old[t] = 0
        BY <4>1, PartIs DEF Part
      <4>3. new[t] = 0
        BY <4>1 DEF Gained
      <4> QED BY <3>2, <4>2, <4>3
    <3> QED BY <3>1, <3>2
  <2>4. SumFunction(old) = SumFunctionOnSet(old, Tokens)
        /\ SumFunction(new) = SumFunctionOnSet(new, Tokens)
    <3>1. DOMAIN old = Tokens /\ DOMAIN new = Tokens
      BY DEF Gained
    <3> HIDE DEF old, new
    <3> QED BY <3>1, SumOfAll
  <2>5. gold[u][COINS] = SumFunction(old)
    BY DEF CoinsArePaidFor
  <2>6. gold'[u][COINS] = gold[u][COINS] + (IF u = Owner[o] THEN d ELSE 0)
    <3>1. gold[u] \in [{COINS} -> Int] /\ DOMAIN gold = Customers /\ Owner[o] \in Customers
      BY OrderAssumption DEF PurchaseInv, PurchaseTypeOK
    <3>2. gold[u][COINS] \in Int
      BY <3>1
    <3> QED BY <3>1, <3>2
  <2> HIDE DEF old, new
  <2>7. SumFunctionOnSet(new, Tokens) = SumFunctionOnSet(old, Tokens) - old[t] + new[t]
    BY <2>1, <2>2, FiniteAssumption, SumChange
  <2>8. SumFunctionOnSet(old, Tokens) \in Int
    BY <2>2, FiniteAssumption, SumInt
  <2>9. SumFunction(new) = SumFunction(old) + (IF u = Owner[o] THEN d ELSE 0)
    BY <2>2, <2>3, <2>4, <2>7, <2>8
  <2> QED BY <2>5, <2>6, <2>9 DEF new
<1> QED BY <1>1 DEF CoinsArePaidFor

LEMMA CreditCoinsExplains ==
    ASSUME PurchaseInv, PurchaseInv', Monotone, CoinsArePaidFor, NEW r \in Requests, CreditCoins(r)
    PROVE  CoinsArePaidFor'
<1>1. r \in Procs /\ JobOk(r)
  BY DEF Procs, PurchaseInv, JobInv
<1>2. PICK o \in Orders, t \in Tokens :
        o = job[r].order /\ t = job[r].token /\ receipt[t].order = o
  BY <1>1 DEF CreditCoins, JobOk, Recorded
<1> DEFINE k == RechargeKey(t)
<1>3. W!Post(k, GoldOf("credit", o)) /\ receipt' = receipt
  BY <1>2 DEF CreditCoins
<1>4. CASE k \in used
  <2>1. UNCHANGED <<gold, used>>
    BY <1>3, <1>4 DEF W!Post, W!accounts
  <2> QED BY <2>1, CoinsStay
<1>5. CASE k \notin used
  <2>1. gold' = [gold EXCEPT ![Owner[o]][COINS] = @ + W!Signed(GoldOf("credit", o))]
        /\ used' = used \cup {k}
    BY <1>3, <1>5 DEF W!Post, W!Move, GoldOf
  <2>2. W!Signed(GoldOf("credit", o)) = Coins[o] /\ Coins[o] \in Int
    BY <1>2, OrderAssumption DEF W!Signed, W!Unmoved, W!Credits, GoldOf
  <2>3. ~Credited(t) /\ Credited(t)' /\ (Reversed(t)' <=> Reversed(t))
        /\ \A s \in Tokens : s # t => /\ Credited(s)' <=> Credited(s)
                                      /\ Reversed(s)' <=> Reversed(s)
    <3>1. /\ k \in used'
          /\ \A s \in Tokens : /\ RechargeKey(s) \in used' <=> RechargeKey(s) \in used \/ s = t
                               /\ ReversalKey(s) \in used' <=> ReversalKey(s) \in used
      BY <1>2, <2>1, KeysDiffer
    <3> QED BY <1>2, <1>5, <3>1 DEF Credited, Reversed, RechargeKey, ReversalKey
  <2>4. PaidFor(Owner[o], t) /\ PaidFor(Owner[o], t)'
    BY <1>2, <1>3, OrderAssumption DEF PaidFor
  <2>5. Part(Owner[o], t)' = IF PaidFor(Owner[o], t)'
           THEN (IF Credited(t)' THEN Coins[receipt'[t].order] ELSE 0)
                - (IF Reversed(t)' THEN Coins[receipt'[t].order] ELSE 0)
           ELSE 0
    BY <1>2 DEF Part, Gained, PaidFor, Credited, Reversed, RechargeKey, ReversalKey
  <2>6. Part(Owner[o], t)' = Part(Owner[o], t) + Coins[o]
    BY <1>2, <1>3, <2>2, <2>3, <2>4, <2>5, PartIs
  <2>7. gold' = [gold EXCEPT ![Owner[o]][COINS] = @ + Coins[o]]
    BY <2>1, <2>2
  <2> HIDE DEF k
  <2> QED BY <1>2, <2>2, <2>3, <2>6, <2>7, CoinsMove DEF PurchaseInv
<1> QED BY <1>4, <1>5

LEMMA ReverseExplains ==
    ASSUME PurchaseInv, PurchaseInv', Monotone, CoinsArePaidFor, NEW n \in Handlers, Reverse(n)
    PROVE  CoinsArePaidFor'
<1>1. n \in Procs /\ JobOk(n)
  BY DEF Procs, PurchaseInv, JobInv
<1>2. PICK o \in Orders, t \in Tokens :
        o = job[n].order /\ t = job[n].token /\ receipt[t].order = o
  BY <1>1 DEF Reverse, JobOk, Refunding
<1> DEFINE k == ReversalKey(t)
<1>3. W!Post(k, GoldOf("reverse", o)) /\ receipt' = receipt
  BY <1>2 DEF Reverse
<1>4. CASE k \in used
  <2>1. UNCHANGED <<gold, used>>
    BY <1>3, <1>4 DEF W!Post, W!accounts
  <2> QED BY <2>1, CoinsStay
<1>5. CASE k \notin used
  <2>1. gold' = [gold EXCEPT ![Owner[o]][COINS] = @ + W!Signed(GoldOf("reverse", o))]
        /\ used' = used \cup {k}
    BY <1>3, <1>5 DEF W!Post, W!Move, GoldOf
  <2>2. W!Signed(GoldOf("reverse", o)) = -Coins[o] /\ Coins[o] \in Int /\ -Coins[o] \in Int
    BY <1>2, OrderAssumption DEF W!Signed, W!Unmoved, W!Credits, GoldOf
  <2>3. ~Reversed(t) /\ Reversed(t)' /\ (Credited(t)' <=> Credited(t))
        /\ \A s \in Tokens : s # t => /\ Credited(s)' <=> Credited(s)
                                      /\ Reversed(s)' <=> Reversed(s)
    <3>1. /\ k \in used'
          /\ \A s \in Tokens : /\ ReversalKey(s) \in used' <=> ReversalKey(s) \in used \/ s = t
                               /\ RechargeKey(s) \in used' <=> RechargeKey(s) \in used
      BY <1>2, <2>1, KeysDiffer
    <3> QED BY <1>2, <1>5, <3>1 DEF Credited, Reversed, RechargeKey, ReversalKey
  <2>4. PaidFor(Owner[o], t) /\ PaidFor(Owner[o], t)'
    BY <1>2, <1>3, OrderAssumption DEF PaidFor
  <2>5. Part(Owner[o], t)' = IF PaidFor(Owner[o], t)'
           THEN (IF Credited(t)' THEN Coins[receipt'[t].order] ELSE 0)
                - (IF Reversed(t)' THEN Coins[receipt'[t].order] ELSE 0)
           ELSE 0
    BY <1>2 DEF Part, Gained, PaidFor, Credited, Reversed, RechargeKey, ReversalKey
  <2>6. Part(Owner[o], t)' = Part(Owner[o], t) + -Coins[o]
    BY <1>2, <1>3, <2>2, <2>3, <2>4, <2>5, PartIs
  <2>7. gold' = [gold EXCEPT ![Owner[o]][COINS] = @ + -Coins[o]]
    BY <2>1, <2>2
  <2> HIDE DEF k
  <2> QED BY <1>2, <2>2, <2>3, <2>6, <2>7, CoinsMove DEF PurchaseInv
<1> QED BY <1>4, <1>5

(* The rows behind the coins: used keys stay used, receipts keep orders.   *)
LEMMA NextMonotone == ASSUME PurchaseInv, [PurchaseNext]_purchaseVars PROVE Monotone
<1>1. ASSUME UNCHANGED <<used, receipt>> PROVE Monotone
  BY <1>1 DEF Monotone
<1>2. CASE UNCHANGED purchaseVars
  BY <1>1, <1>2 DEF purchaseVars
<1>3. ASSUME NEW r \in Requests, RecordReceipt(r) PROVE Monotone
  <2>1. CASE UNCHANGED receipt
    BY <1>1, <1>3, <2>1 DEF RecordReceipt
  <2>2. CASE ~UNCHANGED receipt
    <3> DEFINE t == job[r].token
               o == job[r].order
    <3>1. r \in Procs /\ JobOk(r)
      BY DEF Procs, PurchaseInv, JobInv
    <3>2. /\ t \in Tokens /\ job[r].found # Nil => receipt[t].order = o
          /\ used' = used
          /\ job[r].found # Nil \/ receipt[t] = NoReceipt
          /\ receipt' = [receipt EXCEPT ![t] = [order |-> o, verified |-> FALSE]]
      BY <1>3, <2>2, <3>1 DEF RecordReceipt, JobOk
    <3> QED BY <3>2 DEF Monotone, HasReceipt, NoReceipt, PurchaseInv, PurchaseTypeOK
  <2> QED BY <2>1, <2>2
<1>4. ASSUME NEW r \in Requests, MarkVerified(r) PROVE Monotone
  BY <1>4 DEF MarkVerified, Monotone, PurchaseInv, PurchaseTypeOK, NoReceipt
<1>5. ASSUME NEW r \in Requests, CreditCoins(r) PROVE Monotone
  <2>1. used \subseteq used' /\ receipt' = receipt
    BY <1>5, PostUses DEF CreditCoins
  <2> QED BY <2>1 DEF Monotone
<1>6. ASSUME NEW n \in Handlers, Reverse(n) PROVE Monotone
  <2>1. used \subseteq used' /\ receipt' = receipt
    BY <1>6, PostUses DEF Reverse
  <2> QED BY <2>1 DEF Monotone
<1>7. CASE /\ PurchaseNext
           /\ ~\E r \in Requests : RecordReceipt(r) \/ MarkVerified(r) \/ CreditCoins(r)
           /\ ~\E n \in Handlers : Reverse(n)
  <2>1. UNCHANGED <<used, receipt>>
    BY ZenonT(60), <1>7 DEF PurchaseNext, CreateOrder, ExpireOrder, FulfilStart, FulfilStep,
       VerifyReceipt, FailOrder, CheckReplay, CompleteOrder, Consume, StampConsumed, SweepStep, SweepPick,
       NotifyStep, Notify, MarkRefunded, Pay, Void, Stop
  <2> QED BY <1>1, <2>1
<1> QED BY <1>2, <1>3, <1>4, <1>5, <1>6, <1>7

LEMMA NextExplains ==
    ASSUME PurchaseInv, PurchaseInv', CoinsArePaidFor, [PurchaseNext]_purchaseVars
    PROVE  CoinsArePaidFor'
<1>1. Monotone
  BY NextMonotone
<1>2. ASSUME NEW r \in Requests, CreditCoins(r) PROVE CoinsArePaidFor'
  BY <1>1, <1>2, CreditCoinsExplains
<1>3. ASSUME NEW n \in Handlers, Reverse(n) PROVE CoinsArePaidFor'
  BY <1>1, <1>3, ReverseExplains
<1>4. CASE /\ ~\E r \in Requests : CreditCoins(r)
           /\ ~\E n \in Handlers : Reverse(n)
  <2>1. UNCHANGED <<gold, used>>
    BY ZenonT(60), <1>4 DEF PurchaseNext, purchaseVars, CreateOrder, ExpireOrder, FulfilStart,
       FulfilStep, VerifyReceipt, FailOrder, CheckReplay, RecordReceipt, MarkVerified, CompleteOrder, Consume, StampConsumed,
       SweepStep, SweepPick, NotifyStep, Notify, MarkRefunded, Pay, Void, Stop
  <2> QED BY <1>1, <2>1, CoinsStay
<1> QED BY <1>2, <1>3, <1>4

LEMMA InitExplains == PurchaseInit => CoinsArePaidFor
<1> SUFFICES ASSUME PurchaseInit, NEW u \in Customers PROVE gold[u][COINS] = SumFunction(Gained(u))
  BY DEF CoinsArePaidFor
<1>1. \A t \in Tokens : Gained(u)[t] = 0
  BY DEF PurchaseInit, Gained, PaidFor, NoReceipt
<1>2. Earned(u) = 0
  BY <1>1, FiniteAssumption, SumZero DEF Earned
<1> QED BY <1>2, EarnedIs DEF PurchaseInit

(* Whatever is submitted twice, replayed, retried by an admin or reported  *)
(* refunded twice, a user's coins are exactly those of the purchases that  *)
(* paid for that user's orders, less those taken back.                     *)
THEOREM CoinsAreAlwaysPaidFor == PurchaseSpec => []CoinsArePaidFor
<1>1. PurchaseInit => CoinsArePaidFor
  BY InitExplains
<1>2. PurchaseInv /\ PurchaseInv' /\ CoinsArePaidFor /\ [PurchaseNext]_purchaseVars => CoinsArePaidFor'
  BY NextExplains
<1> QED BY <1>1, <1>2, Invariance, PTL DEF PurchaseSpec
=============================================================================

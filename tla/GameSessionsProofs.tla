-------------------------- MODULE GameSessionsProofs --------------------------
(***************************************************************************)
(* One decision per match, and every stake paid out or given back, for any *)
(* number of players, bots, requests, reports, crashes and failing         *)
(* refunds, any sides, stake and rake.  Assumed: requests do not reach a   *)
(* match that is still collecting its stakes (~Early).                     *)
(*                                                                         *)
(* The argument is about two locks.  The start works under the lobby's     *)
(* lock and everything that ends a match under the session's; while the    *)
(* first is held nobody else is at work (LockInv), so whoever writes a     *)
(* decision is alone with a match that is still open (ActiveInv), with the *)
(* pot its decision was reckoned from (PotInv).                            *)
(***************************************************************************)
EXTENDS GameSessions, FiniteSetTheorems, WellFoundedInduction, TLAPS

Starts == {"stake", "record", "started"}
Refunds == {"refund", "book"}
Full == Stake * Cardinality(Humans)
Resting(r) == pc[r] \in {"idle", "done"}
StakesTaken == Stake > 0 => \A p \in Humans : StakeKey(p) \in used

(* A stake or refund that is being recorded is somebody's, and so is a     *)
(* host role that is being handed over.                                    *)
TodoInv ==
    \A r \in Procs :
        /\ pc[r] \in {"record", "book"} => job[r].todo # {}
        /\ pc[r] = "host" => job[r].winners # {} /\ job[r].winners \subseteq Humans

(* Players' requests are players', and the sweeps are no request.          *)
CallerInv ==
    \A r \in Procs :
        /\ pc[r] \in {"report", "confirm", "forfeit", "out", "host"} => r \in Reqs /\ Caller[r] \in Humans
        /\ pc[r] \in Starts => r \in Reqs

(* Before the start there is nothing.                                      *)
FreshInv ==
    row.status = "none" =>
        /\ used = {} /\ booked = {} /\ result = None /\ pending = None /\ index = "no"
        /\ \A r \in Procs : Resting(r) /\ lock["session"] # r /\ lock["lobby"] # r

(* Who starts a match is alone with it; who ends it holds its lock.        *)
LockInv ==
    /\ lock["lobby"] \in Procs =>
           /\ pc[lock["lobby"]] \in Starts \cup Refunds
           /\ \A q \in Procs : q # lock["lobby"] => Resting(q)
           /\ lock["session"] \notin Procs /\ pending = None /\ index = "no"
    /\ \A r \in Procs :
           /\ pc[r] \in Starts => lock["lobby"] = r
           /\ pc[r] \in Refunds => lock["lobby"] = r \/ lock["session"] = r
           /\ pc[r] \in {"commit", "out"} => lock["session"] = r
           /\ Resting(r) => lock["session"] # r

(* A decision is written over a match that is still open.                  *)
ActiveInv ==
    /\ \A r \in Procs : pc[r] \in Starts \cup Refunds \cup {"commit"} => row.status = "ACTIVE"
    /\ result # None <=> row.status = "COMPLETED"

(* The pot every decision reckons with is the row's, and it was collected. *)
PotInv ==
    /\ row.pot # 0 => StakesTaken /\ row.pot = Full
    /\ \A r \in Procs :
           /\ pc[r] \in {"report", "confirm", "forfeit", "settle", "commit"} => job[r].pot = row.pot
           /\ pc[r] = "commit" => row.pot = Full
           /\ pc[r] \in {"stake", "record"} => row.pot = 0
    /\ result # None => StakesTaken /\
                \A p \in Humans : result.paid[p] = Share(Full, result.winners, p)

(* How far the start has come.                                             *)
StakeInv ==
    \A r \in Procs :
        /\ pc[r] \in {"stake", "record"} => \A p \in Humans :
               /\ Stake > 0 => p \in job[r].todo \/ StakeKey(p) \in used
               /\ StakeKey(p) \in used => 
                      StakeKey(p) \in booked \/ (pc[r] = "record" /\ p = First(job[r].todo))
        /\ pc[r] = "record" => StakeKey(First(job[r].todo)) \in used

(* The wallet's keys tell how the match has ended.                         *)
KeyInv ==
    /\ \A p \in Humans : PayoutKey(p) \in used => row.status = "COMPLETED"
    /\ faults = 0 => \A p \in Humans : RefundKey(p) \in used =>
           row.status \in Closed \/ \E r \in Procs : pc[r] \in Refunds

(* Without a failure every stake taken is on its participant's row, and is *)
(* still to be given back until its refund is in the wallet.               *)
RefundInv ==
    faults = 0 =>
        /\ \A p \in Humans : StakeKey(p) \in used =>
               part[p].staked \/ \E r \in Procs : pc[r] = "record" /\ p = First(job[r].todo)
        /\ row.status = "ACTIVE" /\ (\A r \in Procs : pc[r] \notin Refunds) =>
               \A p \in Humans : ~part[p].refunded /\ part[p].status \in {"PLAYING", "LOST"}
        /\ \A r \in Procs : pc[r] \in Refunds => \A p \in Humans :
               StakeKey(p) \in used => RefundKey(p) \in used \/ p \in job[r].todo
        /\ \A r \in Procs : pc[r] = "book" => RefundKey(First(job[r].todo)) \in used
        /\ row.status \in Closed => \A p \in Humans : StakeKey(p) \in used => RefundKey(p) \in used

(* Who has been let out under the lock leaves two sides behind.            *)
OutInv ==
    \A r \in Procs : pc[r] = "out" => Playing(Caller[r]) /\ Verdict(Caller[r]) = {}

(* A report is in one place at a time: waiting, taken, paid or disputed.   *)
Untouched(n) == n <= reports /\ n \notin disputed /\ (pending # None => n # pending.id)
ReportInv ==
    /\ disputed \subseteq 1 .. reports
    /\ pending # None => pending.id \notin disputed /\ pending.id <= reports
    /\ \A r \in Procs : pc[r] \in {"settle", "commit"} => Untouched(job[r].report)
    /\ result # None => Untouched(result.report)

BaseInv == TypeOK /\ TodoInv /\ CallerInv /\ ReportInv

IInv == /\ BaseInv /\ FreshInv /\ LockInv /\ ActiveInv /\ PotInv /\ StakeInv /\ KeyInv
        /\ RefundInv /\ OutInv /\ NobodyStranded

-----------------------------------------------------------------------------
LEMMA LeastNat == ASSUME NEW T, T \subseteq Nat, T # {} PROVE \E n \in T : \A m \in T : n <= m
<1> DEFINE less == {ss \in Nat \X Nat : ss[1] < ss[2]}
<1>1. IsWellFoundedOn(less, Nat)
  BY NatLessThanWellFounded DEF OpToRel
<1>2. \E n \in T : \A m \in T : ~(<<m, n>> \in less)
  <2>1. ASSUME NEW R, IsWellFoundedOn(R, Nat)
        PROVE  \E n \in T : \A m \in T : ~(<<m, n>> \in R)
    BY <2>1, WFMin, Zenon
  <2> HIDE DEF less
  <2> QED
    BY <1>1, <2>1
<1>3. PICK n \in T : \A m \in T : ~(<<m, n>> \in less)
  BY <1>2
<1>4. \A m \in T : ~(m < n) /\ m \in Nat /\ n \in Nat
  BY <1>3
<1> QED
  BY <1>4

LEMMA LeastNats == \A T \in SUBSET Nat : T # {} => \E n \in T : \A m \in T : n <= m
BY LeastNat

LEMMA PlayersFinite == IsFiniteSet(Players) /\ IsFiniteSet(Humans) /\ Humans # {}
<1>1. Seats \in [1 .. Len(Seats) -> Players] /\ Len(Seats) \in Nat
  BY SeatsAssumption
<1>2. \A p \in Players : \E i \in 1 .. Len(Seats) : Seats[i] = p
  BY <1>1, SeatsAssumption DEF Range
<1>3. Seats \in Surjection(1 .. Len(Seats), Players)
  BY <1>1, <1>2 DEF Surjection
<1>4. IsFiniteSet(1 .. Len(Seats))
  <2>1. \A n \in Nat : IsFiniteSet(1 .. n)
    BY FS_Interval
  <2> QED
    BY <1>1, <2>1
<1>5. IsFiniteSet(Players)
  BY <1>3, <1>4, FS_Surjection
<1> QED
  BY <1>5, FS_Subset, SeatsAssumption DEF Players

LEMMA SeatIs == ASSUME NEW p \in Players PROVE SeatOf(p) \in Nat
<1>1. Seats \in [1 .. Len(Seats) -> Players] /\ Len(Seats) \in Nat
  BY SeatsAssumption
<1>2. \E i \in DOMAIN Seats : Seats[i] = p
  BY SeatsAssumption DEF Range
<1> QED
  BY <1>1, <1>2 DEF SeatOf

(* The first of some players by seat is one of them.                       *)
LEMMA FirstIs == ASSUME NEW S \in SUBSET Players, S # {} PROVE First(S) \in S
<1> DEFINE T == {SeatOf(p) : p \in S}
<1>1. T \subseteq Nat /\ T # {}
  BY SeatIs
<1>2. PICK n \in T : \A m \in T : n <= m
  <2> HIDE DEF T
  <2> QED
    BY <1>1, LeastNats
<1>3. PICK p \in S : SeatOf(p) = n
  OBVIOUS
<1>4. \A q \in S : SeatOf(p) <= SeatOf(q)
  BY <1>2, <1>3
<1> QED
  BY <1>4 DEF First

LEMMA CardNat == ASSUME NEW S \in SUBSET Players
                 PROVE  IsFiniteSet(S) /\ Cardinality(S) \in Nat /\ (S # {} => Cardinality(S) > 0)
BY PlayersFinite, FS_Subset, FS_CardinalityType, FS_EmptySet

LEMMA FullIs == Full \in Nat /\ (Stake > 0 => Full > 0)
<1> DEFINE n == Cardinality(Humans)
<1>1. n \in Nat /\ n > 0
  BY PlayersFinite, CardNat DEF Players
<1>2. \A s, k \in Nat : s * k \in Nat /\ (s > 0 /\ k > 0 => s * k > 0)
  OBVIOUS
<1> HIDE DEF n
<1>3. Stake * n \in Nat /\ (Stake > 0 => Stake * n > 0)
  BY <1>1, <1>2, StakeAssumption
<1> QED
  BY <1>3 DEF n, Full

(* What is left of a pot after the rake is split into whole coins.         *)
LEMMA ShareIs == ASSUME NEW pot \in Nat, NEW ws \in SUBSET Players, NEW p \in Players
                 PROVE  Share(pot, ws, p) \in Nat
<1> DEFINE total == pot - Rake(pot)
           n == Cardinality(ws)
<1>1. CASE p \notin ws \cap Humans
  BY <1>1 DEF Share
<1>2. CASE p \in ws \cap Humans
  <2>1. n \in Nat /\ n > 0
    BY <1>2, CardNat
  <2>2. Rake(pot) \in Nat /\ Rake(pot) <= pot
    <3>1. \A b \in 0 .. 10000, t \in Nat : (t * b) \in Nat /\ t * b <= t * 10000
      OBVIOUS
    <3>2. \A a \in Nat : (a \div 10000) \in Nat /\ (a <= pot * 10000 => a \div 10000 <= pot)
      OBVIOUS
    <3> DEFINE a == pot * RakeBps
    <3>3. a \in Nat /\ a <= pot * 10000
      <4>1. RakeBps \in 0 .. 10000
        BY StakeAssumption
      <4>2. \A b \in 0 .. 10000 : pot * b \in Nat /\ pot * b <= pot * 10000
        BY <3>1
      <4> QED
        BY <4>1, <4>2
    <3>4. Rake(pot) = a \div 10000
      BY DEF Rake
    <3> HIDE DEF a
    <3> QED
      BY <3>2, <3>3, <3>4
  <2>3. total \in Nat
    BY <2>2
  <2>4. \A a \in Nat, b \in Nat : b > 0 => (a \div b) \in Nat
    OBVIOUS
  <2> HIDE DEF total, n
  <2>5. (total \div n) \in Nat
    BY <2>1, <2>3, <2>4
  <2>6. \A x \in Nat : x + 1 \in Nat /\ x + 0 \in Nat
    OBVIOUS
  <2> QED
    BY <1>2, <2>5, <2>6 DEF Share, total, n
<1> QED
  BY <1>1, <1>2

(* The keys of stakes, payouts and refunds are all different.              *)
LEMMA Keys ==
  \A p, q \in Humans :
     /\ StakeKey(p) \in WalletKeys /\ PayoutKey(p) \in WalletKeys /\ RefundKey(p) \in WalletKeys
     /\ StakeKey(p) # PayoutKey(q) /\ StakeKey(p) # RefundKey(q) /\ PayoutKey(p) # RefundKey(q)
     /\ StakeKey(p) = StakeKey(q) => p = q
     /\ PayoutKey(p) = PayoutKey(q) => p = q
     /\ RefundKey(p) = RefundKey(q) => p = q
BY DEF StakeKey, PayoutKey, RefundKey, WalletKeys

-----------------------------------------------------------------------------
(* What a process does when it moves on, decides or finishes: only it and  *)
(* its locks change.                                                       *)

ProcsOK == /\ lock \in [Locks -> Procs \cup {None, Gone}]
           /\ pc \in [Procs -> PcType] /\ job \in [Procs -> JobType]

Alone(r) == \A q \in Procs : q # r => pc'[q] = pc[q] /\ job'[q] = job[q]

LEMMA ProcsAre == /\ Monitor \in Procs /\ None \notin Procs /\ Gone \notin Procs
                  /\ \A r \in Reqs : r \in Procs /\ r # Monitor
                  /\ "lobby" \in Locks /\ "session" \in Locks /\ "lobby" # "session"
BY CallerAssumption DEF Procs, Locks

LEMMA NoJobIs == NoJob \in JobType
BY StakeAssumption DEF NoJob, JobType, Closed

LEMMA JobTodo == \A j \in JobType : \A S \in SUBSET Humans : [j EXCEPT !.todo = S] \in JobType
BY DEF JobType

LEMMA JobPot == \A j \in JobType : \A n \in Nat : [j EXCEPT !.pot = n] \in JobType
BY DEF JobType

LEMMA JobWinners == \A j \in JobType : \A S \in SUBSET Players : [j EXCEPT !.winners = S] \in JobType
BY DEF JobType

LEMMA JobClose == \A j \in JobType : \A c \in Closed : [j EXCEPT !.close = c] \in JobType
BY DEF JobType

LEMMA JobAborts == [NoJob EXCEPT !.close = "CANCELLED"] \in JobType
<1>1. \A c \in Closed : [NoJob EXCEPT !.close = c] \in JobType
  BY NoJobIs DEF JobType
<1> QED
  BY <1>1 DEF Closed

LEMMA Goes ==
  ASSUME ProcsOK, NEW r \in Procs, NEW l \in PcType, Goto(r, l)
  PROVE  /\ pc' \in [Procs -> PcType] /\ pc'[r] = l
         /\ \A q \in Procs : q # r => pc'[q] = pc[q]
BY DEF ProcsOK, Goto

LEMMA Takes ==
  ASSUME ProcsOK, NEW r \in Procs, NEW l \in Locks, Take(r, l)
  PROVE  /\ lock' \in [Locks -> Procs \cup {None, Gone}]
         /\ lock[l] = None /\ lock'[l] = r /\ \A k \in Locks : k # l => lock'[k] = lock[k]
BY DEF ProcsOK, Take

LEMMA Finishes ==
  ASSUME ProcsOK, NEW r \in Procs, Finish(r)
  PROVE  /\ ProcsOK' /\ Alone(r) /\ pc'[r] \in {"idle", "done"} /\ job'[r] = NoJob
         /\ \A l \in Locks : lock'[l] = IF lock[l] = r THEN None ELSE lock[l]
<1>1. pc' \in [Procs -> PcType] /\ pc'[r] \in {"idle", "done"} /\ \A q \in Procs : q # r => pc'[q] = pc[q]
  BY DEF Finish, Goto, ProcsOK, PcType
<1>2. job' \in [Procs -> JobType] /\ job'[r] = NoJob /\ \A q \in Procs : q # r => job'[q] = job[q]
  BY NoJobIs DEF Finish, ProcsOK
<1>3. /\ lock' \in [Locks -> Procs \cup {None, Gone}]
      /\ \A l \in Locks : lock'[l] = IF lock[l] = r THEN None ELSE lock[l]
  BY DEF Finish, Free, ProcsOK
<1> QED
  BY <1>1, <1>2, <1>3 DEF Alone, ProcsOK

LEMMA Decides ==
  ASSUME ProcsOK, NEW r \in Procs, NEW pot \in Nat, NEW ws \in SUBSET Players,
         NEW n \in 0 .. MaxReports, Decide(r, pot, ws, n)
  PROVE  /\ pc' \in [Procs -> PcType] /\ job' \in [Procs -> JobType] /\ Alone(r)
         /\ \/ pc'[r] = "abort"
            \/ pc'[r] = "settle" /\ job'[r].pot = pot /\ job'[r].report = n
<1> DEFINE a == [NoJob EXCEPT !.close = "CANCELLED"]
           w == IF ws \cap Humans = {} THEN ws ELSE ws \cap Humans
           s == [NoJob EXCEPT !.pot = pot, !.report = n, !.winners = w]
<1>w. w \in SUBSET Players
  OBVIOUS
<1>1. a \in JobType
  BY JobAborts
<1>s. s \in JobType /\ s.pot = pot /\ s.report = n
  <2> HIDE DEF w
  <2> QED
    BY <1>w DEF NoJob, JobType, Closed
<1> HIDE DEF a, s, w
<1>2. CASE pc' = [pc EXCEPT ![r] = "abort"] /\ job' = [job EXCEPT ![r] = a]
  BY <1>1, <1>2 DEF Alone, ProcsOK, PcType, Waiting
<1>3. CASE pc' = [pc EXCEPT ![r] = "settle"] /\ job' = [job EXCEPT ![r] = s]
  BY <1>s, <1>3 DEF Alone, ProcsOK, PcType, Waiting
<1> QED
  BY <1>2, <1>3 DEF Decide, Goto, a, s, w

-----------------------------------------------------------------------------
(* Type correctness.                                                       *)

MoneyOK == gold \in [Humans -> [{GOLD} -> Int]] /\ used \subseteq WalletKeys

RowsOK ==
    /\ row \in [status : Closed \cup {"none", "ACTIVE", "COMPLETED"}, pot : Nat,
                host : Humans \cup {None}]
    /\ part \in [Players -> [status : {"none", "PLAYING", "LOST", "WON", "REFUNDED"},
                             staked : BOOLEAN, refunded : BOOLEAN]]
    /\ booked \subseteq WalletKeys /\ result \in ResultType \cup {None} /\ started \in BOOLEAN

RedisOK ==
    /\ moved \in BOOLEAN /\ pending \in ReportType \cup {None} /\ index \in {"no", "waiting", "due"}
    /\ reports \in 0 .. MaxReports /\ disputed \subseteq 1 .. MaxReports

LEMMA TypeParts == TypeOK <=> MoneyOK /\ RowsOK /\ RedisOK /\ ProcsOK /\ faults \in 0 .. MaxFaults
BY DEF TypeOK, MoneyOK, RowsOK, RedisOK, ProcsOK

LEMMA Posts ==
  ASSUME MoneyOK, NEW k \in WalletKeys, NEW kind \in {"moveCredit", "moveDebit"},
         NEW p \in Humans, W!Post(k, Gold(kind, p, Stake))
  PROVE  MoneyOK' /\ used' = used \cup {k}
<1>1. CASE k \in used
  BY <1>1 DEF W!Post, W!accounts, MoneyOK
<1>2. CASE k \notin used
  <2>1. /\ used' = used \cup {k}
        /\ gold' = [gold EXCEPT ![p][GOLD] = @ + W!Signed(Gold(kind, p, Stake))]
    BY <1>2 DEF W!Post, W!Move, Gold
  <2>2. W!Signed(Gold(kind, p, Stake)) \in Int
    BY StakeAssumption DEF W!Signed, W!Unmoved, Gold
  <2> QED
    BY <2>1, <2>2 DEF MoneyOK
<1> QED
  BY <1>1, <1>2

(* The next one of a loop is a human, and one is left out of the rest.     *)
LEMMA NextIs ==
  ASSUME ProcsOK, NEW r \in Procs, job[r].todo # {}
  PROVE  First(job[r].todo) \in job[r].todo /\ First(job[r].todo) \in Humans
<1>1. job[r].todo \in SUBSET Humans
  BY DEF ProcsOK, JobType
<1> QED
  BY <1>1, FirstIs DEF Players

(* What moves coins.                                                       *)
LEMMA WalletMoves ==
  [Next]_vars => \/ UNCHANGED wallet
                 \/ \E r \in Procs : StakeDebit(r) \/ RefundCredit(r) \/ SettleCommit(r)
<1>1. ASSUME NEW r \in Procs,
             \/ StakeRecord(r) \/ PotSet(r) \/ LobbyStarted(r) \/ AbortLock(r) \/ RefundRecord(r)
             \/ Close(r) \/ SettleLock(r) \/ ForfeitOut(r) \/ HandOver(r) \/ Busy(r)
             \/ RefundFails(r) \/ Crash(r)
      PROVE  UNCHANGED wallet
  BY <1>1 DEF StakeRecord, PotSet, LobbyStarted, AbortLock, RefundRecord, Close, SettleLock,
     ForfeitOut, HandOver, Busy, RefundFails, Crash
<1>2. ASSUME NEW r \in Procs, ReportLocked(r) \/ ConfirmLocked(r) \/ DueLocked(r) \/ ForfeitLock(r)
      PROVE  UNCHANGED wallet
  BY <1>2 DEF ReportLocked, ConfirmLocked, DueLocked, ForfeitLock, Unchanged
<1>3. ASSUME NEW r \in Reqs, Request(r) PROVE UNCHANGED wallet
  BY <1>3 DEF Request, StartSession, Cancel, ReportRead, ConfirmRead, Dispute, ForfeitRead, Unchanged
<1>4. ASSUME \/ Stale(Monitor) \/ DueScan(Monitor) \/ WindowPasses \/ PendingExpires
             \/ \E p \in Players : Move(p)
             \/ \E l \in Locks : LockExpires(l)
      PROVE  UNCHANGED wallet
  BY <1>4 DEF Stale, DueScan, WindowPasses, PendingExpires, Move, LockExpires, Unchanged
<1> QED
  BY <1>1, <1>2, <1>3, <1>4 DEF Next, Continue, vars, wallet

LEMMA MoneyStep == ASSUME TypeOK, [Next]_vars PROVE MoneyOK'
<1> USE TypeParts
<1>1. ASSUME NEW r \in Procs, StakeDebit(r) PROVE MoneyOK'
  <2> DEFINE p == First(job[r].todo)
  <2>1. p \in Humans
    BY <1>1, NextIs DEF StakeDebit
  <2>2. W!Post(StakeKey(p), Gold("moveDebit", p, Stake)) \/ UNCHANGED wallet
    BY <1>1 DEF StakeDebit
  <2> HIDE DEF p
  <2>3. CASE W!Post(StakeKey(p), Gold("moveDebit", p, Stake))
    BY <2>1, <2>3, Keys, Posts
  <2> QED
    BY <2>2, <2>3 DEF wallet, MoneyOK
<1>2. ASSUME NEW r \in Procs, RefundCredit(r) PROVE MoneyOK'
  <2> DEFINE p == First(job[r].todo)
  <2>1. p \in Humans
    BY <1>2, NextIs DEF RefundCredit
  <2>2. W!Post(RefundKey(p), Gold("moveCredit", p, Stake))
    BY <1>2 DEF RefundCredit
  <2> HIDE DEF p
  <2> QED
    BY <2>1, <2>2, Keys, Posts
<1>3. ASSUME NEW r \in Procs, SettleCommit(r) PROVE MoneyOK'
  <2>1. Payouts(r) \in [Players -> Nat]
    BY ShareIs DEF Payouts, ProcsOK, JobType
  <2>2. gold' = [p \in Humans |-> [c \in {GOLD} |-> gold[p][c] + Payouts(r)[p]]]
    BY <1>3 DEF SettleCommit
  <2>3. gold' \in [Humans -> [{GOLD} -> Int]]
    <3>1. \A p \in Humans : gold[p][GOLD] \in Int /\ Payouts(r)[p] \in Int
      BY <2>1 DEF MoneyOK, Players
    <3> QED
      BY <2>2, <3>1
  <2>4. used' \subseteq WalletKeys
    BY <1>3, Keys DEF SettleCommit, MoneyOK
  <2> QED
    BY <2>3, <2>4 DEF MoneyOK
<1>4. ASSUME UNCHANGED wallet PROVE MoneyOK'
  BY <1>4 DEF wallet, MoneyOK
<1> QED
  BY <1>1, <1>2, <1>3, <1>4, WalletMoves

(* What writes the database: the requests and steps below, and no other.   *)
LEMMA RowsMove ==
  [Next]_vars => \/ UNCHANGED rows
                 \/ \E r \in Reqs : StartSession(r)
                 \/ \E r \in Procs : \/ StakeRecord(r) \/ PotSet(r) \/ LobbyStarted(r)
                                     \/ RefundRecord(r) \/ Close(r) \/ SettleCommit(r)
                                     \/ ForfeitOut(r) \/ HandOver(r)
<1>1. ASSUME NEW r \in Procs,
             \/ StakeDebit(r) \/ AbortLock(r) \/ RefundCredit(r) \/ SettleLock(r) \/ Busy(r)
             \/ RefundFails(r) \/ Crash(r)
      PROVE  UNCHANGED rows
  BY <1>1 DEF StakeDebit, AbortLock, RefundCredit, SettleLock, Busy, RefundFails, Crash
<1>2. ASSUME NEW r \in Procs, ReportLocked(r) \/ ConfirmLocked(r) \/ DueLocked(r) \/ ForfeitLock(r)
      PROVE  UNCHANGED rows
  BY <1>2 DEF ReportLocked, ConfirmLocked, DueLocked, ForfeitLock, Unchanged
<1>3. ASSUME NEW r \in Reqs,
             Cancel(r) \/ ReportRead(r) \/ ConfirmRead(r) \/ Dispute(r) \/ ForfeitRead(r)
      PROVE  UNCHANGED rows
  BY <1>3 DEF Cancel, ReportRead, ConfirmRead, Dispute, ForfeitRead, Unchanged
<1>4. ASSUME \/ Stale(Monitor) \/ DueScan(Monitor) \/ WindowPasses \/ PendingExpires
             \/ \E p \in Players : Move(p)
             \/ \E l \in Locks : LockExpires(l)
      PROVE  UNCHANGED rows
  BY <1>4 DEF Stale, DueScan, WindowPasses, PendingExpires, Move, LockExpires, Unchanged
<1>5. UNCHANGED vars => UNCHANGED rows
  BY DEF vars, rows
<1> QED
  BY <1>1, <1>2, <1>3, <1>4, <1>5 DEF Next, Continue, Request

PartRow == [status : {"none", "PLAYING", "LOST", "WON", "REFUNDED"},
            staked : BOOLEAN, refunded : BOOLEAN]

LEMMA PartParts ==
  /\ NoPart \in PartRow /\ [NoPart EXCEPT !.status = "PLAYING"] \in PartRow
  /\ \A x \in PartRow : /\ [x EXCEPT !.staked = TRUE] \in PartRow
                        /\ [x EXCEPT !.status = "REFUNDED", !.refunded = TRUE] \in PartRow
                        /\ \A s \in {"LOST", "WON"} : [x EXCEPT !.status = s] \in PartRow
<1>1. NoPart \in PartRow /\ [NoPart EXCEPT !.status = "PLAYING"] \in PartRow
  BY DEF NoPart, PartRow
<1>2. \A x \in PartRow : [x EXCEPT !.staked = TRUE] \in PartRow
  BY DEF PartRow
<1>3. \A x \in PartRow : [x EXCEPT !.status = "REFUNDED", !.refunded = TRUE] \in PartRow
  BY DEF PartRow
<1>4. \A x \in PartRow : \A s \in {"LOST", "WON"} : [x EXCEPT !.status = s] \in PartRow
  BY DEF PartRow
<1> QED
  BY <1>1, <1>2, <1>3, <1>4

LEMMA RowsStep == ASSUME TypeOK, TodoInv, [Next]_vars PROVE RowsOK'
<1> USE TypeParts DEF rows
<1>s. part \in [Players -> PartRow]
  BY DEF RowsOK, PartRow
<1>1. ASSUME NEW r \in Reqs, StartSession(r) PROVE RowsOK'
  <2>1. Caller[r] \in Humans
    BY <1>1, SeatsAssumption DEF StartSession
  <2>2. part' \in [Players -> PartRow]
    BY <1>1, PartParts DEF StartSession
  <2> QED
    BY <1>1, <2>1, <2>2 DEF StartSession, RowsOK, PartRow
<1>2. ASSUME NEW r \in Procs, StakeRecord(r) PROVE RowsOK'
  <2> DEFINE p == First(job[r].todo)
  <2>1. booked' = booked \cup {StakeKey(p)} /\ part' = [part EXCEPT ![p].staked = TRUE]
        /\ UNCHANGED <<row, result, started>>
    BY <1>2 DEF StakeRecord
  <2>2. part' \in [Players -> PartRow]
    <3> HIDE DEF p
    <3>1. part' = [part EXCEPT ![p] = [part[p] EXCEPT !.staked = TRUE]]
      BY <2>1
    <3> QED
      BY <3>1, <1>s, PartParts
  <2>3. p \in Humans
    BY <1>2, NextIs DEF StakeRecord, TodoInv
  <2>4. booked' \subseteq WalletKeys
    BY <2>1, <2>3, Keys DEF RowsOK
  <2> QED
    BY <2>1, <2>2, <2>4 DEF RowsOK, PartRow
<1>3. ASSUME NEW r \in Procs, PotSet(r) PROVE RowsOK'
  <2>1. [row EXCEPT !.pot = Full] \in [status : Closed \cup {"none", "ACTIVE", "COMPLETED"},
                                       pot : Nat, host : Humans \cup {None}]
    BY FullIs DEF RowsOK
  <2> QED
    BY <1>3, <2>1 DEF PotSet, RowsOK, Full
<1>4. ASSUME NEW r \in Procs, LobbyStarted(r) PROVE RowsOK'
  BY <1>4 DEF LobbyStarted, RowsOK
<1>5. ASSUME NEW r \in Procs, RefundRecord(r) PROVE RowsOK'
  <2> DEFINE p == First(job[r].todo)
  <2>1. booked' = booked \cup {RefundKey(p)} /\ UNCHANGED <<row, result, started>>
    BY <1>5 DEF RefundRecord
  <2>2. p \in Humans
    BY <1>5, NextIs DEF RefundRecord, TodoInv
  <2>3. booked' \subseteq WalletKeys
    BY <2>1, <2>2, Keys DEF RowsOK
  <2>4. part' = part \/ part' = [part EXCEPT ![p] = [part[p] EXCEPT !.status = "REFUNDED", !.refunded = TRUE]]
    BY <1>5 DEF RefundRecord
  <2>5. part' \in [Players -> PartRow]
    <3> HIDE DEF p
    <3> QED
      BY <2>4, <1>s, PartParts
  <2> QED
    BY <2>1, <2>3, <2>5 DEF RowsOK, PartRow
<1>6. ASSUME NEW r \in Procs, Close(r) PROVE RowsOK'
  <2>1. job[r].close \in Closed
    BY DEF ProcsOK, JobType
  <2> QED
    BY <1>6, <2>1 DEF Close, RowsOK
<1>7. ASSUME NEW r \in Procs, SettleCommit(r) PROVE RowsOK'
  <2>1. Payouts(r) \in [Players -> Nat] /\ job[r].winners \in SUBSET Players /\ job[r].report \in 0 .. MaxReports
    BY ShareIs DEF Payouts, ProcsOK, JobType
  <2>2. result' \in ResultType
    BY <1>7, <2>1 DEF SettleCommit, ResultType
  <2>3. part' \in [Players -> PartRow]
    <3>1. part' = [p \in Players |-> [part[p] EXCEPT !.status = IF p \in job[r].winners THEN "WON" ELSE "LOST"]]
      BY <1>7 DEF SettleCommit
    <3>2. \A p \in Players : [part[p] EXCEPT !.status = "WON"] \in PartRow /\ [part[p] EXCEPT !.status = "LOST"] \in PartRow
      BY <1>s, PartParts
    <3> QED
      BY <3>1, <3>2
  <2>4. booked' \subseteq WalletKeys
    BY <1>7, Keys DEF SettleCommit, RowsOK
  <2> QED
    BY <1>7, <2>2, <2>3, <2>4 DEF SettleCommit, RowsOK, PartRow
<1>8. ASSUME NEW r \in Procs, ForfeitOut(r) PROVE RowsOK'
  <2>1. part' = [part EXCEPT ![Caller[r]] = [part[Caller[r]] EXCEPT !.status = "LOST"]]
        /\ UNCHANGED <<row, booked, result, started>>
    BY <1>8 DEF ForfeitOut
  <2>2. part' \in [Players -> PartRow]
    BY <2>1, <1>s, PartParts
  <2> QED
    BY <2>1, <2>2 DEF RowsOK, PartRow
<1>9. ASSUME NEW r \in Procs, HandOver(r) PROVE RowsOK'
  <2>1. (CHOOSE p \in job[r].winners : TRUE) \in Humans
    BY <1>9 DEF HandOver, TodoInv
  <2> QED
    BY <1>9, <2>1 DEF HandOver, RowsOK
<1> QED
  BY <1>1, <1>2, <1>3, <1>4, <1>5, <1>6, <1>7, <1>8, <1>9, RowsMove DEF RowsOK

(* What writes the reports: the host's, the answers, the sweep, the clock. *)
reported == <<pending, index, reports, disputed>>

LEMMA ReportsMove ==
  [Next]_vars => \/ UNCHANGED reported
                 \/ \E r \in Procs : ReportLocked(r) \/ ConfirmLocked(r) \/ DueLocked(r)
                 \/ \E r \in Reqs : Dispute(r)
                 \/ WindowPasses \/ PendingExpires
<1>1. ASSUME NEW r \in Procs,
             \/ StakeDebit(r) \/ StakeRecord(r) \/ PotSet(r) \/ LobbyStarted(r) \/ AbortLock(r)
             \/ RefundCredit(r) \/ RefundRecord(r) \/ Close(r) \/ SettleLock(r) \/ SettleCommit(r)
             \/ ForfeitLock(r) \/ ForfeitOut(r) \/ HandOver(r) \/ Busy(r) \/ RefundFails(r) \/ Crash(r)
      PROVE  UNCHANGED reported
  BY <1>1 DEF StakeDebit, StakeRecord, PotSet, LobbyStarted, AbortLock, RefundCredit, RefundRecord,
     Close, SettleLock, SettleCommit, ForfeitLock, ForfeitOut, HandOver, Busy, RefundFails, Crash,
     redis, reported
<1>2. ASSUME NEW r \in Reqs,
             StartSession(r) \/ Cancel(r) \/ ReportRead(r) \/ ConfirmRead(r) \/ ForfeitRead(r)
      PROVE  UNCHANGED reported
  BY <1>2 DEF StartSession, Cancel, ReportRead, ConfirmRead, ForfeitRead, redis, reported
<1>3. ASSUME \/ Stale(Monitor) \/ DueScan(Monitor)
             \/ \E p \in Players : Move(p)
             \/ \E l \in Locks : LockExpires(l)
      PROVE  UNCHANGED reported
  BY <1>3 DEF Stale, DueScan, Move, LockExpires, redis, reported
<1>4. UNCHANGED vars => UNCHANGED reported
  BY DEF vars, reported
<1> QED
  BY <1>1, <1>2, <1>3, <1>4 DEF Next, Continue, Request

LEMMA MovedStep == ASSUME TypeOK, [Next]_vars PROVE moved' \in BOOLEAN
<1>1. ASSUME NEW r \in Procs, Continue(r) \/ RefundFails(r) \/ Crash(r) PROVE moved' \in BOOLEAN
  <2>1. CASE StakeDebit(r) \/ StakeRecord(r) \/ PotSet(r) \/ LobbyStarted(r) \/ AbortLock(r) \/
             RefundCredit(r) \/ RefundRecord(r) \/ SettleLock(r) \/ SettleCommit(r)
    BY <2>1 DEF StakeDebit, StakeRecord, PotSet, LobbyStarted, AbortLock, RefundCredit,
       RefundRecord, SettleLock, SettleCommit, redis, TypeOK
  <2>2. CASE Close(r)
    BY <2>2 DEF Close
  <2>3. CASE ReportLocked(r) \/ ConfirmLocked(r) \/ DueLocked(r) \/ ForfeitLock(r)
    BY <2>3 DEF ReportLocked, ConfirmLocked, DueLocked, ForfeitLock, Unchanged, TypeOK
  <2>4. CASE ForfeitOut(r) \/ HandOver(r) \/ Busy(r) \/ RefundFails(r) \/ Crash(r)
    BY <2>4 DEF ForfeitOut, HandOver, Busy, RefundFails, Crash, redis, TypeOK
  <2> QED
    BY <1>1, <2>1, <2>2, <2>3, <2>4 DEF Continue
<1>2. ASSUME NEW r \in Reqs, Request(r) PROVE moved' \in BOOLEAN
  BY <1>2 DEF Request, StartSession, Cancel, ReportRead, ConfirmRead, Dispute, ForfeitRead,
     Unchanged, redis, TypeOK
<1>3. ASSUME \/ Stale(Monitor) \/ DueScan(Monitor) \/ WindowPasses \/ PendingExpires
             \/ \E p \in Players : Move(p)
             \/ \E l \in Locks : LockExpires(l)
      PROVE  moved' \in BOOLEAN
  BY <1>3 DEF Stale, DueScan, WindowPasses, PendingExpires, Move, LockExpires, Unchanged, redis, TypeOK
<1> QED
  BY <1>1, <1>2, <1>3 DEF Next, vars, TypeOK

LEMMA PendingIs == ASSUME TypeOK, pending # None
                   PROVE  /\ pending \in ReportType /\ pending.id \in 1 .. MaxReports
                          /\ pending.winners \in SUBSET Players /\ pending.by \in Humans
BY DEF TypeOK, ReportType

LEMMA RedisStep == ASSUME TypeOK, CallerInv, [Next]_vars PROVE RedisOK'
<1> USE TypeParts
<1>m. moved' \in BOOLEAN
  BY MovedStep
<1>1. ASSUME UNCHANGED reported PROVE RedisOK'
  BY <1>1, <1>m DEF reported, RedisOK
<1>2. ASSUME NEW r \in Procs, ReportLocked(r) PROVE RedisOK'
  <2>1. Caller[r] \in Humans /\ disputed' = disputed
    BY <1>2 DEF ReportLocked, CallerInv
  <2>2. CASE UNCHANGED <<pending, index, reports>>
    BY <2>1, <2>2, <1>m DEF RedisOK
  <2>3. CASE reports < MaxReports /\ reports' = reports + 1 /\ UNCHANGED <<pending, index>>
    BY <2>1, <2>3, <1>m, StakeAssumption DEF RedisOK
  <2>4. ASSUME NEW ws \in Reportable, reports < MaxReports, reports' = reports + 1, index' = "waiting",
               pending' = [id |-> reports', winners |-> ws, by |-> Caller[r], due |-> FALSE]
        PROVE  RedisOK'
    <3>1. reports' \in 1 .. MaxReports
      BY <2>4, StakeAssumption DEF RedisOK
    <3>2. pending' \in ReportType
      BY <2>1, <2>4, <3>1 DEF ReportType, Reportable
    <3> QED
      BY <2>1, <2>4, <3>1, <3>2, <1>m DEF RedisOK
  <2> QED
    BY <1>2, <2>2, <2>3, <2>4 DEF ReportLocked
<1>3. ASSUME NEW r \in Procs, ConfirmLocked(r) \/ DueLocked(r) PROVE RedisOK'
  BY <1>3, <1>m DEF ConfirmLocked, DueLocked, Answered, RedisOK
<1>4. ASSUME NEW r \in Reqs, Dispute(r) PROVE RedisOK'
  BY <1>4, <1>m, PendingIs DEF Dispute, Answered, MayAnswer, RedisOK
<1>5. ASSUME WindowPasses PROVE RedisOK'
  <2>1. [pending EXCEPT !.due = TRUE] \in ReportType
    BY <1>5, PendingIs DEF WindowPasses, ReportType
  <2> QED
    BY <1>5, <2>1, <1>m DEF WindowPasses, RedisOK
<1>6. ASSUME PendingExpires PROVE RedisOK'
  BY <1>6, <1>m DEF PendingExpires, RedisOK
<1> QED
  BY <1>1, <1>2, <1>3, <1>4, <1>5, <1>6, ReportsMove

LEMMA FaultsStep == ASSUME TypeOK, [Next]_vars PROVE faults' \in 0 .. MaxFaults /\ faults' >= faults
<1>1. ASSUME NEW r \in Procs, Continue(r) PROVE UNCHANGED faults
  BY <1>1 DEF Continue, StakeDebit, StakeRecord, PotSet, LobbyStarted, AbortLock, RefundCredit,
     RefundRecord, SettleLock, SettleCommit, Close, ReportLocked, ConfirmLocked, DueLocked,
     ForfeitLock, Unchanged, ForfeitOut, HandOver, Busy
<1>2. ASSUME NEW r \in Reqs, Request(r) PROVE UNCHANGED faults
  BY <1>2 DEF Request, StartSession, Cancel, ReportRead, ConfirmRead, Dispute, ForfeitRead, Unchanged
<1>3. ASSUME \/ Stale(Monitor) \/ DueScan(Monitor) \/ WindowPasses \/ PendingExpires
             \/ \E p \in Players : Move(p)
             \/ \E l \in Locks : LockExpires(l)
      PROVE  UNCHANGED faults
  BY <1>3 DEF Stale, DueScan, WindowPasses, PendingExpires, Move, LockExpires, Unchanged
<1>4. ASSUME NEW r \in Procs, RefundFails(r) \/ Crash(r) PROVE faults' = faults + 1 /\ faults < MaxFaults
  BY <1>4 DEF RefundFails, Crash, Fault
<1> QED
  BY <1>1, <1>2, <1>3, <1>4, StakeAssumption DEF Next, vars, TypeOK

-----------------------------------------------------------------------------
(* How a process moves through its steps, and what becomes of the locks.   *)

Keeps == lock' = lock
Gets(r, l) == lock[l] = None /\ lock'[l] = r /\ \A k \in Locks : k # l => lock'[k] = lock[k]
Frees(r) == \A l \in Locks : lock'[l] = IF lock[l] = r THEN None ELSE lock[l]

Begins(r) == /\ pc[r] = "idle" /\ pc'[r] = "stake" /\ Gets(r, "lobby")
             /\ r \in Reqs /\ row.status = "none" /\ row'.status = "ACTIVE"
Loops(r) == /\ Keeps /\ pc[r] \in Starts \cup Refunds /\ pc'[r] \in Starts \cup Refunds
            /\ pc[r] \in Refunds => pc'[r] \in Refunds
            /\ pc'[r] \in {"stake", "record"} => pc[r] \in {"stake", "record"}
Rests(r) == pc'[r] \in {"idle", "done"} /\ Frees(r)
Enters(r) ==
    /\ pc[r] = "idle" /\ Keeps
    /\ \/ /\ pc'[r] \in {"report", "confirm", "forfeit"} /\ r \in Reqs /\ Caller[r] \in Humans
          /\ Reachable
       \/ pc'[r] = "abort" /\ (Reachable \/ (row.status = "ACTIVE" /\ ~Starting))
       \/ pc'[r] = "due" /\ index = "due"
Holds(r) ==
    /\ Gets(r, "session")
    /\ \/ /\ row.status = "ACTIVE"
          /\ \/ pc[r] = "abort" /\ pc'[r] = "refund"
             \/ pc[r] = "settle" /\ pc'[r] = "commit"
             \/ pc[r] = "report" /\ pc'[r] \in {"abort", "settle"}
       \/ pc[r] = "forfeit" /\ pc'[r] = "out"
Turns(r) == Keeps /\ pc[r] \in {"confirm", "due", "forfeit"} /\ pc'[r] \in {"abort", "settle"}
Leaves(r) == pc[r] = "out" /\ pc'[r] = "host" /\ Frees(r)
Dies(r) == /\ pc'[r] \in {"idle", "done"}
           /\ \A l \in Locks : lock'[l] = IF lock[l] = r THEN Gone ELSE lock[l]
Still == /\ pc' = pc /\ job' = job
         /\ Keeps \/ \E l \in Locks : lock[l] = Gone /\ lock' = [lock EXCEPT ![l] = None]

Hop(r) == Begins(r) \/ Loops(r) \/ Rests(r) \/ Enters(r) \/ Holds(r) \/ Turns(r) \/ Leaves(r) \/ Dies(r)
Hops(r) == ProcsOK' /\ Alone(r) /\ Hop(r)

LEMMA FinishHops == ASSUME ProcsOK, NEW r \in Procs, Finish(r) PROVE Hops(r)
BY Finishes DEF Hops, Hop, Rests, Frees

LEMMA StartHops ==
  ASSUME TypeOK, NEW r \in Procs,
         StakeDebit(r) \/ StakeRecord(r) \/ PotSet(r) \/ LobbyStarted(r)
  PROVE  Hops(r)
<1> USE TypeParts
<1>1. CASE StakeDebit(r)
  <2> DEFINE S == {q \in Humans : StakeKey(q) \in booked}
  <2>1. /\ pc[r] = "stake" /\ Keeps
        /\ \/ Goto(r, "record") /\ UNCHANGED job
           \/ Goto(r, "refund") /\ job' = [job EXCEPT ![r] = [job[r] EXCEPT !.todo = S]]
    BY <1>1 DEF StakeDebit, Keeps
  <2>2. [job[r] EXCEPT !.todo = S] \in JobType
    BY JobTodo DEF ProcsOK
  <2> HIDE DEF S
  <2>3. job' \in [Procs -> JobType] /\ \A q \in Procs : q # r => job'[q] = job[q]
    BY <2>1, <2>2 DEF ProcsOK
  <2> QED
    BY <2>1, <2>3, Goes DEF Hops, Hop, Loops, Starts, Refunds, Alone, ProcsOK, PcType, Keeps
<1>2. CASE StakeRecord(r)
  <2> DEFINE S == job[r].todo \ {First(job[r].todo)}
  <2>1. pc[r] = "record" /\ Keeps /\ Goto(r, "stake") /\ job' = [job EXCEPT ![r] = [job[r] EXCEPT !.todo = S]]
    BY <1>2 DEF StakeRecord, Keeps
  <2>2. [job[r] EXCEPT !.todo = S] \in JobType
    <3>1. S \in SUBSET Humans
      BY DEF ProcsOK, JobType
    <3> HIDE DEF S
    <3> QED
      BY <3>1, JobTodo DEF ProcsOK
  <2> HIDE DEF S
  <2>3. job' \in [Procs -> JobType] /\ \A q \in Procs : q # r => job'[q] = job[q]
    BY <2>1, <2>2 DEF ProcsOK
  <2> QED
    BY <2>1, <2>3, Goes DEF Hops, Hop, Loops, Starts, Refunds, Alone, ProcsOK, PcType, Keeps
<1>3. CASE PotSet(r)
  <2>1. pc[r] = "stake" /\ Goto(r, "started") /\ Keeps /\ job' = job
    BY <1>3 DEF PotSet, Keeps
  <2> QED
    BY <2>1, Goes DEF Hops, Hop, Loops, Starts, Refunds, Alone, ProcsOK, PcType, Keeps
<1>4. CASE LobbyStarted(r)
  BY <1>4, FinishHops DEF LobbyStarted
<1> QED
  BY <1>1, <1>2, <1>3, <1>4

LEMMA RefundHops ==
  ASSUME TypeOK, NEW r \in Procs,
         RefundCredit(r) \/ RefundRecord(r) \/ RefundFails(r) \/ Close(r) \/ AbortLock(r)
  PROVE  Hops(r)
<1> USE TypeParts
<1>1. CASE RefundCredit(r)
  BY <1>1, Goes DEF RefundCredit, Hops, Hop, Loops, Refunds, Alone, ProcsOK, PcType, Keeps
<1>2. CASE RefundRecord(r) \/ RefundFails(r)
  <2> DEFINE S == job[r].todo \ {First(job[r].todo)}
  <2>1. pc[r] \in Refunds /\ Keeps /\ Goto(r, "refund") /\ job' = [job EXCEPT ![r] = [job[r] EXCEPT !.todo = S]]
    BY <1>2 DEF RefundRecord, RefundFails, Keeps, Refunds
  <2>2. [job[r] EXCEPT !.todo = S] \in JobType
    <3>1. S \in SUBSET Humans
      BY DEF ProcsOK, JobType
    <3> HIDE DEF S
    <3> QED
      BY <3>1, JobTodo DEF ProcsOK
  <2> HIDE DEF S
  <2>3. job' \in [Procs -> JobType] /\ \A q \in Procs : q # r => job'[q] = job[q]
    BY <2>1, <2>2 DEF ProcsOK
  <2> QED
    BY <2>1, <2>3, Goes DEF Hops, Hop, Loops, Refunds, Alone, ProcsOK, PcType, Keeps
<1>3. CASE Close(r)
  BY <1>3, FinishHops DEF Close
<1>4. CASE AbortLock(r)
  <2>1. CASE Finish(r)
    BY <2>1, FinishHops
  <2>2. CASE /\ row.status = "ACTIVE" /\ Take(r, "session") /\ Goto(r, "refund")
             /\ job' = [job EXCEPT ![r] = [job[r] EXCEPT !.todo = Refundable]]
    <3>1. [job[r] EXCEPT !.todo = Refundable] \in JobType
      <4>1. Refundable \in SUBSET Humans
        BY DEF Refundable
      <4> QED
        BY <4>1, JobTodo DEF ProcsOK
    <3>2. job' \in [Procs -> JobType] /\ \A q \in Procs : q # r => job'[q] = job[q]
      BY <2>2, <3>1 DEF ProcsOK
    <3>3. pc[r] = "abort"
      BY <1>4 DEF AbortLock
    <3>4. Gets(r, "session") /\ lock' \in [Locks -> Procs \cup {None, Gone}]
      BY <2>2, Takes, ProcsAre DEF Gets
    <3> QED
      BY <2>2, <3>2, <3>3, <3>4, Goes DEF Hops, Hop, Holds, Alone, ProcsOK, PcType
  <2> QED
    BY <1>4, <2>1, <2>2 DEF AbortLock
<1> QED
  BY <1>1, <1>2, <1>3, <1>4

LEMMA SettleHops ==
  ASSUME TypeOK, NEW r \in Procs, SettleLock(r) \/ SettleCommit(r)
  PROVE  Hops(r)
<1> USE TypeParts
<1>1. CASE Finish(r)
  BY <1>1, FinishHops
<1>2. CASE /\ pc[r] = "settle" /\ row.status = "ACTIVE" /\ job' = job
           /\ Take(r, "session") /\ Goto(r, "commit")
  <2>1. Gets(r, "session") /\ lock' \in [Locks -> Procs \cup {None, Gone}]
    BY <1>2, Takes, ProcsAre DEF Gets
  <2> QED
    BY <1>2, <2>1, Goes DEF Hops, Hop, Holds, Alone, ProcsOK, PcType
<1> QED
  BY <1>1, <1>2 DEF SettleLock, SettleCommit, Valid

LEMMA RequestHops ==
  ASSUME TypeOK, NEW r \in Reqs, Request(r)
  PROVE  Hops(r)
<1> USE TypeParts
<1>r. r \in Procs
  BY ProcsAre
<1>1. CASE StartSession(r)
  <2> DEFINE S == IF Stake = 0 THEN {} ELSE Humans
  <2>1. /\ pc[r] = "idle" /\ row.status = "none" /\ row'.status = "ACTIVE" /\ Take(r, "lobby") /\ Goto(r, "stake")
        /\ job' = [job EXCEPT ![r] = [job[r] EXCEPT !.todo = S]]
    BY <1>1 DEF StartSession
  <2>2. [job[r] EXCEPT !.todo = S] \in JobType
    <3>1. S \in SUBSET Humans
      OBVIOUS
    <3> HIDE DEF S
    <3> QED
      BY <1>r, <3>1, JobTodo DEF ProcsOK
  <2> HIDE DEF S
  <2>3. job' \in [Procs -> JobType] /\ \A q \in Procs : q # r => job'[q] = job[q]
    BY <1>r, <2>1, <2>2 DEF ProcsOK
  <2>4. Gets(r, "lobby") /\ lock' \in [Locks -> Procs \cup {None, Gone}]
    BY <1>r, <2>1, Takes, ProcsAre DEF Gets
  <2> QED
    BY <1>r, <2>1, <2>3, <2>4, Goes DEF Hops, Hop, Begins, Alone, ProcsOK, PcType
<1>2. CASE Cancel(r)
  <2>1. /\ pc[r] = "idle" /\ Reachable /\ Keeps /\ Goto(r, "abort")
        /\ job' = [job EXCEPT ![r] = [job[r] EXCEPT !.close = "CANCELLED"]]
    BY <1>2 DEF Cancel, Keeps
  <2>2. [job[r] EXCEPT !.close = "CANCELLED"] \in JobType
    BY <1>r, JobClose DEF ProcsOK, Closed
  <2>3. job' \in [Procs -> JobType] /\ \A q \in Procs : q # r => job'[q] = job[q]
    BY <1>r, <2>1, <2>2 DEF ProcsOK
  <2>4. "abort" \in PcType
    BY DEF PcType, Waiting
  <2>5. /\ pc' \in [Procs -> PcType] /\ pc'[r] = "abort"
        /\ \A q \in Procs : q # r => pc'[q] = pc[q]
    BY <1>r, <2>1, <2>4, Goes
  <2>6. Enters(r)
    BY <2>1, <2>5 DEF Enters
  <2> QED
    BY <2>1, <2>3, <2>5, <2>6 DEF Hops, Hop, Alone, ProcsOK, Keeps
<1>3. CASE Dispute(r)
  BY <1>r, <1>3, FinishHops DEF Dispute
<1>4. CASE ReportRead(r) \/ ConfirmRead(r) \/ ForfeitRead(r)
  <2>1. PICK l \in {"report", "confirm", "forfeit"} : Reads(r, l) /\ Keeps
    BY <1>4 DEF ReportRead, ConfirmRead, ForfeitRead, Keeps
  <2>2. /\ pc[r] = "idle" /\ Caller[r] \in Humans /\ Reachable /\ Goto(r, l)
        /\ job' = [job EXCEPT ![r] = [job[r] EXCEPT !.pot = row.pot]]
    BY <2>1 DEF Reads, Asks
  <2>3. [job[r] EXCEPT !.pot = row.pot] \in JobType
    BY <1>r, JobPot DEF ProcsOK, RowsOK
  <2>4. job' \in [Procs -> JobType] /\ \A q \in Procs : q # r => job'[q] = job[q]
    BY <1>r, <2>2, <2>3 DEF ProcsOK
  <2>5. l \in PcType
    BY DEF PcType, Waiting
  <2> QED
    BY <1>r, <2>1, <2>2, <2>4, <2>5, Goes DEF Hops, Hop, Enters, Alone, ProcsOK, Keeps
<1> QED
  BY <1>1, <1>2, <1>3, <1>4 DEF Request

LEMMA MonitorHops ==
  ASSUME TypeOK, Stale(Monitor) \/ DueScan(Monitor)
  PROVE  Hops(Monitor)
<1> USE TypeParts, ProcsAre
<1>1. CASE Stale(Monitor)
  BY <1>1, Goes DEF Stale, Hops, Hop, Enters, Alone, ProcsOK, PcType, Waiting, Keeps
<1>2. CASE DueScan(Monitor)
  <2>1. pc[Monitor] = "idle" /\ index = "due" /\ Goto(Monitor, "due") /\ lock' = lock /\ job' = job
    BY <1>2 DEF DueScan
  <2> QED
    BY <2>1, Goes DEF Hops, Hop, Enters, Alone, ProcsOK, PcType, Waiting, Keeps
<1> QED
  BY <1>1, <1>2

(* A verdict on the match names players.                                   *)
LEMMA VerdictIs == ASSUME NEW p \in Players PROVE Verdict(p) \in SUBSET Players
BY DEF Verdict, PlayersLeft

LEMMA TurnHops ==
  ASSUME ProcsOK, NEW r \in Procs, NEW pot \in Nat, NEW ws \in SUBSET Players,
         NEW n \in 0 .. MaxReports, Decide(r, pot, ws, n), Keeps,
         pc[r] \in {"confirm", "due", "forfeit"}
  PROVE  Hops(r)
BY Decides DEF Hops, Hop, Turns, ProcsOK, Keeps

LEMMA ReportHops ==
  ASSUME TypeOK, CallerInv, NEW r \in Procs,
         ReportLocked(r) \/ ConfirmLocked(r) \/ DueLocked(r) \/ ForfeitLock(r)
  PROVE  Hops(r)
<1> USE TypeParts
<1>1. CASE Finish(r)
  BY <1>1, FinishHops
<1>2. CASE ReportLocked(r) /\ ~Finish(r)
  <2>1. PICK ws \in Reportable : /\ row.status = "ACTIVE" /\ pc[r] = "report"
                                 /\ Take(r, "session") /\ Decide(r, job[r].pot, ws, reports')
    BY <1>2 DEF ReportLocked
  <2>2. reports' \in 0 .. MaxReports
    BY <1>2, StakeAssumption DEF ReportLocked, RedisOK
  <2>3. job[r].pot \in Nat /\ ws \in SUBSET Players
    BY DEF ProcsOK, JobType, Reportable
  <2>4. /\ pc' \in [Procs -> PcType] /\ job' \in [Procs -> JobType] /\ Alone(r)
        /\ pc'[r] \in {"abort", "settle"}
    BY <2>1, <2>2, <2>3, Decides
  <2>5. Gets(r, "session") /\ lock' \in [Locks -> Procs \cup {None, Gone}]
    BY <2>1, Takes, ProcsAre DEF Gets
  <2> QED
    BY <2>1, <2>4, <2>5 DEF Hops, Hop, Holds, ProcsOK
<1>3. CASE ConfirmLocked(r) /\ ~Finish(r)
  <2>1. /\ pc[r] = "confirm" /\ Keeps /\ pending # None
        /\ Decide(r, job[r].pot, pending.winners, pending.id)
    BY <1>3 DEF ConfirmLocked, MayAnswer, Keeps
  <2>2. job[r].pot \in Nat /\ pending.winners \in SUBSET Players /\ pending.id \in 0 .. MaxReports
    BY <2>1, PendingIs DEF ProcsOK, JobType
  <2> QED
    BY <2>1, <2>2, TurnHops
<1>4. CASE DueLocked(r) /\ ~Finish(r)
  <2>1. /\ pc[r] = "due" /\ Keeps /\ pending # None
        /\ Decide(r, row.pot, pending.winners, pending.id)
    BY <1>4 DEF DueLocked, Keeps
  <2>2. row.pot \in Nat /\ pending.winners \in SUBSET Players /\ pending.id \in 0 .. MaxReports
    BY <2>1, PendingIs DEF RowsOK
  <2> QED
    BY <2>1, <2>2, TurnHops
<1>5. CASE ForfeitLock(r) /\ ~Finish(r)
  <2>1. pc[r] = "forfeit" /\ Caller[r] \in Players
    BY <1>5 DEF ForfeitLock, CallerInv, Players
  <2>2. CASE Decide(r, job[r].pot, Verdict(Caller[r]), 0) /\ Keeps
    <3>1. job[r].pot \in Nat /\ 0 \in 0 .. MaxReports /\ Verdict(Caller[r]) \in SUBSET Players
      BY <2>1, VerdictIs, StakeAssumption DEF ProcsOK, JobType
    <3> QED
      BY <2>1, <2>2, <3>1, TurnHops
  <2>3. CASE Take(r, "session") /\ Goto(r, "out") /\ job' = job
    <3>1. Gets(r, "session") /\ lock' \in [Locks -> Procs \cup {None, Gone}]
      BY <2>3, Takes, ProcsAre DEF Gets
    <3> QED
      BY <2>1, <2>3, <3>1, Goes DEF Hops, Hop, Holds, Alone, ProcsOK, PcType
  <2> QED
    BY <1>5, <2>2, <2>3 DEF ForfeitLock, Keeps
<1> QED
  BY <1>1, <1>2, <1>3, <1>4, <1>5

LEMMA LeaveHops ==
  ASSUME TypeOK, NEW r \in Procs,
         ForfeitOut(r) \/ HandOver(r) \/ Busy(r) \/ Crash(r)
  PROVE  Hops(r)
<1> USE TypeParts
<1>1. CASE Finish(r)
  BY <1>1, FinishHops
<1>2. CASE ForfeitOut(r) /\ ~Finish(r)
  <2> DEFINE heirs == (PlayersLeft \cap Humans) \ {Caller[r]}
             S == {First(heirs)}
  <2>1. /\ pc[r] = "out" /\ heirs # {} /\ Goto(r, "host") /\ Free(r)
        /\ job' = [job EXCEPT ![r] = [job[r] EXCEPT !.winners = S]]
    BY <1>2 DEF ForfeitOut
  <2>2. S \in SUBSET Players
    <3>1. heirs \in SUBSET Players
      BY DEF PlayersLeft
    <3> HIDE DEF heirs
    <3> QED
      BY <2>1, <3>1, FirstIs
  <2> HIDE DEF S
  <2>3. job' \in [Procs -> JobType] /\ \A q \in Procs : q # r => job'[q] = job[q]
    BY <2>1, <2>2, JobWinners DEF ProcsOK
  <2>4. Frees(r) /\ lock' \in [Locks -> Procs \cup {None, Gone}]
    BY <2>1 DEF Free, Frees, ProcsOK
  <2> QED
    BY <2>1, <2>3, <2>4, Goes DEF Hops, Hop, Leaves, Alone, ProcsOK, PcType
<1>3. CASE Crash(r)
  <2> DEFINE l == IF r = Monitor THEN "idle" ELSE "done"
  <2>1. /\ Goto(r, l) /\ job' = [job EXCEPT ![r] = NoJob]
        /\ lock' = [k \in Locks |-> IF lock[k] = r THEN Gone ELSE lock[k]]
    BY <1>3 DEF Crash
  <2>2. job' \in [Procs -> JobType] /\ \A q \in Procs : q # r => job'[q] = job[q]
    BY <2>1, NoJobIs DEF ProcsOK
  <2>3. l \in {"idle", "done"} /\ l \in PcType
    BY DEF PcType
  <2>4. lock' \in [Locks -> Procs \cup {None, Gone}]
    BY <2>1 DEF ProcsOK
  <2> HIDE DEF l
  <2> QED
    BY <2>1, <2>2, <2>3, <2>4, Goes DEF Hops, Hop, Dies, Alone, ProcsOK
<1> QED
  BY <1>1, <1>2, <1>3 DEF HandOver, Busy

(* A step of the system is a step of one process, or of the clock, a move  *)
(* or a lock that lapses.                                                  *)
Acts(r) ==
    \/ Continue(r) \/ RefundFails(r) \/ Crash(r)
    \/ r \in Reqs /\ Request(r)
    \/ r = Monitor /\ (Stale(r) \/ DueScan(r))

LEMMA NextActs ==
  ASSUME TypeOK, CallerInv, [Next]_vars
  PROVE  (ProcsOK' /\ Still) \/ \E r \in Procs : Acts(r) /\ Hops(r)
<1> USE TypeParts
<1>1. ASSUME NEW r \in Procs, Continue(r) \/ RefundFails(r) \/ Crash(r) PROVE Acts(r) /\ Hops(r)
  BY <1>1, StartHops, RefundHops, SettleHops, ReportHops, LeaveHops DEF Continue, Acts
<1>2. ASSUME UNCHANGED vars \/ WindowPasses \/ PendingExpires \/ \E p \in Players : Move(p)
      PROVE  ProcsOK' /\ Still
  BY <1>2 DEF vars, WindowPasses, PendingExpires, Move, ProcsOK, Still, Keeps
<1>3. ASSUME NEW l \in Locks, LockExpires(l) PROVE ProcsOK' /\ Still
  BY <1>3 DEF LockExpires, ProcsOK, Still
<1>4. ASSUME NEW r \in Reqs, Request(r) PROVE r \in Procs /\ Acts(r) /\ Hops(r)
  BY <1>4, RequestHops, ProcsAre DEF Acts
<1>5. ASSUME Stale(Monitor) \/ DueScan(Monitor) PROVE Monitor \in Procs /\ Acts(Monitor) /\ Hops(Monitor)
  BY <1>5, MonitorHops, ProcsAre DEF Acts
<1> QED
  BY <1>1, <1>2, <1>3, <1>4, <1>5 DEF Next

LEMMA NextHops ==
  ASSUME TypeOK, CallerInv, [Next]_vars
  PROVE  (ProcsOK' /\ Still) \/ \E r \in Procs : Hops(r)
BY NextActs

LEMMA Movers ==
  ASSUME TypeOK, CallerInv, [Next]_vars, NEW q \in Procs
  PROVE  (pc'[q] = pc[q] /\ job'[q] = job[q]) \/ (Acts(q) /\ Hops(q))
BY NextActs DEF Still, Hops, Alone

-----------------------------------------------------------------------------
(* How the row's status and pot and the result change.                     *)

Decision == <<row.status, row.pot, result>>

LEMMA DecisionMoves ==
  ASSUME TypeOK, [Next]_vars
  PROVE  \/ UNCHANGED Decision
         \/ /\ \E r \in Reqs : StartSession(r)
            /\ row.status = "none" /\ row'.status = "ACTIVE" /\ row'.pot = 0 /\ result' = result
         \/ /\ \E r \in Procs : PotSet(r)
            /\ row'.status = row.status /\ row'.pot = Full /\ result' = result
         \/ /\ \E r \in Procs : Close(r) /\ row'.status = job[r].close
            /\ row'.status \in Closed /\ row'.pot = row.pot /\ result' = result
         \/ /\ \E r \in Procs : SettleCommit(r)
            /\ row'.status = "COMPLETED" /\ row'.pot = row.pot /\ result' \in ResultType
<1> USE TypeParts DEF Decision
<1>1. CASE UNCHANGED rows
  BY <1>1 DEF rows
<1>2. ASSUME NEW r \in Reqs, StartSession(r)
      PROVE  row.status = "none" /\ row'.status = "ACTIVE" /\ row'.pot = 0 /\ result' = result
  BY <1>2 DEF StartSession
<1>3. ASSUME NEW r \in Procs, StakeRecord(r) \/ LobbyStarted(r) \/ RefundRecord(r) \/ ForfeitOut(r)
      PROVE  UNCHANGED Decision
  BY <1>3 DEF StakeRecord, LobbyStarted, RefundRecord, ForfeitOut
<1>4. ASSUME NEW r \in Procs, PotSet(r)
      PROVE  row'.status = row.status /\ row'.pot = Full /\ result' = result
  BY <1>4 DEF PotSet, RowsOK, Full
<1>5. ASSUME NEW r \in Procs, Close(r)
      PROVE  /\ row'.status = job[r].close
             /\ row'.status \in Closed /\ row'.pot = row.pot /\ result' = result
  <2>1. job[r].close \in Closed
    BY DEF ProcsOK, JobType
  <2> QED
    BY <1>5, <2>1 DEF Close, RowsOK
<1>6. ASSUME NEW r \in Procs, SettleCommit(r)
      PROVE  row'.status = "COMPLETED" /\ row'.pot = row.pot /\ result' \in ResultType
  <2>1. Payouts(r) \in [Players -> Nat] /\ job[r].winners \in SUBSET Players /\ job[r].report \in 0 .. MaxReports
    BY ShareIs DEF Payouts, ProcsOK, JobType
  <2> QED
    BY <1>6, <2>1 DEF SettleCommit, ResultType, RowsOK
<1>7. ASSUME NEW r \in Procs, HandOver(r) PROVE UNCHANGED Decision
  BY <1>7 DEF HandOver, RowsOK
<1> QED
  BY <1>1, <1>2, <1>3, <1>4, <1>5, <1>6, <1>7, RowsMove

LEMMA StatusNames ==
  /\ "none" \notin Closed /\ "ACTIVE" \notin Closed /\ "COMPLETED" \notin Closed
  /\ None \notin ResultType /\ None \notin ReportType
BY NoneAssumption DEF Closed

(* While a match is being started, or has not been, nothing is reported.   *)
LEMMA NothingReported ==
  ASSUME TypeOK, [Next]_vars, pending = None, index = "no", ~Reachable,
         \A r \in Procs : pc[r] \notin {"report", "confirm", "due"}
  PROVE  UNCHANGED reported
<1>1. ASSUME NEW r \in Procs, ReportLocked(r) \/ ConfirmLocked(r) \/ DueLocked(r) PROVE FALSE
  BY <1>1 DEF ReportLocked, ConfirmLocked, DueLocked
<1>2. ASSUME NEW r \in Reqs, Dispute(r) PROVE FALSE
  BY <1>2 DEF Dispute, Asks
<1>3. ~WindowPasses /\ ~PendingExpires
  BY DEF WindowPasses, PendingExpires
<1> QED
  BY <1>1, <1>2, <1>3, ReportsMove

(* Whoever refunds, pays or lets a player go is alone in it.               *)
LEMMA Exclusive ==
  ASSUME TypeOK, LockInv, NEW r \in Procs, pc[r] \in Refunds \cup {"commit", "out"},
         NEW q \in Procs, q # r
  PROVE  pc[q] \notin Starts \cup Refunds \cup {"commit", "out"}
BY ProcsAre DEF LockInv, Starts, Refunds, Resting

LEMMA ActiveStep ==
  ASSUME TypeOK, CallerInv, LockInv, ActiveInv, FreshInv, [Next]_vars
  PROVE  ActiveInv'
<1> USE TypeParts, StatusNames
<1>1. row'.status = row.status => \A q \in Procs :
         pc'[q] \in Starts \cup Refunds \cup {"commit"} => row'.status = "ACTIVE"
  <2> SUFFICES ASSUME row'.status = row.status, NEW q \in Procs,
                      pc'[q] \in Starts \cup Refunds \cup {"commit"}
               PROVE  row.status = "ACTIVE"
    OBVIOUS
  <2>1. CASE pc'[q] = pc[q]
    BY <2>1 DEF ActiveInv
  <2>2. CASE Hops(q)
    BY <2>2 DEF Hops, Hop, Begins, Loops, Rests, Enters, Holds, Turns, Leaves, Dies, Starts,
       Refunds, ActiveInv
  <2> QED
    BY <2>1, <2>2, NextHops DEF Still, Hops, Alone
<1>2. ASSUME NEW r \in Procs, Close(r) \/ SettleCommit(r), NEW q \in Procs
      PROVE  pc'[q] \notin Starts \cup Refunds \cup {"commit"}
  <2>1. Finish(r) /\ pc[r] \in {"refund", "commit"}
    BY <1>2 DEF Close, SettleCommit
  <2>2. pc'[r] \in {"idle", "done"} /\ Alone(r)
    BY <2>1, Finishes
  <2> QED
    BY <2>1, <2>2, Exclusive DEF Alone, Starts, Refunds
<1>3. CASE UNCHANGED Decision
  BY <1>1, <1>3 DEF Decision, ActiveInv
<1>4. CASE row.status = "none" /\ row'.status = "ACTIVE" /\ row'.pot = 0 /\ result' = result
  BY <1>4 DEF FreshInv, ActiveInv
<1>5. CASE row'.status = row.status /\ row'.pot = Full /\ result' = result
  BY <1>1, <1>5 DEF ActiveInv
<1>6. ASSUME NEW r \in Procs, Close(r), row'.status \in Closed, result' = result
      PROVE  ActiveInv'
  <2>1. row.status = "ACTIVE"
    BY <1>6 DEF Close, ActiveInv, Refunds
  <2> QED
    BY <1>2, <1>6, <2>1 DEF ActiveInv
<1>7. ASSUME NEW r \in Procs, SettleCommit(r), row'.status = "COMPLETED", result' \in ResultType
      PROVE  ActiveInv'
  BY <1>2, <1>7 DEF ActiveInv
<1> QED
  BY <1>3, <1>4, <1>5, <1>6, <1>7, DecisionMoves

LEMMA CallerStep ==
  ASSUME TypeOK, CallerInv, [Next]_vars
  PROVE  CallerInv'
<1>1. ASSUME NEW q \in Procs
      PROVE  /\ pc'[q] \in {"report", "confirm", "forfeit", "out", "host"} => q \in Reqs /\ Caller[q] \in Humans
             /\ pc'[q] \in Starts => q \in Reqs
  <2>1. CASE pc'[q] = pc[q]
    BY <2>1 DEF CallerInv
  <2>2. CASE Hops(q)
    BY <2>2 DEF Hops, Hop, Begins, Loops, Rests, Enters, Holds, Turns, Leaves, Dies, Starts,
       Refunds, CallerInv
  <2> QED
    BY <2>1, <2>2, NextHops DEF Still, Hops, Alone
<1> QED
  BY <1>1 DEF CallerInv

LEMMA FreshStep ==
  ASSUME TypeOK, CallerInv, FreshInv, ActiveInv, [Next]_vars
  PROVE  FreshInv'
<1> USE TypeParts, StatusNames, ProcsAre
<1> SUFFICES ASSUME row'.status = "none" PROVE FreshInv'
  BY DEF FreshInv
<1>1. row.status = "none" /\ result' = result
  BY DecisionMoves DEF Decision, PotSet, ActiveInv, Starts, FreshInv
<1>2. \A r \in Procs : Resting(r) /\ lock["session"] # r /\ lock["lobby"] # r
  BY <1>1 DEF FreshInv
<1>3. UNCHANGED reported
  BY <1>1, <1>2, NothingReported DEF FreshInv, Resting, Reachable
<1>4. UNCHANGED wallet
  BY <1>2, WalletMoves DEF StakeDebit, RefundCredit, SettleCommit, Resting
<1>5. UNCHANGED rows
  <2>1. ASSUME NEW r \in Reqs, StartSession(r) PROVE FALSE
    BY <2>1 DEF StartSession
  <2> QED
    BY <1>2, <2>1, RowsMove DEF StakeRecord, PotSet, LobbyStarted, RefundRecord, Close, SettleCommit,
     ForfeitOut, HandOver, Resting
<1>6. ASSUME NEW q \in Procs
      PROVE  pc'[q] \in {"idle", "done"} /\ lock'["session"] # q /\ lock'["lobby"] # q
  <2>1. CASE Still
    BY <1>2, <2>1 DEF Still, Keeps, Resting, ProcsOK, Locks
  <2>2. ASSUME NEW r \in Procs, Hops(r)
        PROVE  Rests(r) \/ Dies(r)
    <3>1. pc[r] \in {"idle", "done"} /\ index = "no"
      BY <1>1, <1>2 DEF Resting, FreshInv
    <3>2. ~Begins(r) /\ ~Enters(r)
      BY <1>1, <3>1 DEF Begins, Enters, Reachable
    <3>3. ~Loops(r) /\ ~Holds(r) /\ ~Turns(r) /\ ~Leaves(r)
      BY <3>1 DEF Loops, Holds, Turns, Leaves, Starts, Refunds
    <3> QED
      BY <2>2, <3>2, <3>3 DEF Hops, Hop
  <2>3. ASSUME NEW r \in Procs, Hops(r), Rests(r) \/ Dies(r)
        PROVE  pc'[q] \in {"idle", "done"} /\ lock'["session"] # q /\ lock'["lobby"] # q
    <3>1. pc'[q] \in {"idle", "done"}
      BY <1>2, <2>3 DEF Hops, Alone, Rests, Dies, Resting
    <3>2. \A l \in Locks : lock'[l] \in {lock[l], None, Gone}
      BY <2>3 DEF Rests, Dies, Frees
    <3> QED
      BY <1>2, <3>1, <3>2
  <2> QED
    BY <2>1, <2>2, <2>3, NextHops
<1> QED
  BY <1>1, <1>3, <1>4, <1>5, <1>6 DEF FreshInv, Resting, wallet, rows, reported

(* Alone(r) leaves every other process as it was.                          *)
LEMMA LockStep ==
  ASSUME ~Early, TypeOK, CallerInv, FreshInv, LockInv, ActiveInv, [Next]_vars
  PROVE  LockInv'
<1> USE TypeParts, ProcsAre DEF ProcsOK
<1>a. /\ lock["lobby"] \in Procs \cup {None, Gone} /\ lock["session"] \in Procs \cup {None, Gone}
      /\ lock'["lobby"] \in Procs \cup {None, Gone} /\ lock'["session"] \in Procs \cup {None, Gone}
  BY NextHops DEF Hops
<1>1. ASSUME lock["lobby"] \in Procs
      PROVE  UNCHANGED reported /\ pending = None /\ index = "no"
  <2>1. \A q \in Procs : pc[q] \in Starts \cup Refunds \cup {"idle", "done"}
    BY <1>1 DEF LockInv, Resting
  <2>2. \A q \in Procs : pc[q] \notin {"report", "confirm", "due"}
    BY <2>1 DEF Starts, Refunds
  <2>3. ~Reachable
    BY <1>1 DEF Reachable, Starting
  <2> QED
    BY <1>1, <2>2, <2>3, NothingReported DEF LockInv
<1>2. ASSUME Still PROVE LockInv'
  <2>1. \A l \in Locks : lock'[l] = lock[l] \/ (lock[l] = Gone /\ lock'[l] = None)
    BY <1>2 DEF Still, Keeps
  <2> QED
    BY <1>1, <1>2, <2>1, <1>a DEF Still, LockInv, Resting, reported
<1>3. ASSUME NEW r \in Procs, Hops(r), Begins(r) PROVE LockInv'
  <2>1. /\ lock["session"] \notin Procs /\ lock'["session"] = lock["session"] /\ lock'["lobby"] = r
        /\ \A q \in Procs : pc[q] \in {"idle", "done"}
    BY <1>3, <1>a DEF Begins, Gets, FreshInv, Resting
  <2>2. UNCHANGED reported /\ pending = None /\ index = "no"
    BY <1>3, <2>1, NothingReported DEF Begins, FreshInv, Reachable
  <2>3. pc'[r] = "stake" /\ \A q \in Procs : q # r => pc'[q] \in {"idle", "done"}
    BY <1>3, <2>1 DEF Begins, Hops, Alone
  <2> QED
    BY <2>1, <2>2, <2>3 DEF LockInv, Resting, Starts, Refunds, reported
<1>4. ASSUME NEW r \in Procs, Hops(r), Loops(r) PROVE LockInv'
  BY <1>1, <1>4, <1>a DEF Hops, Alone, Loops, Keeps, LockInv, Resting, reported, Starts, Refunds
<1>5. ASSUME NEW r \in Procs, Hops(r), Rests(r) \/ Dies(r) \/ Leaves(r) PROVE LockInv'
  <2>1. \A l \in Locks : lock'[l] # r /\ (lock[l] # r => lock'[l] = lock[l]) /\ (lock[l] = r => lock'[l] \notin Procs)
    BY <1>5 DEF Rests, Dies, Leaves, Frees
  <2>2. pc'[r] \in {"idle", "done", "host"} /\ \A q \in Procs : q # r => pc'[q] = pc[q]
    BY <1>5 DEF Rests, Dies, Leaves, Hops, Alone
  <2>3. lock'["lobby"] \in Procs => pc'[r] # "host"
    BY <1>5, <2>1 DEF Rests, Dies, Leaves, LockInv, Resting, Starts, Refunds
  <2>4. lock'["lobby"] \in Procs => lock'["session"] \notin Procs
    BY <2>1 DEF LockInv
  <2>5. lock'["lobby"] \in Procs =>
           /\ pc'[lock'["lobby"]] \in Starts \cup Refunds
           /\ \A q \in Procs : q # lock'["lobby"] => pc'[q] \in {"idle", "done"}
           /\ pending' = None /\ index' = "no"
    BY <1>1, <2>1, <2>2, <2>3 DEF LockInv, Resting, reported
  <2>6. ASSUME NEW q \in Procs
        PROVE  /\ pc'[q] \in Starts => lock'["lobby"] = q
               /\ pc'[q] \in Refunds => lock'["lobby"] = q \/ lock'["session"] = q
               /\ pc'[q] \in {"commit", "out"} => lock'["session"] = q
               /\ pc'[q] \in {"idle", "done"} => lock'["session"] # q
    <3>1. CASE q = r
      BY <2>1, <2>2, <3>1 DEF Starts, Refunds
    <3>2. CASE q # r
      BY <2>1, <2>2, <3>2, <1>a DEF LockInv, Resting
    <3> QED
      BY <3>1, <3>2
  <2> QED
    BY <2>4, <2>5, <2>6 DEF LockInv, Resting
<1>6. ASSUME NEW r \in Procs, Hops(r), Enters(r) \/ Turns(r) PROVE LockInv'
  <2>1. lock["lobby"] \notin Procs /\ lock' = lock
    <3>1. CASE Enters(r)
      BY <1>1, <3>1 DEF Enters, Reachable, Starting, Keeps
    <3>2. CASE Turns(r)
      BY <3>2 DEF Turns, Keeps, LockInv, Resting, Starts, Refunds
    <3> QED
      BY <1>6, <3>1, <3>2
  <2>2. pc'[r] \in {"report", "confirm", "forfeit", "abort", "due", "settle"} /\ \A q \in Procs : q # r => pc'[q] = pc[q]
    BY <1>6 DEF Enters, Turns, Hops, Alone
  <2> QED
    BY <2>1, <2>2 DEF LockInv, Resting, Starts, Refunds
<1>7. ASSUME NEW r \in Procs, Hops(r), Holds(r) PROVE LockInv'
  <2>1. pc[r] \in {"abort", "settle", "report", "forfeit"}
    BY <1>7 DEF Holds
  <2>2. lock["lobby"] \notin Procs
    BY <2>1 DEF LockInv, Resting, Starts, Refunds
  <2>3. /\ lock["session"] = None /\ lock'["session"] = r /\ lock'["lobby"] = lock["lobby"]
        /\ pc'[r] \in {"refund", "commit", "abort", "settle", "out"}
        /\ \A q \in Procs : q # r => pc'[q] = pc[q]
    BY <1>7 DEF Holds, Gets, Hops, Alone
  <2> QED
    BY <2>2, <2>3 DEF LockInv, Resting, Starts, Refunds
<1> QED
  BY <1>2, <1>3, <1>4, <1>5, <1>6, <1>7, NextHops DEF Hops, Hop

-----------------------------------------------------------------------------
(* What a process remembers.                                               *)

LEMMA StartAlone ==
  ASSUME LockInv, NEW r \in Procs, pc[r] \in Starts, NEW q \in Procs, q # r
  PROVE  pc[q] \in {"idle", "done"}
BY DEF LockInv, Resting

LEMMA TodoStep ==
  ASSUME TypeOK, CallerInv, TodoInv, [Next]_vars
  PROVE  TodoInv'
<1> USE TypeParts DEF ProcsOK
<1> DEFINE Good(r) == /\ pc'[r] \in {"record", "book"} => job'[r].todo # {}
                      /\ pc'[r] = "host" => job'[r].winners # {} /\ job'[r].winners \subseteq Humans
<1>1. ASSUME NEW r \in Procs, pc'[r] = pc[r], job'[r] = job[r] PROVE Good(r)
  BY <1>1 DEF TodoInv
<1>2. ASSUME NEW r \in Procs, pc'[r] \notin {"record", "book", "host"} PROVE Good(r)
  BY <1>2
<1>3. ASSUME NEW r \in Procs, StakeDebit(r) PROVE Good(r)
  <2>1. CASE Goto(r, "record") /\ job[r].todo # {} /\ job' = job
    BY <2>1 DEF Goto
  <2>2. CASE Goto(r, "refund")
    BY <2>2 DEF Goto
  <2> QED
    BY <1>3, <2>1, <2>2 DEF StakeDebit
<1>4. ASSUME NEW r \in Procs, RefundCredit(r) PROVE Good(r)
  BY <1>4 DEF RefundCredit, Goto
<1>5. ASSUME NEW r \in Procs, ForfeitOut(r) PROVE Good(r)
  <2> DEFINE heirs == (PlayersLeft \cap Humans) \ {Caller[r]}
  <2>1. CASE Finish(r)
    BY <2>1, <1>2, Finishes
  <2>2. CASE heirs # {} /\ Goto(r, "host") /\ job' = [job EXCEPT ![r] = [job[r] EXCEPT !.winners = {First(heirs)}]]
    <3>1. First(heirs) \in heirs
      <4>1. heirs \in SUBSET Players
        BY DEF PlayersLeft
      <4> HIDE DEF heirs
      <4> QED
        BY <2>2, <4>1, FirstIs
    <3>2. {First(heirs)} \subseteq Humans
      BY <3>1
    <3> HIDE DEF heirs
    <3>3. pc'[r] = "host" /\ job'[r].winners = {First(heirs)}
      BY <2>2 DEF Goto, JobType
    <3> QED
      BY <3>2, <3>3
  <2> QED
    BY <1>5, <2>1, <2>2 DEF ForfeitOut
<1>6. ASSUME NEW r \in Procs, Continue(r) \/ RefundFails(r) \/ Crash(r),
             ~StakeDebit(r), ~RefundCredit(r), ~ForfeitOut(r)
      PROVE  pc'[r] \notin {"record", "book", "host"}
  <2>1. CASE Finish(r)
    BY <2>1, Finishes
  <2>2. CASE StakeRecord(r) \/ PotSet(r) \/ AbortLock(r) \/ RefundRecord(r) \/ SettleLock(r) \/ RefundFails(r) \/ Crash(r)
    BY <2>2, <2>1 DEF StakeRecord, PotSet, AbortLock, RefundRecord, SettleLock, RefundFails, Crash, Goto
  <2>3. CASE ReportLocked(r) \/ ConfirmLocked(r) \/ DueLocked(r) \/ ForfeitLock(r)
    <3>1. Hops(r) /\ pc[r] \in {"report", "confirm", "due", "forfeit"}
      BY <2>3, ReportHops DEF ReportLocked, ConfirmLocked, DueLocked, ForfeitLock
    <3> QED
      BY <3>1 DEF Hops, Hop, Begins, Loops, Rests, Enters, Holds, Turns, Leaves, Dies, Starts, Refunds
  <2>4. CASE LobbyStarted(r) \/ Close(r) \/ SettleCommit(r) \/ HandOver(r) \/ Busy(r)
    BY <2>1, <2>4 DEF LobbyStarted, Close, SettleCommit, HandOver, Busy
  <2> QED
    BY <1>6, <2>2, <2>3, <2>4 DEF Continue
<1>7. ASSUME NEW r \in Reqs, Request(r) PROVE pc'[r] \notin {"record", "book", "host"}
  <2>1. Hops(r) /\ pc[r] = "idle"
    BY <1>7, RequestHops DEF Request, StartSession, Cancel, ReportRead, ConfirmRead, Dispute,
       ForfeitRead, Reads, Asks
  <2> QED
    BY <2>1 DEF Hops, Hop, Begins, Loops, Rests, Enters, Holds, Turns, Leaves, Dies, Starts, Refunds
<1>8. ASSUME Stale(Monitor) \/ DueScan(Monitor) PROVE pc'[Monitor] \notin {"record", "book", "host"}
  BY <1>8, ProcsAre DEF Stale, DueScan, Goto
<1>9. ASSUME NEW q \in Procs PROVE Good(q)
  <2>1. CASE pc'[q] = pc[q] /\ job'[q] = job[q]
    BY <1>1, <2>1
  <2>2. CASE Continue(q) \/ RefundFails(q) \/ Crash(q)
    BY <1>2, <1>3, <1>4, <1>5, <1>6, <2>2
  <2>3. CASE q \in Reqs /\ Request(q)
    BY <1>2, <1>7, <2>3
  <2>4. CASE q = Monitor /\ (Stale(q) \/ DueScan(q))
    BY <1>2, <1>8, <2>4
  <2> QED
    BY <2>1, <2>2, <2>3, <2>4, Movers DEF Acts
<1> QED
  BY <1>9 DEF TodoInv

LEMMA UsedGrows ==
  ASSUME TypeOK, TodoInv, [Next]_vars
  PROVE  used \subseteq used'
<1> USE TypeParts
<1>1. ASSUME NEW r \in Procs, StakeDebit(r) PROVE used \subseteq used'
  <2> DEFINE p == First(job[r].todo)
  <2>1. p \in Humans
    BY <1>1, NextIs DEF StakeDebit
  <2>2. W!Post(StakeKey(p), Gold("moveDebit", p, Stake)) \/ UNCHANGED wallet
    BY <1>1 DEF StakeDebit
  <2> HIDE DEF p
  <2> QED
    BY <2>1, <2>2, Keys, Posts DEF wallet
<1>2. ASSUME NEW r \in Procs, RefundCredit(r) PROVE used \subseteq used'
  <2> DEFINE p == First(job[r].todo)
  <2>1. p \in Humans
    BY <1>2, NextIs DEF RefundCredit
  <2>2. W!Post(RefundKey(p), Gold("moveCredit", p, Stake))
    BY <1>2 DEF RefundCredit
  <2> HIDE DEF p
  <2> QED
    BY <2>1, <2>2, Keys, Posts
<1>3. ASSUME NEW r \in Procs, SettleCommit(r) PROVE used \subseteq used'
  BY <1>3 DEF SettleCommit
<1> QED
  BY <1>1, <1>2, <1>3, WalletMoves DEF wallet

(* A decision is reckoned from the pot that its request or sweep has read. *)
Reckons == {"report", "confirm", "forfeit", "settle", "commit"}

LEMMA PotJobs ==
  ASSUME TypeOK, CallerInv, PotInv, [Next]_vars, NEW q \in Procs, pc'[q] \in Reckons
  PROVE  /\ job'[q].pot = row.pot
         /\ pc'[q] = "commit" => row.pot = Full
<1> USE TypeParts DEF ProcsOK
<1>1. CASE pc'[q] = pc[q] /\ job'[q] = job[q]
  BY <1>1 DEF PotInv, Reckons
<1>2. CASE Finish(q)
  BY <1>2, Finishes DEF Reckons
<1>3. CASE SettleLock(q) /\ ~Finish(q)
  BY <1>3 DEF SettleLock, Valid, Full, PotInv
<1>4. CASE (ReportLocked(q) \/ ConfirmLocked(q) \/ DueLocked(q) \/ ForfeitLock(q)) /\ ~Finish(q)
  <2>1. /\ pc[q] \in {"report", "confirm", "forfeit", "due"}
        /\ \/ Goto(q, "out")
           \/ \E ws \in SUBSET Players, n \in 0 .. MaxReports, pot \in Nat :
                 Decide(q, pot, ws, n) /\ pot = row.pot
    <3>1. CASE ReportLocked(q)
      <4>1. PICK ws \in Reportable : pc[q] = "report" /\ Decide(q, job[q].pot, ws, reports')
        BY <1>4, <3>1 DEF ReportLocked
      <4>2. reports' \in 0 .. MaxReports
        BY <1>4, <3>1, StakeAssumption DEF ReportLocked, RedisOK
      <4>3. job[q].pot = row.pot /\ row.pot \in Nat /\ ws \in SUBSET Players
        BY <4>1 DEF PotInv, RowsOK, Reportable
      <4> QED
        BY <4>1, <4>2, <4>3
    <3>2. CASE ConfirmLocked(q)
      <4>1. pc[q] = "confirm" /\ pending # None /\ Decide(q, job[q].pot, pending.winners, pending.id)
        BY <1>4, <3>2 DEF ConfirmLocked, MayAnswer
      <4>2. /\ job[q].pot = row.pot /\ row.pot \in Nat
            /\ pending.winners \in SUBSET Players /\ pending.id \in 0 .. MaxReports
        BY <4>1, PendingIs DEF PotInv, RowsOK
      <4> QED
        BY <4>1, <4>2
    <3>3. CASE DueLocked(q)
      <4>1. pc[q] = "due" /\ pending # None /\ Decide(q, row.pot, pending.winners, pending.id)
        BY <1>4, <3>3 DEF DueLocked
      <4>2. row.pot \in Nat /\ pending.winners \in SUBSET Players /\ pending.id \in 0 .. MaxReports
        BY <4>1, PendingIs DEF RowsOK
      <4> QED
        BY <4>1, <4>2
    <3>4. CASE ForfeitLock(q)
      <4>1. pc[q] = "forfeit" /\ Caller[q] \in Players
        BY <3>4 DEF ForfeitLock, CallerInv, Players
      <4>2. /\ job[q].pot = row.pot /\ row.pot \in Nat
            /\ Verdict(Caller[q]) \in SUBSET Players /\ 0 \in 0 .. MaxReports
        BY <4>1, VerdictIs, StakeAssumption DEF PotInv, RowsOK
      <4>3. Goto(q, "out") \/ Decide(q, job[q].pot, Verdict(Caller[q]), 0)
        BY <1>4, <3>4 DEF ForfeitLock
      <4> QED
        BY <4>1, <4>2, <4>3
    <3> QED
      BY <1>4, <3>1, <3>2, <3>3, <3>4
  <2>2. ~Goto(q, "out")
    BY DEF Goto, Reckons
  <2>3. PICK ws \in SUBSET Players, n \in 0 .. MaxReports, pot \in Nat :
                 Decide(q, pot, ws, n) /\ pot = row.pot
    BY <2>1, <2>2
  <2> QED
    BY <2>3, Decides DEF Reckons
<1>5. CASE q \in Reqs /\ Request(q) /\ ~Finish(q)
  <2>1. CASE StartSession(q) \/ Cancel(q)
    BY <2>1 DEF StartSession, Cancel, Goto, Reckons
  <2>2. CASE ReportRead(q) \/ ConfirmRead(q) \/ ForfeitRead(q)
    <3>1. PICK l \in {"report", "confirm", "forfeit"} : Reads(q, l)
      BY <2>2 DEF ReportRead, ConfirmRead, ForfeitRead
    <3>2. pc'[q] = l /\ job'[q].pot = row.pot
      BY <3>1 DEF Reads, Goto, JobType
    <3> QED
      BY <3>2
  <2>3. CASE Dispute(q)
    BY <1>5, <2>3 DEF Dispute
  <2> QED
    BY <1>5, <2>1, <2>2, <2>3 DEF Request
<1>6. CASE (Continue(q) \/ RefundFails(q) \/ Crash(q)) /\ ~Finish(q)
           /\ ~SettleLock(q) /\ ~ReportLocked(q) /\ ~ConfirmLocked(q) /\ ~DueLocked(q) /\ ~ForfeitLock(q)
  <2>1. CASE StakeDebit(q) \/ StakeRecord(q) \/ PotSet(q) \/ AbortLock(q) \/ RefundCredit(q)
             \/ RefundRecord(q) \/ ForfeitOut(q) \/ RefundFails(q) \/ Crash(q)
    BY <1>6, <2>1 DEF StakeDebit, StakeRecord, PotSet, AbortLock, RefundCredit, RefundRecord,
       ForfeitOut, RefundFails, Crash, Goto, Reckons
  <2>2. CASE LobbyStarted(q) \/ Close(q) \/ SettleCommit(q) \/ HandOver(q) \/ Busy(q)
    BY <1>6, <2>2 DEF LobbyStarted, Close, SettleCommit, HandOver, Busy
  <2> QED
    BY <1>6, <2>1, <2>2 DEF Continue
<1>7. CASE q = Monitor /\ (Stale(q) \/ DueScan(q))
  BY <1>7 DEF Stale, DueScan, Goto, Reckons
<1> QED
  BY <1>1, <1>2, <1>3, <1>4, <1>5, <1>6, <1>7, Movers DEF Acts

LEMMA StakeSteps ==
  ASSUME TypeOK, CallerInv, [Next]_vars, NEW q \in Procs, pc'[q] \in {"stake", "record"}
  PROVE  \/ pc[q] \in {"stake", "record"}
         \/ row.status = "none" /\ row'.status = "ACTIVE"
<1>1. CASE pc'[q] = pc[q]
  BY <1>1
<1>2. CASE Hops(q)
  BY <1>2 DEF Hops, Hop, Begins, Loops, Rests, Enters, Holds, Turns, Leaves, Dies
<1> QED
  BY <1>1, <1>2, Movers

LEMMA PotStep ==
  ASSUME ~Early, TypeOK, TodoInv, CallerInv, FreshInv, LockInv, ActiveInv, PotInv, StakeInv, [Next]_vars
  PROVE  PotInv'
<1> USE TypeParts, StatusNames
<1>u. StakesTaken => StakesTaken'
  BY UsedGrows DEF StakesTaken
<1>1. ASSUME row'.pot = row.pot, result' = result, row'.status = "ACTIVE" => row.status # "none" PROVE PotInv'
  <2>1. \A q \in Procs : pc'[q] \in Reckons => job'[q].pot = row.pot /\ (pc'[q] = "commit" => row.pot = Full)
    BY PotJobs
  <2>2. \A q \in Procs : pc'[q] \in {"stake", "record"} => row.pot = 0
    BY <1>1, StakeSteps DEF PotInv
  <2> QED
    BY <1>1, <1>u, <2>1, <2>2 DEF PotInv, Reckons
<1>2. ASSUME NEW r \in Reqs, StartSession(r), row.status = "none", row'.pot = 0, result' = result
      PROVE  PotInv'
  <2>1. r \in Procs /\ pc'[r] = "stake" /\ \A q \in Procs : q # r => pc'[q] \in {"idle", "done"}
    BY <1>2, ProcsAre DEF StartSession, Goto, FreshInv, Resting, ProcsOK
  <2>2. result = None
    BY <1>2 DEF FreshInv
  <2> QED
    BY <1>2, <2>1, <2>2 DEF PotInv
<1>3. ASSUME NEW r \in Procs, PotSet(r), row'.pot = Full, result' = result
      PROVE  PotInv'
  <2>1. pc[r] = "stake" /\ job[r].todo = {} /\ pc'[r] = "started" /\ \A q \in Procs : q # r => pc'[q] = pc[q]
    BY <1>3 DEF PotSet, Goto, ProcsOK
  <2>2. StakesTaken
    BY <2>1 DEF StakeInv, StakesTaken
  <2>3. \A q \in Procs : q # r => pc'[q] \in {"idle", "done"}
    BY <2>1, StartAlone DEF Starts
  <2>4. result = None
    BY <2>1 DEF ActiveInv, Starts
  <2> QED
    BY <1>3, <1>u, <2>1, <2>2, <2>3, <2>4 DEF PotInv
<1>4. ASSUME NEW r \in Procs, SettleCommit(r), row'.pot = row.pot
      PROVE  PotInv'
  <2>1. job[r].pot = Full /\ row.pot = Full
    BY <1>4 DEF SettleCommit, PotInv
  <2>2. StakesTaken
    <3>1. CASE Stake > 0
      BY <2>1, <3>1, FullIs DEF PotInv
    <3>2. CASE ~(Stake > 0)
      BY <3>2 DEF StakesTaken
    <3> QED
      BY <3>1, <3>2
  <2>3. result'.winners = job[r].winners /\ result'.paid = Payouts(r)
    BY <1>4 DEF SettleCommit
  <2>4. \A p \in Humans : result'.paid[p] = Share(Full, result'.winners, p)
    BY <2>1, <2>3 DEF Payouts, Players
  <2>5. \A q \in Procs : pc'[q] \in Reckons => job'[q].pot = row.pot /\ (pc'[q] = "commit" => row.pot = Full)
    BY PotJobs
  <2>6. \A q \in Procs : pc'[q] \in {"stake", "record"} => row.pot = 0
    BY <1>4, StakeSteps DEF PotInv, SettleCommit, ActiveInv
  <2> QED
    BY <1>4, <1>u, <2>1, <2>2, <2>4, <2>5, <2>6 DEF PotInv, Reckons
<1>5. ASSUME UNCHANGED Decision PROVE PotInv'
  BY <1>1, <1>5 DEF Decision
<1>6. ASSUME row'.status \in Closed, row'.pot = row.pot, result' = result PROVE PotInv'
  BY <1>1, <1>6
<1> QED
  BY <1>2, <1>3, <1>4, <1>5, <1>6, DecisionMoves

-----------------------------------------------------------------------------
(* What the wallet and the ledger hold.                                    *)

(* Who is alone at the start sees nobody else use the wallet or the ledger. *)
LEMMA StartFrame ==
  ASSUME TypeOK, CallerInv, LockInv, [Next]_vars, NEW r \in Procs, pc[r] \in Starts,
         ~StakeDebit(r), ~StakeRecord(r)
  PROVE  UNCHANGED <<used, booked>>
<1>1. \A q \in Procs : q # r => pc[q] \in {"idle", "done"}
  BY StartAlone
<1>2. used' = used
  <2>1. ASSUME NEW q \in Procs, StakeDebit(q) \/ RefundCredit(q) \/ SettleCommit(q) PROVE FALSE
    BY <1>1, <2>1 DEF StakeDebit, RefundCredit, SettleCommit, Starts
  <2> QED
    BY <2>1, WalletMoves DEF wallet
<1>3. booked' = booked
  <2>1. ASSUME NEW q \in Procs, StakeRecord(q) \/ RefundRecord(q) \/ SettleCommit(q) PROVE FALSE
    BY <1>1, <2>1 DEF StakeRecord, RefundRecord, SettleCommit, Starts
  <2>2. ASSUME NEW q \in Procs, PotSet(q) \/ LobbyStarted(q) \/ Close(q) \/ ForfeitOut(q) \/ HandOver(q)
        PROVE  booked' = booked
    BY <2>2 DEF PotSet, LobbyStarted, Close, ForfeitOut, HandOver
  <2>3. ASSUME NEW q \in Reqs, StartSession(q) PROVE booked' = booked
    BY <2>3 DEF StartSession
  <2> QED
    BY <2>1, <2>2, <2>3, RowsMove DEF rows
<1> QED
  BY <1>2, <1>3

(* The debit that is accepted uses its stake's key, and only that.         *)
LEMMA StakeDebits ==
  ASSUME TypeOK, NEW r \in Procs, StakeDebit(r)
  PROVE  LET p == First(job[r].todo) IN
         /\ p \in Humans /\ booked' = booked /\ part' = part /\ row' = row /\ faults' = faults
         /\ \/ /\ used' = used \cup {StakeKey(p)} /\ pc'[r] = "record" /\ job'[r] = job[r]
            \/ /\ used' = used /\ pc'[r] = "refund"
               /\ job'[r].todo = {q \in Humans : StakeKey(q) \in booked}
<1> USE TypeParts DEF ProcsOK
<1> DEFINE p == First(job[r].todo)
           S == {q \in Humans : StakeKey(q) \in booked}
<1>1. p \in Humans
  BY NextIs DEF StakeDebit
<1>2. booked' = booked /\ part' = part /\ row' = row /\ faults' = faults
  BY DEF StakeDebit, rows
<1>3. \/ W!Post(StakeKey(p), Gold("moveDebit", p, Stake)) /\ Goto(r, "record") /\ job' = job
      \/ /\ UNCHANGED wallet /\ Goto(r, "refund")
         /\ job' = [job EXCEPT ![r] = [job[r] EXCEPT !.todo = S]]
  BY DEF StakeDebit
<1> HIDE DEF p, S
<1>4. CASE W!Post(StakeKey(p), Gold("moveDebit", p, Stake)) /\ Goto(r, "record") /\ job' = job
  <2>1. used' = used \cup {StakeKey(p)}
    BY <1>1, <1>4, Posts, Keys
  <2>2. pc'[r] = "record"
    BY <1>4 DEF Goto
  <2> QED
    BY <1>1, <1>2, <1>4, <2>1, <2>2 DEF p
<1>5. CASE /\ UNCHANGED wallet /\ Goto(r, "refund")
           /\ job' = [job EXCEPT ![r] = [job[r] EXCEPT !.todo = S]]
  <2>1. pc'[r] = "refund" /\ used' = used
    BY <1>5 DEF Goto, wallet
  <2>2. job'[r].todo = S
    BY <1>5 DEF JobType
  <2> QED
    BY <1>1, <1>2, <2>1, <2>2 DEF p, S
<1> QED
  BY <1>3, <1>4, <1>5

LEMMA StakeRecords ==
  ASSUME TypeOK, TodoInv, NEW r \in Procs, StakeRecord(r)
  PROVE  LET p == First(job[r].todo) IN
         /\ p \in Humans /\ used' = used /\ booked' = booked \cup {StakeKey(p)}
         /\ pc'[r] = "stake" /\ job'[r].todo = job[r].todo \ {p} /\ row' = row /\ faults' = faults
         /\ part' \in [Players -> PartRow] /\ part'[p].staked
         /\ \A q \in Players : /\ part'[q].status = part[q].status
                               /\ part'[q].refunded = part[q].refunded
                               /\ part[q].staked => part'[q].staked
<1> USE TypeParts DEF ProcsOK
<1> DEFINE p == First(job[r].todo)
           S == job[r].todo \ {p}
<1>1. p \in Humans
  BY NextIs DEF StakeRecord, TodoInv
<1>2. /\ used' = used /\ row' = row /\ faults' = faults /\ Goto(r, "stake")
      /\ booked' = booked \cup {StakeKey(p)} /\ part' = [part EXCEPT ![p].staked = TRUE]
      /\ job' = [job EXCEPT ![r] = [job[r] EXCEPT !.todo = S]]
  BY DEF StakeRecord, wallet
<1> HIDE DEF p
<1>3. pc'[r] = "stake"
  BY <1>2 DEF Goto
<1>4. job'[r].todo = S
  <2> HIDE DEF S
  <2> QED
    BY <1>2 DEF JobType
<1>5. /\ part' \in [Players -> PartRow] /\ part'[p].staked
      /\ \A q \in Players : /\ part'[q].status = part[q].status
                            /\ part'[q].refunded = part[q].refunded
                            /\ part[q].staked => part'[q].staked
  <2>1. part \in [Players -> PartRow] /\ p \in Players
    BY <1>1 DEF RowsOK, PartRow, Players
  <2> QED
    BY <1>2, <2>1 DEF PartRow
<1> QED
  BY <1>1, <1>2, <1>3, <1>4, <1>5 DEF p

LEMMA StartIs ==
  ASSUME TypeOK, FreshInv, NEW r \in Reqs, StartSession(r)
  PROVE  /\ used' = {} /\ booked' = {} /\ faults' = faults /\ r \in Procs /\ pc'[r] = "stake"
         /\ Stake > 0 => job'[r].todo = Humans
         /\ \A q \in Procs : q # r => pc'[q] \in {"idle", "done"}
         /\ row'.status = "ACTIVE"
         /\ \A p \in Players : part'[p].status = "PLAYING" /\ ~part'[p].refunded
<1> USE TypeParts, ProcsAre DEF ProcsOK
<1> DEFINE S == IF Stake = 0 THEN {} ELSE Humans
<1>1. /\ row.status = "none" /\ Goto(r, "stake") /\ UNCHANGED <<used, booked, faults>>
      /\ row'.status = "ACTIVE"
      /\ job' = [job EXCEPT ![r] = [job[r] EXCEPT !.todo = S]]
      /\ part' = [p \in Players |-> [NoPart EXCEPT !.status = "PLAYING"]]
  BY DEF StartSession, wallet
<1>2. Stake > 0 => job'[r].todo = Humans
  <2>1. job'[r].todo = S
    <3> HIDE DEF S
    <3> QED
      BY <1>1 DEF JobType
  <2> QED
    BY <2>1, StakeAssumption
<1>3. \A p \in Players : part'[p].status = "PLAYING" /\ ~part'[p].refunded
  BY <1>1 DEF NoPart
<1> HIDE DEF S
<1> QED
  BY <1>1, <1>2, <1>3 DEF FreshInv, Goto, Resting

LEMMA StakeStep ==
  ASSUME ~Early, TypeOK, TodoInv, CallerInv, FreshInv, LockInv, ActiveInv, StakeInv, [Next]_vars
  PROVE  StakeInv'
<1> USE TypeParts DEF ProcsOK
<1> DEFINE Good(r) ==
        /\ pc'[r] \in {"stake", "record"} => \A p \in Humans :
               /\ Stake > 0 => p \in job'[r].todo \/ StakeKey(p) \in used'
               /\ StakeKey(p) \in used' =>
                      StakeKey(p) \in booked' \/ (pc'[r] = "record" /\ p = First(job'[r].todo))
        /\ pc'[r] = "record" => StakeKey(First(job'[r].todo)) \in used'
<1>1. ASSUME NEW r \in Reqs, StartSession(r) PROVE r \in Procs /\ Good(r)
  BY <1>1, StartIs
<1>2. ASSUME NEW r \in Procs, StakeDebit(r) PROVE Good(r)
  BY <1>2, StakeDebits, Keys DEF StakeInv, StakeDebit
<1>3. ASSUME NEW r \in Procs, StakeRecord(r) PROVE Good(r)
  BY <1>3, StakeRecords DEF StakeInv, StakeRecord
<1>4. ASSUME NEW r \in Procs, ~StakeDebit(r), ~StakeRecord(r), pc[r] \in {"stake", "record"},
             pc'[r] = pc[r], job'[r] = job[r]
      PROVE  Good(r)
  <2>1. UNCHANGED <<used, booked>>
    BY <1>4, StartFrame DEF Starts
  <2> QED
    BY <1>4, <2>1 DEF StakeInv
<1>5. ASSUME NEW r \in Procs, Acts(r), Hops(r), ~StakeDebit(r), ~StakeRecord(r), ~(r \in Reqs /\ StartSession(r))
      PROVE  pc'[r] \notin {"stake", "record"}
  <2>1. CASE Finish(r)
    BY <2>1, Finishes
  <2>2. CASE Crash(r)
    BY <2>2 DEF Crash, Goto
  <2>3. CASE PotSet(r)
    BY <2>3 DEF PotSet, Goto
  <2>4. CASE pc[r] \notin Starts /\ ~Crash(r)
    <3>1. ~Begins(r)
      <4>1. pc[r] = "idle" => ~Continue(r) /\ ~RefundFails(r)
        BY DEF Continue, RefundFails, StakeDebit, StakeRecord, PotSet, LobbyStarted, AbortLock,
           RefundCredit, RefundRecord, Close, SettleLock, SettleCommit, ReportLocked, ConfirmLocked,
           DueLocked, ForfeitLock, ForfeitOut, HandOver, Busy, Waiting
      <4>2. Cancel(r) \/ ReportRead(r) \/ ConfirmRead(r) \/ Dispute(r) \/ ForfeitRead(r)
              => row.status # "none"
        BY DEF Cancel, ReportRead, ConfirmRead, Dispute, ForfeitRead, Reads, Asks, Reachable
      <4>3. Stale(r) \/ DueScan(r) => row.status # "none"
        BY DEF Stale, DueScan, FreshInv
      <4> QED
        BY <1>5, <2>4, <4>1, <4>2, <4>3 DEF Acts, Request, Begins
    <3> QED
      BY <1>5, <2>4, <3>1 DEF Hops, Hop, Loops, Rests, Enters, Holds, Turns, Leaves, Dies, Starts
  <2>5. CASE pc[r] \in Starts /\ ~Crash(r) /\ ~PotSet(r)
    <3>1. Continue(r) \/ RefundFails(r)
      BY <1>5, <2>5 DEF Acts, Request, StartSession, Cancel, ReportRead, ConfirmRead, Dispute,
         ForfeitRead, Reads, Asks, Stale, DueScan, Starts
    <3>2. LobbyStarted(r)
      BY <1>5, <2>5, <3>1 DEF Starts, Continue, RefundFails, StakeDebit, StakeRecord, PotSet, AbortLock,
           RefundCredit, RefundRecord, Close, SettleLock, SettleCommit, ReportLocked, ConfirmLocked,
           DueLocked, ForfeitLock, ForfeitOut, HandOver, Busy, Waiting
    <3> QED
      BY <2>1, <3>2 DEF LobbyStarted
  <2> QED
    BY <2>2, <2>3, <2>4, <2>5
<1>6. ASSUME NEW r \in Procs PROVE Good(r)
  <2>1. CASE StakeDebit(r) \/ StakeRecord(r) \/ (r \in Reqs /\ StartSession(r))
    BY <1>1, <1>2, <1>3, <2>1
  <2>2. CASE ~StakeDebit(r) /\ ~StakeRecord(r) /\ ~(r \in Reqs /\ StartSession(r))
    <3>1. CASE pc'[r] \notin {"stake", "record"}
      BY <3>1
    <3>2. CASE pc'[r] \in {"stake", "record"}
      BY <1>4, <1>5, <2>2, <3>2, Movers
    <3> QED
      BY <3>1, <3>2
  <2> QED
    BY <2>1, <2>2
<1> QED
  BY <1>6 DEF StakeInv

LEMMA RefundCredits ==
  ASSUME TypeOK, NEW r \in Procs, RefundCredit(r)
  PROVE  LET p == First(job[r].todo) IN
         /\ p \in Humans /\ used' = used \cup {RefundKey(p)} /\ UNCHANGED <<row, part, booked, faults>>
         /\ pc[r] = "refund" /\ pc'[r] = "book" /\ job' = job
<1> USE TypeParts DEF ProcsOK
<1> DEFINE p == First(job[r].todo)
<1>1. p \in Humans
  BY NextIs DEF RefundCredit
<1>2. /\ W!Post(RefundKey(p), Gold("moveCredit", p, Stake)) /\ UNCHANGED <<row, part, booked, faults>>
      /\ pc[r] = "refund" /\ Goto(r, "book") /\ job' = job
  BY DEF RefundCredit, rows
<1> HIDE DEF p
<1>3. used' = used \cup {RefundKey(p)}
  BY <1>1, <1>2, Posts, Keys
<1>4. pc'[r] = "book"
  BY <1>2 DEF Goto
<1> QED
  BY <1>1, <1>2, <1>3, <1>4 DEF p

LEMMA Settles ==
  ASSUME TypeOK, NEW r \in Procs, SettleCommit(r)
  PROVE  /\ \A k \in used' : k \in used \/ \E p \in Humans : k = PayoutKey(p)
         /\ row'.status = "COMPLETED" /\ pc[r] = "commit" /\ pc'[r] \in {"idle", "done"}
         /\ faults' = faults
<1>1. pc'[r] \in {"idle", "done"}
  BY TypeParts, Finishes DEF SettleCommit
<1> QED
  BY <1>1, TypeParts DEF SettleCommit, RowsOK

(* Which keys a step may use: all of them new ones of its own kind.        *)
LEMMA UsedBy ==
  ASSUME TypeOK, [Next]_vars, NEW k \in used', k \notin used
  PROVE  \/ \E r \in Procs : StakeDebit(r) /\ k = StakeKey(First(job[r].todo)) /\ pc'[r] = "record"
                             /\ job'[r] = job[r]
         \/ \E r \in Procs : RefundCredit(r) /\ k = RefundKey(First(job[r].todo))
         \/ \E r \in Procs : SettleCommit(r) /\ \E p \in Humans : k = PayoutKey(p)
<1>1. ASSUME NEW r \in Procs, StakeDebit(r)
      PROVE  k = StakeKey(First(job[r].todo)) /\ pc'[r] = "record" /\ job'[r] = job[r]
  BY <1>1, StakeDebits
<1>2. ASSUME NEW r \in Procs, RefundCredit(r) PROVE k = RefundKey(First(job[r].todo))
  BY <1>2, RefundCredits
<1>3. ASSUME NEW r \in Procs, SettleCommit(r) PROVE \E p \in Humans : k = PayoutKey(p)
  BY <1>3, Settles
<1> QED
  BY <1>1, <1>2, <1>3, WalletMoves DEF wallet

(* A refund that has begun goes on to close the match, or something fails. *)
LEMMA RefundsEnd ==
  ASSUME TypeOK, CallerInv, [Next]_vars, NEW r \in Procs,
         pc[r] \in Refunds, pc'[r] \notin Refunds, faults' = faults
  PROVE  Close(r)
<1>1. Acts(r)
  BY Movers
<1>2. Continue(r)
  <2>1. ~RefundFails(r) /\ ~Crash(r)
    BY TypeParts, StakeAssumption DEF RefundFails, Crash, Fault
  <2> QED
    BY <1>1, <2>1 DEF Acts, Request, StartSession, Cancel, ReportRead, ConfirmRead, Dispute,
       ForfeitRead, Reads, Asks, Stale, DueScan, Refunds
<1>3. RefundCredit(r) \/ RefundRecord(r) \/ Close(r)
  BY <1>2 DEF Refunds, Continue, StakeDebit, StakeRecord, PotSet, LobbyStarted, AbortLock, SettleLock,
     SettleCommit, ReportLocked, ConfirmLocked, DueLocked, ForfeitLock, ForfeitOut, HandOver, Busy, Waiting
<1>4. RefundCredit(r) \/ RefundRecord(r) => pc'[r] \in Refunds
  BY TypeParts DEF RefundCredit, RefundRecord, Goto, Refunds, ProcsOK
<1> QED
  BY <1>3, <1>4

LEMMA CloseIs ==
  ASSUME TypeOK, NEW r \in Procs, Close(r)
  PROVE  /\ row'.status \in Closed /\ UNCHANGED <<used, part, faults>>
         /\ pc[r] = "refund" /\ job[r].todo = {}
<1>1. job[r].close \in Closed
  BY TypeParts DEF ProcsOK, JobType
<1> QED
  BY <1>1, TypeParts DEF Close, RowsOK, wallet

(* A match that has ended stays as it has ended.                           *)
LEMMA EndStays ==
  ASSUME TypeOK, ActiveInv, [Next]_vars, Decided
  PROVE  UNCHANGED Decision
<1>1. row.status # "none" /\ row.status # "ACTIVE"
  BY StatusNames DEF Decided
<1>2. \A r \in Procs : ~PotSet(r) /\ ~Close(r) /\ ~SettleCommit(r)
  BY <1>1 DEF PotSet, Close, SettleCommit, ActiveInv, Starts, Refunds
<1> QED
  BY <1>1, <1>2, DecisionMoves

LEMMA KeyStep ==
  ASSUME TypeOK, TodoInv, CallerInv, FreshInv, LockInv, ActiveInv, KeyInv, [Next]_vars
  PROVE  KeyInv'
<1> USE StatusNames
<1>1. ASSUME NEW p \in Humans, PayoutKey(p) \in used' PROVE row'.status = "COMPLETED"
  <2>1. CASE PayoutKey(p) \in used
    BY <2>1, EndStays DEF KeyInv, Decided, Decision
  <2>2. CASE PayoutKey(p) \notin used
    <3>1. PICK r \in Procs : SettleCommit(r)
      BY <1>1, <2>2, UsedBy, StakeDebits, RefundCredits, Keys
    <3> QED
      BY <3>1, Settles
  <2> QED
    BY <2>1, <2>2
<1>2. ASSUME faults' = 0, NEW p \in Humans, RefundKey(p) \in used'
      PROVE  row'.status \in Closed \/ \E r \in Procs : pc'[r] \in Refunds
  <2>1. faults = 0 /\ faults' = faults
    BY <1>2, FaultsStep, TypeParts
  <2>2. CASE RefundKey(p) \in used /\ row.status \in Closed
    BY <2>2, EndStays DEF Decided, Decision
  <2>3. ASSUME RefundKey(p) \in used, NEW r \in Procs, pc[r] \in Refunds
        PROVE  row'.status \in Closed \/ pc'[r] \in Refunds
    BY <2>1, <2>3, RefundsEnd, CloseIs
  <2>4. CASE RefundKey(p) \notin used
    <3>1. PICK r \in Procs : RefundCredit(r)
      BY <1>2, <2>4, UsedBy, StakeDebits, Keys
    <3> QED
      BY <3>1, RefundCredits DEF Refunds
  <2> QED
    BY <2>1, <2>2, <2>3, <2>4 DEF KeyInv
<1> QED
  BY <1>1, <1>2 DEF KeyInv

LEMMA RefundRecords ==
  ASSUME TypeOK, TodoInv, NEW r \in Procs, RefundRecord(r)
  PROVE  /\ UNCHANGED <<used, row, faults>> /\ pc[r] = "book" /\ pc'[r] = "refund"
         /\ job'[r].todo = job[r].todo \ {First(job[r].todo)}
         /\ \A q \in Players : part'[q].staked = part[q].staked
         /\ part' = part \/ \E q \in Players : part'[q].status = "REFUNDED"
<1> USE TypeParts DEF ProcsOK
<1> DEFINE p == First(job[r].todo)
           S == job[r].todo \ {p}
<1>1. /\ UNCHANGED <<used, row, faults>> /\ pc[r] = "book" /\ Goto(r, "refund")
      /\ job' = [job EXCEPT ![r] = [job[r] EXCEPT !.todo = S]]
      /\ part' = part \/ part' = [part EXCEPT ![p].status = "REFUNDED", ![p].refunded = TRUE]
  BY DEF RefundRecord, wallet
<1>2. p \in Players
  BY NextIs DEF RefundRecord, TodoInv, Players
<1> HIDE DEF p, S
<1>3. /\ \A q \in Players : part'[q].staked = part[q].staked
      /\ part' = part \/ part'[p].status = "REFUNDED"
  <2>1. part \in [Players -> PartRow]
    BY DEF RowsOK, PartRow
  <2> QED
    BY <1>1, <1>2, <2>1 DEF PartRow
<1>4. pc'[r] = "refund" /\ job'[r].todo = S
  BY <1>1 DEF Goto, JobType
<1> QED
  BY <1>1, <1>2, <1>3, <1>4 DEF p, S

LEMMA ForfeitsOut ==
  ASSUME TypeOK, CallerInv, NEW r \in Procs, ForfeitOut(r)
  PROVE  /\ pc[r] = "out" /\ pc'[r] \in {"idle", "done", "host"} /\ Caller[r] \in Players /\ row' = row
         /\ \A q \in Players :
               /\ part'[q].staked = part[q].staked /\ part'[q].refunded = part[q].refunded
               /\ part'[q].status = IF q = Caller[r] THEN "LOST" ELSE part[q].status
<1> USE TypeParts DEF ProcsOK
<1>1. Caller[r] \in Players /\ pc[r] = "out" /\ row' = row
  BY DEF ForfeitOut, CallerInv, Players
<1>2. part' = [part EXCEPT ![Caller[r]].status = "LOST"]
  BY DEF ForfeitOut
<1>3. part \in [Players -> PartRow]
  BY DEF RowsOK, PartRow
<1>4. pc'[r] \in {"idle", "done", "host"}
  BY Finishes DEF ForfeitOut, Goto
<1> QED
  BY <1>1, <1>2, <1>3, <1>4 DEF PartRow

(* How the participants' rows change.                                      *)
LEMMA PartMoves ==
  ASSUME TypeOK, [Next]_vars
  PROVE  \/ part' = part
         \/ \E r \in Reqs : StartSession(r)
         \/ \E r \in Procs : StakeRecord(r) \/ RefundRecord(r) \/ SettleCommit(r) \/ ForfeitOut(r)
<1>1. ASSUME NEW r \in Procs, PotSet(r) \/ LobbyStarted(r) \/ Close(r) \/ HandOver(r)
      PROVE  part' = part
  BY <1>1 DEF PotSet, LobbyStarted, Close, HandOver
<1> QED
  BY <1>1, RowsMove DEF rows

LEMMA StakedStays ==
  ASSUME TypeOK, TodoInv, CallerInv, FreshInv, [Next]_vars, row.status # "none",
         NEW p \in Players, part[p].staked
  PROVE  part'[p].staked
<1> USE TypeParts
<1>0. part \in [Players -> PartRow]
  BY DEF RowsOK, PartRow
<1>1. ASSUME NEW r \in Procs, SettleCommit(r) PROVE part'[p].staked
  BY <1>0, <1>1 DEF SettleCommit, PartRow
<1>2. ASSUME NEW r \in Reqs, StartSession(r) PROVE FALSE
  BY <1>2 DEF StartSession
<1> QED
  BY <1>1, <1>2, PartMoves, StakeRecords, RefundRecords, ForfeitsOut

(* Without a failure there are four ways to be at a refund.                *)
LEMMA RefundsBy ==
  ASSUME TypeOK, CallerInv, NEW r \in Procs, Acts(r), Hops(r), pc'[r] \in Refunds, faults' = faults
  PROVE  StakeDebit(r) \/ AbortLock(r) \/ RefundCredit(r) \/ RefundRecord(r)
<1>1. pc[r] \in {"stake", "record", "started", "refund", "book", "abort"}
  BY DEF Hops, Hop, Begins, Loops, Rests, Enters, Holds, Turns, Leaves, Dies, Starts, Refunds
<1>2. Continue(r)
  <2>1. ~RefundFails(r) /\ ~Crash(r)
    BY TypeParts, StakeAssumption DEF RefundFails, Crash, Fault
  <2> QED
    BY <1>1, <2>1 DEF Acts, Request, StartSession, Cancel, ReportRead, ConfirmRead, Dispute,
       ForfeitRead, Reads, Asks, Stale, DueScan
<1>3. \/ StakeDebit(r) \/ AbortLock(r) \/ RefundCredit(r) \/ RefundRecord(r)
      \/ StakeRecord(r) \/ PotSet(r) \/ Finish(r)
  BY <1>1, <1>2 DEF Continue, LobbyStarted, Close, Busy, SettleLock, SettleCommit,
     ReportLocked, ConfirmLocked, DueLocked, ForfeitLock, ForfeitOut, HandOver
<1>4. StakeRecord(r) \/ PotSet(r) => pc'[r] \notin Refunds
  BY TypeParts DEF StakeRecord, PotSet, Goto, Refunds, ProcsOK
<1>5. Finish(r) => pc'[r] \notin Refunds
  BY TypeParts, Finishes DEF Refunds
<1> QED
  BY <1>3, <1>4, <1>5

LEMMA AbortLocks ==
  ASSUME TypeOK, NEW r \in Procs, AbortLock(r), pc'[r] \in Refunds
  PROVE  /\ row.status = "ACTIVE" /\ lock["session"] = None /\ used' = used /\ pc[r] = "abort"
         /\ pc'[r] = "refund" /\ job'[r].todo = Refundable
<1> USE TypeParts DEF ProcsOK
<1>1. ~Finish(r)
  BY Finishes DEF Refunds
<1>2. /\ row.status = "ACTIVE" /\ lock["session"] = None /\ used' = used /\ pc[r] = "abort"
      /\ Goto(r, "refund") /\ job' = [job EXCEPT ![r] = [job[r] EXCEPT !.todo = Refundable]]
  BY <1>1 DEF AbortLock, wallet
<1>3. pc'[r] = "refund"
  BY <1>2 DEF Goto
<1>4. job'[r].todo = Refundable
  BY <1>2 DEF JobType
<1> QED
  BY <1>2, <1>3, <1>4

LEMMA RefundStep ==
  ASSUME ~Early, TypeOK, TodoInv, CallerInv, FreshInv, LockInv, ActiveInv, StakeInv, KeyInv,
         RefundInv, [Next]_vars
  PROVE  RefundInv'
<1> USE StatusNames
<1> SUFFICES ASSUME faults' = 0 PROVE RefundInv'
  BY DEF RefundInv
<1>0. faults = 0 /\ faults' = faults
  BY FaultsStep, TypeParts
<1>n. \A p \in Humans : p \in Players
  BY DEF Players
<1>1. ASSUME NEW p \in Humans, StakeKey(p) \in used'
      PROVE  part'[p].staked \/ \E r \in Procs : pc'[r] = "record" /\ p = First(job'[r].todo)
  <2>1. CASE StakeKey(p) \notin used
    <3>1. PICK r \in Procs : StakeDebit(r) /\ StakeKey(p) = StakeKey(First(job[r].todo))
                             /\ pc'[r] = "record" /\ job'[r] = job[r]
      BY <1>1, <2>1, UsedBy, RefundCredits, Keys
    <3>2. p = First(job[r].todo)
      BY <3>1, StakeDebits, Keys
    <3> QED
      BY <3>1, <3>2
  <2>2. CASE StakeKey(p) \in used /\ part[p].staked
    <3>1. row.status # "none"
      BY <2>2 DEF FreshInv
    <3> QED
      BY <1>n, <2>2, <3>1, StakedStays
  <2>3. ASSUME StakeKey(p) \in used, NEW r \in Procs, pc[r] = "record", p = First(job[r].todo)
        PROVE  part'[p].staked \/ (pc'[r] = "record" /\ p = First(job'[r].todo))
    <3>1. CASE pc'[r] = pc[r] /\ job'[r] = job[r]
      BY <2>3, <3>1
    <3>2. CASE Acts(r)
      <4>1. ~RefundFails(r) /\ ~Crash(r)
        BY <1>0, TypeParts, StakeAssumption DEF RefundFails, Crash, Fault
      <4>2. Continue(r)
        BY <2>3, <3>2, <4>1 DEF Acts, Request, StartSession, Cancel, ReportRead, ConfirmRead, Dispute,
           ForfeitRead, Reads, Asks, Stale, DueScan
      <4>3. StakeRecord(r)
        BY <2>3, <4>2 DEF Continue, StakeDebit, PotSet, LobbyStarted, AbortLock, RefundCredit,
           RefundRecord, Close, SettleLock, SettleCommit, ReportLocked, ConfirmLocked, DueLocked,
           ForfeitLock, ForfeitOut, HandOver, Busy, Waiting
      <4> QED
        BY <2>3, <4>3, StakeRecords
    <3> QED
      BY <3>1, <3>2, Movers
  <2> QED
    BY <1>0, <1>1, <2>1, <2>2, <2>3 DEF RefundInv
<1>2. ASSUME row'.status = "ACTIVE", \A r \in Procs : pc'[r] \notin Refunds, NEW p \in Humans
      PROVE  ~part'[p].refunded /\ part'[p].status \in {"PLAYING", "LOST"}
  <2>1. CASE \E r \in Reqs : StartSession(r)
    BY <1>n, <2>1, StartIs
  <2>2. CASE ~\E r \in Reqs : StartSession(r)
    <3>1. row.status = "ACTIVE"
      BY <1>2, <2>2, DecisionMoves DEF Decision
    <3>2. \A r \in Procs : pc[r] \notin Refunds
      BY <1>0, <1>2, RefundsEnd, CloseIs
    <3>3. ~part[p].refunded /\ part[p].status \in {"PLAYING", "LOST"}
      BY <1>0, <3>1, <3>2 DEF RefundInv
    <3>4. \A r \in Procs : ~RefundRecord(r) /\ ~SettleCommit(r)
      BY <1>2, RefundRecords, Settles DEF Refunds
    <3> QED
      BY <1>n, <2>2, <3>3, <3>4, PartMoves, StakeRecords, ForfeitsOut
  <2> QED
    BY <2>1, <2>2
<1>3. ASSUME NEW r \in Procs, pc'[r] \in Refunds, NEW p \in Humans, StakeKey(p) \in used'
      PROVE  RefundKey(p) \in used' \/ p \in job'[r].todo
  <2>u. used \subseteq used'
    BY UsedGrows
  <2>1. CASE pc'[r] = pc[r] /\ job'[r] = job[r]
    <3>1. StakeKey(p) \in used
      <4>1. ASSUME NEW q \in Procs, StakeDebit(q) PROVE FALSE
        BY <1>3, <2>1, <4>1, Exclusive DEF StakeDebit, Starts, Refunds
      <4> QED
        BY <1>3, <4>1, UsedBy, RefundCredits, Keys
    <3> QED
      BY <1>0, <1>3, <2>u, <2>1, <3>1 DEF RefundInv
  <2>2. CASE StakeDebit(r)
    <3>1. used' = used /\ job'[r].todo = {q \in Humans : StakeKey(q) \in booked} /\ pc[r] = "stake"
      BY <1>3, <2>2, StakeDebits DEF StakeDebit, Refunds
    <3>2. StakeKey(p) \in booked
      BY <1>3, <3>1 DEF StakeInv
    <3> QED
      BY <3>1, <3>2
  <2>3. CASE AbortLock(r)
    <3>1. /\ row.status = "ACTIVE" /\ lock["session"] = None /\ used' = used
          /\ job'[r].todo = Refundable /\ pc[r] = "abort"
      BY <1>3, <2>3, AbortLocks
    <3>2. \A q \in Procs : pc[q] \notin Starts \cup Refunds
      BY <3>1, ProcsAre DEF LockInv, Starts, Refunds, Resting
    <3>3. part[p].staked
      BY <1>0, <1>3, <3>1, <3>2 DEF RefundInv, Starts
    <3>4. ~part[p].refunded /\ part[p].status \in {"PLAYING", "LOST"}
      BY <1>0, <3>1, <3>2 DEF RefundInv
    <3> QED
      BY <3>1, <3>3, <3>4 DEF Refundable
  <2>4. CASE RefundCredit(r)
    <3>1. StakeKey(p) \in used /\ pc[r] \in Refunds /\ job' = job
      BY <1>3, <2>4, RefundCredits, Keys DEF Refunds
    <3> QED
      BY <1>0, <2>u, <3>1 DEF RefundInv
  <2>5. CASE RefundRecord(r)
    <3>1. /\ used' = used /\ pc[r] = "book" /\ job'[r].todo = job[r].todo \ {First(job[r].todo)}
      BY <2>5, RefundRecords
    <3>2. RefundKey(First(job[r].todo)) \in used /\ (RefundKey(p) \in used \/ p \in job[r].todo)
      BY <1>0, <1>3, <3>1 DEF RefundInv, Refunds
    <3> QED
      BY <3>1, <3>2
  <2> QED
    BY <1>0, <1>3, <2>1, <2>2, <2>3, <2>4, <2>5, Movers, RefundsBy
<1>4. ASSUME NEW r \in Procs, pc'[r] = "book" PROVE RefundKey(First(job'[r].todo)) \in used'
  <2>u. used \subseteq used'
    BY UsedGrows
  <2>1. CASE pc'[r] = pc[r] /\ job'[r] = job[r]
    BY <1>0, <1>4, <2>u, <2>1 DEF RefundInv
  <2>2. CASE RefundCredit(r)
    BY <2>2, RefundCredits
  <2>3. CASE StakeDebit(r) \/ AbortLock(r) \/ RefundRecord(r)
    BY <1>4, <2>3, StakeDebits, AbortLocks, RefundRecords DEF Refunds
  <2> QED
    BY <1>0, <1>4, <2>1, <2>2, <2>3, Movers, RefundsBy DEF Refunds
<1>5. ASSUME row'.status \in Closed, NEW p \in Humans, StakeKey(p) \in used'
      PROVE  RefundKey(p) \in used'
  <2>u. used \subseteq used'
    BY UsedGrows
  <2>1. CASE row.status \in Closed
    <3>1. StakeKey(p) \in used
      <4>1. ASSUME NEW q \in Procs, StakeDebit(q) PROVE FALSE
        BY <2>1, <4>1 DEF StakeDebit, ActiveInv, Starts
      <4> QED
        BY <1>5, <4>1, UsedBy, RefundCredits, Keys
    <3> QED
      BY <1>0, <2>u, <2>1, <3>1 DEF RefundInv
  <2>2. CASE row.status \notin Closed
    <3>1. PICK r \in Procs : Close(r)
      <4>1. row'.status # row.status /\ row'.status # "ACTIVE" /\ row'.status # "COMPLETED"
        BY <1>5, <2>2
      <4> QED
        BY <4>1, DecisionMoves DEF Decision
    <3> QED
      BY <1>0, <1>5, <3>1, CloseIs DEF RefundInv, Refunds
  <2> QED
    BY <2>1, <2>2
<1> QED
  BY <1>1, <1>2, <1>3, <1>4, <1>5 DEF RefundInv

-----------------------------------------------------------------------------
(* Who is left in the match.                                               *)

LEMMA LetOut ==
  ASSUME TypeOK, CallerInv, NEW r \in Procs, Acts(r), Hops(r), pc'[r] = "out", pc[r] # "out"
  PROVE  part' = part /\ Playing(Caller[r]) /\ Verdict(Caller[r]) = {}
<1>1. pc[r] = "forfeit"
  BY DEF Hops, Hop, Begins, Loops, Rests, Enters, Holds, Turns, Leaves, Dies, Starts, Refunds
<1>2. ~Finish(r)
  BY TypeParts, Finishes
<1>3. ~Crash(r)
  <2>1. ASSUME Crash(r) PROVE pc'[r] \in {"idle", "done"}
    BY <2>1, TypeParts DEF Crash, Goto, ProcsOK
  <2> QED
    BY <2>1
<1>4. ForfeitLock(r)
  BY <1>1, <1>2, <1>3 DEF Acts, Request, StartSession, Cancel, ReportRead, ConfirmRead, Dispute,
     ForfeitRead, Reads, Asks, Stale, DueScan, RefundFails, Continue, StakeDebit, StakeRecord, PotSet,
     LobbyStarted, AbortLock, RefundCredit, RefundRecord, Close, SettleLock, SettleCommit, ReportLocked,
     ConfirmLocked, DueLocked, ForfeitOut, HandOver, Busy
<1>5. ASSUME NEW pot, NEW ws, NEW n, Decide(r, pot, ws, n) PROVE FALSE
  BY <1>5, TypeParts DEF Decide, Goto, ProcsOK
<1> QED
  BY <1>2, <1>4, <1>5 DEF ForfeitLock, Unchanged, rows

LEMMA OutStep ==
  ASSUME TypeOK, TodoInv, CallerInv, FreshInv, LockInv, OutInv, [Next]_vars
  PROVE  OutInv'
<1> SUFFICES ASSUME NEW r \in Procs, pc'[r] = "out"
             PROVE  part' = part /\ Playing(Caller[r]) /\ Verdict(Caller[r]) = {}
  <2>1. SUFFICES ASSUME NEW r \in Procs, pc'[r] = "out"
                 PROVE  Playing(Caller[r])' /\ Verdict(Caller[r])' = {}
    BY DEF OutInv
  <2>2. part' = part /\ Playing(Caller[r]) /\ Verdict(Caller[r]) = {}
    BY <2>1
  <2>3. PlayersLeft' = PlayersLeft /\ Playing(Caller[r])'
    BY <2>2 DEF PlayersLeft, Playing
  <2> QED
    BY <2>2, <2>3 DEF Verdict
<1>1. CASE pc[r] # "out"
  BY <1>1, Movers, LetOut
<1>2. CASE pc[r] = "out"
  <2>1. ASSUME NEW q \in Reqs, StartSession(q) PROVE FALSE
    BY <1>2, <2>1 DEF StartSession, FreshInv, Resting
  <2>2. ASSUME NEW q \in Procs, StakeRecord(q) \/ RefundRecord(q) \/ SettleCommit(q) PROVE FALSE
    BY <1>2, <2>2, Exclusive DEF StakeRecord, RefundRecord, SettleCommit, Starts, Refunds
  <2>3. ASSUME NEW q \in Procs, ForfeitOut(q) PROVE FALSE
    <3>1. pc[q] = "out" /\ pc'[q] # "out"
      BY <2>3, ForfeitsOut
    <3> QED
      BY <1>2, <3>1, Exclusive
  <2>4. part' = part
    BY <2>1, <2>2, <2>3, PartMoves
  <2> QED
    BY <1>2, <2>4 DEF OutInv
<1> QED
  BY <1>1, <1>2

LEMMA SidesOf ==
  ASSUME NEW S \in SUBSET Players
  PROVE  LET sides == {Side[q] : q \in S} IN
         /\ IsFiniteSet(sides) /\ Cardinality(sides) \in Nat
         /\ S # {} => Cardinality(sides) > 0
         /\ (\E p, q \in S : Side[p] # Side[q]) => Cardinality(sides) > 1
<1> DEFINE sides == {Side[q] : q \in S}
<1>1. sides \in SUBSET Players
  BY SeatsAssumption
<1>2. S # {} => sides # {}
  OBVIOUS
<1>3. ASSUME NEW p \in S, NEW q \in S, Side[p] # Side[q] PROVE Cardinality(sides) > 1
  <2> DEFINE a == Side[p]
             b == Side[q]
  <2>1. a \in sides /\ b \in sides /\ a # b
    BY <1>3
  <2> HIDE DEF a, b, sides
  <2>2. Cardinality({a}) = 1 /\ IsFiniteSet({a})
    BY FS_Singleton
  <2>3. Cardinality({a} \cup {b}) = 2
    <3>1. b \notin {a}
      BY <2>1
    <3>2. Cardinality({a} \cup {b}) = IF b \in {a} THEN Cardinality({a}) ELSE Cardinality({a}) + 1
      BY <2>2, FS_AddElement
    <3> QED
      BY <2>2, <3>1, <3>2
  <2>4. {a} \cup {b} \in SUBSET sides
    BY <2>1
  <2>5. IsFiniteSet(sides) /\ Cardinality(sides) \in Nat
    BY <1>1, CardNat
  <2>6. Cardinality({a} \cup {b}) <= Cardinality(sides)
    BY <2>4, <2>5, FS_Subset
  <2> QED
    BY <2>3, <2>5, <2>6
<1> HIDE DEF sides
<1>4. IsFiniteSet(sides) /\ Cardinality(sides) \in Nat /\ (sides # {} => Cardinality(sides) > 0)
  BY <1>1, CardNat
<1> QED
  BY <1>2, <1>3, <1>4 DEF sides

LEMMA StrandStep ==
  ASSUME TypeOK, TodoInv, CallerInv, FreshInv, OutInv, NobodyStranded, [Next]_vars
  PROVE  NobodyStranded'
<1> USE StatusNames
<1> DEFINE Two(S) == S \cap Humans # {} /\ Cardinality({Side[p] : p \in S}) > 1
<1> SUFFICES ASSUME row'.status = "ACTIVE", \A p \in Players : part'[p].status # "REFUNDED"
             PROVE  Two(PlayersLeft')
  BY DEF NobodyStranded, PlayersLeft, Playing
<1>1. CASE \E r \in Reqs : StartSession(r)
  <2>1. PlayersLeft' = Players
    BY <1>1, StartIs DEF PlayersLeft, Playing
  <2>2. Players \cap Humans # {} /\ \E p, q \in Players : Side[p] # Side[q]
    BY SeatsAssumption DEF Players
  <2> QED
    BY <2>1, <2>2, SidesOf
<1>2. CASE ~\E r \in Reqs : StartSession(r)
  <2>1. row.status = "ACTIVE"
    BY <1>2, DecisionMoves DEF Decision
  <2>2. ASSUME \A p \in Players : part'[p].status = part[p].status PROVE Two(PlayersLeft')
    <3>1. PlayersLeft' = PlayersLeft
      BY <2>2 DEF PlayersLeft, Playing
    <3>2. \A p \in Players : part[p].status # "REFUNDED"
      BY <2>2
    <3> QED
      BY <2>1, <3>1, <3>2 DEF NobodyStranded
  <2>3. ASSUME NEW r \in Procs, ForfeitOut(r) PROVE Two(PlayersLeft')
    <3> DEFINE p == Caller[r]
               others == PlayersLeft \ {p}
    <3>1. Verdict(p) = {} /\ pc[r] = "out"
      BY <2>3, ForfeitsOut DEF OutInv
    <3>2. PlayersLeft' = others
      BY <2>3, ForfeitsOut DEF PlayersLeft, Playing
    <3>3. others # {} /\ ~(others \subseteq Bots) /\ Cardinality({Side[q] : q \in others}) # 1
      BY <3>1 DEF Verdict
    <3>4. others \in SUBSET Players
      BY DEF PlayersLeft
    <3> HIDE DEF others
    <3>5. Cardinality({Side[q] : q \in others}) \in Nat /\ Cardinality({Side[q] : q \in others}) > 0
      BY <3>3, <3>4, SidesOf
    <3>6. Cardinality({Side[q] : q \in others}) > 1
      <4> DEFINE n == Cardinality({Side[q] : q \in others})
      <4>1. n \in Nat /\ n > 0 /\ n # 1
        BY <3>3, <3>5
      <4> HIDE DEF n
      <4>2. n > 1
        BY <4>1
      <4> QED
        BY <4>2 DEF n
    <3> QED
      BY <3>2, <3>3, <3>4, <3>6 DEF Players
  <2>4. \A r \in Procs : ~SettleCommit(r)
    BY Settles
  <2>5. ASSUME NEW r \in Procs, StakeRecord(r) \/ RefundRecord(r)
        PROVE  \A p \in Players : part'[p].status = part[p].status
    BY <2>5, StakeRecords, RefundRecords
  <2> QED
    BY <1>2, <2>2, <2>3, <2>4, <2>5, PartMoves
<1> QED
  BY <1>1, <1>2

-----------------------------------------------------------------------------
(* Where a report may be.                                                  *)

LEMMA ReportedMoves ==
  ASSUME TypeOK, CallerInv, [Next]_vars
  PROVE  \/ /\ reports' = reports /\ disputed' = disputed
            /\ pending' \in {pending, None} \/ (pending # None /\ pending'.id = pending.id)
         \/ /\ reports' = reports + 1 /\ disputed' = disputed /\ pending = None
            /\ pending' = None \/ pending'.id = reports + 1
         \/ /\ reports' = reports /\ pending # None /\ pending' = None
            /\ disputed' = disputed \cup {pending.id}
<1>1. ASSUME NEW r \in Procs, ReportLocked(r)
      PROVE  /\ disputed' = disputed
             /\ \/ reports' = reports /\ pending' = pending
                \/ /\ reports' = reports + 1 /\ pending = None
                   /\ pending' = None \/ pending'.id = reports + 1
  <2>1. CASE /\ row.status = "ACTIVE" /\ pending = None /\ reports' = reports + 1
             /\ \E ws \in Reportable :
                   \/ pending' = pending
                   \/ pending' = [id |-> reports', winners |-> ws, by |-> Caller[r], due |-> FALSE]
    BY <1>1, <2>1 DEF ReportLocked
  <2>2. CASE UNCHANGED <<pending, index, reports>>
    BY <1>1, <2>2 DEF ReportLocked
  <2> QED
    BY <1>1, <2>1, <2>2 DEF ReportLocked
<1>2. ASSUME NEW r \in Procs, ConfirmLocked(r) \/ DueLocked(r)
      PROVE  reports' = reports /\ disputed' = disputed /\ pending' \in {pending, None}
  BY <1>2 DEF ConfirmLocked, DueLocked, Answered
<1>3. ASSUME NEW r \in Reqs, Dispute(r)
      PROVE  /\ reports' = reports /\ pending # None /\ pending' = None
             /\ disputed' = disputed \cup {pending.id}
  BY <1>3 DEF Dispute, Answered, MayAnswer
<1>4. CASE WindowPasses
  <2>1. pending # None /\ pending' = [pending EXCEPT !.due = TRUE]
    BY <1>4 DEF WindowPasses
  <2>2. pending'.id = pending.id
    BY <2>1, PendingIs DEF ReportType
  <2> QED
    BY <1>4, <2>1, <2>2 DEF WindowPasses
<1>5. CASE PendingExpires
  BY <1>5 DEF PendingExpires
<1> QED
  BY <1>1, <1>2, <1>3, <1>4, <1>5, ReportsMove DEF reported

Spared(n) == n <= reports' /\ n \notin disputed' /\ (pending' # None => n # pending'.id)

(* What nobody has disputed and nobody can dispute any more stays so.      *)
LEMMA FreeStays ==
  ASSUME TypeOK, CallerInv, [Next]_vars, NEW n \in Nat, Untouched(n)
  PROVE  Spared(n)
<1>1. reports \in Nat
  BY StakeAssumption DEF TypeOK
<1> QED
  BY <1>1, ReportedMoves DEF Untouched, Spared

LEMMA Unreported ==
  ASSUME TypeOK, ReportInv
  PROVE  Untouched(0)
<1>1. reports \in Nat /\ disputed \subseteq 1 .. reports
  BY StakeAssumption DEF TypeOK, ReportInv
<1>2. pending # None => pending.id # 0
  BY PendingIs
<1> QED
  BY <1>1, <1>2 DEF Untouched

(* A payment is begun by an answer, a due report or a forfeit.             *)
LEMMA SettlesBy ==
  ASSUME TypeOK, CallerInv, NEW r \in Procs, Acts(r), Hops(r), pc'[r] \in {"settle", "commit"}
  PROVE  SettleLock(r) \/ ReportLocked(r) \/ ConfirmLocked(r) \/ DueLocked(r) \/ ForfeitLock(r)
<1>1. pc[r] \in {"settle", "report", "confirm", "due", "forfeit"}
  BY DEF Hops, Hop, Begins, Loops, Rests, Enters, Holds, Turns, Leaves, Dies, Starts, Refunds
<1>2. ~Crash(r)
  BY TypeParts DEF Crash, Goto, ProcsOK
<1>3. ~Busy(r)
  BY TypeParts, Finishes DEF Busy
<1> QED
  BY <1>1, <1>2, <1>3 DEF Acts, Request, StartSession, Cancel, ReportRead, ConfirmRead, Dispute,
     ForfeitRead, Reads, Asks, Stale, DueScan, RefundFails, Continue, StakeDebit, StakeRecord, PotSet,
     LobbyStarted, AbortLock, RefundCredit, RefundRecord, Close, SettleCommit, ForfeitOut, HandOver

LEMMA PaidReport ==
  ASSUME TypeOK, CallerInv, ReportInv, [Next]_vars, NEW r \in Procs, Acts(r), Hops(r),
         pc'[r] \in {"settle", "commit"}
  PROVE  Spared(job'[r].report)
<1> USE TypeParts
<1> DEFINE n == job'[r].report
<1>0. reports \in 0 .. MaxReports /\ disputed \subseteq 1 .. reports /\ MaxReports \in Nat
  BY StakeAssumption DEF RedisOK, ReportInv
<1>p. pending # None => pending.id <= reports /\ pending.id \notin disputed
  BY DEF ReportInv
<1>1. ~Finish(r)
  BY Finishes
<1>2. ASSUME NEW pot \in Nat, NEW ws \in SUBSET Players, NEW m \in 0 .. MaxReports,
             Decide(r, pot, ws, m)
      PROVE  n = m
  BY <1>2, Decides
<1>3. CASE SettleLock(r)
  <2>1. pc[r] = "settle" /\ job' = job
    BY <1>1, <1>3 DEF SettleLock
  <2>2. job[r].report \in Nat
    BY <1>0 DEF ProcsOK, JobType
  <2> QED
    BY <2>1, <2>2, FreeStays DEF ReportInv
<1>4. CASE ReportLocked(r)
  <2>1. PICK ws \in Reportable : Decide(r, job[r].pot, ws, reports')
    BY <1>1, <1>4 DEF ReportLocked
  <2>2. /\ pending = None /\ reports' = reports + 1 /\ reports < MaxReports
        /\ disputed' = disputed /\ pending' = pending
    <3>1. pc'[r] # "idle" /\ pc'[r] # "done"
      OBVIOUS
    <3> QED
      BY <1>1, <1>4 DEF ReportLocked
  <2>3. n = reports + 1
    <3>1. job[r].pot \in Nat /\ ws \in SUBSET Players
      BY DEF ProcsOK, JobType, Reportable
    <3>2. reports' \in 0 .. MaxReports
      BY <1>0, <2>2
    <3>3. n = reports'
      BY <1>2, <2>1, <3>1, <3>2
    <3> QED
      BY <2>2, <3>3
  <2> HIDE DEF n
  <2>4. Spared(n)
    BY <1>0, <2>2, <2>3 DEF Spared
  <2> QED
    BY <2>4 DEF n
<1>5. CASE ConfirmLocked(r) \/ DueLocked(r)
  <2>1. /\ pending # None /\ pending' = None /\ reports' = reports /\ disputed' = disputed
        /\ \E pot \in {job[r].pot, row.pot} : Decide(r, pot, pending.winners, pending.id)
    BY <1>1, <1>5 DEF ConfirmLocked, DueLocked, MayAnswer, Answered
  <2>2. n = pending.id
    BY <1>2, <2>1, PendingIs DEF ProcsOK, JobType, RowsOK
  <2> HIDE DEF n
  <2>3. Spared(n)
    BY <1>p, <2>1, <2>2 DEF Spared
  <2> QED
    BY <2>3 DEF n
<1>6. CASE ForfeitLock(r)
  <2>1. Decide(r, job[r].pot, Verdict(Caller[r]), 0)
    <3>1. ~Goto(r, "out")
      BY DEF Goto, ProcsOK
    <3> QED
      BY <1>1, <1>6, <3>1 DEF ForfeitLock
  <2>2. n = 0
    <3>1. Verdict(Caller[r]) \in SUBSET Players
      <4>1. Caller[r] \in Players
        BY <1>6 DEF CallerInv, ForfeitLock, Players
      <4> QED
        BY <4>1, VerdictIs
    <3>2. job[r].pot \in Nat /\ 0 \in 0 .. MaxReports
      BY <1>0 DEF ProcsOK, JobType
    <3> QED
      BY <1>2, <2>1, <3>1, <3>2
  <2> HIDE DEF n
  <2>3. Spared(n)
    BY <2>2, Unreported, FreeStays
  <2> QED
    BY <2>3 DEF n
<1> QED
  BY <1>3, <1>4, <1>5, <1>6, SettlesBy

LEMMA ReportStep ==
  ASSUME TypeOK, CallerInv, ReportInv, [Next]_vars
  PROVE  ReportInv'
<1>0. reports \in Nat /\ disputed \subseteq 1 .. reports
  BY StakeAssumption DEF TypeOK, ReportInv
<1>p. pending # None => pending.id \in 1 .. reports /\ pending.id \notin disputed
  BY <1>0, PendingIs DEF ReportInv
<1>1. disputed' \subseteq 1 .. reports'
  <2>1. CASE reports' = reports /\ disputed' = disputed
    BY <1>0, <2>1
  <2>2. CASE reports' = reports + 1 /\ disputed' = disputed
    <3>1. 1 .. reports \subseteq 1 .. (reports + 1)
      BY <1>0
    <3> QED
      BY <1>0, <2>2, <3>1
  <2>3. CASE reports' = reports /\ pending # None /\ disputed' = disputed \cup {pending.id}
    BY <1>0, <1>p, <2>3
  <2> QED
    BY <2>1, <2>2, <2>3, ReportedMoves
<1>2. ASSUME pending' # None PROVE pending'.id \notin disputed' /\ pending'.id <= reports'
  <2>1. CASE reports' = reports /\ disputed' = disputed /\ pending # None /\ pending'.id = pending.id
    BY <1>p, <2>1
  <2>2. CASE reports' = reports + 1 /\ disputed' = disputed /\ pending'.id = reports + 1
    <3>1. reports + 1 \notin disputed
      BY <1>0
    <3> QED
      BY <1>0, <2>2, <3>1
  <2> QED
    BY <1>2, <2>1, <2>2, ReportedMoves
<1>3. ASSUME NEW r \in Procs, pc'[r] \in {"settle", "commit"} PROVE Spared(job'[r].report)
  <2>1. CASE pc'[r] = pc[r] /\ job'[r] = job[r]
    <3>1. job[r].report \in Nat
      BY StakeAssumption DEF TypeOK, JobType
    <3>2. Untouched(job[r].report)
      BY <1>3, <2>1 DEF ReportInv
    <3>3. Spared(job[r].report)
      BY <3>1, <3>2, FreeStays
    <3> QED
      BY <2>1, <3>3
  <2> QED
    BY <1>3, <2>1, Movers, PaidReport
<1>4. ASSUME result' # None PROVE Spared(result'.report)
  <2>1. CASE result' = result
    <3>1. result.report \in Nat
      BY <1>4, <2>1, StakeAssumption DEF TypeOK, ResultType
    <3> QED
      BY <1>4, <2>1, <3>1, FreeStays DEF ReportInv
  <2>2. CASE \E r \in Procs : SettleCommit(r)
    <3>1. PICK r \in Procs : SettleCommit(r)
      BY <2>2
    <3>2. result'.report = job[r].report /\ pc[r] = "commit"
      BY <3>1 DEF SettleCommit
    <3>3. job[r].report \in Nat /\ Untouched(job[r].report)
      BY <3>2, StakeAssumption DEF TypeOK, JobType, ReportInv
    <3> QED
      BY <3>2, <3>3, FreeStays
  <2> QED
    BY <2>1, <2>2, DecisionMoves DEF Decision
<1> QED
  BY <1>1, <1>2, <1>3, <1>4 DEF ReportInv, Untouched, Spared

-----------------------------------------------------------------------------
(* The invariant, and what follows from it.                                *)

LEMMA InitIsGood == Init => IInv
<1> SUFFICES ASSUME Init PROVE IInv
  OBVIOUS
<1> USE StatusNames, ProcsAre
<1>1. TypeOK
  <2>1. MoneyOK
    <3>1. gold \in [Humans -> [{GOLD} -> Fund]] /\ used = {}
      BY DEF Init
    <3>2. [{GOLD} -> Fund] \subseteq [{GOLD} -> Int]
      <4>1. Fund \subseteq Int
        BY StakeAssumption
      <4> QED
        BY <4>1
    <3> QED
      BY <3>1, <3>2 DEF MoneyOK
  <2>2. RowsOK
    BY PartParts DEF Init, RowsOK, PartRow
  <2>3. RedisOK /\ faults \in 0 .. MaxFaults
    <3>1. /\ moved = FALSE /\ pending = None /\ index = "no" /\ reports = 0 /\ disputed = {}
          /\ faults = 0
      BY DEF Init
    <3>2. 0 \in 0 .. MaxReports /\ 0 \in 0 .. MaxFaults
      BY StakeAssumption
    <3> QED
      BY <3>1, <3>2 DEF RedisOK
  <2>4. ProcsOK
    BY NoJobIs DEF Init, ProcsOK, PcType
  <2> QED
    BY <2>1, <2>2, <2>3, <2>4, TypeParts
<1>2. /\ row.status = "none" /\ row.pot = 0 /\ used = {} /\ booked = {} /\ result = None
      /\ pending = None /\ index = "no" /\ disputed = {} /\ faults = 0
      /\ lock["session"] = None /\ lock["lobby"] = None
  BY DEF Init
<1>3. \A r \in Procs : pc[r] = "idle"
  BY DEF Init
<1>4. TodoInv /\ CallerInv /\ ReportInv
  BY <1>2, <1>3 DEF TodoInv, CallerInv, ReportInv, Starts
<1>5. FreshInv /\ LockInv
  BY <1>2, <1>3 DEF FreshInv, LockInv, Resting, Starts, Refunds
<1>6. ActiveInv /\ PotInv /\ StakeInv
  BY <1>2, <1>3 DEF ActiveInv, PotInv, StakeInv, Starts, Refunds
<1>7. KeyInv /\ RefundInv /\ OutInv /\ NobodyStranded
  BY <1>2, <1>3 DEF KeyInv, RefundInv, OutInv, NobodyStranded, Refunds
<1> QED
  BY <1>1, <1>4, <1>5, <1>6, <1>7 DEF IInv, BaseInv

LEMMA BaseStep == ASSUME BaseInv, [Next]_vars PROVE BaseInv'
<1> USE DEF BaseInv
<1>1. TypeOK'
  <2>1. MoneyOK' /\ RowsOK' /\ RedisOK' /\ faults' \in 0 .. MaxFaults
    BY MoneyStep, RowsStep, RedisStep, FaultsStep
  <2>2. ProcsOK'
    BY NextHops DEF Hops
  <2> QED
    BY <2>1, <2>2 DEF TypeOK, MoneyOK, RowsOK, RedisOK, ProcsOK
<1>2. TodoInv' /\ CallerInv' /\ ReportInv'
  BY TodoStep, CallerStep, ReportStep
<1> QED
  BY <1>1, <1>2

LEMMA IStep == ASSUME ~Early, IInv, [Next]_vars PROVE IInv'
<1> USE DEF IInv
<1>0. TypeOK /\ TodoInv /\ CallerInv
  BY DEF BaseInv
<1>1. BaseInv'
  BY BaseStep
<1>2. FreshInv' /\ LockInv' /\ ActiveInv'
  BY <1>0, FreshStep, LockStep, ActiveStep
<1>3. PotInv' /\ StakeInv' /\ KeyInv'
  BY <1>0, PotStep, StakeStep, KeyStep
<1>4. RefundInv' /\ OutInv' /\ NobodyStranded'
  BY <1>0, RefundStep, OutStep, StrandStep
<1> QED
  BY <1>1, <1>2, <1>3, <1>4

LEMMA BaseInvariant == Spec => []BaseInv
<1>1. Init => BaseInv
  BY InitIsGood DEF IInv
<1>2. BaseInv /\ [Next]_vars => BaseInv'
  BY BaseStep
<1> QED
  BY <1>1, <1>2, PTL DEF Spec

LEMMA Invariant == ASSUME ~Early PROVE Spec => []IInv
<1>1. IInv /\ [Next]_vars => IInv'
  BY IStep
<1> QED
  BY InitIsGood, <1>1, PTL DEF Spec

LEMMA StakesAreOK == ASSUME IInv PROVE StakesOK
<1> USE StatusNames DEF IInv
<1>1. TypeOK
  BY DEF BaseInv
<1>2. CollectedFirst
  BY DEF CollectedFirst, PotInv, StakesTaken
<1>3. PaidOrRefunded
  BY DEF PaidOrRefunded, KeyInv, ActiveInv
<1>4. NoStakeIsKept
  <2> SUFFICES ASSUME faults = 0, Decided, NEW p \in Humans
               PROVE  IF row.status \in Closed THEN StakeKey(p) \in used => RefundKey(p) \in used
                      ELSE result.paid[p] = Share(Stake * Cardinality(Humans), result.winners, p)
    BY DEF NoStakeIsKept
  <2>1. CASE row.status \in Closed
    BY <2>1 DEF RefundInv
  <2>2. CASE row.status \notin Closed
    <3>1. result # None
      BY <2>2 DEF Decided, ActiveInv
    <3>2. result.paid[p] = Share(Full, result.winners, p)
      BY <3>1 DEF PotInv
    <3> QED
      BY <2>2, <3>2 DEF Full
  <2> QED
    BY <2>1, <2>2
<1> QED
  BY <1>1, <1>2, <1>3, <1>4 DEF StakesOK

(* What startSessionFromLobby has collected is paid out once or given back *)
(* once: settleResult pays only from a pot collected in full, nobody is    *)
(* both paid and refunded, and an ended match keeps nobody's stake.        *)
THEOREM StakesAreSafe == ASSUME ~Early PROVE Spec => []StakesOK
<1>1. IInv => StakesOK
  BY StakesAreOK
<1> QED
  BY <1>1, Invariant, PTL

(* However forfeits race, forfeit leaves the last side in play its win: a  *)
(* match that goes on is between two sides, one of them with a human.      *)
THEOREM NobodyIsStranded == ASSUME ~Early PROVE Spec => []NobodyStranded
<1>1. IInv => NobodyStranded
  BY DEF IInv
<1> QED
  BY <1>1, Invariant, PTL

(* A report that disputeMatchResult has dropped is never paid, neither by  *)
(* confirmMatchResult nor by sweepPendingResults, whoever read it before.  *)
(* This needs no assumption on when requests come in.                      *)
THEOREM DisputedIsNeverPaid == Spec => []DisputedIsNotPaid
<1>1. BaseInv => DisputedIsNotPaid
  BY DEF BaseInv, ReportInv, Untouched, DisputedIsNotPaid
<1> QED
  BY <1>1, BaseInvariant, PTL

(* The settlement, the cancel, the sweep and a failed start decide a match *)
(* once: no step changes the status, the pot or the result of one that has *)
(* ended.                                                                  *)
THEOREM MatchIsDecidedOnce == ASSUME ~Early PROVE Spec => DecidedOnce
<1>1. IInv /\ [Next]_vars =>
        [Decided => row'.status = row.status /\ result' = result /\ row'.pot = row.pot]_vars
  BY EndStays DEF IInv, BaseInv, Decision
<1> QED
  BY <1>1, Invariant, PTL DEF Spec, DecidedOnce
=============================================================================

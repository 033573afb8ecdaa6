----------------------------- MODULE CasinoProofs -----------------------------
(***************************************************************************)
(* What holds of Casino for any number of players, taps, rounds, processes *)
(* and failures.  The argument: whoever writes a round's bets, keys or row *)
(* holds the round's lock, a round is settled by one tick at most because  *)
(* only the tick that moved it to results settles it, and no stake is      *)
(* refunded before the settlement has been given up.                       *)
(***************************************************************************)
EXTENDS Casino, Sums, TLAPS

BetPcs == {"idle", "done", "user", "round", "debit", "insert"}
TickPcs == {"idle", "tick", "create", "select", "settle", "tx", "refund", "mark"}
Betting == {"user", "round", "debit", "insert"}
Placing == {"debit", "insert"}
Ticking == {"tick", "select", "settle", "tx", "refund", "mark"}
SettlePcs == {"settle", "tx", "refund", "mark"}
Holding == {"debit", "insert", "tx", "refund", "mark"}

Typed ==
    /\ round \in [Rounds -> [status : {"none", "BETTING", "SETTLED", "ABORTED"},
                             outcome : Outcomes \cup {None}]]
    /\ bet \in [Rounds -> [Taps -> RowStates]]
    /\ mem \in [Instances -> Rounds \cup {None}]
    /\ state \in [Rounds -> [phase : {"betting", "spinning", "results"},
                             outcome : Outcomes \cup {None}]]
    /\ lock \in [Locks -> Procs \cup {None, Gone}]
    /\ pc \in [Procs -> PcType] /\ job \in [Procs -> JobType]

(* What a request or a tick holds and knows at each of its positions.      *)
JobOk(p) ==
    LET r == job[p].round IN
    /\ p \in Reqs => pc[p] \in BetPcs
    /\ p \in Ticks => pc[p] \in TickPcs
    /\ pc[p] \in Betting => job[p].tap \in Taps
    /\ pc[p] \in Betting \cup Ticking => r \in Rounds /\ round[r].status # "none"
    /\ pc[p] \in Holding => lock[r] = p
    /\ pc[p] \in Placing \cup SettlePcs => round[r].status = "BETTING"
    /\ pc[p] \in SettlePcs => state[r].phase = "results"
    /\ pc[p] = "insert" => BetKey(r, job[p].tap) \in used
    /\ pc[p] = "tx" => job[p].placed = Placed(r)
    /\ pc[p] \in {"refund", "mark"} => job[p].placed \subseteq Placed(r)
    /\ pc[p] = "mark" => job[p].tap \in job[p].placed /\ RefundKey(r, job[p].tap) \in used

MemOk(i) == mem[i] # None => mem[i] \in Rounds /\ round[mem[i]].status # "none"

RoundOk(r) ==
    /\ round[r].status = "none" => \A t \in Taps : bet[r][t] = "none"
    /\ round[r].status = "SETTLED" => Placed(r) = {}
    /\ state[r].phase # "results" => ~Ended(r) /\ \A k \in Ticks : ~Settling(k, r)
    /\ \A k, l \in Ticks : Settling(k, r) /\ Settling(l, r) => k = l

(* A tick that has not given the settlement up.                            *)
Trying(k, r) == job[k].round = r /\ pc[k] \in {"settle", "tx"}

KeyOk(r, t) ==
    /\ ~(WinKey(r, t) \in used /\ RefundKey(r, t) \in used)
    /\ bet[r][t] # "none" => BetKey(r, t) \in used
    /\ WinKey(r, t) \in used <=> bet[r][t] = "WON"
    /\ bet[r][t] = "REFUNDED" => RefundKey(r, t) \in used
    /\ RefundKey(r, t) \in used =>
         /\ bet[r][t] \in {"PLACED", "REFUNDED"} /\ state[r].phase = "results"
         /\ \A k \in Ticks : ~Trying(k, r)

JobInv == \A p \in Procs : JobOk(p)
MemInv == \A i \in Instances : MemOk(i)
RoundInv == \A r \in Rounds : RoundOk(r)
KeyInv == \A r \in Rounds, t \in Taps : KeyOk(r, t)

IInv == Typed /\ JobInv /\ MemInv /\ RoundInv /\ KeyInv

-----------------------------------------------------------------------------
(* The three families of keys are disjoint and name their bet.             *)
LEMMA KeysDiffer ==
    \A r, s \in Rounds, t, v \in Taps :
        /\ BetKey(r, t) # WinKey(s, v) /\ BetKey(r, t) # RefundKey(s, v)
        /\ WinKey(r, t) # RefundKey(s, v)
        /\ BetKey(r, t) = BetKey(s, v) => r = s /\ t = v
        /\ WinKey(r, t) = WinKey(s, v) => r = s /\ t = v
        /\ RefundKey(r, t) = RefundKey(s, v) => r = s /\ t = v
BY DEF BetKey, WinKey, RefundKey

(* A posted call uses its key and no other.                                *)
LEMMA PostUses ==
    ASSUME NEW k, NEW c, W!Post(k, c)
    PROVE  used' = used \cup {k}
BY DEF W!Post, W!Move, W!accounts

LEMMA InitIInv == Init => IInv
<1> SUFFICES ASSUME Init PROVE IInv
  OBVIOUS
<1>1. Typed
  BY DEF Init, Typed, PcType, JobType, NoJob, NoRound, Fresh, RowStates
<1>2. JobInv
  BY ProcsAssumption DEF Init, JobInv, JobOk, Procs, BetPcs, TickPcs, Betting, Placing,
     Ticking, SettlePcs, Holding
<1>3. MemInv
  BY DEF Init, MemInv, MemOk
<1>4. RoundInv
  BY DEF Init, RoundInv, RoundOk, NoRound, Fresh, Ended, Settling, Procs
<1>5. KeyInv
  BY DEF Init, KeyInv, KeyOk
<1> QED BY <1>1, <1>2, <1>3, <1>4, <1>5 DEF IInv

-----------------------------------------------------------------------------
(* A process that does not move keeps what it holds and knows, if the rows *)
(* it relies on stay.                                                      *)
LEMMA OthersKeep ==
    ASSUME NEW p \in Procs, JobOk(p), pc'[p] = pc[p], job'[p] = job[p], used \subseteq used',
           \A r \in Rounds : round[r].status # "none" => round'[r].status # "none",
           \A r \in Rounds : job[p].round = r =>
             /\ pc[p] \in Holding => lock'[r] = lock[r]
             /\ pc[p] \in Placing \cup SettlePcs => round'[r].status = round[r].status
             /\ pc[p] \in SettlePcs => state'[r].phase = state[r].phase
             /\ pc[p] \in {"tx", "refund", "mark"} => bet'[r] = bet[r]
    PROVE  JobOk(p)'
BY DEF JobOk, Placed, BetKey, RefundKey, Betting, Placing, Ticking, SettlePcs, Holding

(* Rows stay as they are, and nobody starts to settle a round.             *)
LEMMA RowsKeep ==
    ASSUME IInv, UNCHANGED <<used, round, bet>>,
           \A r \in Rounds : state'[r].phase = "results" <=> state[r].phase = "results",
           \A k \in Ticks, r \in Rounds : /\ Settling(k, r)' => Settling(k, r)
                                          /\ Trying(k, r)' => Trying(k, r)
    PROVE  RoundInv' /\ KeyInv'
<1>1. ASSUME NEW r \in Rounds PROVE RoundOk(r)'
  BY <1>1 DEF IInv, RoundInv, RoundOk, Placed, Ended
<1>2. ASSUME NEW r \in Rounds, NEW t \in Taps PROVE KeyOk(r, t)'
  BY <1>2 DEF IInv, KeyInv, KeyOk, WinKey, RefundKey, BetKey
<1> QED BY <1>1, <1>2 DEF RoundInv, KeyInv

(* A step of one process that touches no row.                              *)
LEMMA LocalStep ==
    ASSUME IInv, NEW p \in Procs, UNCHANGED <<used, round, bet, mem, state>>, Typed',
           \A q \in Procs \ {p} : pc'[q] = pc[q] /\ job'[q] = job[q],
           \A l \in Locks : lock[l] \in Procs \ {p} => lock'[l] = lock[l],
           JobOk(p)',
           \A r \in Rounds : /\ Settling(p, r)' => Settling(p, r)
                             /\ Trying(p, r)' => Trying(p, r)
    PROVE  IInv'
<1>1. JobInv'
  <2> SUFFICES ASSUME NEW q \in Procs \ {p} PROVE JobOk(q)'
    BY DEF JobInv
  <2>1. \A r \in Rounds : job[q].round = r /\ pc[q] \in Holding => lock'[r] = lock[r]
    BY DEF IInv, JobInv, JobOk, Locks
  <2> QED BY <2>1, OthersKeep DEF IInv, JobInv
<1>2. MemInv'
  BY DEF IInv, MemInv, MemOk
<1>3. RoundInv' /\ KeyInv'
  <2>1. \A k \in Ticks, r \in Rounds : /\ Settling(k, r)' => Settling(k, r)
                                       /\ Trying(k, r)' => Trying(k, r)
    BY DEF Settling, Trying, Procs
  <2> QED BY <2>1, RowsKeep
<1> QED BY <1>1, <1>2, <1>3 DEF IInv

-----------------------------------------------------------------------------
(* The steps of a bet that touch no row.                                   *)

LEMMA BetKeeps ==
    ASSUME IInv, NEW q \in Reqs, Bet(q)
    PROVE  IInv'
<1> DEFINE i == Socket[q]
<1>1. i \in Instances /\ TapOf[q] \in Taps /\ mem[i] \in Rounds /\ round[mem[i]].status # "none"
  BY TapAssumption DEF Bet, IInv, MemInv, MemOk
<1>2. /\ pc' = [pc EXCEPT ![q] = "user"] /\ q \in Procs /\ q \notin Ticks
      /\ job' = [job EXCEPT ![q].round = mem[i], ![q].tap = TapOf[q]]
      /\ UNCHANGED <<used, round, bet, mem, state, lock>>
  BY ProcsAssumption DEF Bet, Goto, Procs
<1> HIDE DEF i
<1>3. Typed'
  <2> DEFINE j == [job[q] EXCEPT !.round = mem[i], !.tap = TapOf[q]]
  <2>1. j \in JobType /\ job' = [job EXCEPT ![q] = j]
    BY ZenonT(30), <1>1, <1>2 DEF IInv, Typed, JobType
  <2> HIDE DEF j
  <2>2. q \in Procs
    BY <1>2
  <2>3. job' \in [Procs -> JobType]
    BY <2>1, <2>2 DEF IInv, Typed
  <2>4. pc' \in [Procs -> PcType]
    BY <1>2 DEF IInv, Typed, PcType
  <2> QED BY <1>2, <2>3, <2>4 DEF IInv, Typed
<1>4. pc'[q] = "user" /\ job'[q].round = mem[i] /\ job'[q].tap = TapOf[q]
  BY <1>2 DEF IInv, Typed, JobType
<1>5. JobOk(q)'
  BY <1>1, <1>2, <1>4 DEF Bet, JobOk, BetPcs, Betting, Placing, Ticking, SettlePcs, Holding
<1>6. \A r \in Rounds : ~Settling(q, r)' /\ ~Trying(q, r)'
  BY <1>4 DEF Settling, Trying
<1> QED BY <1>2, <1>3, <1>5, <1>6, LocalStep DEF Bet, IInv, Typed

(* A request or tick that ends leaves nothing behind.                      *)
LEMMA EndKeeps ==
    ASSUME IInv, NEW p \in Procs, NEW l \in {"idle", "done"},
           p \in Ticks => l = "idle",
           Goto(p, l), Release(p), job' = [job EXCEPT ![p] = NoJob],
           UNCHANGED <<used, round, bet, mem, state>>
    PROVE  IInv'
<1>1. pc'[p] = l /\ job'[p] = NoJob
  BY DEF Goto, IInv, Typed
<1>2. NoJob \in JobType
  BY DEF NoJob, JobType
<1>3. Typed'
  BY <1>2 DEF Goto, Release, IInv, Typed, PcType
<1>4. JobOk(p)'
  BY <1>1, ProcsAssumption DEF JobOk, NoJob, BetPcs, TickPcs, Betting, Placing, Ticking,
     SettlePcs, Holding
<1>5. \A r \in Rounds : ~Settling(p, r)' /\ ~Trying(p, r)'
  BY <1>1 DEF Settling, Trying
<1>6. \A k \in Locks : lock[k] \in Procs \ {p} => lock'[k] = lock[k]
  BY DEF Release
<1>7. \A q \in Procs \ {p} : pc'[q] = pc[q] /\ job'[q] = job[q]
  BY DEF Goto, IInv, Typed
<1> QED BY <1>3, <1>4, <1>5, <1>6, <1>7, LocalStep

LEMMA BetUserLockKeeps ==
    ASSUME IInv, NEW q \in Reqs, BetUserLock(q)
    PROVE  IInv'
<1>1. q \in Procs /\ q \notin Ticks /\ pc' = [pc EXCEPT ![q] = "round"] /\ job' = job
  BY ProcsAssumption DEF BetUserLock, Goto, Procs
<1>2. JobOk(q) /\ pc[q] = "user"
  BY <1>1 DEF BetUserLock, IInv, JobInv
<1>3. Typed'
  BY <1>1 DEF BetUserLock, Take, IInv, Typed, PcType
<1>4. JobOk(q)'
  BY <1>1, <1>2 DEF BetUserLock, JobOk, BetPcs, Betting, Placing, Ticking, SettlePcs,
     Holding, IInv, Typed
<1>5. \A l \in Locks : lock[l] \in Procs \ {q} => lock'[l] = lock[l]
  BY ProcsAssumption DEF BetUserLock, Take, IInv, Typed
<1>6. \A r \in Rounds : ~Settling(q, r)' /\ ~Trying(q, r)'
  BY <1>1 DEF Settling, Trying, IInv, Typed
<1> QED BY <1>1, <1>3, <1>4, <1>5, <1>6, LocalStep DEF BetUserLock, IInv, Typed

LEMMA BetCheckKeeps ==
    ASSUME IInv, NEW q \in Reqs, BetCheck(q)
    PROVE  IInv'
<1> DEFINE r == job[q].round
<1>1. q \in Procs /\ q \notin Ticks
  BY ProcsAssumption DEF Procs
<1>2. JobOk(q) /\ pc[q] = "round"
  BY <1>1 DEF BetCheck, IInv, JobInv
<1>3. CASE Open(r) /\ RoomFor(r, job[q].tap)
  <2>1. /\ lock[r] = None /\ lock' = [lock EXCEPT ![r] = q] /\ round[r].status = "BETTING"
        /\ pc' = [pc EXCEPT ![q] = "debit"] /\ job' = job /\ r \in Rounds
    BY <1>2, <1>3 DEF BetCheck, Take, Goto, Open, JobOk, Betting
  <2>2. Typed'
    BY <1>1, <2>1 DEF BetCheck, IInv, Typed, PcType
  <2>3. JobOk(q)'
    BY <1>1, <1>2, <2>1 DEF BetCheck, JobOk, BetPcs, Betting, Placing, Ticking, SettlePcs,
       Holding, IInv, Typed, Locks
  <2>4. \A l \in Locks : lock[l] \in Procs \ {q} => lock'[l] = lock[l]
    BY <2>1, ProcsAssumption DEF IInv, Typed
  <2>5. \A s \in Rounds : ~Settling(q, s)' /\ ~Trying(q, s)'
    BY <1>1, <2>1 DEF Settling, Trying, IInv, Typed
  <2> QED BY <1>1, <2>1, <2>2, <2>3, <2>4, <2>5, LocalStep DEF BetCheck, IInv, Typed
<1>4. CASE ~(Open(r) /\ RoomFor(r, job[q].tap))
  BY <1>1, <1>4, EndKeeps DEF BetCheck, Finish
<1> QED BY <1>3, <1>4

LEMMA BetEndsKeep ==
    ASSUME IInv, NEW q \in Reqs, BetBusy(q) \/ BetFails(q)
    PROVE  IInv'
<1>1. q \in Procs /\ q \notin Ticks
  BY ProcsAssumption DEF Procs
<1> QED BY <1>1, EndKeeps DEF BetBusy, BetFails, Finish

-----------------------------------------------------------------------------
(* The steps of a tick that touch no row.                                  *)

LEMMA TickKeeps ==
    ASSUME IInv, NEW k \in Ticks, Tick(k)
    PROVE  IInv'
<1> DEFINE i == Home[k]
           l == IF mem[i] = None THEN "create" ELSE "tick"
<1>1. /\ i \in Instances /\ k \in Procs /\ k \notin Reqs
      /\ mem[i] \in Rounds \cup {None}
      /\ mem[i] # None => round[mem[i]].status # "none"
  BY ProcsAssumption DEF Procs, IInv, Typed, MemInv, MemOk
<1>2. /\ pc' = [pc EXCEPT ![k] = l] /\ job' = [job EXCEPT ![k].round = mem[i]]
      /\ UNCHANGED <<used, round, bet, mem, state, lock>>
  BY DEF Tick, Goto
<1>3. Typed'
  <2> DEFINE j == [job[k] EXCEPT !.round = mem[i]]
  <2>1. j \in JobType /\ job' = [job EXCEPT ![k] = j]
    BY ZenonT(30), <1>1, <1>2 DEF IInv, Typed, JobType
  <2> HIDE DEF j
  <2>2. job' \in [Procs -> JobType]
    BY <1>1, <2>1 DEF IInv, Typed
  <2>3. pc' \in [Procs -> PcType]
    BY <1>2 DEF IInv, Typed, PcType
  <2> QED BY <1>2, <2>2, <2>3 DEF IInv, Typed
<1>4. pc'[k] = l /\ job'[k].round = mem[i]
  BY <1>1, <1>2 DEF IInv, Typed, JobType
<1>5. JobOk(k)'
  BY <1>1, <1>2, <1>4 DEF JobOk, TickPcs, Betting, Placing, Ticking, SettlePcs, Holding
<1>6. \A r \in Rounds : ~Settling(k, r)' /\ ~Trying(k, r)'
  BY <1>4 DEF Settling, Trying
<1>7. \A q \in Procs \ {k} : pc'[q] = pc[q] /\ job'[q] = job[q]
  BY <1>2 DEF IInv, Typed
<1> QED BY <1>1, <1>2, <1>3, <1>5, <1>6, <1>7, LocalStep

(* A tick that moves on with the job it has, having let go of no bet it    *)
(* would have to remember.                                                 *)
LEMMA ToBettingKeeps ==
    ASSUME IInv, NEW k \in Ticks, ToBetting(k)
    PROVE  IInv'
<1>1. k \in Procs /\ k \notin Reqs
  BY ProcsAssumption DEF Procs
<1>2. /\ pc' = [pc EXCEPT ![k] = "create"]
      /\ UNCHANGED <<used, round, bet, mem, state, lock, job>>
  BY DEF ToBetting, Goto
<1>3. Typed'
  BY <1>2 DEF IInv, Typed, PcType
<1>4. pc'[k] = "create"
  BY <1>1, <1>2 DEF IInv, Typed
<1>5. JobOk(k)'
  BY <1>1, <1>4 DEF JobOk, TickPcs, Betting, Placing, Ticking, SettlePcs, Holding
<1>6. \A r \in Rounds : ~Settling(k, r)' /\ ~Trying(k, r)'
  BY <1>4 DEF Settling, Trying
<1>7. \A q \in Procs \ {k} : pc'[q] = pc[q] /\ job'[q] = job[q]
  BY <1>2 DEF IInv, Typed
<1> QED BY <1>1, <1>2, <1>3, <1>5, <1>6, <1>7, LocalStep

LEMMA SettleReadKeeps ==
    ASSUME IInv, NEW k \in Ticks, SettleRead(k)
    PROVE  IInv'
<1> DEFINE r == job[k].round
<1>1. k \in Procs /\ k \notin Reqs /\ pc[k] = "settle" /\ JobOk(k)
  BY ProcsAssumption DEF Procs, SettleRead, IInv, JobInv
<1>2. r \in Rounds /\ lock[r] = None /\ Placed(r) \in SUBSET Taps
  BY <1>1 DEF SettleRead, Take, JobOk, Ticking, Placed
<1>3. /\ pc' = [pc EXCEPT ![k] = "tx"] /\ job' = [job EXCEPT ![k].placed = Placed(r)]
      /\ lock' = [lock EXCEPT ![r] = k] /\ UNCHANGED <<used, round, bet, mem, state>>
  BY DEF SettleRead, Take, Goto
<1>4. Typed'
  <2> DEFINE j == [job[k] EXCEPT !.placed = Placed(r)]
  <2>a. job[k] \in JobType
    BY <1>1 DEF IInv, Typed
  <2>b. j \in JobType
    BY <1>2, <2>a DEF JobType
  <2>1. j \in JobType /\ job' = [job EXCEPT ![k] = j]
    BY <1>3, <2>b
  <2> HIDE DEF j
  <2>2. job' \in [Procs -> JobType]
    BY <1>1, <2>1 DEF IInv, Typed
  <2>3. pc' \in [Procs -> PcType]
    BY <1>3 DEF IInv, Typed, PcType
  <2>4. lock' \in [Locks -> Procs \cup {None, Gone}]
    BY <1>1, <1>3 DEF IInv, Typed
  <2> QED BY <1>3, <2>2, <2>3, <2>4 DEF IInv, Typed
<1>5. pc'[k] = "tx" /\ job'[k].round = r /\ job'[k].placed = Placed(r) /\ lock'[r] = k
  BY <1>1, <1>2, <1>3 DEF IInv, Typed, JobType, Locks
<1>6. Placed(r)' = Placed(r)
  BY <1>3, <1>5 DEF Placed
<1>7. JobOk(k)'
  BY <1>1, <1>2, <1>3, <1>5, <1>6 DEF JobOk, TickPcs, Betting, Placing, Ticking, SettlePcs,
     Holding, Placed
<1>8. \A s \in Rounds : /\ Settling(k, s)' => Settling(k, s)
                        /\ Trying(k, s)' => Trying(k, s)
  BY <1>1, <1>5 DEF Settling, Trying
<1>9. \A q \in Procs \ {k} : pc'[q] = pc[q] /\ job'[q] = job[q]
  BY <1>3 DEF IInv, Typed
<1>10. \A l \in Locks : lock[l] \in Procs \ {k} => lock'[l] = lock[l]
  BY <1>2, <1>3, ProcsAssumption DEF IInv, Typed
<1> QED BY <1>1, <1>3, <1>4, <1>7, <1>8, <1>9, <1>10, LocalStep

LEMMA SettleFailsKeeps ==
    ASSUME IInv, NEW k \in Ticks, SettleFails(k)
    PROVE  IInv'
<1>1. k \in Procs /\ k \notin Reqs /\ pc[k] = "tx" /\ JobOk(k)
  BY ProcsAssumption DEF Procs, SettleFails, IInv, JobInv
<1>2. /\ pc' = [pc EXCEPT ![k] = "refund"]
      /\ UNCHANGED <<used, round, bet, mem, state, lock, job>>
  BY DEF SettleFails, Goto
<1>3. Typed'
  BY <1>2 DEF IInv, Typed, PcType
<1>4. pc'[k] = "refund"
  BY <1>1, <1>2 DEF IInv, Typed
<1>5. JobOk(k)'
  BY <1>1, <1>2, <1>4 DEF JobOk, TickPcs, Betting, Placing, Ticking, SettlePcs, Holding, Placed
<1>6. \A r \in Rounds : /\ Settling(k, r)' => Settling(k, r)
                        /\ ~Trying(k, r)'
  BY <1>1, <1>2, <1>4 DEF Settling, Trying
<1>7. \A q \in Procs \ {k} : pc'[q] = pc[q] /\ job'[q] = job[q]
  BY <1>2 DEF IInv, Typed
<1> QED BY <1>1, <1>2, <1>3, <1>5, <1>6, <1>7, LocalStep

LEMMA RefundFailsKeeps ==
    ASSUME IInv, NEW k \in Ticks, RefundFails(k)
    PROVE  IInv'
<1>1. k \in Procs /\ k \notin Reqs /\ pc[k] \in {"refund", "mark"} /\ JobOk(k)
  BY ProcsAssumption DEF Procs, RefundFails, IInv, JobInv
<1>2. PICK t \in job[k].placed :
         job' = [job EXCEPT ![k].placed = @ \ {t}, ![k].tap = None]
  BY DEF RefundFails
<1>3. /\ pc' = [pc EXCEPT ![k] = "refund"]
      /\ UNCHANGED <<used, round, bet, mem, state, lock>>
  BY DEF RefundFails, Goto
<1> DEFINE j == [job[k] EXCEPT !.placed = @ \ {t}, !.tap = None]
<1>4. j \in JobType /\ job' = [job EXCEPT ![k] = j]
  <2>1. job[k] \in JobType
    BY <1>1 DEF IInv, Typed
  <2>2. job[k].placed \ {t} \in SUBSET Taps
    BY <2>1 DEF JobType
  <2>3. j \in JobType
    BY <2>1, <2>2 DEF JobType
  <2>4. job' = [job EXCEPT ![k] = j]
    BY <1>2
  <2> QED BY <2>3, <2>4
<1>5. j.round = job[k].round /\ j.placed \subseteq job[k].placed
  BY <1>1 DEF IInv, Typed, JobType
<1> HIDE DEF j
<1>6. Typed'
  <2>1. job' \in [Procs -> JobType]
    BY <1>1, <1>4 DEF IInv, Typed
  <2>2. pc' \in [Procs -> PcType]
    BY <1>3 DEF IInv, Typed, PcType
  <2> QED BY <1>3, <2>1, <2>2 DEF IInv, Typed
<1>7. pc'[k] = "refund" /\ job'[k] = j
  BY <1>1, <1>3, <1>4 DEF IInv, Typed
<1>8. JobOk(k)'
  BY <1>1, <1>3, <1>5, <1>7 DEF JobOk, TickPcs, Betting, Placing, Ticking, SettlePcs,
     Holding, Placed
<1>9. \A r \in Rounds : /\ Settling(k, r)' => Settling(k, r)
                        /\ ~Trying(k, r)'
  BY <1>1, <1>5, <1>7 DEF Settling, Trying
<1>10. \A q \in Procs \ {k} : pc'[q] = pc[q] /\ job'[q] = job[q]
  BY <1>3, <1>4 DEF IInv, Typed
<1> QED BY <1>1, <1>3, <1>6, <1>8, <1>9, <1>10, LocalStep

LEMMA TickEndsKeep ==
    ASSUME IInv, NEW k \in Ticks, SettleBusy(k) \/ TickFails(k)
    PROVE  IInv'
<1>1. k \in Procs
  BY DEF Procs
<1> QED BY <1>1, EndKeeps DEF SettleBusy, TickFails, EndTick

-----------------------------------------------------------------------------
(* Failure.                                                                *)

LEMMA LapseKeeps ==
    ASSUME IInv, LeaderLapses \/ \E l \in Locks : LockExpires(l)
    PROVE  IInv'
<1>1. /\ UNCHANGED <<used, round, bet, mem, state, pc, job>>
      /\ lock' \in [Locks -> Procs \cup {None, Gone}]
      /\ \A l \in Locks : lock[l] \in Procs => lock'[l] = lock[l]
  BY ProcsAssumption DEF LeaderLapses, LockExpires, IInv, Typed
<1>2. Typed' /\ MemInv'
  BY <1>1 DEF IInv, Typed, MemInv, MemOk
<1>3. JobInv'
  <2> SUFFICES ASSUME NEW p \in Procs PROVE JobOk(p)'
    BY DEF JobInv
  <2>1. \A r \in Rounds : job[p].round = r /\ pc[p] \in Holding => lock'[r] = lock[r]
    BY <1>1 DEF IInv, JobInv, JobOk, Locks
  <2> QED BY <1>1, <2>1, OthersKeep DEF IInv, JobInv
<1>4. RoundInv' /\ KeyInv'
  BY <1>1, RowsKeep DEF Settling, Trying
<1> QED BY <1>2, <1>3, <1>4 DEF IInv

LEMMA CrashKeeps ==
    ASSUME IInv, NEW i \in Instances, Crash(i)
    PROVE  IInv'
<1>1. /\ UNCHANGED <<used, round, bet, state>> /\ mem' = [mem EXCEPT ![i] = None]
      /\ lock' = [l \in Locks |-> IF lock[l] \in On(i) THEN Gone ELSE lock[l]]
      /\ pc' = [p \in Procs |-> IF p \notin On(i) THEN pc[p]
                                ELSE IF p \in Ticks THEN "idle" ELSE "done"]
      /\ job' = [p \in Procs |-> IF p \in On(i) THEN NoJob ELSE job[p]]
  BY DEF Crash
<1>2. NoJob \in JobType
  BY DEF NoJob, JobType
<1>3. Typed' /\ MemInv'
  <2>1. lock' \in [Locks -> Procs \cup {None, Gone}]
    BY <1>1 DEF IInv, Typed
  <2>2. pc' \in [Procs -> PcType] /\ job' \in [Procs -> JobType]
    BY <1>1, <1>2 DEF IInv, Typed, PcType
  <2>3. mem' \in [Instances -> Rounds \cup {None}]
    BY <1>1 DEF IInv, Typed
  <2> QED BY <1>1, <2>1, <2>2, <2>3 DEF IInv, Typed, MemInv, MemOk
<1>4. JobInv'
  <2> SUFFICES ASSUME NEW p \in Procs PROVE JobOk(p)'
    BY DEF JobInv
  <2>1. CASE p \notin On(i)
    <3>1. pc'[p] = pc[p] /\ job'[p] = job[p]
      BY <1>1, <2>1
    <3>2. \A r \in Rounds : job[p].round = r /\ pc[p] \in Holding => lock'[r] = lock[r]
      BY <1>1, <2>1 DEF IInv, JobInv, JobOk, Locks
    <3> QED BY <1>1, <3>1, <3>2, OthersKeep DEF IInv, JobInv
  <2>2. CASE p \in On(i)
    <3>1. pc'[p] = IF p \in Ticks THEN "idle" ELSE "done"
      BY <1>1, <2>2
    <3> QED BY <3>1, ProcsAssumption DEF JobOk, BetPcs, TickPcs, Betting, Placing,
            Ticking, SettlePcs, Holding
  <2> QED BY <2>1, <2>2
<1>5. RoundInv' /\ KeyInv'
  <2>1. \A k \in Ticks, r \in Rounds : /\ Settling(k, r)' => Settling(k, r)
                                       /\ Trying(k, r)' => Trying(k, r)
    BY <1>1 DEF Settling, Trying, Procs
  <2> QED BY <1>1, <2>1, RowsKeep
<1> QED BY <1>3, <1>4, <1>5 DEF IInv

-----------------------------------------------------------------------------
(* The steps of a bet that write.                                          *)

LEMMA BetDebitKeeps ==
    ASSUME IInv, NEW q \in Reqs, BetDebit(q)
    PROVE  IInv'
<1> DEFINE r == job[q].round
           t == job[q].tap
<1>1. q \in Procs /\ q \notin Ticks /\ pc[q] = "debit" /\ JobOk(q)
  BY ProcsAssumption DEF Procs, BetDebit, IInv, JobInv
<1>2. r \in Rounds /\ t \in Taps
  BY <1>1 DEF JobOk, Betting
<1>3. CASE Finish(q) /\ UNCHANGED wallet
  BY <1>1, <1>3, EndKeeps DEF BetDebit, Finish, wallet
<1>4. CASE /\ W!Post(BetKey(r, t), Gold("moveDebit", t)) /\ Goto(q, "insert")
           /\ UNCHANGED <<lock, job>>
  <2>1. /\ used' = used \cup {BetKey(r, t)} /\ pc' = [pc EXCEPT ![q] = "insert"]
        /\ UNCHANGED <<round, bet, mem, state, lock, job>>
    BY <1>4, PostUses DEF BetDebit, Goto
  <2>2. pc'[q] = "insert"
    BY <1>1, <2>1 DEF IInv, Typed
  <2>3. Typed' /\ MemInv'
    BY <2>1 DEF IInv, Typed, PcType, MemInv, MemOk
  <2>4. JobInv'
    <3>1. JobOk(q)'
      BY <1>1, <2>1, <2>2 DEF JobOk, BetPcs, Betting, Placing, Ticking, SettlePcs, Holding,
         BetKey
    <3>2. ASSUME NEW p \in Procs \ {q} PROVE JobOk(p)'
      BY <2>1, OthersKeep DEF IInv, JobInv, Typed
    <3> QED BY <3>1, <3>2 DEF JobInv
  <2>5. \A k \in Ticks, s \in Rounds : /\ Settling(k, s)' = Settling(k, s)
                                       /\ Trying(k, s)' = Trying(k, s)
    BY <1>1, <2>1 DEF Settling, Trying, IInv, Typed
  <2>6. RoundInv'
    BY <2>1, <2>5 DEF IInv, RoundInv, RoundOk, Placed, Ended
  <2>7. KeyInv'
    <3> SUFFICES ASSUME NEW s \in Rounds, NEW v \in Taps PROVE KeyOk(s, v)'
      BY DEF KeyInv
    <3>1. WinKey(s, v)' = WinKey(s, v) /\ RefundKey(s, v)' = RefundKey(s, v)
          /\ BetKey(s, v)' = BetKey(s, v)
      BY DEF WinKey, RefundKey, BetKey
    <3>2. KeyOk(s, v) /\ WinKey(s, v) # BetKey(r, t) /\ RefundKey(s, v) # BetKey(r, t)
      BY <1>2, KeysDiffer DEF IInv, KeyInv
    <3> QED BY <2>1, <2>5, <3>1, <3>2 DEF KeyOk
  <2> QED BY <2>3, <2>4, <2>6, <2>7 DEF IInv
<1> QED BY <1>1, <1>3, <1>4 DEF BetDebit

LEMMA BetInsertKeeps ==
    ASSUME IInv, NEW q \in Reqs, BetInsert(q)
    PROVE  IInv'
<1> DEFINE r == job[q].round
           t == job[q].tap
<1>1. q \in Procs /\ q \notin Ticks /\ pc[q] = "insert" /\ JobOk(q)
  BY ProcsAssumption DEF Procs, BetInsert, IInv, JobInv
<1>2. /\ r \in Rounds /\ t \in Taps /\ lock[r] = q /\ round[r].status = "BETTING"
      /\ BetKey(r, t) \in used
  BY <1>1 DEF JobOk, Betting, Placing, Holding
<1>3. /\ pc' = [pc EXCEPT ![q] = "done"] /\ job' = [job EXCEPT ![q] = NoJob]
      /\ lock' = [l \in Locks |-> IF lock[l] = q THEN None ELSE lock[l]]
      /\ bet' = [bet EXCEPT ![r][t] = IF @ = "none" THEN "PLACED" ELSE @]
      /\ UNCHANGED <<used, round, mem, state>>
  BY DEF BetInsert, Finish, Goto, Release
<1>4. pc'[q] = "done" /\ job'[q] = NoJob
  BY <1>1, <1>3 DEF IInv, Typed
<1>5. Typed' /\ MemInv'
  <2>1. NoJob \in JobType
    BY DEF NoJob, JobType
  <2>2. job' \in [Procs -> JobType] /\ pc' \in [Procs -> PcType]
    BY <1>3, <2>1 DEF IInv, Typed, PcType
  <2>3. lock' \in [Locks -> Procs \cup {None, Gone}]
    BY <1>3 DEF IInv, Typed
  <2>4. bet' \in [Rounds -> [Taps -> RowStates]]
    BY <1>2, <1>3 DEF IInv, Typed, RowStates
  <2> QED BY <1>3, <2>2, <2>3, <2>4 DEF IInv, Typed, MemInv, MemOk
<1>6. \A p \in Procs \ {q} : pc'[p] = pc[p] /\ job'[p] = job[p]
  BY <1>3 DEF IInv, Typed
<1>7. JobInv'
  <2>1. JobOk(q)'
    BY <1>1, <1>4 DEF JobOk, BetPcs, Betting, Placing, Ticking, SettlePcs, Holding
  <2>2. ASSUME NEW p \in Procs \ {q} PROVE JobOk(p)'
    <3>1. JobOk(p)
      BY DEF IInv, JobInv
    <3>2. \A s \in Rounds : job[p].round = s /\ pc[p] \in Holding => lock'[s] = lock[s] /\ s # r
      BY <1>2, <1>3, <3>1 DEF JobOk, Locks
    <3>3. \A s \in Rounds : s # r => bet'[s] = bet[s]
      BY <1>3 DEF IInv, Typed
    <3> QED BY <1>3, <1>6, <3>1, <3>2, <3>3, OthersKeep DEF Holding
  <2> QED BY <2>1, <2>2 DEF JobInv
<1>8. \A k \in Ticks, s \in Rounds : /\ Settling(k, s)' = Settling(k, s)
                                     /\ Trying(k, s)' = Trying(k, s)
  BY <1>1, <1>6 DEF Settling, Trying, Procs
<1>9. RoundInv'
  <2> SUFFICES ASSUME NEW s \in Rounds PROVE RoundOk(s)'
    BY DEF RoundInv
  <2>1. RoundOk(s)
    BY DEF IInv, RoundInv
  <2>2. s # r => bet'[s] = bet[s]
    BY <1>3 DEF IInv, Typed
  <2> QED BY <1>2, <1>3, <1>8, <2>1, <2>2 DEF RoundOk, Placed, Ended
<1>10. KeyInv'
  <2> SUFFICES ASSUME NEW s \in Rounds, NEW v \in Taps PROVE KeyOk(s, v)'
    BY DEF KeyInv
  <2>1. WinKey(s, v)' = WinKey(s, v) /\ RefundKey(s, v)' = RefundKey(s, v)
        /\ BetKey(s, v)' = BetKey(s, v)
    BY DEF WinKey, RefundKey, BetKey
  <2>2. KeyOk(s, v)
    BY DEF IInv, KeyInv
  <2>3. IF s = r /\ v = t THEN bet'[s][v] = IF bet[s][v] = "none" THEN "PLACED" ELSE bet[s][v]
                          ELSE bet'[s][v] = bet[s][v]
    BY <1>2, <1>3 DEF IInv, Typed
  <2> QED BY <1>2, <1>3, <1>8, <2>1, <2>2, <2>3 DEF KeyOk
<1> QED BY <1>5, <1>7, <1>9, <1>10 DEF IInv

-----------------------------------------------------------------------------
(* The steps of a tick that write.                                         *)

LEMMA ToSpinningKeeps ==
    ASSUME IInv, NEW k \in Ticks, ToSpinning(k)
    PROVE  IInv'
<1> DEFINE r == job[k].round
<1>1. /\ k \in Procs /\ k \notin Reqs /\ pc[k] = "tick" /\ JobOk(k)
      /\ state[r].phase = "betting"
  BY ProcsAssumption DEF Procs, ToSpinning, PhaseIs, IInv, JobInv
<1>2. r \in Rounds /\ round[r].status # "none"
  BY <1>1 DEF JobOk, Ticking
<1>3. /\ pc' = [pc EXCEPT ![k] = "select"]
      /\ state' = [state EXCEPT ![r].phase = "spinning"]
      /\ UNCHANGED <<used, round, bet, mem, lock, job>>
  BY DEF ToSpinning, Goto
<1>4. /\ pc'[k] = "select" /\ \A p \in Procs \ {k} : pc'[p] = pc[p]
      /\ state'[r].phase = "spinning" /\ \A s \in Rounds \ {r} : state'[s] = state[s]
  BY <1>1, <1>2, <1>3 DEF IInv, Typed
<1>5. Typed' /\ MemInv'
  BY ZenonT(30), <1>2, <1>3 DEF IInv, Typed, PcType, MemInv, MemOk
<1>6. JobInv'
  <2>1. JobOk(k)'
    BY <1>1, <1>2, <1>3, <1>4 DEF JobOk, TickPcs, Betting, Placing, Ticking, SettlePcs, Holding
  <2>2. ASSUME NEW p \in Procs \ {k} PROVE JobOk(p)'
    <3>1. JobOk(p)
      BY DEF IInv, JobInv
    <3>2. pc[p] \in SettlePcs => job[p].round # r
      BY <1>1, <3>1 DEF JobOk
    <3> QED BY <1>3, <1>4, <3>1, <3>2, OthersKeep
  <2> QED BY <2>1, <2>2 DEF JobInv
<1>7. \A l \in Ticks, s \in Rounds : /\ Settling(l, s)' => Settling(l, s)
                                     /\ Trying(l, s)' => Trying(l, s)
  BY <1>3, <1>4 DEF Settling, Trying, Procs
<1>8. RoundInv' /\ KeyInv'
  BY <1>1, <1>3, <1>4, <1>7, RowsKeep
<1> QED BY <1>5, <1>6, <1>8 DEF IInv

LEMMA SelectOutcomeKeeps ==
    ASSUME IInv, NEW k \in Ticks, SelectOutcome(k)
    PROVE  IInv'
<1> DEFINE r == job[k].round
<1>1. k \in Procs /\ k \notin Reqs /\ pc[k] = "select" /\ r \in Rounds
  BY ProcsAssumption DEF Procs, SelectOutcome, IInv, JobInv, JobOk, Ticking
<1>2. PICK o \in Outcomes : state' = [state EXCEPT ![r].outcome = o]
  BY DEF SelectOutcome, LowestLiability
<1>3. /\ pc' = [pc EXCEPT ![k] = "idle"] /\ job' = [job EXCEPT ![k] = NoJob]
      /\ lock' = [l \in Locks |-> IF lock[l] = k THEN None ELSE lock[l]]
      /\ UNCHANGED <<used, round, bet, mem>>
  BY DEF SelectOutcome, EndTick, Goto, Release
<1>4. /\ pc'[k] = "idle" /\ job'[k] = NoJob
      /\ \A p \in Procs \ {k} : pc'[p] = pc[p] /\ job'[p] = job[p]
      /\ \A s \in Rounds : state'[s].phase = state[s].phase
  BY <1>1, <1>2, <1>3 DEF IInv, Typed
<1>5. Typed' /\ MemInv'
  <2>1. NoJob \in JobType
    BY DEF NoJob, JobType
  <2>2. job' \in [Procs -> JobType] /\ pc' \in [Procs -> PcType]
    BY <1>3, <2>1 DEF IInv, Typed, PcType
  <2>3. lock' \in [Locks -> Procs \cup {None, Gone}]
    BY <1>3 DEF IInv, Typed
  <2>4. state' \in [Rounds -> [phase : {"betting", "spinning", "results"},
                               outcome : Outcomes \cup {None}]]
    BY ZenonT(30), <1>1, <1>2 DEF IInv, Typed
  <2> QED BY <1>3, <2>2, <2>3, <2>4 DEF IInv, Typed, MemInv, MemOk
<1>6. JobInv'
  <2>1. JobOk(k)'
    BY <1>1, <1>4 DEF JobOk, TickPcs, Betting, Placing, Ticking, SettlePcs, Holding
  <2>2. ASSUME NEW p \in Procs \ {k} PROVE JobOk(p)'
    <3>1. JobOk(p)
      BY DEF IInv, JobInv
    <3>2. \A s \in Rounds : job[p].round = s /\ pc[p] \in Holding => lock'[s] = lock[s]
      BY <1>3, <3>1 DEF JobOk, Locks
    <3> QED BY <1>3, <1>4, <3>1, <3>2, OthersKeep
  <2> QED BY <2>1, <2>2 DEF JobInv
<1>7. \A l \in Ticks, s \in Rounds : /\ Settling(l, s)' => Settling(l, s)
                                     /\ Trying(l, s)' => Trying(l, s)
  BY <1>4 DEF Settling, Trying, Procs
<1>8. RoundInv' /\ KeyInv'
  BY <1>3, <1>4, <1>7, RowsKeep
<1> QED BY <1>5, <1>6, <1>8 DEF IInv

(* The tick that moves a round to results is the only one to settle it.    *)
LEMMA ToResultsKeeps ==
    ASSUME IInv, NEW k \in Ticks, ToResults(k)
    PROVE  IInv'
<1> DEFINE r == job[k].round
<1>1. /\ k \in Procs /\ k \notin Reqs /\ pc[k] = "tick" /\ JobOk(k)
      /\ state[r].phase = "spinning"
  BY ProcsAssumption DEF Procs, ToResults, PhaseIs, IInv, JobInv
<1>2. r \in Rounds /\ round[r].status # "none"
  BY <1>1 DEF JobOk, Ticking
<1>3. /\ round[r].status = "BETTING" /\ \A l \in Ticks : ~Settling(l, r)
      /\ \A t \in Taps : RefundKey(r, t) \notin used
  BY <1>1, <1>2 DEF IInv, RoundInv, RoundOk, KeyInv, KeyOk, Ended, Typed
<1>4. /\ pc' = [pc EXCEPT ![k] = "settle"]
      /\ state' = [state EXCEPT ![r].phase = "results"]
      /\ job' = [job EXCEPT ![k].outcome = state[r].outcome]
      /\ UNCHANGED <<used, round, bet, mem, lock>>
  BY DEF ToResults, Goto
<1> DEFINE j == [job[k] EXCEPT !.outcome = state[r].outcome]
<1>5. j \in JobType /\ j.round = r /\ job' = [job EXCEPT ![k] = j]
  <2>1. job[k] \in JobType /\ state[r].outcome \in Outcomes \cup {None}
    BY <1>1, <1>2 DEF IInv, Typed
  <2>2. j \in JobType /\ j.round = r
    BY <2>1 DEF JobType
  <2>3. job' = [job EXCEPT ![k] = j]
    BY <1>4
  <2> QED BY <2>2, <2>3
<1> HIDE DEF j
<1>6. /\ pc'[k] = "settle" /\ job'[k] = j
      /\ \A p \in Procs \ {k} : pc'[p] = pc[p] /\ job'[p] = job[p]
      /\ state'[r].phase = "results" /\ \A s \in Rounds \ {r} : state'[s] = state[s]
  BY <1>1, <1>2, <1>4, <1>5 DEF IInv, Typed
<1>7. Typed' /\ MemInv'
  <2>1. job' \in [Procs -> JobType]
    BY <1>5 DEF IInv, Typed
  <2>2. pc' \in [Procs -> PcType]
    BY <1>4 DEF IInv, Typed, PcType
  <2>3. state' \in [Rounds -> [phase : {"betting", "spinning", "results"},
                               outcome : Outcomes \cup {None}]]
    BY <1>2, <1>4 DEF IInv, Typed
  <2> QED BY <1>4, <2>1, <2>2, <2>3 DEF IInv, Typed, MemInv, MemOk
<1>8. JobInv'
  <2>1. JobOk(k)'
    BY <1>1, <1>2, <1>3, <1>4, <1>5, <1>6 DEF JobOk, TickPcs, Betting, Placing, Ticking,
       SettlePcs, Holding
  <2>2. ASSUME NEW p \in Procs \ {k} PROVE JobOk(p)'
    <3>1. JobOk(p)
      BY DEF IInv, JobInv
    <3>2. pc[p] \in SettlePcs => job[p].round # r
      BY <1>1, <3>1 DEF JobOk
    <3> QED BY <1>4, <1>6, <3>1, <3>2, OthersKeep
  <2> QED BY <2>1, <2>2 DEF JobInv
<1>9. \A l \in Ticks, s \in Rounds :
         /\ Settling(l, s)' <=> Settling(l, s) \/ (l = k /\ s = r)
         /\ Trying(l, s)' <=> Trying(l, s) \/ (l = k /\ s = r)
  BY <1>1, <1>5, <1>6 DEF Settling, Trying, Procs
<1>10. RoundInv'
  <2> SUFFICES ASSUME NEW s \in Rounds PROVE RoundOk(s)'
    BY DEF RoundInv
  <2>1. RoundOk(s)
    BY DEF IInv, RoundInv
  <2> QED BY <1>3, <1>4, <1>6, <1>9, <2>1 DEF RoundOk, Placed, Ended
<1>11. KeyInv'
  <2> SUFFICES ASSUME NEW s \in Rounds, NEW t \in Taps PROVE KeyOk(s, t)'
    BY DEF KeyInv
  <2>1. KeyOk(s, t)
    BY DEF IInv, KeyInv
  <2>2. WinKey(s, t)' = WinKey(s, t) /\ RefundKey(s, t)' = RefundKey(s, t)
        /\ BetKey(s, t)' = BetKey(s, t)
    BY DEF WinKey, RefundKey, BetKey
  <2> QED BY <1>3, <1>4, <1>6, <1>9, <2>1, <2>2 DEF KeyOk
<1> QED BY <1>7, <1>8, <1>10, <1>11 DEF IInv

LEMMA CreateRoundKeeps ==
    ASSUME IInv, NEW k \in Ticks, CreateRound(k)
    PROVE  IInv'
<1>1. k \in Procs /\ k \notin Reqs /\ Home[k] \in Instances
  BY ProcsAssumption DEF Procs
<1>2. CASE UNCHANGED <<round, mem, state>>
  BY <1>1, <1>2, EndKeeps DEF CreateRound, EndTick
<1>3. ASSUME NEW r \in Rounds, round[r].status = "none",
             round' = [round EXCEPT ![r].status = "BETTING"],
             mem' = [mem EXCEPT ![Home[k]] = r], state' = [state EXCEPT ![r] = Fresh]
      PROVE IInv'
  <2>1. /\ pc' = [pc EXCEPT ![k] = "idle"] /\ job' = [job EXCEPT ![k] = NoJob]
        /\ lock' = [l \in Locks |-> IF lock[l] = k THEN None ELSE lock[l]]
        /\ UNCHANGED <<used, bet>>
    BY DEF CreateRound, EndTick, Goto, Release
  <2>2. /\ pc'[k] = "idle" /\ job'[k] = NoJob
        /\ \A p \in Procs \ {k} : pc'[p] = pc[p] /\ job'[p] = job[p]
    BY <1>1, <2>1 DEF IInv, Typed
  <2>3. /\ round'[r].status = "BETTING" /\ state'[r].phase = "betting"
        /\ \A s \in Rounds \ {r} : round'[s] = round[s] /\ state'[s] = state[s]
    BY <1>3 DEF IInv, Typed, Fresh
  <2>4. Typed'
    <3>1. NoJob \in JobType
      BY DEF NoJob, JobType
    <3>2. job' \in [Procs -> JobType] /\ pc' \in [Procs -> PcType]
      BY <2>1, <3>1 DEF IInv, Typed, PcType
    <3>3. lock' \in [Locks -> Procs \cup {None, Gone}]
      BY <2>1 DEF IInv, Typed
    <3>4. state' \in [Rounds -> [phase : {"betting", "spinning", "results"},
                                 outcome : Outcomes \cup {None}]]
      BY <1>3 DEF IInv, Typed, Fresh
    <3>5. round' \in [Rounds -> [status : {"none", "BETTING", "SETTLED", "ABORTED"},
                                 outcome : Outcomes \cup {None}]]
      BY ZenonT(30), <1>3 DEF IInv, Typed
    <3>6. mem' \in [Instances -> Rounds \cup {None}]
      BY <1>3 DEF IInv, Typed
    <3> QED BY <2>1, <3>2, <3>3, <3>4, <3>5, <3>6 DEF IInv, Typed
  <2>5. MemInv'
    <3>1. ASSUME NEW i \in Instances PROVE MemOk(i)'
      <4>1. mem'[i] = r \/ mem'[i] = mem[i]
        BY <1>3 DEF IInv, Typed
      <4>2. MemOk(i)
        BY DEF IInv, MemInv
      <4> QED BY <1>3, <2>3, <4>1, <4>2 DEF MemOk
    <3> QED BY <3>1 DEF MemInv
  <2>6. JobInv'
    <3>1. JobOk(k)'
      BY <1>1, <2>2 DEF JobOk, TickPcs, Betting, Placing, Ticking, SettlePcs, Holding
    <3>2. ASSUME NEW p \in Procs \ {k} PROVE JobOk(p)'
      <4>1. JobOk(p)
        BY DEF IInv, JobInv
      <4>2. pc[p] \in Betting \cup Ticking => job[p].round # r
        BY <1>3, <4>1 DEF JobOk
      <4>3. \A s \in Rounds : job[p].round = s /\ pc[p] \in Holding => lock'[s] = lock[s]
        BY <2>1, <4>1 DEF JobOk, Locks
      <4>4. pc[p] \in Placing \cup SettlePcs => pc[p] \in Betting \cup Ticking
        BY DEF Betting, Ticking, Placing, SettlePcs
      <4> QED BY <2>1, <2>2, <2>3, <4>1, <4>2, <4>3, <4>4, OthersKeep
    <3> QED BY <3>1, <3>2 DEF JobInv
  <2>7. \A l \in Ticks, s \in Rounds : /\ Settling(l, s)' => Settling(l, s)
                                       /\ Trying(l, s)' => Trying(l, s)
    BY <2>2 DEF Settling, Trying, Procs
  <2>8. \A l \in Ticks : ~Settling(l, r)
    BY <1>3 DEF IInv, JobInv, JobOk, Settling, SettlePcs, Placing, Procs
  <2>9. RoundInv'
    <3> SUFFICES ASSUME NEW s \in Rounds PROVE RoundOk(s)'
      BY DEF RoundInv
    <3>1. RoundOk(s)
      BY DEF IInv, RoundInv
    <3> QED BY <2>1, <2>3, <2>7, <2>8, <3>1 DEF RoundOk, Placed, Ended
  <2>10. KeyInv'
    <3> SUFFICES ASSUME NEW s \in Rounds, NEW t \in Taps PROVE KeyOk(s, t)'
      BY DEF KeyInv
    <3>1. KeyOk(s, t) /\ (s = r => bet[s][t] = "none")
      BY <1>3 DEF IInv, KeyInv, RoundInv, RoundOk
    <3>2. WinKey(s, t)' = WinKey(s, t) /\ RefundKey(s, t)' = RefundKey(s, t)
          /\ BetKey(s, t)' = BetKey(s, t)
      BY DEF WinKey, RefundKey, BetKey
    <3> QED BY <2>1, <2>3, <2>7, <3>1, <3>2 DEF KeyOk
  <2> QED BY <2>4, <2>5, <2>6, <2>9, <2>10 DEF IInv
<1> QED BY <1>2, <1>3 DEF CreateRound

-----------------------------------------------------------------------------
(* The settlement.                                                         *)

(* Whoever settles a round under its lock is alone with it.                *)
LEMMA Alone ==
    ASSUME IInv, NEW k \in Ticks, pc[k] \in {"tx", "refund", "mark"}
    PROVE  /\ job[k].round \in Rounds /\ round[job[k].round].status = "BETTING"
           /\ state[job[k].round].phase = "results"
           /\ \A p \in Procs \ {k} : job[p].round = job[k].round
                 => pc[p] \notin Placing \cup SettlePcs
<1>1. k \in Procs /\ JobOk(k)
  BY DEF Procs, IInv, JobInv
<1>2. /\ job[k].round \in Rounds /\ lock[job[k].round] = k
      /\ round[job[k].round].status = "BETTING" /\ state[job[k].round].phase = "results"
  BY <1>1 DEF JobOk, Ticking, Holding, SettlePcs
<1>3. ASSUME NEW p \in Procs \ {k}, job[p].round = job[k].round, pc[p] \in Placing \cup SettlePcs
      PROVE FALSE
  <2>1. JobOk(p)
    BY DEF IInv, JobInv
  <2>2. pc[p] \notin Holding
    BY <1>2, <1>3, <2>1 DEF JobOk
  <2>3. pc[p] = "settle" /\ p \in Ticks
    BY <1>3, <2>1, <2>2, ProcsAssumption DEF JobOk, Placing, SettlePcs, Holding, BetPcs, Procs
  <2> QED BY <1>2, <1>3, <2>3 DEF IInv, RoundInv, RoundOk, Settling
<1> QED BY <1>2, <1>3

(* A tick that ends its round: the row is closed and the tick returns.     *)
LEMMA ClosingJobs ==
    ASSUME IInv, NEW k \in Ticks, pc[k] \in {"tx", "refund", "mark"}, EndTick(k),
           used \subseteq used', UNCHANGED <<mem, state>>,
           \A s \in Rounds \ {job[k].round} : round'[s] = round[s] /\ bet'[s] = bet[s],
           round'[job[k].round].status \in {"SETTLED", "ABORTED"},
           round' \in [Rounds -> [status : {"none", "BETTING", "SETTLED", "ABORTED"},
                                  outcome : Outcomes \cup {None}]],
           bet' \in [Rounds -> [Taps -> RowStates]]
    PROVE  /\ Typed' /\ JobInv' /\ MemInv'
           /\ \A l \in Ticks, s \in Rounds :
                /\ Settling(l, s)' => Settling(l, s) /\ s # job[k].round
                /\ Trying(l, s)' => Trying(l, s)
<1> DEFINE r == job[k].round
<1>1. k \in Procs /\ k \notin Reqs
  BY ProcsAssumption DEF Procs
<1>2. /\ r \in Rounds /\ round[r].status = "BETTING"
      /\ \A p \in Procs \ {k} : job[p].round = r => pc[p] \notin Placing \cup SettlePcs
  BY Alone
<1>3. /\ pc' = [pc EXCEPT ![k] = "idle"] /\ job' = [job EXCEPT ![k] = NoJob]
      /\ lock' = [l \in Locks |-> IF lock[l] = k THEN None ELSE lock[l]]
  BY DEF EndTick, Goto, Release
<1>4. /\ pc'[k] = "idle" /\ job'[k] = NoJob
      /\ \A p \in Procs \ {k} : pc'[p] = pc[p] /\ job'[p] = job[p]
  BY <1>1, <1>3 DEF IInv, Typed
<1>5. Typed'
  <2>1. NoJob \in JobType
    BY DEF NoJob, JobType
  <2>2. job' \in [Procs -> JobType] /\ pc' \in [Procs -> PcType]
    BY <1>3, <2>1 DEF IInv, Typed, PcType
  <2>3. lock' \in [Locks -> Procs \cup {None, Gone}]
    BY <1>3 DEF IInv, Typed
  <2> QED BY <2>2, <2>3 DEF IInv, Typed
<1>6. JobInv'
  <2>1. JobOk(k)'
    BY <1>1, <1>4 DEF JobOk, TickPcs, Betting, Placing, Ticking, SettlePcs, Holding
  <2>2. ASSUME NEW p \in Procs \ {k} PROVE JobOk(p)'
    <3>1. JobOk(p)
      BY DEF IInv, JobInv
    <3>2. pc[p] \in Placing \cup SettlePcs => job[p].round # r
      BY <1>2
    <3>3. \A s \in Rounds : job[p].round = s /\ pc[p] \in Holding => lock'[s] = lock[s]
      BY <1>3, <3>1 DEF JobOk, Locks
    <3>4. {"tx", "refund", "mark"} \subseteq SettlePcs
      BY DEF SettlePcs
    <3>5. \A s \in Rounds : round[s].status # "none" => round'[s].status # "none"
      OBVIOUS
    <3> QED BY <1>4, <3>1, <3>2, <3>3, <3>4, <3>5, OthersKeep
  <2> QED BY <2>1, <2>2 DEF JobInv
<1>7. MemInv'
  <2>1. \A s \in Rounds : round[s].status # "none" => round'[s].status # "none"
    OBVIOUS
  <2> QED BY <2>1 DEF IInv, MemInv, MemOk
<1>8. ASSUME NEW l \in Ticks, NEW s \in Rounds
      PROVE /\ Settling(l, s)' => Settling(l, s) /\ s # r
            /\ Trying(l, s)' => Trying(l, s)
  BY <1>2, <1>4 DEF Settling, Trying, SettlePcs, Procs
<1> QED BY <1>5, <1>6, <1>7, <1>8

(* No stake of the round has been refunded, all its bets are in the job.   *)
LEMMA SettleTxKeeps ==
    ASSUME IInv, NEW k \in Ticks, SettleTx(k)
    PROVE  IInv'
<1> DEFINE r == job[k].round
           won == Winners(k)
<1>1. pc[k] = "tx" /\ k \in Procs /\ JobOk(k)
  BY DEF SettleTx, Procs, IInv, JobInv
<1>2. /\ r \in Rounds /\ round[r].status = "BETTING" /\ state[r].phase = "results"
      /\ job[k].placed = Placed(r) /\ won \subseteq Placed(r) /\ Placed(r) \subseteq Taps
  BY <1>1, Alone DEF JobOk, Winners, Placed
<1>3. \A t \in Taps : RefundKey(r, t) \notin used
  BY <1>1, <1>2 DEF IInv, KeyInv, KeyOk, Trying
<1>4. job[k].outcome \in Outcomes \cup {None}
  BY <1>1 DEF IInv, Typed, JobType
<1> HIDE DEF won
<1>5. /\ EndTick(k) /\ UNCHANGED <<mem, state>>
      /\ used' = used \cup {WinKey(r, t) : t \in won}
      /\ bet' = [bet EXCEPT ![r] = [t \in Taps |-> IF t \in won THEN "WON"
                     ELSE IF t \in Placed(r) THEN "LOST" ELSE bet[r][t]]]
      /\ round' = [round EXCEPT ![r] = [status |-> "SETTLED", outcome |-> job[k].outcome]]
  BY <1>2 DEF SettleTx, PayWinners, Results, won
<1>6. /\ round'[r].status = "SETTLED"
      /\ \A s \in Rounds \ {r} : round'[s] = round[s] /\ bet'[s] = bet[s]
      /\ \A t \in Taps : bet'[r][t] = IF t \in won THEN "WON"
                           ELSE IF t \in Placed(r) THEN "LOST" ELSE bet[r][t]
  BY <1>2, <1>5 DEF IInv, Typed
<1>7. round' \in [Rounds -> [status : {"none", "BETTING", "SETTLED", "ABORTED"},
                             outcome : Outcomes \cup {None}]]
  BY <1>2, <1>4, <1>5 DEF IInv, Typed
<1>8. bet' \in [Rounds -> [Taps -> RowStates]]
  <2>1. bet[r] \in [Taps -> RowStates]
    BY <1>2 DEF IInv, Typed
  <2>2. bet'[r] \in [Taps -> RowStates]
    BY <1>2, <1>5, <2>1 DEF IInv, Typed, RowStates
  <2> QED BY <1>2, <1>5, <1>6, <2>2 DEF IInv, Typed
<1>9. /\ Typed' /\ JobInv' /\ MemInv'
      /\ \A l \in Ticks, s \in Rounds : /\ Settling(l, s)' => Settling(l, s) /\ s # r
                                        /\ Trying(l, s)' => Trying(l, s)
  BY <1>1, <1>5, <1>6, <1>7, <1>8, ClosingJobs
<1>10. RoundInv'
  <2> SUFFICES ASSUME NEW s \in Rounds PROVE RoundOk(s)'
    BY DEF RoundInv
  <2>1. RoundOk(s)
    BY DEF IInv, RoundInv
  <2>2. CASE s # r
    BY <1>5, <1>6, <1>9, <2>1, <2>2 DEF RoundOk, Placed, Ended
  <2>3. CASE s = r
    BY <1>2, <1>5, <1>6, <1>9, <2>3 DEF RoundOk, Placed
  <2> QED BY <2>2, <2>3
<1>11. KeyInv'
  <2> SUFFICES ASSUME NEW s \in Rounds, NEW t \in Taps PROVE KeyOk(s, t)'
    BY DEF KeyInv
  <2>1. KeyOk(s, t)
    BY DEF IInv, KeyInv
  <2>2. WinKey(s, t)' = WinKey(s, t) /\ RefundKey(s, t)' = RefundKey(s, t)
        /\ BetKey(s, t)' = BetKey(s, t)
    BY DEF WinKey, RefundKey, BetKey
  <2>3. /\ RefundKey(s, t) \in used' <=> RefundKey(s, t) \in used
        /\ BetKey(s, t) \in used' <=> BetKey(s, t) \in used
        /\ WinKey(s, t) \in used' <=> WinKey(s, t) \in used \/ (s = r /\ t \in won)
    BY <1>2, <1>5, KeysDiffer
  <2>4. CASE s # r
    BY <1>5, <1>6, <1>9, <2>1, <2>2, <2>3, <2>4 DEF KeyOk
  <2>5. CASE s = r
    <3>1. t \in won => t \in Placed(r)
      BY <1>2
    <3> QED BY <1>3, <1>5, <1>6, <2>1, <2>2, <2>3, <2>5, <3>1 DEF KeyOk, Placed
  <2> QED BY <2>4, <2>5
<1> QED BY <1>9, <1>10, <1>11 DEF IInv

LEMMA AbortRoundKeeps ==
    ASSUME IInv, NEW k \in Ticks, AbortRound(k)
    PROVE  IInv'
<1> DEFINE r == job[k].round
<1>1. pc[k] = "refund" /\ k \in Procs
  BY DEF AbortRound, Procs
<1>2. r \in Rounds /\ round[r].status = "BETTING" /\ state[r].phase = "results"
  BY <1>1, Alone
<1>3. /\ EndTick(k) /\ UNCHANGED <<used, bet, mem, state>>
      /\ round' = [round EXCEPT ![r] = [status |-> "ABORTED", outcome |-> None]]
  BY DEF AbortRound
<1>4. /\ round'[r].status = "ABORTED" /\ \A s \in Rounds \ {r} : round'[s] = round[s]
      /\ round' \in [Rounds -> [status : {"none", "BETTING", "SETTLED", "ABORTED"},
                                outcome : Outcomes \cup {None}]]
  BY <1>2, <1>3 DEF IInv, Typed
<1>5. /\ Typed' /\ JobInv' /\ MemInv'
      /\ \A l \in Ticks, s \in Rounds : /\ Settling(l, s)' => Settling(l, s) /\ s # r
                                        /\ Trying(l, s)' => Trying(l, s)
  <2>1. bet' \in [Rounds -> [Taps -> RowStates]]
    BY <1>3 DEF IInv, Typed
  <2> QED BY <1>1, <1>3, <1>4, <2>1, ClosingJobs
<1>6. RoundInv'
  <2> SUFFICES ASSUME NEW s \in Rounds PROVE RoundOk(s)'
    BY DEF RoundInv
  <2>1. RoundOk(s)
    BY DEF IInv, RoundInv
  <2> QED BY <1>2, <1>3, <1>4, <1>5, <2>1 DEF RoundOk, Placed, Ended
<1>7. KeyInv'
  <2> SUFFICES ASSUME NEW s \in Rounds, NEW t \in Taps PROVE KeyOk(s, t)'
    BY DEF KeyInv
  <2>1. KeyOk(s, t)
    BY DEF IInv, KeyInv
  <2>2. WinKey(s, t)' = WinKey(s, t) /\ RefundKey(s, t)' = RefundKey(s, t)
        /\ BetKey(s, t)' = BetKey(s, t)
    BY DEF WinKey, RefundKey, BetKey
  <2> QED BY <1>3, <1>5, <2>1, <2>2 DEF KeyOk
<1> QED BY <1>5, <1>6, <1>7 DEF IInv

(* A bet in play has its stake back: it was not won, and nobody still      *)
(* tries to settle the round.                                              *)
LEMMA RefundCreditKeeps ==
    ASSUME IInv, NEW k \in Ticks, RefundCredit(k)
    PROVE  IInv'
<1> DEFINE r == job[k].round
<1>1. /\ pc[k] = "refund" /\ k \in Procs /\ k \notin Reqs /\ JobOk(k)
  BY ProcsAssumption DEF RefundCredit, Procs, IInv, JobInv
<1>2. PICK t \in job[k].placed :
        /\ W!Post(RefundKey(r, t), Gold("moveCredit", t))
        /\ Goto(k, "mark") /\ job' = [job EXCEPT ![k].tap = t]
        /\ UNCHANGED <<round, bet, mem, state, leader, lock, faults>>
  BY DEF RefundCredit
<1>3. /\ r \in Rounds /\ state[r].phase = "results" /\ t \in Taps /\ bet[r][t] = "PLACED"
      /\ \A p \in Procs \ {k} : job[p].round = r => pc[p] \notin Placing \cup SettlePcs
  BY <1>1, Alone DEF JobOk, Placed
<1>4. /\ used' = used \cup {RefundKey(r, t)} /\ pc' = [pc EXCEPT ![k] = "mark"]
      /\ UNCHANGED <<round, bet, mem, state, lock>>
  BY <1>2, PostUses DEF Goto
<1> DEFINE j == [job[k] EXCEPT !.tap = t]
<1>5. j \in JobType /\ j.round = r /\ j.placed = job[k].placed /\ j.tap = t
  <2>1. job[k] \in JobType
    BY <1>1 DEF IInv, Typed
  <2> QED BY <1>3, <2>1 DEF JobType
<1>6. job' = [job EXCEPT ![k] = j]
  BY <1>2
<1> HIDE DEF j
<1>7. /\ pc'[k] = "mark" /\ job'[k] = j
      /\ \A p \in Procs \ {k} : pc'[p] = pc[p] /\ job'[p] = job[p]
  BY <1>1, <1>4, <1>6 DEF IInv, Typed
<1>8. Typed' /\ MemInv'
  <2>1. job' \in [Procs -> JobType]
    BY <1>5, <1>6 DEF IInv, Typed
  <2>2. pc' \in [Procs -> PcType]
    BY <1>4 DEF IInv, Typed, PcType
  <2> QED BY <1>4, <2>1, <2>2 DEF IInv, Typed, MemInv, MemOk
<1>9. JobInv'
  <2>1. JobOk(k)'
    <3>1. Placed(r)' = Placed(r) /\ RefundKey(r, t)' = RefundKey(r, t)
      BY <1>4, <1>5, <1>7 DEF Placed, RefundKey
    <3>2. RefundKey(r, t) \in used' /\ t \in j.placed
      BY <1>2, <1>4, <1>5
    <3> QED BY <1>1, <1>4, <1>5, <1>7, <3>1, <3>2 DEF JobOk, TickPcs, Betting, Placing,
            Ticking, SettlePcs, Holding, Placed, RefundKey
  <2>2. ASSUME NEW p \in Procs \ {k} PROVE JobOk(p)'
    BY <1>4, <1>7, OthersKeep DEF IInv, JobInv
  <2> QED BY <2>1, <2>2 DEF JobInv
<1>10. \A l \in Ticks, s \in Rounds : /\ Settling(l, s)' <=> Settling(l, s)
                                      /\ Trying(l, s)' <=> Trying(l, s)
  BY <1>1, <1>5, <1>7 DEF Settling, Trying, Procs
<1>11. RoundInv'
  BY <1>4, <1>10 DEF IInv, RoundInv, RoundOk, Placed, Ended
<1>12. KeyInv'
  <2> SUFFICES ASSUME NEW s \in Rounds, NEW v \in Taps PROVE KeyOk(s, v)'
    BY DEF KeyInv
  <2>1. KeyOk(s, v)
    BY DEF IInv, KeyInv
  <2>2. WinKey(s, v)' = WinKey(s, v) /\ RefundKey(s, v)' = RefundKey(s, v)
        /\ BetKey(s, v)' = BetKey(s, v)
    BY DEF WinKey, RefundKey, BetKey
  <2>3. /\ RefundKey(s, v) \in used' <=> RefundKey(s, v) \in used \/ (s = r /\ v = t)
        /\ BetKey(s, v) \in used' <=> BetKey(s, v) \in used
        /\ WinKey(s, v) \in used' <=> WinKey(s, v) \in used
    BY <1>3, <1>4, KeysDiffer
  <2>4. \A l \in Ticks : ~Trying(l, r)
    BY <1>1, <1>3 DEF Trying, SettlePcs, Procs
  <2> QED BY <1>3, <1>4, <1>10, <2>1, <2>2, <2>3, <2>4 DEF KeyOk
<1> QED BY <1>8, <1>9, <1>11, <1>12 DEF IInv

LEMMA RefundMarkKeeps ==
    ASSUME IInv, NEW k \in Ticks, RefundMark(k)
    PROVE  IInv'
<1> DEFINE r == job[k].round
           t == job[k].tap
<1>1. /\ pc[k] = "mark" /\ k \in Procs /\ k \notin Reqs /\ JobOk(k)
  BY ProcsAssumption DEF RefundMark, Procs, IInv, JobInv
<1>2. /\ r \in Rounds /\ round[r].status = "BETTING" /\ state[r].phase = "results"
      /\ t \in Taps /\ bet[r][t] = "PLACED" /\ RefundKey(r, t) \in used
      /\ job[k].placed \subseteq Placed(r)
      /\ \A p \in Procs \ {k} : job[p].round = r => pc[p] \notin Placing \cup SettlePcs
  BY <1>1, Alone DEF JobOk, Placed
<1>3. /\ pc' = [pc EXCEPT ![k] = "refund"] /\ bet' = [bet EXCEPT ![r][t] = "REFUNDED"]
      /\ job' = [job EXCEPT ![k].placed = @ \ {t}, ![k].tap = None]
      /\ UNCHANGED <<used, round, mem, state, lock>>
  BY DEF RefundMark, Goto
<1> DEFINE j == [job[k] EXCEPT !.placed = @ \ {t}, !.tap = None]
<1>4. j \in JobType /\ j.round = r /\ j.placed = job[k].placed \ {t}
  <2>1. job[k] \in JobType
    BY <1>1 DEF IInv, Typed
  <2>2. job[k].placed \ {t} \in SUBSET Taps
    BY <2>1 DEF JobType
  <2> QED BY <2>1, <2>2 DEF JobType
<1>5. job' = [job EXCEPT ![k] = j]
  BY <1>3
<1> HIDE DEF j
<1>6. /\ pc'[k] = "refund" /\ job'[k] = j
      /\ \A p \in Procs \ {k} : pc'[p] = pc[p] /\ job'[p] = job[p]
  BY <1>1, <1>3, <1>5 DEF IInv, Typed
<1>7. /\ bet'[r][t] = "REFUNDED" /\ \A v \in Taps \ {t} : bet'[r][v] = bet[r][v]
      /\ \A s \in Rounds \ {r} : bet'[s] = bet[s]
  BY <1>2, <1>3 DEF IInv, Typed
<1>8. Typed' /\ MemInv'
  <2>1. job' \in [Procs -> JobType]
    BY <1>4, <1>5 DEF IInv, Typed
  <2>2. pc' \in [Procs -> PcType]
    BY <1>3 DEF IInv, Typed, PcType
  <2>3. bet' \in [Rounds -> [Taps -> RowStates]]
    BY <1>2, <1>3 DEF IInv, Typed, RowStates
  <2> QED BY <1>3, <2>1, <2>2, <2>3 DEF IInv, Typed, MemInv, MemOk
<1>9. JobInv'
  <2>1. JobOk(k)'
    <3>1. j.placed \subseteq Placed(r)'
      BY <1>2, <1>4, <1>6, <1>7 DEF Placed
    <3> QED BY <1>1, <1>3, <1>4, <1>6, <3>1 DEF JobOk, TickPcs, Betting, Placing,
            Ticking, SettlePcs, Holding, Placed
  <2>2. ASSUME NEW p \in Procs \ {k} PROVE JobOk(p)'
    <3>1. {"tx", "refund", "mark"} \subseteq SettlePcs
      BY DEF SettlePcs
    <3> QED BY <1>2, <1>3, <1>6, <1>7, <3>1, OthersKeep DEF IInv, JobInv
  <2> QED BY <2>1, <2>2 DEF JobInv
<1>10. \A l \in Ticks, s \in Rounds : /\ Settling(l, s)' <=> Settling(l, s)
                                      /\ Trying(l, s)' <=> Trying(l, s)
  BY <1>1, <1>4, <1>6 DEF Settling, Trying, Procs
<1>11. RoundInv'
  <2> SUFFICES ASSUME NEW s \in Rounds PROVE RoundOk(s)'
    BY DEF RoundInv
  <2>1. RoundOk(s)
    BY DEF IInv, RoundInv
  <2> QED BY <1>2, <1>3, <1>7, <1>10, <2>1 DEF RoundOk, Placed, Ended
<1>12. KeyInv'
  <2> SUFFICES ASSUME NEW s \in Rounds, NEW v \in Taps PROVE KeyOk(s, v)'
    BY DEF KeyInv
  <2>1. KeyOk(s, v)
    BY DEF IInv, KeyInv
  <2>2. WinKey(s, v)' = WinKey(s, v) /\ RefundKey(s, v)' = RefundKey(s, v)
        /\ BetKey(s, v)' = BetKey(s, v)
    BY DEF WinKey, RefundKey, BetKey
  <2> QED BY <1>2, <1>3, <1>7, <1>10, <2>1, <2>2 DEF KeyOk
<1> QED BY <1>8, <1>9, <1>11, <1>12 DEF IInv

-----------------------------------------------------------------------------
LEMMA StepIInv == IInv /\ [Next]_vars => IInv'
<1> SUFFICES ASSUME IInv, [Next]_vars PROVE IInv'
  OBVIOUS
<1>1. CASE UNCHANGED vars
  BY <1>1 DEF vars, IInv, Typed, JobInv, JobOk, MemInv, MemOk, RoundInv, RoundOk, KeyInv,
     KeyOk, Placed, Ended, Settling, Trying, BetKey, WinKey, RefundKey
<1>2. CASE \E q \in Reqs : Bet(q) \/ BetStep(q) \/ BetFails(q)
  BY <1>2, BetKeeps, BetUserLockKeeps, BetEndsKeep, BetCheckKeeps, BetDebitKeeps,
     BetInsertKeeps DEF BetStep
<1>3. CASE \E k \in Ticks : Tick(k) \/ TickStep(k) \/ SettleFails(k) \/ RefundFails(k)
                            \/ TickFails(k)
  BY <1>3, TickKeeps, ToSpinningKeeps, SelectOutcomeKeeps, ToResultsKeeps, ToBettingKeeps,
     CreateRoundKeeps, SettleReadKeeps, TickEndsKeep, SettleTxKeeps, RefundCreditKeeps,
     RefundMarkKeeps, AbortRoundKeeps, SettleFailsKeeps, RefundFailsKeeps DEF TickStep
<1>4. CASE LeaderLapses \/ \E l \in Locks : LockExpires(l)
  BY <1>4, LapseKeeps
<1>5. CASE \E i \in Instances : Crash(i)
  BY <1>5, CrashKeeps
<1> QED BY <1>1, <1>2, <1>3, <1>4, <1>5 DEF Next

THEOREM Invariance == Spec => []IInv
BY InitIInv, StepIInv, PTL DEF Spec

(* A bet is won or refunded, never both, and its row agrees with the       *)
(* wallet's keys: settleRound's rollback, refundRound and the round lock.  *)
THEOREM AlwaysPaidOnce == Spec => []PaidOnce
<1>1. IInv => PaidOnce
  BY DEF IInv, KeyInv, KeyOk, PaidOnce
<1> QED BY <1>1, Invariance, PTL

(* No bet is left in play in a settled round, and none is on its way in:   *)
(* placeBet checks the row under the lock that settleRound holds.          *)
THEOREM SettledAlwaysLeavesNone == Spec => []SettledLeavesNone
<1>1. IInv => SettledLeavesNone
  BY DEF IInv, JobInv, JobOk, RoundInv, RoundOk, SettledLeavesNone, AtBet, Placing, Procs
<1> QED BY <1>1, Invariance, PTL

(* settleRound and refundRound decide every bet of a round, once.          *)
THEOREM AlwaysSettledOnce == Spec => []SettledOnce
<1> QED BY AlwaysPaidOnce, SettledAlwaysLeavesNone, PTL DEF SettledOnce

-----------------------------------------------------------------------------
Frozen(r) ==
    /\ round'[r] = round[r] /\ bet'[r] = bet[r]
    /\ \A t \in Taps : {WinKey(r, t), RefundKey(r, t)} \cap (used' \ used) = {}

(* The steps that write touch a round that has not ended.                  *)
LEMMA BetFreezes ==
    ASSUME IInv, NEW q \in Reqs, BetDebit(q) \/ BetInsert(q), NEW r \in Rounds, Ended(r)
    PROVE  Frozen(r)
<1> DEFINE s == job[q].round
           t == job[q].tap
<1>1. /\ pc[q] \in Placing /\ JobOk(q)
  BY DEF BetDebit, BetInsert, Procs, IInv, JobInv, Placing
<1>2. s \in Rounds /\ t \in Taps /\ s # r
  BY <1>1 DEF JobOk, Betting, Placing, Ended
<1>3. CASE BetDebit(q)
  <2>1. UNCHANGED <<round, bet>> /\ used' \subseteq used \cup {BetKey(s, t)}
    BY <1>3, PostUses DEF BetDebit, wallet
  <2>2. ASSUME NEW v \in Taps PROVE {WinKey(r, v), RefundKey(r, v)} \cap (used' \ used) = {}
    BY <1>2, <2>1, KeysDiffer
  <2> QED BY <2>1, <2>2 DEF Frozen
<1>4. CASE BetInsert(q)
  <2>1. UNCHANGED <<round, used>> /\ bet'[r] = bet[r]
    BY <1>2, <1>4 DEF BetInsert, IInv, Typed
  <2> QED BY <2>1 DEF Frozen
<1> QED BY <1>3, <1>4

LEMMA SettlementFreezes ==
    ASSUME IInv, NEW k \in Ticks, NEW r \in Rounds, Ended(r),
           SettleTx(k) \/ RefundCredit(k) \/ RefundMark(k) \/ AbortRound(k)
    PROVE  Frozen(r)
<1> DEFINE s == job[k].round
<1>1. pc[k] \in {"tx", "refund", "mark"} /\ k \in Procs /\ JobOk(k)
  BY DEF SettleTx, RefundCredit, RefundMark, AbortRound, Procs, IInv, JobInv
<1>2. s \in Rounds /\ s # r /\ job[k].placed \subseteq Taps
  BY <1>1, Alone DEF Ended, IInv, Typed, JobType
<1>3. round'[r] = round[r]
  BY <1>2 DEF SettleTx, RefundCredit, RefundMark, AbortRound, IInv, Typed
<1>4. bet'[r] = bet[r]
  BY <1>2 DEF SettleTx, RefundCredit, RefundMark, AbortRound, IInv, Typed
<1>5. used' \subseteq used \cup {WinKey(s, t) : t \in Taps} \cup {RefundKey(s, t) : t \in Taps}
  <2>1. CASE SettleTx(k)
    BY <1>2, <2>1 DEF SettleTx, PayWinners, Winners
  <2>2. CASE RefundCredit(k)
    BY <1>2, <2>2, PostUses DEF RefundCredit
  <2>3. CASE RefundMark(k) \/ AbortRound(k)
    BY <2>3 DEF RefundMark, AbortRound
  <2> QED BY <2>1, <2>2, <2>3
<1>6. ASSUME NEW t \in Taps PROVE {WinKey(r, t), RefundKey(r, t)} \cap (used' \ used) = {}
  BY <1>2, <1>5, KeysDiffer
<1> QED BY <1>3, <1>4, <1>6 DEF Frozen

LEMMA StepFreezes ==
    ASSUME IInv, [Next]_vars, NEW r \in Rounds, Ended(r)
    PROVE  Frozen(r)
<1>1. CASE UNCHANGED <<used, round, bet>>
  BY <1>1 DEF Frozen
<1>2. CASE \E k \in Ticks : CreateRound(k)
  <2>1. PICK k \in Ticks : CreateRound(k)
    BY <1>2
  <2>2. UNCHANGED <<used, bet>> /\ round'[r] = round[r]
    BY <2>1 DEF CreateRound, Ended, IInv, Typed
  <2> QED BY <2>2 DEF Frozen
<1>3. CASE \E q \in Reqs : BetDebit(q) \/ BetInsert(q)
  BY <1>3, BetFreezes
<1>4. CASE \E k \in Ticks : SettleTx(k) \/ RefundCredit(k) \/ RefundMark(k) \/ AbortRound(k)
  BY <1>4, SettlementFreezes
<1>5. CASE \E q \in Reqs : Bet(q) \/ BetUserLock(q) \/ BetBusy(q) \/ BetCheck(q) \/ BetFails(q)
  BY <1>1, <1>5 DEF Bet, BetUserLock, BetBusy, BetCheck, BetFails
<1>6. CASE \E k \in Ticks : \/ Tick(k) \/ ToSpinning(k) \/ SelectOutcome(k) \/ ToResults(k)
                            \/ ToBetting(k) \/ SettleRead(k) \/ SettleBusy(k)
                            \/ SettleFails(k) \/ RefundFails(k) \/ TickFails(k)
  BY <1>1, <1>6 DEF Tick, ToSpinning, SelectOutcome, ToResults, ToBetting, SettleRead,
     SettleBusy, SettleFails, RefundFails, TickFails
<1>7. CASE \/ LeaderLapses \/ \E l \in Locks : LockExpires(l)
           \/ \E i \in Instances : Crash(i)
  BY <1>1, <1>7 DEF LeaderLapses, LockExpires, Crash, vars
<1>8. CASE UNCHANGED vars
  BY <1>1, <1>8 DEF vars
<1> QED BY <1>2, <1>3, <1>4, <1>5, <1>6, <1>7, <1>8 DEF Next, BetStep, TickStep

(* An ended round's row, bets and keys never change again: every writer    *)
(* holds the lock of a round that is still BETTING.                        *)
THEOREM EndedAlwaysFrozen == Spec => EndedIsFrozen
<1>1. IInv /\ [Next]_vars => [\A r \in Rounds : Ended(r) =>
         /\ round'[r] = round[r] /\ bet'[r] = bet[r]
         /\ \A t \in Taps : {WinKey(r, t), RefundKey(r, t)} \cap (used' \ used) = {}]_vars
  BY StepFreezes DEF Frozen
<1> QED BY <1>1, Invariance, PTL DEF Spec, EndedIsFrozen

-----------------------------------------------------------------------------
(* The coins and the cap.  Two more facts about the keys and the bets on   *)
(* their way in are needed: a win is in the wallet only once its round is  *)
(* settled, so the outcome it was reckoned from stays; and a bet that has  *)
(* been let in still has its room, because it holds the round's lock.      *)

MoneyTyped ==
    /\ gold \in [Users -> [{GOLD} -> Int]] /\ used \subseteq WalletKeys
    /\ leader \in Instances \cup {None, Gone} /\ faults \in 0 .. MaxFaults

WonInv == \A r \in Rounds, t \in Taps : WinKey(r, t) \in used => round[r].status = "SETTLED"
RoomInv == \A q \in Reqs : pc[q] \in Placing => RoomFor(job[q].round, job[q].tap)

CoinInv == MoneyTyped /\ WonInv /\ CoinsAreExplained
CapInv == RoomInv /\ SymbolCap

(* Which steps write the wallet or a bet.                                  *)
LEMMA Writers ==
    ASSUME [Next]_vars
    PROVE  \/ UNCHANGED <<gold, used, bet>>
           \/ \E q \in Reqs : BetDebit(q) \/ BetInsert(q)
           \/ \E k \in Ticks : SettleTx(k) \/ RefundCredit(k) \/ RefundMark(k)
<1>1. CASE UNCHANGED vars
  BY <1>1 DEF vars
<1>2. CASE \E q \in Reqs : Bet(q) \/ BetUserLock(q) \/ BetBusy(q) \/ BetCheck(q) \/ BetFails(q)
  BY <1>2 DEF Bet, BetUserLock, BetBusy, BetCheck, BetFails
<1>3. CASE \E k \in Ticks : \/ Tick(k) \/ ToSpinning(k) \/ SelectOutcome(k) \/ ToResults(k)
                            \/ ToBetting(k) \/ CreateRound(k) \/ SettleRead(k) \/ SettleBusy(k)
                            \/ AbortRound(k) \/ SettleFails(k) \/ RefundFails(k) \/ TickFails(k)
  BY <1>3 DEF Tick, ToSpinning, SelectOutcome, ToResults, ToBetting, CreateRound, SettleRead,
     SettleBusy, AbortRound, SettleFails, RefundFails, TickFails
<1>4. CASE \/ LeaderLapses \/ \E l \in Locks : LockExpires(l)
           \/ \E i \in Instances : Crash(i)
  BY <1>4 DEF LeaderLapses, LockExpires, Crash
<1> QED BY <1>1, <1>2, <1>3, <1>4 DEF Next, BetStep, TickStep

-----------------------------------------------------------------------------
(* Sums of sums: what a user gained, by round and by tap.                  *)

Both(f) == SumFunctionOnSet([r \in Rounds |-> SumFunctionOnSet(f[r], Taps)], Rounds)
Gains(u) == [r \in Rounds |-> Gain(u, r)]

LEMMA BothChange ==
    ASSUME NEW f, NEW g, NEW r \in Rounds, NEW d \in Int,
           \A s \in Rounds, t \in Taps : f[s][t] \in Int /\ g[s][t] \in Int,
           \A s \in Rounds \ {r}, t \in Taps : g[s][t] = f[s][t],
           SumFunctionOnSet(g[r], Taps) = SumFunctionOnSet(f[r], Taps) + d
    PROVE  Both(g) = Both(f) + d
<1> DEFINE F == [s \in Rounds |-> SumFunctionOnSet(f[s], Taps)]
           G == [s \in Rounds |-> SumFunctionOnSet(g[s], Taps)]
<1>1. IsFiniteSet(Rounds) /\ IsFiniteSet(Taps)
  BY RoundsAssumption, TapAssumption
<1>2. ASSUME NEW s \in Rounds PROVE F[s] \in Int /\ G[s] \in Int
  <2>1. SumFunctionOnSet(f[s], Taps) \in Int
    BY <1>1, SumInt
  <2>2. SumFunctionOnSet(g[s], Taps) \in Int
    BY <1>1, SumInt
  <2> QED BY <2>1, <2>2
<1>3. ASSUME NEW s \in Rounds, s # r PROVE F[s] = G[s]
  <2>1. SumFunctionOnSet(f[s], Taps) = SumFunctionOnSet(g[s], Taps)
    BY <1>1, <1>3, SumEqual
  <2> QED BY <2>1
<1>4. G[r] = F[r] + d
  OBVIOUS
<1>5. Both(f) = SumFunctionOnSet(F, Rounds) /\ Both(g) = SumFunctionOnSet(G, Rounds)
  BY DEF Both
<1> HIDE DEF F, G
<1>6. SumFunctionOnSet(G, Rounds) = SumFunctionOnSet(F, Rounds) - F[r] + G[r]
  BY <1>1, <1>2, <1>3, SumChange
<1>7. SumFunctionOnSet(F, Rounds) \in Int /\ F[r] \in Int
  BY <1>1, <1>2, SumInt
<1> QED BY <1>4, <1>5, <1>6, <1>7

LEMMA BothInt ==
    ASSUME NEW f, \A s \in Rounds, t \in Taps : f[s][t] \in Int
    PROVE  Both(f) \in Int
<1> DEFINE F == [s \in Rounds |-> SumFunctionOnSet(f[s], Taps)]
<1>1. IsFiniteSet(Rounds) /\ IsFiniteSet(Taps)
  BY RoundsAssumption, TapAssumption
<1>2. ASSUME NEW s \in Rounds PROVE F[s] \in Int
  <2>1. SumFunctionOnSet(f[s], Taps) \in Int
    BY <1>1, SumInt
  <2> QED BY <2>1
<1>3. Both(f) = SumFunctionOnSet(F, Rounds)
  BY DEF Both
<1> HIDE DEF F
<1> QED BY <1>1, <1>2, <1>3, SumInt

LEMMA BothSame ==
    ASSUME NEW f, NEW g, \A s \in Rounds, t \in Taps : g[s][t] = f[s][t]
    PROVE  Both(g) = Both(f)
<1> DEFINE F == [s \in Rounds |-> SumFunctionOnSet(f[s], Taps)]
           G == [s \in Rounds |-> SumFunctionOnSet(g[s], Taps)]
<1>1. IsFiniteSet(Rounds) /\ IsFiniteSet(Taps)
  BY RoundsAssumption, TapAssumption
<1>2. ASSUME NEW s \in Rounds PROVE F[s] = G[s]
  <2>1. SumFunctionOnSet(f[s], Taps) = SumFunctionOnSet(g[s], Taps)
    BY <1>1, SumEqual
  <2> QED BY <2>1
<1> QED BY <1>2 DEF Both

(* The invariant, in terms of these sums.                                  *)
Explained(u) == gold[u][GOLD] = Fund[u] + Both(Gains(u))

LEMMA ExplainedIs == CoinsAreExplained <=> \A u \in Users : Explained(u)
<1>1. ASSUME NEW u \in Users
      PROVE  SumFunction([r \in Rounds |-> SumFunction(Gain(u, r))]) = Both(Gains(u))
  <2> DEFINE F == [r \in Rounds |-> SumFunction(Gain(u, r))]
             G == [r \in Rounds |-> SumFunctionOnSet(Gains(u)[r], Taps)]
  <2>1. ASSUME NEW r \in Rounds PROVE F[r] = G[r]
    <3>1. DOMAIN Gain(u, r) = Taps /\ Gains(u)[r] = Gain(u, r)
      BY DEF Gain, Gains
    <3> QED BY <3>1, SumOfAll
  <2>2. F = G
    BY <2>1
  <2>3. SumFunction(F) = SumFunctionOnSet(F, DOMAIN F)
    BY SumOfAll
  <2> QED BY <2>2, <2>3 DEF Both
<1> QED BY <1>1 DEF CoinsAreExplained, Explained

LEMMA PayoutNat == ASSUME NEW t \in Taps, NEW o PROVE Payout(t, o) \in Nat /\ Tap[t].amt \in Nat
<1>1. Tap[t].item \in Items /\ Tap[t].amt \in Nat
  BY TapAssumption
<1>2. Multiplier(Tap[t].item, o) \in Nat
  BY <1>1, WheelAssumption DEF Multiplier
<1> HIDE DEF Multiplier
<1> QED BY <1>1, <1>2 DEF Payout

(* What a tap has brought in a round, from its keys and the outcome.       *)
LEMMA GainIs ==
    ASSUME NEW u, NEW r \in Rounds, NEW t \in Taps
    PROVE  Gains(u)[r][t] =
             IF Tap[t].user # u THEN 0
             ELSE (IF WinKey(r, t) \in used THEN Payout(t, round[r].outcome) ELSE 0)
                  + (IF RefundKey(r, t) \in used THEN Tap[t].amt ELSE 0)
                  - (IF BetKey(r, t) \in used THEN Tap[t].amt ELSE 0)
BY DEF Gains, Gain

LEMMA GainNextIs ==
    ASSUME NEW u, NEW r \in Rounds, NEW t \in Taps
    PROVE  Gains(u)'[r][t] =
             IF Tap[t].user # u THEN 0
             ELSE (IF WinKey(r, t) \in used' THEN Payout(t, round'[r].outcome) ELSE 0)
                  + (IF RefundKey(r, t) \in used' THEN Tap[t].amt ELSE 0)
                  - (IF BetKey(r, t) \in used' THEN Tap[t].amt ELSE 0)
BY DEF Gains, Gain, Payout, WinKey, RefundKey, BetKey

LEMMA GainInt ==
    ASSUME NEW u, NEW r \in Rounds, NEW t \in Taps
    PROVE  Gains(u)[r][t] \in Int /\ Gains(u)'[r][t] \in Int
<1>1. /\ Payout(t, round[r].outcome) \in Nat /\ Payout(t, round'[r].outcome) \in Nat
      /\ Tap[t].amt \in Nat
  BY PayoutNat
<1>2. Gains(u)[r][t] \in Int
  BY <1>1, GainIs
<1>3. Gains(u)'[r][t] \in Int
  BY <1>1, GainNextIs
<1> QED BY <1>2, <1>3

(* A tap whose keys stay has brought what it had: a settled round keeps    *)
(* its outcome.                                                            *)
LEMMA GainKeeps ==
    ASSUME IInv, WonInv, [Next]_vars, NEW u, NEW r \in Rounds, NEW t \in Taps,
           \A k \in {WinKey(r, t), RefundKey(r, t), BetKey(r, t)} : k \in used' <=> k \in used
    PROVE  Gains(u)'[r][t] = Gains(u)[r][t]
<1>1. WinKey(r, t) \in used => round'[r] = round[r]
  BY StepFreezes DEF WonInv, Ended, Frozen
<1> QED BY <1>1, GainIs, GainNextIs

LEMMA CoinsStay ==
    ASSUME IInv, WonInv, CoinsAreExplained, [Next]_vars, UNCHANGED <<gold, used>>
    PROVE  CoinsAreExplained'
<1>1. ASSUME NEW u \in Users PROVE gold'[u][GOLD] = Fund[u] + Both(Gains(u)')
  <2>1. \A s \in Rounds, t \in Taps : Gains(u)'[s][t] = Gains(u)[s][t]
    BY GainKeeps
  <2>2. Both(Gains(u)') = Both(Gains(u))
    BY <2>1, BothSame
  <2> QED BY <2>2, ExplainedIs DEF Explained
<1>2. CoinsAreExplained' <=> (\A u \in Users : Explained(u))'
  BY ExplainedIs, PTL
<1>3. (\A u \in Users : Explained(u))' <=> \A u \in Users : gold'[u][GOLD] = Fund[u] + Both(Gains(u)')
  BY DEF Explained, Both
<1> QED BY <1>1, <1>2, <1>3

(* A wallet call about one tap moves one user's coins and that tap's gain  *)
(* by the same.                                                            *)
LEMMA CoinsMove ==
    ASSUME IInv, WonInv, MoneyTyped, CoinsAreExplained, [Next]_vars,
           NEW r \in Rounds, NEW t \in Taps, NEW d \in Int,
           gold' = [gold EXCEPT ![Tap[t].user][GOLD] = @ + d],
           Gains(Tap[t].user)'[r][t] = Gains(Tap[t].user)[r][t] + d,
           \A s \in Rounds, v \in Taps : s # r \/ v # t =>
             \A k \in {WinKey(s, v), RefundKey(s, v), BetKey(s, v)} : k \in used' <=> k \in used
    PROVE  CoinsAreExplained'
<1> DEFINE w == Tap[t].user
<1>1. ASSUME NEW u \in Users PROVE gold'[u][GOLD] = Fund[u] + Both(Gains(u)')
  <2>1. \A s \in Rounds, v \in Taps : s # r \/ v # t => Gains(u)'[s][v] = Gains(u)[s][v]
    BY GainKeeps
  <2>2. \A s \in Rounds, v \in Taps : Gains(u)[s][v] \in Int /\ Gains(u)'[s][v] \in Int
    BY GainInt
  <2>3. gold[u][GOLD] = Fund[u] + Both(Gains(u))
    BY ExplainedIs DEF Explained
  <2>4. CASE u # w
    <3>1. Gains(u)[r][t] = 0 /\ Gains(u)'[r][t] = 0
      BY <2>4, GainIs, GainNextIs
    <3>2. \A s \in Rounds, v \in Taps : Gains(u)'[s][v] = Gains(u)[s][v]
      BY <2>1, <3>1
    <3>3. Both(Gains(u)') = Both(Gains(u))
      BY <3>2, BothSame
    <3>4. gold'[u] = gold[u]
      BY <2>4 DEF MoneyTyped
    <3> QED BY <2>3, <3>3, <3>4
  <2>5. CASE u = w
    <3> DEFINE f == Gains(u)
               g == Gains(u)'
    <3>1. g[r][t] = f[r][t] + d
      BY <2>5
    <3>2. \A v \in Taps : v # t => f[r][v] = g[r][v]
      BY <2>1
    <3>3. \A s \in Rounds \ {r}, v \in Taps : g[s][v] = f[s][v]
      BY <2>1
    <3>4. \A s \in Rounds, v \in Taps : f[s][v] \in Int /\ g[s][v] \in Int
      BY <2>2
    <3>a. gold[u][GOLD] = Fund[u] + Both(f)
      BY <2>3
    <3> SUFFICES gold'[u][GOLD] = Fund[u] + Both(g)
      OBVIOUS
    <3> HIDE DEF f, g
    <3>b. /\ \A v \in Taps : f[r][v] \in Int /\ g[r][v] \in Int
          /\ IsFiniteSet(Taps)
      BY <3>4, TapAssumption
    <3> DEFINE fr == f[r]
               gr == g[r]
    <3>c. /\ \A v \in Taps : fr[v] \in Int /\ gr[v] \in Int
          /\ \A v \in Taps : v # t => fr[v] = gr[v]
      BY <3>2, <3>b
    <3> HIDE DEF fr, gr
    <3>d. SumFunctionOnSet(gr, Taps) = SumFunctionOnSet(fr, Taps) - fr[t] + gr[t]
      BY <3>b, <3>c, SumChange
    <3>5. SumFunctionOnSet(g[r], Taps) = SumFunctionOnSet(f[r], Taps) - f[r][t] + g[r][t]
      BY <3>d DEF fr, gr
    <3>6. SumFunctionOnSet(f[r], Taps) \in Int
      BY <3>4, TapAssumption, SumInt
    <3>7. SumFunctionOnSet(g[r], Taps) = SumFunctionOnSet(f[r], Taps) + d
      BY <3>1, <3>4, <3>5, <3>6
    <3>8. Both(g) = Both(f) + d
      BY <3>3, <3>4, <3>7, BothChange
    <3>9. Both(f) \in Int
      BY <3>4, BothInt
    <3>10. gold[u] \in [{GOLD} -> Int] /\ DOMAIN gold = Users
      BY DEF MoneyTyped
    <3>11. gold'[u][GOLD] = gold[u][GOLD] + d /\ gold[u][GOLD] \in Int
      BY <2>5, <3>10
    <3>12. Fund[u] \in Int
      BY TapAssumption
    <3> QED BY <3>a, <3>8, <3>9, <3>11, <3>12
  <2> QED BY <2>4, <2>5
<1>2. CoinsAreExplained' <=> (\A u \in Users : Explained(u))'
  BY ExplainedIs, PTL
<1>3. (\A u \in Users : Explained(u))' <=> \A u \in Users : gold'[u][GOLD] = Fund[u] + Both(Gains(u)')
  BY DEF Explained, Both
<1> QED BY <1>1, <1>2, <1>3

-----------------------------------------------------------------------------
(* The steps that move coins.                                              *)

(* A movement of a tap's stake either is a replay or moves it.             *)
LEMMA PostMoves ==
    ASSUME MoneyTyped, NEW k, NEW t \in Taps, NEW kind \in {"moveDebit", "moveCredit"},
           W!Post(k, Gold(kind, t))
    PROVE  \/ UNCHANGED <<gold, used>>
           \/ /\ k \notin used /\ used' = used \cup {k}
              /\ gold' = [gold EXCEPT ![Tap[t].user][GOLD] =
                             @ + (IF kind = "moveDebit" THEN -Tap[t].amt ELSE Tap[t].amt)]
<1>1. CASE k \in used
  BY <1>1 DEF W!Post, W!accounts
<1>2. CASE k \notin used
  <2>1. /\ gold' = [gold EXCEPT ![Tap[t].user][GOLD] = @ + W!Signed(Gold(kind, t))]
        /\ used' = used \cup {k}
    BY <1>2 DEF W!Post, W!Move, Gold
  <2>2. W!Signed(Gold(kind, t)) = IF kind = "moveDebit" THEN -Tap[t].amt ELSE Tap[t].amt
    BY DEF W!Signed, W!Unmoved, W!Credits, Gold
  <2> QED BY <1>2, <2>1, <2>2
<1> QED BY <1>1, <1>2

LEMMA GoldTyped ==
    ASSUME MoneyTyped, NEW w \in Users, NEW d \in Int,
           gold' = [gold EXCEPT ![w][GOLD] = @ + d]
    PROVE  gold' \in [Users -> [{GOLD} -> Int]]
<1>1. gold[w] \in [{GOLD} -> Int] /\ gold[w][GOLD] \in Int
  BY DEF MoneyTyped
<1> DEFINE row == [gold[w] EXCEPT ![GOLD] = @ + d]
<1>2. row \in [{GOLD} -> Int]
  BY <1>1
<1>3. gold' = [gold EXCEPT ![w] = row]
  OBVIOUS
<1> HIDE DEF row
<1> QED BY <1>2, <1>3 DEF MoneyTyped

LEMMA BetDebitExplains ==
    ASSUME IInv, CoinInv, [Next]_vars, NEW q \in Reqs, BetDebit(q)
    PROVE  /\ gold' \in [Users -> [{GOLD} -> Int]] /\ used' \subseteq WalletKeys
           /\ WonInv' /\ CoinsAreExplained'
<1>1. q \in Procs /\ pc[q] = "debit" /\ JobOk(q) /\ round' = round
  BY DEF BetDebit, Procs, IInv, JobInv
<1>2. PICK r \in Rounds, t \in Taps : r = job[q].round /\ t = job[q].tap
  BY <1>1 DEF JobOk, Betting
<1>3. \/ UNCHANGED <<gold, used>>
      \/ /\ BetKey(r, t) \notin used /\ used' = used \cup {BetKey(r, t)}
         /\ gold' = [gold EXCEPT ![Tap[t].user][GOLD] = @ + -Tap[t].amt]
  <2>1. CASE W!Post(BetKey(r, t), Gold("moveDebit", t))
    BY <2>1, PostMoves DEF CoinInv
  <2>2. CASE UNCHANGED wallet
    BY <2>2 DEF wallet
  <2> QED BY <1>2, <2>1, <2>2 DEF BetDebit
<1>4. CASE UNCHANGED <<gold, used>>
  <2>1. WonInv'
    BY <1>1, <1>4 DEF CoinInv, WonInv, WinKey
  <2> QED BY <1>4, <2>1, CoinsStay DEF CoinInv, MoneyTyped
<1>5. CASE /\ BetKey(r, t) \notin used /\ used' = used \cup {BetKey(r, t)}
           /\ gold' = [gold EXCEPT ![Tap[t].user][GOLD] = @ + -Tap[t].amt]
  <2>1. Tap[t].user \in Users /\ Tap[t].amt \in Int /\ -Tap[t].amt \in Int
    BY TapAssumption
  <2>2. gold' \in [Users -> [{GOLD} -> Int]]
    BY <1>5, <2>1, GoldTyped DEF CoinInv
  <2>3. used' \subseteq WalletKeys
    BY <1>5 DEF CoinInv, MoneyTyped, WalletKeys, BetKey
  <2>4. \A s \in Rounds, v \in Taps :
          /\ WinKey(s, v) \in used' <=> WinKey(s, v) \in used
          /\ RefundKey(s, v) \in used' <=> RefundKey(s, v) \in used
          /\ s # r \/ v # t => (BetKey(s, v) \in used' <=> BetKey(s, v) \in used)
    BY <1>5, KeysDiffer
  <2>5. WonInv'
    BY <1>1, <2>4 DEF CoinInv, WonInv, WinKey
  <2>6. Gains(Tap[t].user)'[r][t] = Gains(Tap[t].user)[r][t] + -Tap[t].amt
    <3>1. /\ Payout(t, round[r].outcome) \in Nat
          /\ BetKey(r, t) \in used' /\ BetKey(r, t) \notin used
      BY <1>5, PayoutNat
    <3>2. /\ WinKey(r, t) \in used' <=> WinKey(r, t) \in used
          /\ RefundKey(r, t) \in used' <=> RefundKey(r, t) \in used
      BY <2>4
    <3> QED BY <1>1, <2>1, <3>1, <3>2, GainIs, GainNextIs
  <2>7. CoinsAreExplained'
    <3>1. \A s \in Rounds, v \in Taps : s # r \/ v # t =>
             \A x \in {WinKey(s, v), RefundKey(s, v), BetKey(s, v)} : x \in used' <=> x \in used
      BY <2>4
    <3>2. MoneyTyped /\ WonInv /\ CoinsAreExplained
      BY DEF CoinInv
    <3> QED BY <1>5, <2>1, <2>6, <3>1, <3>2, CoinsMove
  <2> QED BY <2>2, <2>3, <2>5, <2>7
<1> QED BY <1>3, <1>4, <1>5

LEMMA RefundCreditExplains ==
    ASSUME IInv, CoinInv, [Next]_vars, NEW k \in Ticks, RefundCredit(k)
    PROVE  /\ gold' \in [Users -> [{GOLD} -> Int]] /\ used' \subseteq WalletKeys
           /\ WonInv' /\ CoinsAreExplained'
<1>1. k \in Procs /\ pc[k] = "refund" /\ JobOk(k) /\ round' = round
  BY DEF RefundCredit, Procs, IInv, JobInv
<1>2. PICK t \in job[k].placed : W!Post(RefundKey(job[k].round, t), Gold("moveCredit", t))
  BY DEF RefundCredit
<1>3. PICK r \in Rounds : r = job[k].round
  BY <1>1 DEF JobOk, Ticking
<1>4. t \in Taps
  BY <1>1, <1>2 DEF IInv, Typed, JobType
<1>5. \/ UNCHANGED <<gold, used>>
      \/ /\ RefundKey(r, t) \notin used /\ used' = used \cup {RefundKey(r, t)}
         /\ gold' = [gold EXCEPT ![Tap[t].user][GOLD] = @ + Tap[t].amt]
  BY <1>2, <1>3, <1>4, PostMoves DEF CoinInv
<1>6. CASE UNCHANGED <<gold, used>>
  <2>1. WonInv'
    BY <1>1, <1>6 DEF CoinInv, WonInv, WinKey
  <2> QED BY <1>6, <2>1, CoinsStay DEF CoinInv, MoneyTyped
<1>7. CASE /\ RefundKey(r, t) \notin used /\ used' = used \cup {RefundKey(r, t)}
           /\ gold' = [gold EXCEPT ![Tap[t].user][GOLD] = @ + Tap[t].amt]
  <2>1. Tap[t].user \in Users /\ Tap[t].amt \in Int
    BY <1>4, TapAssumption
  <2>2. gold' \in [Users -> [{GOLD} -> Int]]
    BY <1>7, <2>1, GoldTyped DEF CoinInv
  <2>3. used' \subseteq WalletKeys
    BY <1>4, <1>7 DEF CoinInv, MoneyTyped, WalletKeys, RefundKey
  <2>4. \A s \in Rounds, v \in Taps :
          /\ WinKey(s, v) \in used' <=> WinKey(s, v) \in used
          /\ BetKey(s, v) \in used' <=> BetKey(s, v) \in used
          /\ s # r \/ v # t => (RefundKey(s, v) \in used' <=> RefundKey(s, v) \in used)
    BY <1>4, <1>7, KeysDiffer
  <2>5. WonInv'
    BY <1>1, <2>4 DEF CoinInv, WonInv, WinKey
  <2>6. Gains(Tap[t].user)'[r][t] = Gains(Tap[t].user)[r][t] + Tap[t].amt
    <3>1. /\ Payout(t, round[r].outcome) \in Nat
          /\ RefundKey(r, t) \in used' /\ RefundKey(r, t) \notin used
      BY <1>4, <1>7, PayoutNat
    <3>2. /\ WinKey(r, t) \in used' <=> WinKey(r, t) \in used
          /\ BetKey(r, t) \in used' <=> BetKey(r, t) \in used
      BY <1>4, <2>4
    <3> QED BY <1>1, <1>4, <2>1, <3>1, <3>2, GainIs, GainNextIs
  <2>7. CoinsAreExplained'
    <3>1. \A s \in Rounds, v \in Taps : s # r \/ v # t =>
             \A x \in {WinKey(s, v), RefundKey(s, v), BetKey(s, v)} : x \in used' <=> x \in used
      BY <2>4
    <3>2. MoneyTyped /\ WonInv /\ CoinsAreExplained
      BY DEF CoinInv
    <3> QED BY <1>4, <1>7, <2>1, <2>6, <3>1, <3>2, CoinsMove
  <2> QED BY <2>2, <2>3, <2>5, <2>7
<1> QED BY <1>5, <1>6, <1>7

(* The settlement's one transaction: every winner's keys were unused, and  *)
(* what each user is credited is what that user's winning taps gain.       *)
LEMMA SettleTxExplains ==
    ASSUME IInv, CoinInv, [Next]_vars, NEW k \in Ticks, SettleTx(k)
    PROVE  /\ gold' \in [Users -> [{GOLD} -> Int]] /\ used' \subseteq WalletKeys
           /\ WonInv' /\ CoinsAreExplained'
<1>1. k \in Procs /\ pc[k] = "tx" /\ JobOk(k)
  BY DEF SettleTx, Procs, IInv, JobInv
<1>0. PICK r \in Rounds : r = job[k].round
  BY <1>1 DEF JobOk, Ticking
<1>2. PICK o : r = job[k].round /\ o = job[k].outcome
  BY <1>0
<1>3. /\ round[r].status = "BETTING"
      /\ round'[r].status = "SETTLED" /\ round'[r].outcome = o
      /\ \A s \in Rounds \ {r} : round'[s] = round[s]
  BY <1>1, <1>2 DEF JobOk, SettlePcs, SettleTx, IInv, Typed
<1>4. PICK ws \in SUBSET Taps : ws = Winners(k)
  BY <1>1 DEF Winners, IInv, Typed, JobType
<1>5. /\ used' = used \cup {WinKey(r, t) : t \in ws}
      /\ gold' = [u \in Users |-> [gold[u] EXCEPT ![GOLD] = @ + Won(k, u)]]
  BY <1>2, <1>4 DEF SettleTx, PayWinners
<1>6. \A t \in Taps : WinKey(r, t) \notin used
  BY <1>3 DEF CoinInv, WonInv
<1>7. \A s \in Rounds, v \in Taps :
          /\ WinKey(s, v) \in used' <=> WinKey(s, v) \in used \/ (s = r /\ v \in ws)
          /\ BetKey(s, v) \in used' <=> BetKey(s, v) \in used
          /\ RefundKey(s, v) \in used' <=> RefundKey(s, v) \in used
  BY <1>5, KeysDiffer
<1>8. used' \subseteq WalletKeys
  BY <1>5 DEF CoinInv, MoneyTyped, WalletKeys, WinKey
<1>9. WonInv'
  BY <1>3, <1>7 DEF CoinInv, WonInv, WinKey
<1> DEFINE mine(u) == {t \in ws : Tap[t].user = u}
           pays == [t \in Taps |-> Payout(t, o)]
<1>10. ASSUME NEW u \in Users
       PROVE  Won(k, u) = SumFunctionOnSet(pays, mine(u)) /\ Won(k, u) \in Int
  <2>1. mine(u) = {t \in Winners(k) : Tap[t].user = u /\ WinKey(job[k].round, t) \notin used}
    BY <1>2, <1>4, <1>6
  <2>2. Won(k, u) = SumFunctionOnSet(pays, mine(u))
    BY <1>2, <2>1 DEF Won
  <2>3. IsFiniteSet(Taps) /\ mine(u) \in SUBSET Taps
    BY TapAssumption
  <2>4. \A t \in Taps : pays[t] \in Int
    BY PayoutNat
  <2> HIDE DEF mine, pays
  <2>5. SumFunctionOnSet(pays, mine(u)) \in Int
    BY <2>3, <2>4, SumInt
  <2> QED BY <2>2, <2>5
<1>11. gold' \in [Users -> [{GOLD} -> Int]]
  <2> SUFFICES ASSUME NEW u \in Users
               PROVE  [gold[u] EXCEPT ![GOLD] = @ + Won(k, u)] \in [{GOLD} -> Int]
    BY <1>5
  <2>1. gold[u] \in [{GOLD} -> Int] /\ gold[u][GOLD] \in Int /\ Won(k, u) \in Int
    BY <1>10 DEF CoinInv, MoneyTyped
  <2> QED BY <2>1
<1>12. ASSUME NEW u \in Users PROVE gold'[u][GOLD] = Fund[u] + Both(Gains(u)')
  <2> DEFINE f == Gains(u)
             g == Gains(u)'
             won == [t \in Taps |-> IF t \in mine(u) THEN pays[t] ELSE 0]
  <2>1. \A s \in Rounds, v \in Taps : f[s][v] \in Int /\ g[s][v] \in Int
    BY GainInt
  <2>2. \A s \in Rounds \ {r}, v \in Taps : g[s][v] = f[s][v]
    <3>1. ASSUME NEW s \in Rounds \ {r}, NEW v \in Taps,
                 NEW x \in {WinKey(s, v), RefundKey(s, v), BetKey(s, v)}
          PROVE  x \in used' <=> x \in used
      BY <1>7
    <3> QED BY <3>1, GainKeeps DEF CoinInv
  <2>3. ASSUME NEW t \in Taps PROVE won[t] \in Int /\ g[r][t] = f[r][t] + won[t]
    <3>1. Payout(t, o) \in Nat /\ Tap[t].amt \in Nat /\ pays[t] = Payout(t, o)
      BY PayoutNat
    <3>2. WinKey(r, t) \notin used /\ (WinKey(r, t) \in used' <=> t \in ws)
      BY <1>6, <1>7
    <3>3. won[t] = IF Tap[t].user = u /\ t \in ws THEN Payout(t, o) ELSE 0
      BY <3>1
    <3>4. f[r][t] = IF Tap[t].user # u THEN 0
                    ELSE (IF RefundKey(r, t) \in used THEN Tap[t].amt ELSE 0)
                         - (IF BetKey(r, t) \in used THEN Tap[t].amt ELSE 0)
      BY <3>1, <3>2, GainIs
    <3>5. g[r][t] = IF Tap[t].user # u THEN 0
                    ELSE (IF t \in ws THEN Payout(t, o) ELSE 0)
                         + (IF RefundKey(r, t) \in used THEN Tap[t].amt ELSE 0)
                         - (IF BetKey(r, t) \in used THEN Tap[t].amt ELSE 0)
      BY <1>3, <1>7, <3>2, GainNextIs
    <3> HIDE DEF f, g, won, pays
    <3> QED BY <3>1, <3>3, <3>4, <3>5
  <2>4. SumFunctionOnSet(won, Taps) = Won(k, u)
    <3>1. mine(u) \in SUBSET Taps /\ IsFiniteSet(Taps)
      BY TapAssumption
    <3>2. /\ \A t \in mine(u) : pays[t] \in Int /\ won[t] = pays[t]
          /\ \A t \in Taps \ mine(u) : won[t] = 0
      BY PayoutNat
    <3> HIDE DEF mine, won, pays
    <3>3. SumFunctionOnSet(won, Taps) = SumFunctionOnSet(pays, mine(u))
      BY <3>1, <3>2, SumWithin
    <3> QED BY <1>10, <3>3
  <2>5. gold[u][GOLD] = Fund[u] + Both(f)
    BY ExplainedIs DEF Explained, CoinInv
  <2> SUFFICES gold'[u][GOLD] = Fund[u] + Both(g)
    OBVIOUS
  <2> HIDE DEF f, g, won, mine, pays
  <2>6. SumFunctionOnSet(g[r], Taps) = SumFunctionOnSet(f[r], Taps) + SumFunctionOnSet(won, Taps)
    BY <2>1, <2>3, TapAssumption, SumPlus
  <2>7. Both(g) = Both(f) + Won(k, u)
    <3>1. SumFunctionOnSet(g[r], Taps) = SumFunctionOnSet(f[r], Taps) + Won(k, u)
      BY <2>4, <2>6
    <3>2. Won(k, u) \in Int
      BY <1>10
    <3> QED BY <2>1, <2>2, <3>1, <3>2, BothChange
  <2>8. gold'[u][GOLD] = gold[u][GOLD] + Won(k, u)
    BY <1>5 DEF CoinInv, MoneyTyped
  <2>9. Both(f) \in Int /\ Fund[u] \in Int /\ Won(k, u) \in Int
    BY <1>10, <2>1, BothInt, TapAssumption
  <2> QED BY <2>5, <2>7, <2>8, <2>9
<1>13. CoinsAreExplained' <=> (\A u \in Users : Explained(u))'
  BY ExplainedIs, PTL
<1>14. (\A u \in Users : Explained(u))' <=> \A u \in Users : gold'[u][GOLD] = Fund[u] + Both(Gains(u)')
  BY DEF Explained, Both
<1> QED BY <1>8, <1>9, <1>11, <1>12, <1>13, <1>14

-----------------------------------------------------------------------------
(* The steps that leave the wallet alone.                                  *)

LEMMA BookTyped ==
    ASSUME MoneyTyped, [Next]_vars
    PROVE  leader' \in Instances \cup {None, Gone} /\ faults' \in 0 .. MaxFaults
<1>0. /\ leader \in Instances \cup {None, Gone} /\ faults \in 0 .. MaxFaults /\ MaxFaults \in Nat
      /\ Fault => faults' \in 0 .. MaxFaults
  BY ProcsAssumption DEF MoneyTyped, Fault
<1>1. CASE UNCHANGED vars
  BY <1>0, <1>1 DEF vars
<1>2. CASE \E q \in Reqs : Bet(q) \/ BetUserLock(q) \/ BetBusy(q) \/ BetCheck(q)
                           \/ BetDebit(q) \/ BetInsert(q) \/ BetFails(q)
  BY <1>0, <1>2 DEF Bet, BetUserLock, BetBusy, BetCheck, BetDebit, BetInsert, BetFails
<1>3. CASE \E k \in Ticks : Tick(k)
  BY <1>0, <1>3, ProcsAssumption DEF Tick
<1>4. CASE \E k \in Ticks : \/ ToSpinning(k) \/ SelectOutcome(k) \/ ToResults(k)
                            \/ ToBetting(k) \/ CreateRound(k) \/ SettleRead(k) \/ SettleBusy(k)
                            \/ SettleTx(k) \/ RefundCredit(k) \/ RefundMark(k) \/ AbortRound(k)
  BY <1>0, <1>4 DEF ToSpinning, SelectOutcome, ToResults, ToBetting, CreateRound, SettleRead,
     SettleBusy, SettleTx, RefundCredit, RefundMark, AbortRound
<1>5. CASE \E k \in Ticks : SettleFails(k) \/ RefundFails(k) \/ TickFails(k)
  BY <1>0, <1>5 DEF SettleFails, RefundFails, TickFails
<1>6. CASE \/ LeaderLapses \/ \E l \in Locks : LockExpires(l)
           \/ \E i \in Instances : Crash(i)
  BY <1>0, <1>6 DEF LeaderLapses, LockExpires, Crash
<1> QED BY <1>1, <1>2, <1>3, <1>4, <1>5, <1>6 DEF Next, BetStep, TickStep

LEMMA WonStays ==
    ASSUME IInv, WonInv, [Next]_vars, UNCHANGED used
    PROVE  WonInv'
<1> SUFFICES ASSUME NEW r \in Rounds, NEW t \in Taps, WinKey(r, t) \in used
             PROVE  round'[r].status = "SETTLED"
  BY DEF WonInv, WinKey
<1>1. round[r].status = "SETTLED"
  BY DEF WonInv
<1>2. round'[r] = round[r]
  BY <1>1, StepFreezes DEF Ended, Frozen
<1> QED BY <1>1, <1>2

LEMMA StepExplains ==
    ASSUME IInv, CoinInv, [Next]_vars
    PROVE  CoinInv'
<1>1. leader' \in Instances \cup {None, Gone} /\ faults' \in 0 .. MaxFaults
  BY BookTyped DEF CoinInv
<1>2. ASSUME UNCHANGED <<gold, used>>
      PROVE  /\ gold' \in [Users -> [{GOLD} -> Int]] /\ used' \subseteq WalletKeys
             /\ WonInv' /\ CoinsAreExplained'
  <2>1. WonInv' /\ CoinsAreExplained'
    BY <1>2, WonStays, CoinsStay DEF CoinInv
  <2> QED BY <1>2, <2>1 DEF CoinInv, MoneyTyped
<1>3. /\ gold' \in [Users -> [{GOLD} -> Int]] /\ used' \subseteq WalletKeys
      /\ WonInv' /\ CoinsAreExplained'
  <2>1. CASE \E q \in Reqs : BetDebit(q)
    BY <2>1, BetDebitExplains
  <2>2. CASE \E k \in Ticks : SettleTx(k)
    BY <2>2, SettleTxExplains
  <2>3. CASE \E k \in Ticks : RefundCredit(k)
    BY <2>3, RefundCreditExplains
  <2>4. CASE \E q \in Reqs : BetInsert(q)
    BY <1>2, <2>4 DEF BetInsert
  <2>5. CASE \E k \in Ticks : RefundMark(k)
    BY <1>2, <2>5 DEF RefundMark
  <2> QED BY <1>2, <2>1, <2>2, <2>3, <2>4, <2>5, Writers
<1> QED BY <1>1, <1>3 DEF CoinInv, MoneyTyped

LEMMA InitExplains == Init => CoinInv
<1> SUFFICES ASSUME Init PROVE CoinInv
  OBVIOUS
<1>1. MoneyTyped
  BY ProcsAssumption, TapAssumption DEF Init, MoneyTyped
<1>2. WonInv
  BY DEF Init, WonInv
<1>3. CoinsAreExplained
  <2>1. ASSUME NEW u \in Users PROVE Explained(u)
    <3> DEFINE F == [r \in Rounds |-> SumFunctionOnSet(Gains(u)[r], Taps)]
    <3>1. ASSUME NEW r \in Rounds PROVE F[r] = 0
      <4>1. \A t \in Taps : Gains(u)[r][t] = 0
        BY GainIs DEF Init
      <4>2. SumFunctionOnSet(Gains(u)[r], Taps) = 0
        BY <4>1, TapAssumption, SumZero
      <4> QED BY <4>2
    <3>2. Both(Gains(u)) = SumFunctionOnSet(F, Rounds)
      BY DEF Both
    <3> HIDE DEF F
    <3>3. SumFunctionOnSet(F, Rounds) = 0
      BY <3>1, RoundsAssumption, SumZero
    <3>4. gold[u][GOLD] = Fund[u] /\ Fund[u] \in Int
      BY TapAssumption DEF Init
    <3> QED BY <3>2, <3>3, <3>4 DEF Explained
  <2> QED BY <2>1, ExplainedIs
<1> QED BY <1>1, <1>2, <1>3 DEF CoinInv

LEMMA CoinInvariance == Spec => []CoinInv
BY InitExplains, StepExplains, Invariance, PTL DEF Spec

(* Bets, settlements and refunds, whatever is lost, retried or overlaps,   *)
(* leave every player with the stakes out, the wins of the outcome the     *)
(* round's row records and the refunds in, to the coin.                    *)
THEOREM CoinsAreAlwaysExplained == Spec => []CoinsAreExplained
<1>1. CoinInv => CoinsAreExplained
  BY DEF CoinInv
<1> QED BY <1>1, CoinInvariance, PTL

-----------------------------------------------------------------------------
(* The cap.  Rows are never deleted, and only an insert adds one.          *)

LEMMA EntriesStay ==
    ASSUME IInv, [Next]_vars, ~\E q \in Reqs : BetInsert(q)
    PROVE  \A r \in Rounds, t \in Taps : bet'[r][t] # "none" <=> bet[r][t] # "none"
<1>1. CASE UNCHANGED bet
  BY <1>1
<1>2. ASSUME NEW k \in Ticks, SettleTx(k)
      PROVE  \A r \in Rounds, t \in Taps : bet'[r][t] # "none" <=> bet[r][t] # "none"
  <2>1. JobOk(k) /\ pc[k] = "tx"
    BY <1>2 DEF SettleTx, Procs, IInv, JobInv
  <2>2. PICK s \in Rounds : s = job[k].round
    BY <2>1 DEF JobOk, Ticking
  <2>3. bet' = [bet EXCEPT ![s] = Results(k)] /\ job[k].placed = Placed(s)
    BY <1>2, <2>1, <2>2 DEF SettleTx, JobOk
  <2>4. \A t \in Taps : t \in Winners(k) => bet[s][t] = "PLACED"
    BY <2>3 DEF Winners, Placed
  <2>5. \A t \in Taps : Results(k)[t] # "none" <=> bet[s][t] # "none"
    BY <2>2, <2>3, <2>4 DEF Results, Placed
  <2> QED BY <2>2, <2>3, <2>5 DEF IInv, Typed
<1>3. ASSUME NEW k \in Ticks, RefundMark(k)
      PROVE  \A r \in Rounds, t \in Taps : bet'[r][t] # "none" <=> bet[r][t] # "none"
  <2>1. JobOk(k) /\ pc[k] = "mark"
    BY <1>3 DEF RefundMark, Procs, IInv, JobInv
  <2>2. PICK s \in Rounds, v \in Taps : s = job[k].round /\ v = job[k].tap /\ bet[s][v] = "PLACED"
    BY <2>1 DEF JobOk, Ticking, Placed
  <2>3. bet' = [bet EXCEPT ![s][v] = "REFUNDED"]
    BY <1>3, <2>2 DEF RefundMark
  <2> QED BY <2>2, <2>3 DEF IInv, Typed
<1>4. ASSUME (\E q \in Reqs : BetDebit(q)) \/ (\E k \in Ticks : RefundCredit(k))
      PROVE  UNCHANGED bet
  BY <1>4 DEF BetDebit, RefundCredit
<1> QED BY <1>1, <1>2, <1>3, <1>4, Writers

LEMMA SymbolsStay ==
    ASSUME NEW r, \A t \in Taps : bet'[r][t] # "none" <=> bet[r][t] # "none"
    PROVE  \A u : Symbols(r, u)' = Symbols(r, u)
<1>1. ASSUME NEW u PROVE Entered(r, u)' = Entered(r, u)
  BY DEF Entered
<1> QED BY <1>1 DEF Symbols

LEMMA SymbolsFinite ==
    ASSUME NEW r, NEW u
    PROVE  IsFiniteSet(Symbols(r, u)) /\ Cardinality(Symbols(r, u)) \in Nat
<1>1. Symbols(r, u) \subseteq Outcomes
  BY TapAssumption, WheelAssumption DEF Symbols, Entered
<1>2. IsFiniteSet(Symbols(r, u))
  BY <1>1, WheelAssumption, FS_Subset
<1> QED BY <1>2, FS_CardinalityType

(* Who is about to place a bet was about to already, or is let in now.     *)
LEMMA PlacingMoves ==
    ASSUME IInv, [Next]_vars, NEW q \in Reqs, pc'[q] \in Placing
    PROVE  /\ job'[q] = job[q]
           /\ pc[q] \in Placing \/ (BetCheck(q) /\ RoomFor(job[q].round, job[q].tap))
<1>0. q \in Procs /\ q \notin Ticks /\ DOMAIN pc = Procs /\ DOMAIN job = Procs
  BY ProcsAssumption DEF Procs, IInv, Typed
<1>1. CASE UNCHANGED <<pc, job>>
  BY <1>1
<1>2. ASSUME NEW p \in Reqs, Bet(p) \/ BetStep(p) \/ BetFails(p), p # q
      PROVE  pc'[q] = pc[q] /\ job'[q] = job[q]
  BY <1>0, <1>2 DEF Bet, BetStep, BetUserLock, BetBusy, BetCheck, BetDebit, BetInsert, BetFails,
     Goto, Finish
<1>3. CASE Bet(q) \/ BetUserLock(q) \/ BetBusy(q) \/ BetInsert(q) \/ BetFails(q)
  BY <1>0, <1>3 DEF Bet, BetUserLock, BetBusy, BetInsert, BetFails, Goto, Finish, Placing
<1>4. CASE BetCheck(q)
  BY <1>0, <1>4 DEF BetCheck, Goto, Finish, Placing
<1>5. CASE BetDebit(q)
  BY <1>0, <1>5 DEF BetDebit, Goto, Finish, Placing
<1>6. ASSUME NEW k \in Ticks, Tick(k) \/ TickStep(k) \/ SettleFails(k) \/ RefundFails(k)
                              \/ TickFails(k)
      PROVE  pc'[q] = pc[q] /\ job'[q] = job[q]
  <2>1. \E l : pc' = [pc EXCEPT ![k] = l]
    BY <1>6 DEF Tick, TickStep, ToSpinning, SelectOutcome, ToResults, ToBetting, CreateRound,
       SettleRead, SettleBusy, SettleTx, RefundCredit, RefundMark, AbortRound, SettleFails,
       RefundFails, TickFails, Goto, EndTick
  <2>2. \A p \in Procs \ {k} : job'[p] = job[p]
    <3>1. CASE Tick(k) \/ SettleFails(k) \/ RefundFails(k) \/ TickFails(k)
      BY <1>0, <3>1 DEF Tick, SettleFails, RefundFails, TickFails, EndTick
    <3>2. CASE TickStep(k)
      BY <1>0, <3>2 DEF TickStep, ToSpinning, SelectOutcome, ToResults, ToBetting, CreateRound,
         SettleRead, SettleBusy, SettleTx, RefundCredit, RefundMark, AbortRound, EndTick
    <3> QED BY <1>6, <3>1, <3>2
  <2> QED BY <1>0, <2>1, <2>2
<1>7. CASE LeaderLapses \/ \E l \in Locks : LockExpires(l)
  BY <1>7 DEF LeaderLapses, LockExpires
<1>8. ASSUME NEW i \in Instances, Crash(i)
      PROVE  pc'[q] = pc[q] /\ job'[q] = job[q]
  BY <1>0, <1>8 DEF Crash, Placing
<1> QED BY <1>1, <1>2, <1>3, <1>4, <1>5, <1>6, <1>7, <1>8 DEF Next, BetStep, vars

(* A bet that was let in keeps its room while nobody inserts, and nobody   *)
(* inserts into the round whose lock it holds.                             *)
LEMMA StepCaps ==
    ASSUME IInv, IInv', CapInv, [Next]_vars
    PROVE  CapInv'
<1>1. CASE ~\E q \in Reqs : BetInsert(q)
  <2>1. \A r \in Rounds, u \in Users : Symbols(r, u)' = Symbols(r, u)
    BY <1>1, EntriesStay, SymbolsStay
  <2>2. SymbolCap'
    BY <2>1 DEF CapInv, SymbolCap
  <2>3. ASSUME NEW q \in Reqs, pc'[q] \in Placing
        PROVE  RoomFor(job[q].round, job[q].tap)'
    <3>1. job'[q] = job[q] /\ RoomFor(job[q].round, job[q].tap)
      BY <2>3, PlacingMoves DEF CapInv, RoomInv
    <3>2. PICK r \in Rounds, t \in Taps : r = job'[q].round /\ t = job'[q].tap
      BY <2>3 DEF IInv, JobInv, JobOk, Procs, Betting, Placing
    <3>3. Symbols(r, Tap[t].user)' = Symbols(r, Tap[t].user)
      BY <2>1, TapAssumption
    <3> QED BY <3>1, <3>2, <3>3 DEF RoomFor
  <2> QED BY <2>2, <2>3 DEF CapInv, RoomInv
<1>2. ASSUME NEW p \in Reqs, BetInsert(p) PROVE CapInv'
  <2>1. p \in Procs /\ pc[p] = "insert" /\ JobOk(p)
    BY <1>2 DEF BetInsert, Procs, IInv, JobInv
  <2>2. PICK s \in Rounds, v \in Taps : s = job[p].round /\ v = job[p].tap
    BY <2>1 DEF JobOk, Betting
  <2>3. /\ \A r \in Rounds \ {s} : bet'[r] = bet[r]
        /\ \A t \in Taps : bet'[s][t] # "none" <=> bet[s][t] # "none" \/ t = v
    BY <1>2, <2>2 DEF BetInsert, IInv, Typed
  <2>4. RoomFor(s, v)
    BY <2>1, <2>2 DEF CapInv, RoomInv, Placing
  <2>5. ASSUME NEW u \in Users PROVE Cardinality(Symbols(s, u)') <= MaxSymbols
    <3>1. Cardinality(Symbols(s, u)) <= MaxSymbols /\ MaxSymbols \in Nat
      BY ProcsAssumption DEF CapInv, SymbolCap
    <3>2. CASE u # Tap[v].user \/ Tap[v].item \in Symbols(s, u)
      <4>1. Symbols(s, u)' = Symbols(s, u)
        BY <2>3, <3>2 DEF Symbols, Entered
      <4> QED BY <3>1, <4>1
    <3>3. CASE u = Tap[v].user /\ Tap[v].item \notin Symbols(s, u)
      <4>1. Symbols(s, u)' = Symbols(s, u) \cup {Tap[v].item}
        BY <2>3, <3>3 DEF Symbols, Entered
      <4>2. Cardinality(Symbols(s, u)) < MaxSymbols
        BY <2>4, <3>3 DEF RoomFor
      <4>3. Cardinality(Symbols(s, u) \cup {Tap[v].item}) = Cardinality(Symbols(s, u)) + 1
        BY <3>3, SymbolsFinite, FS_AddElement
      <4>4. Cardinality(Symbols(s, u)) \in Nat
        BY SymbolsFinite
      <4> QED BY <3>1, <4>1, <4>2, <4>3, <4>4
    <3> QED BY <3>2, <3>3
  <2>6. \A r \in Rounds \ {s}, u \in Users : Symbols(r, u)' = Symbols(r, u)
    BY <2>3, SymbolsStay
  <2>7. SymbolCap'
    BY <2>5, <2>6 DEF CapInv, SymbolCap
  <2>8. ASSUME NEW q \in Reqs, pc'[q] \in Placing
        PROVE  RoomFor(job[q].round, job[q].tap)'
    <3>1. q # p
      BY <1>2, <2>8 DEF BetInsert, Finish, Goto, Placing, IInv, Typed, Procs
    <3>2. pc[q] = pc'[q] /\ job'[q] = job[q]
      BY <1>2, <3>1 DEF BetInsert, Finish, Goto, IInv, Typed, Procs
    <3>3. JobOk(q) /\ RoomFor(job[q].round, job[q].tap)
      BY <2>8, <3>2 DEF IInv, JobInv, Procs, CapInv, RoomInv
    <3>4. PICK r \in Rounds, t \in Taps : r = job[q].round /\ t = job[q].tap
      BY <2>8, <3>2, <3>3 DEF JobOk, Betting, Placing
    <3>5. r # s
      BY <2>1, <2>2, <2>8, <3>1, <3>2, <3>3, <3>4 DEF JobOk, Holding, Placing
    <3>6. Symbols(r, Tap[t].user)' = Symbols(r, Tap[t].user)
      BY <2>6, <3>5, TapAssumption
    <3> QED BY <3>2, <3>3, <3>4, <3>6 DEF RoomFor
  <2> QED BY <2>7, <2>8 DEF CapInv, RoomInv
<1> QED BY <1>1, <1>2

LEMMA InitCaps == Init => CapInv
<1> SUFFICES ASSUME Init PROVE CapInv
  OBVIOUS
<1>1. RoomInv
  BY DEF Init, RoomInv, Placing, Procs
<1>2. ASSUME NEW r \in Rounds, NEW u \in Users PROVE Cardinality(Symbols(r, u)) <= MaxSymbols
  <2>1. Symbols(r, u) = {}
    BY DEF Init, Symbols, Entered
  <2> QED BY <2>1, FS_EmptySet, ProcsAssumption
<1> QED BY <1>1, <1>2 DEF CapInv, SymbolCap

LEMMA CapInvariance == Spec => []CapInv
BY InitCaps, StepCaps, Invariance, PTL DEF Spec

(* No user's taps, however they race, put more items into a round than the *)
(* cap allows: placeBet counts and inserts under the round's lock.         *)
THEOREM CapIsKept == Spec => []SymbolCap
<1>1. CapInv => SymbolCap
  BY DEF CapInv
<1> QED BY <1>1, CapInvariance, PTL

(* Every variable keeps its type, the balances included.                   *)
THEOREM TypeCorrect == Spec => []TypeOK
<1>1. IInv /\ CoinInv => TypeOK
  BY DEF IInv, Typed, CoinInv, MoneyTyped, TypeOK
<1> QED BY <1>1, Invariance, CoinInvariance, PTL

(* What a user's taps leave behind: bets within the cap, and wallets that  *)
(* the bets explain.                                                       *)
THEOREM BetsAreAlwaysOK == Spec => []BetsOK
<1> QED BY TypeCorrect, CoinsAreAlwaysExplained, CapIsKept, PTL DEF BetsOK
=============================================================================

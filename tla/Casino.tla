------------------------------- MODULE Casino -------------------------------
(***************************************************************************)
(* The casino's round loop: one process holds the leader's lock and drives *)
(* a game through betting, spinning and results; players bet through any   *)
(* process that has a round in memory; a settlement pays the winners of    *)
(* the round, or refunds everybody if it fails.  A bet and a settlement    *)
(* meet under the round's Redis lock; the loop's timer does not wait for   *)
(* its own last tick, the leader's lock can lapse under its holder, and a  *)
(* process can die between any two steps.  The wallet is the promise made  *)
(* by Accounts.  The seconds of a phase are abstracted: any tick may be    *)
(* the one that ends it, and the ticks that end none are left out.         *)
(***************************************************************************)
EXTENDS Integers, FiniteSets, Functions

CONSTANTS
    Users, Instances,
    Rounds,       \* the rounds there is room for: a bound
    Items,        \* what can be bet on
    Outcomes,     \* where the wheel can stop
    Own,          \* each item's multiplier
    Bonus,        \* the items an outcome pays besides itself
    Taps,         \* clientBetIds
    Tap,          \* what each of them bets
    Reqs, TapOf,  \* bet requests; a retry has the tap of the first attempt
    Socket,       \* the instance each of them is sent to
    Ticks, Home,  \* timer callbacks that can overlap, on each instance
    MaxSymbols,   \* how many items a user may bet on in a round
    Fund,         \* coins each user starts with
    MaxFaults,    \* bound on crashes, lapses of leadership and failed calls
    GOLD, None, Gone

Procs == Reqs \cup Ticks
Locks == Rounds \cup Users

ASSUME RoundsAssumption == Rounds \subseteq Nat /\ IsFiniteSet(Rounds) /\ Rounds \cap Users = {}
ASSUME WheelAssumption ==
    /\ Items \subseteq Outcomes /\ Outcomes # {} /\ IsFiniteSet(Outcomes) /\ None \notin Outcomes
    /\ Own \in [Items -> Nat \ {0}] /\ Bonus \in [Outcomes -> SUBSET Items]
ASSUME TapAssumption ==
    /\ IsFiniteSet(Taps) /\ Tap \in [Taps -> [user : Users, item : Items, amt : Nat \ {0}]]
    /\ TapOf \in [Reqs -> Taps] /\ Socket \in [Reqs -> Instances] /\ Fund \in [Users -> Nat]
ASSUME ProcsAssumption ==
    /\ Home \in [Ticks -> Instances] /\ Reqs \cap Ticks = {}
    /\ None \notin Procs \cup Instances \cup Rounds /\ Gone \notin Procs \cup Instances
    /\ None # Gone /\ MaxFaults \in Nat /\ MaxSymbols \in Nat

VARIABLES
    gold, used,   \* the wallet
    round,        \* casino_rounds rows
    bet,          \* casino_bets rows: the status of each tap in each round
    mem,          \* the round each instance has in CasinoLoopService.states
    state,        \* the state objects, one per round: phase and outcome
    leader,       \* the lock casino:loop:leader
    lock,         \* the round locks and the users' bet locks
    pc, job,      \* where each request or tick is, and what it has read
    faults

vars == <<gold, used, round, bet, mem, state, leader, lock, pc, job, faults>>
wallet == <<gold, used>>

-----------------------------------------------------------------------------
(* The wallet, as WALLET_SERVICE offers it.                                *)

BetKey(r, t) == <<"casino-bet", r, t>>
WinKey(r, t) == <<"casino-win", r, t>>
RefundKey(r, t) == <<"casino-refund", r, t>>

WalletKeys == {"casino-bet", "casino-win", "casino-refund"} \X Rounds \X Taps
WalletCalls == [kind : {"moveCredit", "moveDebit"}, user : Users, cur : {GOLD}, amt : Int]

W == INSTANCE Accounts WITH
       balance <- gold, Currencies <- {GOLD}, Legacy <- {}, Keys <- WalletKeys,
       Calls <- [k \in WalletKeys |-> WalletCalls]

Gold(kind, t) == [kind |-> kind, user |-> Tap[t].user, cur |-> GOLD, amt |-> Tap[t].amt]

-----------------------------------------------------------------------------
(* The wheel.  A bet wins on its own item or on an outcome that pays its   *)
(* group (the salads, the lucky segments), and is paid by its own          *)
(* multiplier.                                                             *)

Multiplier(i, o) == IF o # None /\ (i = o \/ i \in Bonus[o]) THEN Own[i] ELSE 0
Payout(t, o) == Tap[t].amt * Multiplier(Tap[t].item, o)
Liability(ts, o) == SumFunctionOnSet([t \in Taps |-> Payout(t, o)], ts)

(* pickLowestLiability: any of the outcomes that cost the house least.     *)
LowestLiability(ts) ==
    {o \in Outcomes : \A p \in Outcomes : Liability(ts, o) <= Liability(ts, p)}

-----------------------------------------------------------------------------
NoRound == [status |-> "none", outcome |-> None]
Fresh == [phase |-> "betting", outcome |-> None]
NoJob == [round |-> None, outcome |-> None, placed |-> {}, tap |-> None]

Init ==
    /\ gold = [u \in Users |-> [c \in {GOLD} |-> Fund[u]]] /\ used = {}
    /\ round = [r \in Rounds |-> NoRound]
    /\ bet = [r \in Rounds |-> [t \in Taps |-> "none"]]
    /\ mem = [i \in Instances |-> None] /\ state = [r \in Rounds |-> Fresh]
    /\ leader = None
    /\ lock = [l \in Locks |-> None]
    /\ pc = [p \in Procs |-> "idle"] /\ job = [p \in Procs |-> NoJob]
    /\ faults = 0

Goto(p, l) == pc' = [pc EXCEPT ![p] = l]
Take(p, l) == lock[l] = None /\ lock' = [lock EXCEPT ![l] = p]
Release(p) == lock' = [l \in Locks |-> IF lock[l] = p THEN None ELSE lock[l]]
Fault == faults < MaxFaults /\ faults' = faults + 1
Placed(r) == {t \in Taps : bet[r][t] = "PLACED"}
Entered(r, u) == {t \in Taps : bet[r][t] # "none" /\ Tap[t].user = u}
Symbols(r, u) == {Tap[t].item : t \in Entered(r, u)}

(* A request answers its client; what it leaves in its job is never read.  *)
Finish(p) == Goto(p, "done") /\ Release(p) /\ job' = [job EXCEPT ![p] = NoJob]
(* A timer callback returns.                                               *)
EndTick(p) == Goto(p, "idle") /\ Release(p) /\ job' = [job EXCEPT ![p] = NoJob]

-----------------------------------------------------------------------------
(* placeBet.  The gateway reads the phase of its own process, leader or    *)
(* not; the rest runs under the user's and the round's lock.               *)

Bet(q) ==
    LET i == Socket[q] IN
    /\ pc[q] = "idle" /\ mem[i] # None /\ state[mem[i]].phase = "betting"
    /\ Goto(q, "user")
    /\ job' = [job EXCEPT ![q].round = mem[i], ![q].tap = TapOf[q]]
    /\ UNCHANGED <<gold, used, round, bet, mem, state, leader, lock, faults>>

BetUserLock(q) ==
    /\ pc[q] = "user" /\ Take(q, Tap[job[q].tap].user) /\ Goto(q, "round")
    /\ UNCHANGED <<gold, used, round, bet, mem, state, leader, job, faults>>

(* The retry budget for a lock runs out.                                   *)
BetBusy(q) ==
    /\ \/ pc[q] = "user" /\ lock[Tap[job[q].tap].user] # None
       \/ pc[q] = "round" /\ lock[job[q].round] # None
    /\ Finish(q)
    /\ UNCHANGED <<gold, used, round, bet, mem, state, leader, faults>>

(* Faulty variant: the phase is checked in memory only.                    *)
OpenInMemory(r) == r \in Rounds

(* The round is still open in the database, and the item is one the user   *)
(* has bet on, or there is room for it.                                    *)
Open(r) == round[r].status = "BETTING"
RoomFor(r, t) ==
    \/ Cardinality(Symbols(r, Tap[t].user)) < MaxSymbols
    \/ Tap[t].item \in Symbols(r, Tap[t].user)

BetCheck(q) ==
    LET r == job[q].round IN
    /\ pc[q] = "round" /\ lock[r] = None
    /\ IF Open(r) /\ RoomFor(r, job[q].tap)
       THEN Take(q, r) /\ Goto(q, "debit") /\ UNCHANGED job
       ELSE Finish(q)
    /\ UNCHANGED <<gold, used, round, bet, mem, state, leader, faults>>

BetDebit(q) ==
    LET t == job[q].tap
        k == BetKey(job[q].round, t) IN
    /\ pc[q] = "debit"
    /\ \/ /\ W!Accepts(k, Gold("moveDebit", t)) /\ W!Post(k, Gold("moveDebit", t))
          /\ Goto(q, "insert") /\ UNCHANGED <<lock, job>>
       \/ ~W!Accepts(k, Gold("moveDebit", t)) /\ Finish(q) /\ UNCHANGED wallet
    /\ UNCHANGED <<round, bet, mem, state, leader, faults>>

(* createBet: a second row for the same tap is answered with the first.    *)
BetInsert(q) ==
    LET r == job[q].round
        t == job[q].tap IN
    /\ pc[q] = "insert" /\ Finish(q)
    /\ bet' = [bet EXCEPT ![r][t] = IF @ = "none" THEN "PLACED" ELSE @]
    /\ UNCHANGED <<gold, used, round, mem, state, leader, faults>>

(* The wallet or the insert throws; a stake that was debited stays so.     *)
BetFails(q) ==
    /\ pc[q] \in {"debit", "insert"} /\ Fault /\ Finish(q)
    /\ UNCHANGED <<gold, used, round, bet, mem, state, leader>>

BetStep(q) == BetUserLock(q) \/ BetBusy(q) \/ BetCheck(q) \/ BetDebit(q) \/ BetInsert(q)

-----------------------------------------------------------------------------
(* tickGame, from the leadership check on.                                 *)

(* ensureLeadership, then the state as it is before the pool is read.      *)
Tick(k) ==
    LET i == Home[k] IN
    /\ pc[k] = "idle" /\ leader \in {None, i} /\ leader' = i
    /\ Goto(k, IF mem[i] = None THEN "create" ELSE "tick")
    /\ job' = [job EXCEPT ![k].round = mem[i]]
    /\ UNCHANGED <<gold, used, round, bet, mem, state, lock, faults>>

(* The pool has been read and the phase's seconds are over.  The tick acts *)
(* on the state it took, although another may have replaced it meanwhile.  *)
PhaseIs(k, p) == pc[k] = "tick" /\ state[job[k].round].phase = p

ToSpinning(k) ==
    /\ PhaseIs(k, "betting") /\ Goto(k, "select")
    /\ state' = [state EXCEPT ![job[k].round].phase = "spinning"]
    /\ UNCHANGED <<gold, used, round, bet, mem, leader, lock, job, faults>>

SelectOutcome(k) ==
    /\ pc[k] = "select" /\ EndTick(k)
    /\ \E o \in LowestLiability(Placed(job[k].round)) :
          state' = [state EXCEPT ![job[k].round].outcome = o]
    /\ UNCHANGED <<gold, used, round, bet, mem, leader, faults>>

ToResults(k) ==
    LET r == job[k].round IN
    /\ PhaseIs(k, "spinning") /\ Goto(k, "settle")
    /\ state' = [state EXCEPT ![r].phase = "results"]
    /\ job' = [job EXCEPT ![k].outcome = state[r].outcome]
    /\ UNCHANGED <<gold, used, round, bet, mem, leader, lock, faults>>

ToBetting(k) ==
    /\ PhaseIs(k, "results") /\ Goto(k, "create")
    /\ UNCHANGED <<gold, used, round, bet, mem, state, leader, lock, job, faults>>

(* createFreshRoundState; past the bound the insert fails.                 *)
CreateRound(k) ==
    LET unused == {r \in Rounds : round[r].status = "none"} IN
    /\ pc[k] = "create" /\ EndTick(k)
    /\ \/ unused = {} /\ UNCHANGED <<round, mem, state>>
       \/ \E r \in unused :
             /\ \A x \in unused : r <= x
             /\ round' = [round EXCEPT ![r].status = "BETTING"]
             /\ mem' = [mem EXCEPT ![Home[k]] = r] /\ state' = [state EXCEPT ![r] = Fresh]
    /\ UNCHANGED <<gold, used, bet, leader, faults>>

-----------------------------------------------------------------------------
(* settleRound, under the round's lock.                                    *)

SettleRead(k) ==
    /\ pc[k] = "settle" /\ Take(k, job[k].round) /\ Goto(k, "tx")
    /\ job' = [job EXCEPT ![k].placed = Placed(job[k].round)]
    /\ UNCHANGED <<gold, used, round, bet, mem, state, leader, faults>>

(* The lock is out of reach; the error ends the tick, and the phase has    *)
(* moved on.                                                               *)
SettleBusy(k) ==
    /\ pc[k] = "settle" /\ lock[job[k].round] # None /\ EndTick(k)
    /\ UNCHANGED <<gold, used, round, bet, mem, state, leader, faults>>

Winners(k) == {t \in job[k].placed : Payout(t, job[k].outcome) > 0}

(* Faulty variant: a winner gets the stake back as well.                   *)
WonWithStake(k, u) ==
    SumFunctionOnSet([t \in Taps |-> Payout(t, job[k].outcome) + Tap[t].amt],
        {t \in Winners(k) : Tap[t].user = u /\ WinKey(job[k].round, t) \notin used})

(* What the transaction credits: each winning bet under its own key.       *)
Won(k, u) ==
    SumFunctionOnSet([t \in Taps |-> Payout(t, job[k].outcome)],
        {t \in Winners(k) : Tap[t].user = u /\ WinKey(job[k].round, t) \notin used})

PayWinners(k) ==
    /\ gold' = [u \in Users |-> [gold[u] EXCEPT ![GOLD] = @ + Won(k, u)]]
    /\ used' = used \cup {WinKey(job[k].round, t) : t \in Winners(k)}

(* Faulty variant: the losers' rows are forgotten.                         *)
ResultsOfWinners(k) ==
    [t \in Taps |-> IF t \in Winners(k) THEN "WON" ELSE bet[job[k].round][t]]

Results(k) ==
    [t \in Taps |-> IF t \in Winners(k) THEN "WON"
                    ELSE IF t \in job[k].placed THEN "LOST" ELSE bet[job[k].round][t]]

SettleTx(k) ==
    LET r == job[k].round IN
    /\ pc[k] = "tx" /\ PayWinners(k) /\ EndTick(k)
    /\ bet' = [bet EXCEPT ![r] = Results(k)]
    /\ round' = [round EXCEPT ![r] = [status |-> "SETTLED", outcome |-> job[k].outcome]]
    /\ UNCHANGED <<mem, state, leader, faults>>

(* Faulty variant: the round is closed before its bets are refunded.       *)
SettleFailsClosing(k) ==
    /\ pc[k] = "tx" /\ Fault /\ Goto(k, "refund")
    /\ round' = [round EXCEPT ![job[k].round] = [status |-> "ABORTED", outcome |-> None]]
    /\ UNCHANGED <<gold, used, bet, mem, state, leader, lock, job>>

(* A credit is refused, a wallet lock is busy, the transaction times out:  *)
(* it is rolled back and the bets are refunded one by one.                 *)
SettleFails(k) ==
    /\ pc[k] = "tx" /\ Fault /\ Goto(k, "refund")
    /\ UNCHANGED <<gold, used, round, bet, mem, state, leader, lock, job>>

RefundCredit(k) ==
    \E t \in job[k].placed :
        LET key == RefundKey(job[k].round, t) IN
        /\ pc[k] = "refund" /\ W!Accepts(key, Gold("moveCredit", t))
        /\ W!Post(key, Gold("moveCredit", t))
        /\ Goto(k, "mark") /\ job' = [job EXCEPT ![k].tap = t]
        /\ UNCHANGED <<round, bet, mem, state, leader, lock, faults>>

RefundMark(k) ==
    /\ pc[k] = "mark" /\ Goto(k, "refund")
    /\ bet' = [bet EXCEPT ![job[k].round][job[k].tap] = "REFUNDED"]
    /\ job' = [job EXCEPT ![k].placed = @ \ {job[k].tap}, ![k].tap = None]
    /\ UNCHANGED <<gold, used, round, mem, state, leader, lock, faults>>

(* The credit or the row's update throws: the bet is logged and left.      *)
RefundFails(k) ==
    /\ pc[k] \in {"refund", "mark"} /\ Fault /\ Goto(k, "refund")
    /\ \E t \in job[k].placed :
          /\ pc[k] = "mark" => t = job[k].tap
          /\ job' = [job EXCEPT ![k].placed = @ \ {t}, ![k].tap = None]
    /\ UNCHANGED <<gold, used, round, bet, mem, state, leader, lock>>

AbortRound(k) ==
    /\ pc[k] = "refund" /\ job[k].placed = {} /\ EndTick(k)
    /\ round' = [round EXCEPT ![job[k].round] = [status |-> "ABORTED", outcome |-> None]]
    /\ UNCHANGED <<gold, used, bet, mem, state, leader, faults>>

(* The outcome cannot be read, or the round cannot be closed: the error is *)
(* logged and the tick ends.                                               *)
TickFails(k) ==
    /\ pc[k] = "select" \/ (pc[k] = "refund" /\ job[k].placed = {})
    /\ Fault /\ EndTick(k)
    /\ UNCHANGED <<gold, used, round, bet, mem, state, leader>>

TickStep(k) ==
    \/ ToSpinning(k) \/ SelectOutcome(k) \/ ToResults(k) \/ ToBetting(k) \/ CreateRound(k)
    \/ SettleRead(k) \/ SettleBusy(k) \/ SettleTx(k)
    \/ RefundCredit(k) \/ RefundMark(k) \/ AbortRound(k)

-----------------------------------------------------------------------------
(* Failure.                                                                *)

(* The leader's lock times out, under a live holder or a dead one.         *)
LeaderLapses ==
    /\ \/ leader = Gone /\ UNCHANGED faults
       \/ leader \in Instances /\ Fault
    /\ leader' = None
    /\ UNCHANGED <<gold, used, round, bet, mem, state, lock, pc, job>>

LockExpires(l) ==
    /\ lock[l] = Gone /\ lock' = [lock EXCEPT ![l] = None]
    /\ UNCHANGED <<gold, used, round, bet, mem, state, leader, pc, job, faults>>

(* A process dies with its memory, its requests and its ticks, and is      *)
(* started again.                                                          *)
On(i) == {k \in Ticks : Home[k] = i} \cup {q \in Reqs : Socket[q] = i /\ pc[q] # "idle"}

Crash(i) ==
    /\ Fault /\ mem' = [mem EXCEPT ![i] = None]
    /\ leader' = IF leader = i THEN Gone ELSE leader
    /\ lock' = [l \in Locks |-> IF lock[l] \in On(i) THEN Gone ELSE lock[l]]
    /\ pc' = [p \in Procs |-> IF p \notin On(i) THEN pc[p]
                              ELSE IF p \in Ticks THEN "idle" ELSE "done"]
    /\ job' = [p \in Procs |-> IF p \in On(i) THEN NoJob ELSE job[p]]
    /\ UNCHANGED <<gold, used, round, bet, state>>

Next ==
    \/ \E q \in Reqs : Bet(q) \/ BetStep(q) \/ BetFails(q)
    \/ \E k \in Ticks : Tick(k) \/ TickStep(k) \/ SettleFails(k) \/ RefundFails(k)
                        \/ TickFails(k)
    \/ LeaderLapses
    \/ \E l \in Locks : LockExpires(l)
    \/ \E i \in Instances : Crash(i)

Spec == Init /\ [][Next]_vars

(* Requests and callbacks run on, timers keep firing, and the lock of a    *)
(* dead holder times out.                                                  *)
FairSpec ==
    /\ Spec
    /\ \A q \in Reqs : WF_vars(BetStep(q))
    /\ \A k \in Ticks : WF_vars(Tick(k)) /\ WF_vars(TickStep(k))
    /\ WF_vars(leader = Gone /\ LeaderLapses)
    /\ \A l \in Locks : WF_vars(LockExpires(l))

-----------------------------------------------------------------------------
RowStates == {"none", "PLACED", "WON", "LOST", "REFUNDED"}
PcType == {"idle", "done", "user", "round", "debit", "insert", "tick", "create", "select",
           "settle", "tx", "refund", "mark"}
JobType == [round : Rounds \cup {None},
            outcome : Outcomes \cup {None}, placed : SUBSET Taps, tap : Taps \cup {None}]

TypeOK ==
    /\ gold \in [Users -> [{GOLD} -> Int]] /\ used \subseteq WalletKeys
    /\ round \in [Rounds -> [status : {"none", "BETTING", "SETTLED", "ABORTED"},
                             outcome : Outcomes \cup {None}]]
    /\ bet \in [Rounds -> [Taps -> RowStates]]
    /\ mem \in [Instances -> Rounds \cup {None}]
    /\ state \in [Rounds -> [phase : {"betting", "spinning", "results"},
                             outcome : Outcomes \cup {None}]]
    /\ leader \in Instances \cup {None, Gone}
    /\ lock \in [Locks -> Procs \cup {None, Gone}]
    /\ pc \in [Procs -> PcType] /\ job \in [Procs -> JobType]
    /\ faults \in 0 .. MaxFaults

Ended(r) == round[r].status \in {"SETTLED", "ABORTED"}
AtBet(r, t) == \E q \in Reqs : pc[q] \in {"debit", "insert"} /\ job[q].round = r /\ job[q].tap = t

(* "once the round is no longer `BETTING` in the DB, placement is          *)
(* rejected": a settled round has no bet left in play and none on its way  *)
(* in, although bets pass the phase check long before they are placed.     *)
SettledLeavesNone ==
    \A r \in Rounds : round[r].status = "SETTLED" =>
        Placed(r) = {} /\ \A t \in Taps : ~AtBet(r, t)

(* A win or the stake back, never both, and each by the row's own account: *)
(* a settlement that fails half way has paid nobody.                       *)
PaidOnce ==
    \A r \in Rounds, t \in Taps :
        /\ ~(WinKey(r, t) \in used /\ RefundKey(r, t) \in used)
        /\ bet[r][t] # "none" => BetKey(r, t) \in used
        /\ WinKey(r, t) \in used <=> bet[r][t] = "WON"
        /\ bet[r][t] = "REFUNDED" => RefundKey(r, t) \in used

(* settleRound and refundRound decide every bet of a round, once.          *)
SettledOnce == SettledLeavesNone /\ PaidOnce

(* Every coin of a player is explained by the bets: stakes out, and back   *)
(* in what the round's outcome pays or the stake refunded.                 *)
Gain(u, r) ==
    [t \in Taps |->
        IF Tap[t].user # u THEN 0
        ELSE (IF WinKey(r, t) \in used THEN Payout(t, round[r].outcome) ELSE 0)
             + (IF RefundKey(r, t) \in used THEN Tap[t].amt ELSE 0)
             - (IF BetKey(r, t) \in used THEN Tap[t].amt ELSE 0)]
CoinsAreExplained ==
    \A u \in Users :
        gold[u][GOLD] = Fund[u] + SumFunction([r \in Rounds |-> SumFunction(Gain(u, r))])

(* "You can bet on a maximum of 6 symbols", however a user's taps race.    *)
SymbolCap ==
    \A r \in Rounds, u \in Users : Cardinality(Symbols(r, u)) <= MaxSymbols

(* What a user's taps leave behind: bets within the cap, and wallets that  *)
(* the bets explain.                                                       *)
BetsOK == TypeOK /\ CoinsAreExplained /\ SymbolCap

(* An ended round stays as it is: no settlement, refund, bet or late tick  *)
(* touches its row, its bets or its keys again.                            *)
EndedIsFrozen ==
    [][\A r \in Rounds : Ended(r) =>
         /\ round'[r] = round[r] /\ bet'[r] = bet[r]
         /\ \A t \in Taps : {WinKey(r, t), RefundKey(r, t)} \cap (used' \ used) = {}]_vars

(* Nobody will settle the round: its process has died, has lost the lead,  *)
(* has replaced it, or could not get its lock or its refunds through.      *)
Settling(k, r) == job[k].round = r /\ pc[k] \in {"settle", "tx", "refund", "mark"}
Orphaned(r) ==
    /\ round[r].status # "SETTLED" /\ \A k \in Ticks : ~Settling(k, r)
    /\ \A i \in Instances : mem[i] = r => leader # i \/ state[r].phase = "results"

(* A bet in play is decided, unless its round is orphaned.                 *)
EveryBetIsDecided ==
    \A r \in Rounds, t \in Taps :
        bet[r][t] = "PLACED" ~> (bet[r][t] # "PLACED" \/ Orphaned(r))
=============================================================================

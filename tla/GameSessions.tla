---------------------------- MODULE GameSessions ----------------------------
(***************************************************************************)
(* One match of a board game, from the start that collects its stakes to   *)
(* the settlement or refund that ends it.  The platform does not referee:  *)
(* the host reports, another player confirms, disputes or stays silent,    *)
(* players forfeit or disconnect, hosts and staff cancel, and two sweeps   *)
(* end what nobody ends.  All of them race for one decision, under the     *)
(* session's Redis lock.  The wallet is the promise made by Accounts.      *)
(***************************************************************************)
EXTENDS Integers, Sequences, FiniteSets, Functions

CONSTANTS
    Humans, Bots,
    Seats,        \* the players in the order they joined
    Side,         \* each player's team, or himself in a classic match
    Staff,        \* an administrator, or the audio room that ends
    Reqs,         \* requests of players and of staff
    Caller,       \* who makes each of them
    Monitor,      \* the sweeps of the expiry monitor, one instance at a time
    Stake, RakeBps,
    Fund,         \* how many coins a human may come with
    Early,        \* whether requests may come in before the start has finished
    MaxReports,   \* bound on results reported
    MaxFaults,    \* bound on crashes and failing refunds
    GOLD, None, Gone

Players == Humans \cup Bots
Procs == Reqs \cup {Monitor}
Locks == {"lobby", "session"}

ASSUME SeatsAssumption ==
    /\ Humans \cap Bots = {} /\ Seats \in Seq(Players) /\ IsInjective(Seats)
    /\ Range(Seats) = Players /\ Seats[1] \in Humans
    /\ Side \in [Players -> Players] /\ \E p, q \in Players : Side[p] # Side[q]
    /\ Staff \notin Players
ASSUME CallerAssumption ==
    /\ Caller \in [Reqs -> Humans \cup {Staff}] /\ Monitor \notin Reqs
    /\ None \notin Procs /\ Gone \notin Procs /\ None \notin Players
ASSUME StakeAssumption ==
    /\ Stake \in Nat /\ RakeBps \in 0 .. 10000 /\ Fund \subseteq Nat
    /\ Early \in BOOLEAN /\ MaxReports \in Nat /\ MaxFaults \in Nat

VARIABLES
    gold, used,   \* the wallet
    row,          \* the game_sessions row: status, pot, host
    part,         \* game_participants: status, stakeTxnId and refundTxnId set
    booked,       \* keys of the game_transactions rows
    result,       \* the game_match_results row, None before the settlement
    started,      \* whether the lobby is STARTED
    moved,        \* whether the live state's move log has a move
    pending,      \* Redis: the reported result that waits for an answer
    index,        \* Redis: its entry in the index of deadlines
    reports,      \* results reported so far
    disputed,     \* those a player has disputed (history)
    lock, pc, job, faults

wallet == <<gold, used>>
rows == <<row, part, booked, result, started>>
redis == <<moved, pending, index, reports, disputed>>
vars == <<gold, used, row, part, booked, result, started, moved, pending, index, reports,
          disputed, lock, pc, job, faults>>

-----------------------------------------------------------------------------
(* The wallet, as WALLET_SERVICE offers it.                                *)

StakeKey(p) == <<"game-stake", p>>
PayoutKey(p) == <<"game-payout", p>>
RefundKey(p) == <<"game-refund", p>>
WalletKeys == {"game-stake", "game-payout", "game-refund"} \X Humans
WalletCalls == [kind : {"moveCredit", "moveDebit"}, user : Humans, cur : {GOLD}, amt : Int]

W == INSTANCE Accounts WITH
       balance <- gold, Users <- Humans, Currencies <- {GOLD}, Legacy <- {},
       Keys <- WalletKeys, Calls <- [k \in WalletKeys |-> WalletCalls]

Gold(kind, p, a) == [kind |-> kind, user |-> p, cur |-> GOLD, amt |-> a]

-----------------------------------------------------------------------------
NoPart == [status |-> "none", staked |-> FALSE, refunded |-> FALSE]
NoJob == [todo |-> {}, pot |-> 0, winners |-> {}, report |-> 0, close |-> "ABORTED"]

Init ==
    /\ gold \in [Humans -> [{GOLD} -> Fund]] /\ used = {}
    /\ row = [status |-> "none", pot |-> 0, host |-> None]
    /\ part = [p \in Players |-> NoPart] /\ booked = {} /\ result = None /\ started = FALSE
    /\ moved = FALSE /\ pending = None /\ index = "no" /\ reports = 0 /\ disputed = {}
    /\ lock = [l \in Locks |-> None]
    /\ pc = [r \in Procs |-> "idle"] /\ job = [r \in Procs |-> NoJob] /\ faults = 0

Goto(r, l) == pc' = [pc EXCEPT ![r] = l]
Take(r, l) == lock[l] = None /\ lock' = [lock EXCEPT ![l] = r]
Free(r) == lock' = [l \in Locks |-> IF lock[l] = r THEN None ELSE lock[l]]
Fault == faults < MaxFaults /\ faults' = faults + 1
Playing(p) == part[p].status = "PLAYING"
PlayersLeft == {p \in Players : Playing(p)}
SeatOf(p) == CHOOSE i \in DOMAIN Seats : Seats[i] = p
First(S) == CHOOSE p \in S : \A q \in S : SeatOf(p) <= SeatOf(q)

(* A request answers its client; the monitor comes round again.            *)
Finish(r) == Goto(r, IF r = Monitor THEN "idle" ELSE "done") /\ Free(r)
             /\ job' = [job EXCEPT ![r] = NoJob]

-----------------------------------------------------------------------------
(* startSessionFromLobby, all of it under the lobby's lock only: the rows, *)
(* a debit and its record per human, the pot, the lobby.                   *)

StartSession(r) ==
    /\ pc[r] = "idle" /\ Caller[r] = Seats[1] /\ row.status = "none" /\ ~started
    /\ Take(r, "lobby") /\ Goto(r, "stake")
    /\ row' = [status |-> "ACTIVE", pot |-> 0, host |-> Caller[r]]
    /\ part' = [p \in Players |-> [NoPart EXCEPT !.status = "PLAYING"]]
    /\ job' = [job EXCEPT ![r].todo = IF Stake = 0 THEN {} ELSE Humans]
    /\ UNCHANGED wallet /\ UNCHANGED redis /\ UNCHANGED <<booked, result, started, faults>>

(* The next debit; one that is refused ends the match, and the job holds   *)
(* those who have paid.                                                    *)
StakeDebit(r) ==
    LET p == First(job[r].todo)
        c == Gold("moveDebit", p, Stake) IN
    /\ pc[r] = "stake" /\ job[r].todo # {}
    /\ \/ W!Accepts(StakeKey(p), c) /\ W!Post(StakeKey(p), c)
          /\ Goto(r, "record") /\ UNCHANGED job
       \/ /\ ~W!Accepts(StakeKey(p), c) /\ UNCHANGED wallet
          /\ job' = [job EXCEPT ![r].todo = {q \in Humans : StakeKey(q) \in booked}]
          /\ Goto(r, "refund")
    /\ UNCHANGED rows /\ UNCHANGED redis /\ UNCHANGED <<lock, faults>>

StakeRecord(r) ==
    LET p == First(job[r].todo) IN
    /\ pc[r] = "record" /\ Goto(r, "stake")
    /\ booked' = booked \cup {StakeKey(p)} /\ part' = [part EXCEPT ![p].staked = TRUE]
    /\ job' = [job EXCEPT ![r].todo = @ \ {First(@)}]
    /\ UNCHANGED wallet /\ UNCHANGED redis
    /\ UNCHANGED <<row, result, started, lock, faults>>

PotSet(r) ==
    /\ pc[r] = "stake" /\ job[r].todo = {} /\ Goto(r, "started")
    /\ row' = [row EXCEPT !.pot = Stake * Cardinality(Humans)]
    /\ UNCHANGED wallet /\ UNCHANGED redis
    /\ UNCHANGED <<part, booked, result, started, lock, job, faults>>

LobbyStarted(r) ==
    /\ pc[r] = "started" /\ started' = TRUE /\ Finish(r)
    /\ UNCHANGED wallet /\ UNCHANGED redis
    /\ UNCHANGED <<row, part, booked, result, faults>>

(* What other requests find: a match, and as a rule not one that is still  *)
(* collecting its stakes, as its id is not known before GameStartedEvent.  *)
Starting == lock["lobby"] \in Procs
Reachable == row.status = "ACTIVE" /\ (Early \/ ~Starting)

-----------------------------------------------------------------------------
(* refundParticipants and closeSession, for a start that failed (without   *)
(* the session's lock) and for abortSession (with it).                     *)

RefundCredit(r) ==
    LET p == First(job[r].todo) IN
    /\ pc[r] = "refund" /\ job[r].todo # {}
    /\ W!Post(RefundKey(p), Gold("moveCredit", p, Stake)) /\ Goto(r, "book")
    /\ UNCHANGED rows /\ UNCHANGED redis /\ UNCHANGED <<lock, job, faults>>

(* The ledger row's key is unique: a second refund of the stake stops at   *)
(* it, and the participant keeps its status.                               *)
RefundRecord(r) ==
    LET p == First(job[r].todo) IN
    /\ pc[r] = "book" /\ Goto(r, "refund")
    /\ job' = [job EXCEPT ![r].todo = @ \ {First(@)}]
    /\ booked' = booked \cup {RefundKey(p)}
    /\ part' = IF RefundKey(p) \in booked THEN part
               ELSE [part EXCEPT ![p].status = "REFUNDED", ![p].refunded = TRUE]
    /\ UNCHANGED wallet /\ UNCHANGED redis
    /\ UNCHANGED <<row, result, started, lock, faults>>

(* "A refund must never block the cancel": it is logged and skipped.       *)
RefundFails(r) ==
    /\ pc[r] \in {"refund", "book"} /\ job[r].todo # {} /\ Fault
    /\ job' = [job EXCEPT ![r].todo = @ \ {First(@)}] /\ Goto(r, "refund")
    /\ UNCHANGED wallet /\ UNCHANGED rows /\ UNCHANGED redis /\ UNCHANGED lock

Close(r) ==
    /\ pc[r] = "refund" /\ job[r].todo = {}
    /\ row' = [row EXCEPT !.status = job[r].close]
    /\ moved' = (moved /\ lock["session"] # r) /\ Finish(r)
    /\ UNCHANGED wallet
    /\ UNCHANGED <<part, booked, result, started, pending, index, reports, disputed, faults>>

(* Faulty variant: only those still in play get their stake back.          *)
RefundablePlaying == {p \in Humans : part[p].staked /\ ~part[p].refunded /\ Playing(p)}

(* Stakes neither paid out nor refunded; a player who left gets his back.  *)
Refundable ==
    {p \in Humans : /\ part[p].staked /\ ~part[p].refunded
                    /\ part[p].status \in {"PLAYING", "LOST"}}

(* Faulty variant: the status is not read again under the lock.            *)
AbortLockUnread(r) ==
    /\ pc[r] = "abort" /\ Take(r, "session") /\ Goto(r, "refund")
    /\ job' = [job EXCEPT ![r].todo = Refundable]
    /\ UNCHANGED wallet /\ UNCHANGED rows /\ UNCHANGED redis /\ UNCHANGED faults

AbortLock(r) ==
    /\ pc[r] = "abort" /\ lock["session"] = None
    /\ IF row.status = "ACTIVE"
       THEN /\ Take(r, "session") /\ Goto(r, "refund")
            /\ job' = [job EXCEPT ![r].todo = Refundable]
       ELSE Finish(r)
    /\ UNCHANGED wallet /\ UNCHANGED rows /\ UNCHANGED redis /\ UNCHANGED faults

(* cancelSession: the host, while no move has been played, or staff.  The  *)
(* move log is read before the lock is asked for.                          *)
Cancel(r) ==
    /\ pc[r] = "idle" /\ Reachable
    /\ Caller[r] = Staff \/ (Caller[r] = row.host /\ ~moved)
    /\ Goto(r, "abort") /\ job' = [job EXCEPT ![r].close = "CANCELLED"]
    /\ UNCHANGED wallet /\ UNCHANGED rows /\ UNCHANGED redis /\ UNCHANGED <<lock, faults>>

(* Faulty variant: only matches whose lobby has started.                   *)
StaleStarted(r) ==
    /\ r = Monitor /\ pc[r] = "idle" /\ row.status = "ACTIVE" /\ started
    /\ Goto(r, "abort")
    /\ UNCHANGED wallet /\ UNCHANGED rows /\ UNCHANGED redis /\ UNCHANGED <<lock, job, faults>>

(* sweepStaleSessions: a match fifteen minutes old, longer than any start. *)
Stale(r) ==
    /\ r = Monitor /\ pc[r] = "idle" /\ row.status = "ACTIVE" /\ ~Starting
    /\ Goto(r, "abort")
    /\ UNCHANGED wallet /\ UNCHANGED rows /\ UNCHANGED redis /\ UNCHANGED <<lock, job, faults>>

-----------------------------------------------------------------------------
(* settleToHumanWinners and settleResult.                                  *)

(* Bots win nothing: a staked match that only bots have won is refunded.   *)
Decide(r, pot, ws, report) ==
    LET humans == ws \cap Humans IN
    IF humans = {} /\ Stake > 0
    THEN Goto(r, "abort") /\ job' = [job EXCEPT ![r] = [NoJob EXCEPT !.close = "CANCELLED"]]
    ELSE /\ Goto(r, "settle")
         /\ job' = [job EXCEPT ![r] = [NoJob EXCEPT !.pot = pot, !.report = report,
                                    !.winners = IF humans = {} THEN ws ELSE humans]]

Rake(pot) == (pot * RakeBps) \div 10000

(* splitPot: even shares, a coin of the remainder to each early winner.    *)
Share(pot, ws, p) ==
    LET total == pot - Rake(pot)
        n == Cardinality(ws)
        before == {q \in ws : SeatOf(q) < SeatOf(p)} IN
    IF p \notin ws \cap Humans THEN 0
    ELSE (total \div n) + IF Cardinality(before) < total % n THEN 1 ELSE 0

Payouts(r) == [p \in Players |-> Share(job[r].pot, job[r].winners, p)]

(* The pot has to be the sum of the stakes, and to cover the payouts.      *)
Valid(r) ==
    /\ row.status = "ACTIVE" /\ result = None
    /\ row.pot = Stake * Cardinality(Humans)
    /\ SumFunction(Payouts(r)) <= row.pot

SettleLock(r) ==
    /\ pc[r] = "settle" /\ lock["session"] = None
    /\ IF Valid(r) THEN Take(r, "session") /\ Goto(r, "commit") /\ UNCHANGED job
       ELSE Finish(r)
    /\ UNCHANGED wallet /\ UNCHANGED rows /\ UNCHANGED redis /\ UNCHANGED faults

(* One transaction: the credits, the participants, the result, COMPLETED.  *)
SettleCommit(r) ==
    LET paid == Payouts(r)
        payees == {p \in Humans : paid[p] > 0} IN
    /\ pc[r] = "commit" /\ {PayoutKey(p) : p \in payees} \cap booked = {}
    /\ gold' = [p \in Humans |-> [c \in {GOLD} |-> gold[p][c] + paid[p]]]
    /\ used' = used \cup {PayoutKey(p) : p \in payees}
    /\ booked' = booked \cup {PayoutKey(p) : p \in payees}
    /\ part' = [p \in Players |-> [part[p] EXCEPT !.status =
                                     IF p \in job[r].winners THEN "WON" ELSE "LOST"]]
    /\ result' = [winners |-> job[r].winners, paid |-> paid, report |-> job[r].report]
    /\ row' = [row EXCEPT !.status = "COMPLETED"]
    /\ Finish(r)
    /\ UNCHANGED redis /\ UNCHANGED <<started, faults>>

-----------------------------------------------------------------------------
(* What players ask for.                                                   *)

Asks(r) == pc[r] = "idle" /\ r \in Reqs /\ Caller[r] \in Humans /\ Reachable
(* The session is read here, its pot with it, and the lock waited for.     *)
Reads(r, l) == Asks(r) /\ Goto(r, l) /\ job' = [job EXCEPT ![r].pot = row.pot]
Unchanged == UNCHANGED wallet /\ UNCHANGED rows /\ UNCHANGED <<moved, faults>>

(* A move is relayed.                                                      *)
Move(p) ==
    /\ row.status = "ACTIVE" /\ Playing(p) /\ lock["session"] = None
    /\ moved' = TRUE
    /\ UNCHANGED wallet /\ UNCHANGED rows
    /\ UNCHANGED <<pending, index, reports, disputed, lock, pc, job, faults>>

Answered == pending' = None /\ index' = "no"
(* A player in the match, other than the one who reported, may answer.     *)
MayAnswer(p) == row.status = "ACTIVE" /\ Playing(p) /\ pending # None /\ pending.by # p

(* reportMatchResult: any winners in a classic match, a team otherwise.    *)
Reportable == {ws \in SUBSET Players : ws # {} /\ \A p \in ws, q \in Players :
                                                     Side[p] = Side[q] => q \in ws}
ReportRead(r) ==
    /\ Reads(r, "report") /\ Caller[r] = row.host /\ reports < MaxReports
    /\ Unchanged /\ UNCHANGED <<pending, index, reports, disputed, lock>>

(* Nobody else to ask: settled at once, by a call that waits for the lock  *)
(* this one holds.                                                         *)
ReportLocked(r) ==
    LET others == (PlayersLeft \cap Humans) \ {Caller[r]} IN
    /\ pc[r] = "report" /\ lock["session"] = None
    /\ \/ /\ row.status = "ACTIVE" /\ pending = None
          /\ reports < MaxReports /\ reports' = reports + 1
          /\ \E ws \in Reportable :
                IF others = {}
                THEN Take(r, "session") /\ Decide(r, job[r].pot, ws, reports')
                     /\ UNCHANGED <<pending, index>>
                ELSE /\ pending' = [id |-> reports', winners |-> ws, by |-> Caller[r],
                                    due |-> FALSE]
                     /\ index' = "waiting" /\ Finish(r)
       \/ /\ row.status # "ACTIVE" \/ pending # None \/ reports = MaxReports
          /\ Finish(r) /\ UNCHANGED <<pending, index, reports>>
    /\ Unchanged /\ UNCHANGED disputed

ConfirmRead(r) ==
    /\ Reads(r, "confirm")
    /\ Unchanged /\ UNCHANGED <<pending, index, reports, disputed, lock>>

(* The report is taken under the lock and paid after its release.          *)
ConfirmLocked(r) ==
    /\ pc[r] = "confirm" /\ lock["session"] = None
    /\ IF MayAnswer(Caller[r])
       THEN /\ Answered /\ Decide(r, job[r].pot, pending.winners, pending.id)
            /\ UNCHANGED lock
       ELSE Finish(r) /\ UNCHANGED <<pending, index>>
    /\ Unchanged /\ UNCHANGED <<reports, disputed>>

(* Faulty variant: the disputed report is left to the sweep.               *)
DisputeNoted(r) ==
    /\ Asks(r) /\ lock["session"] = None /\ MayAnswer(Caller[r])
    /\ disputed' = disputed \cup {pending.id} /\ Finish(r)
    /\ Unchanged /\ UNCHANGED <<reports, pending, index>>

Dispute(r) ==
    /\ Asks(r) /\ lock["session"] = None /\ MayAnswer(Caller[r])
    /\ disputed' = disputed \cup {pending.id} /\ Answered /\ Finish(r)
    /\ Unchanged /\ UNCHANGED reports

(* The window of forty-five seconds, and the life of the Redis key.        *)
WindowPasses ==
    /\ pending # None /\ ~pending.due
    /\ pending' = [pending EXCEPT !.due = TRUE]
    /\ index' = IF index = "waiting" THEN "due" ELSE index
    /\ Unchanged /\ UNCHANGED <<reports, disputed, lock, pc, job>>

PendingExpires ==
    /\ pending # None /\ pending.due /\ pending' = None
    /\ Unchanged /\ UNCHANGED <<index, reports, disputed, lock, pc, job>>

(* sweepPendingResults: the list of due sessions, then each under its lock.*)
DueScan(r) ==
    /\ r = Monitor /\ pc[r] = "idle" /\ index = "due" /\ Goto(r, "due")
    /\ Unchanged /\ UNCHANGED <<pending, index, reports, disputed, lock, job>>

DueLocked(r) ==
    /\ pc[r] = "due" /\ lock["session"] = None /\ index' = "no"
    /\ IF pending # None /\ pending.due
       THEN /\ pending' = None
            /\ IF row.status = "ACTIVE"
               THEN Decide(r, row.pot, pending.winners, pending.id) /\ UNCHANGED lock
               ELSE Finish(r)
       ELSE Finish(r) /\ UNCHANGED pending
    /\ Unchanged /\ UNCHANGED <<reports, disputed>>

-----------------------------------------------------------------------------
(* forfeit, asked for by a player or by his disconnection.                 *)

ForfeitRead(r) ==
    /\ Reads(r, "forfeit")
    /\ Unchanged /\ UNCHANGED <<pending, index, reports, disputed, lock>>

(* Whom the leaving of p makes the winners, none while the match goes on.  *)
Verdict(p) ==
    LET others == PlayersLeft \ {p} IN
    CASE others = {} -> {p}
      [] others # {} /\ (others \subseteq Bots \/ Cardinality({Side[q] : q \in others}) = 1)
             -> others
      [] OTHER -> {}

(* Faulty variant: the decision is taken without the lock.                 *)
ForfeitUnlocked(r) ==
    LET p == Caller[r] IN
    /\ pc[r] = "forfeit" /\ lock["session"] = None /\ UNCHANGED lock
    /\ CASE ~Playing(p) -> Goto(r, "done") /\ UNCHANGED job
         [] Playing(p) /\ Verdict(p) = {} -> Goto(r, "out") /\ UNCHANGED job
         [] OTHER -> Decide(r, job[r].pot, Verdict(p), 0)
    /\ Unchanged /\ UNCHANGED <<pending, index, reports, disputed>>

ForfeitLock(r) ==
    LET p == Caller[r] IN
    /\ pc[r] = "forfeit" /\ lock["session"] = None
    /\ CASE ~Playing(p) -> Finish(r)
         [] Playing(p) /\ Verdict(p) = {} ->
                Take(r, "session") /\ Goto(r, "out") /\ UNCHANGED job
         [] OTHER -> Decide(r, job[r].pot, Verdict(p), 0) /\ UNCHANGED lock
    /\ Unchanged /\ UNCHANGED <<pending, index, reports, disputed>>

(* The match goes on; a host picks the first human still seated.           *)
ForfeitOut(r) ==
    LET p == Caller[r]
        heirs == (PlayersLeft \cap Humans) \ {p} IN
    /\ pc[r] = "out" /\ part' = [part EXCEPT ![p].status = "LOST"]
    /\ IF row.host = p /\ heirs # {}
       THEN /\ Goto(r, "host") /\ Free(r)
            /\ job' = [job EXCEPT ![r].winners = {First(heirs)}]
       ELSE Finish(r)
    /\ UNCHANGED wallet /\ UNCHANGED redis /\ UNCHANGED <<row, booked, result, started, faults>>

HandOver(r) ==
    /\ pc[r] = "host" /\ row' = [row EXCEPT !.host = CHOOSE p \in job[r].winners : TRUE]
    /\ Finish(r)
    /\ UNCHANGED wallet /\ UNCHANGED redis /\ UNCHANGED <<part, booked, result, started, faults>>

-----------------------------------------------------------------------------
Waiting == {"abort", "settle", "report", "confirm", "forfeit", "due"}

(* The retry budget for the session's lock runs out.                       *)
Busy(r) ==
    /\ pc[r] \in Waiting /\ lock["session"] # None /\ Finish(r)
    /\ UNCHANGED wallet /\ UNCHANGED rows /\ UNCHANGED redis /\ UNCHANGED faults

LockExpires(l) ==
    /\ lock[l] = Gone /\ lock' = [lock EXCEPT ![l] = None]
    /\ UNCHANGED wallet /\ UNCHANGED rows /\ UNCHANGED redis /\ UNCHANGED <<pc, job, faults>>

(* The process that serves the request dies.                               *)
Crash(r) ==
    /\ pc[r] \notin {"idle", "done"} /\ Fault
    /\ Goto(r, IF r = Monitor THEN "idle" ELSE "done") /\ job' = [job EXCEPT ![r] = NoJob]
    /\ lock' = [l \in Locks |-> IF lock[l] = r THEN Gone ELSE lock[l]]
    /\ UNCHANGED wallet /\ UNCHANGED rows /\ UNCHANGED redis

Request(r) ==
    StartSession(r) \/ Cancel(r) \/ ReportRead(r) \/ ConfirmRead(r) \/ Dispute(r) \/ ForfeitRead(r)
Continue(r) ==
    \/ StakeDebit(r) \/ StakeRecord(r) \/ PotSet(r) \/ LobbyStarted(r)
    \/ AbortLock(r) \/ RefundCredit(r) \/ RefundRecord(r) \/ Close(r)
    \/ SettleLock(r) \/ SettleCommit(r)
    \/ ReportLocked(r) \/ ConfirmLocked(r) \/ DueLocked(r)
    \/ ForfeitLock(r) \/ ForfeitOut(r) \/ HandOver(r) \/ Busy(r)

Next ==
    \/ \E r \in Reqs : Request(r)
    \/ \E r \in Procs : Continue(r) \/ RefundFails(r) \/ Crash(r)
    \/ Stale(Monitor) \/ DueScan(Monitor)
    \/ WindowPasses \/ PendingExpires
    \/ \E p \in Players : Move(p)
    \/ \E l \in Locks : LockExpires(l)

Spec == Init /\ [][Next]_vars

(* Requests run on, the monitor keeps coming round, a dead holder's lock   *)
(* times out.  Nobody has to ask for anything.                             *)
FairSpec ==
    /\ Spec
    /\ \A r \in Procs : WF_vars(Continue(r))
    /\ WF_vars(Stale(Monitor)) /\ WF_vars(DueScan(Monitor)) /\ WF_vars(WindowPasses)
    /\ \A l \in Locks : WF_vars(LockExpires(l))

-----------------------------------------------------------------------------
Closed == {"ABORTED", "CANCELLED"}
Decided == row.status \in Closed \cup {"COMPLETED"}
PcType == Waiting \cup {"idle", "done", "stake", "record", "started", "refund", "book",
                        "commit", "out", "host"}
ReportType == [id : 1 .. MaxReports, winners : SUBSET Players, by : Humans, due : BOOLEAN]
ResultType == [winners : SUBSET Players, paid : [Players -> Nat], report : 0 .. MaxReports]
JobType == [todo : SUBSET Humans, pot : Nat, winners : SUBSET Players, report : 0 .. MaxReports,
            close : Closed]

ASSUME NoneAssumption == None \notin ReportType \cup ResultType

TypeOK ==
    /\ gold \in [Humans -> [{GOLD} -> Int]] /\ used \subseteq WalletKeys
    /\ row \in [status : Closed \cup {"none", "ACTIVE", "COMPLETED"}, pot : Nat,
                host : Humans \cup {None}]
    /\ part \in [Players -> [status : {"none", "PLAYING", "LOST", "WON", "REFUNDED"},
                             staked : BOOLEAN, refunded : BOOLEAN]]
    /\ booked \subseteq WalletKeys /\ result \in ResultType \cup {None}
    /\ started \in BOOLEAN /\ moved \in BOOLEAN
    /\ pending \in ReportType \cup {None} /\ index \in {"no", "waiting", "due"}
    /\ reports \in 0 .. MaxReports /\ disputed \subseteq 1 .. MaxReports
    /\ lock \in [Locks -> Procs \cup {None, Gone}]
    /\ pc \in [Procs -> PcType] /\ job \in [Procs -> JobType] /\ faults \in 0 .. MaxFaults

Quiet == \A r \in Procs : pc[r] \in {"idle", "done"}

(* "no coin minting": without a failure nobody is both paid out of the pot *)
(* and given his stake back, however cancel, sweep and settlement race.    *)
PaidOrRefunded ==
    faults = 0 => \A p \in Humans : ~(PayoutKey(p) \in used /\ RefundKey(p) \in used)

(* Nothing is paid out of a pot that was not collected in full.            *)
CollectedFirst ==
    result # None /\ Stake > 0 => \A p \in Humans : StakeKey(p) \in used

(* A match that has ended has handed out its whole pot, but for the rake,  *)
(* or given every stake back that it took.                                 *)
NoStakeIsKept ==
    faults = 0 /\ Quiet /\ Decided => \A p \in Humans :
        IF row.status \in Closed THEN StakeKey(p) \in used => RefundKey(p) \in used
        ELSE result.paid[p] = Share(Stake * Cardinality(Humans), result.winners, p)

(* What start collects, settleResult and abortAndRefund hand out or back.  *)
StakesOK == TypeOK /\ CollectedFirst /\ PaidOrRefunded /\ NoStakeIsKept

(* "which would strand the actual sole survivor": a match goes on only     *)
(* between two sides, one of them with a human, however forfeits race.     *)
NobodyStranded ==
    row.status = "ACTIVE" /\ (\A p \in Players : part[p].status # "REFUNDED") =>
        PlayersLeft \cap Humans # {} /\ Cardinality({Side[p] : p \in PlayersLeft}) > 1

(* A report is used up by its first answer: what was disputed is not paid, *)
(* neither by a confirmation nor by the sweep that was already on its way. *)
DisputedIsNotPaid == result # None => result.report \notin disputed

(* An ended match stays as it ended; only a failed start may still be      *)
(* writing, and it cannot turn a settled match into an aborted one.        *)
DecidedOnce ==
    [][Decided => row'.status = row.status /\ result' = result
                  /\ row'.pot = row.pot]_vars

(* "preventing abandoned matches from persisting in status ACTIVE".        *)
EveryMatchEnds == row.status = "ACTIVE" ~> row.status # "ACTIVE"
=============================================================================

----------------------------- MODULE PkBattles ------------------------------
(***************************************************************************)
(* A PK battle of a video room: two sides gather gifts against a clock,    *)
(* and the winner is paid from a pool sized on what was given.             *)
(*                                                                         *)
(* Commands of one room take the room's lifecycle lock, so they are one    *)
(* process here.  The handlers of the clock's jobs, the recovery sweep and *)
(* the presence listener take no such lock: what orders them against a     *)
(* command is the conditional UPDATE of the battle row.                    *)
(*                                                                         *)
(* Refunds do not appear: no code raises a refund for a video room's gift. *)
(***************************************************************************)
EXTENDS Integers, FiniteSets, Functions

CONSTANTS
    Players,      \* the invited users
    Side,         \* the team of each
    Gifts,        \* gifts sent while the battle may be on
    To, Worth, Scored,  \* each gift's receiver, value and scored value
    Hosts,        \* handlers of presence changes
    Casts,        \* which hosts and gifts take part together
    Countdown, Duration,     \* in ticks
    PoolBps, WinnerBps, ParticipationBps, BonusBps,
    MaxResumes,   \* bound on resumes of either kind
    MaxMishaps,    \* bound on processes that die and removals that fail
    Nothing

BattleProcs == {"room", "worker", "sweep"} \cup Hosts
Teams == {"RED", "BLUE"}

ASSUME BattleAssumption ==
    /\ Side \in [Players -> Teams] /\ Range(Side) = Teams
    /\ To \in [Gifts -> Players] /\ Worth \in [Gifts -> Nat] /\ Scored \in [Gifts -> Nat]
    /\ Countdown \in Nat /\ Duration \in Nat /\ MaxResumes \in Nat /\ MaxMishaps \in Nat
    /\ Nothing \notin BattleProcs /\ {"room", "worker", "sweep"} \cap Hosts = {}
    /\ Casts \subseteq SUBSET (Hosts \cup Gifts)
ASSUME FiniteAssumption == IsFiniteSet(Players) /\ IsFiniteSet(Gifts)
ASSUME SplitAssumption ==
    /\ {PoolBps, WinnerBps, ParticipationBps, BonusBps} \subseteq Nat
    /\ WinnerBps + ParticipationBps + BonusBps <= 10000

VARIABLES
    status, resumeSeq, endsIn,  \* the battle row; endsIn is the time left until endsAt
    invitation,   \* each player's, Nothing before it is sent; CLOSED is rejected, cancelled or expired
    given,        \* gifts with a row in the contributions ledger
    pool,         \* Nothing, or what the settlement wrote
    jobs,         \* delayed jobs: kind, resumeSeq in the payload, ticks left
    battlePc, battleJob,      \* where each process is and what it holds in memory
    giftPc, battleFaults,
    cast          \* one of Casts, for good

battleVars == <<status, resumeSeq, endsIn, invitation, given, pool, jobs,
          battlePc, battleJob, giftPc, battleFaults, cast>>
battleRow == <<status, resumeSeq, endsIn>>
ledger == <<given, giftPc, cast>>

(* VIDEO_ROOM_PK_TRANSITIONS: what may follow what. *)
PreLive == {"CREATED", "INVITED", "PENDING", "ACCEPTED"}
Frozen == {"PAUSED", "RECOVERING"}
Ongoing == PreLive \cup {"COUNTDOWN", "LIVE"} \cup Frozen
Terminal == {"COMPLETED", "CANCELLED", "FAILED"}
ASSUME StatusAssumption ==
    Nothing \notin Ongoing \cup Terminal \cup Teams \cup {"SENT", "ACCEPTED", "CLOSED"}
Transitions ==
    {<<"CREATED", "INVITED">>, <<"INVITED", "PENDING">>, <<"INVITED", "ACCEPTED">>,
     <<"PENDING", "ACCEPTED">>, <<"ACCEPTED", "COUNTDOWN">>, <<"COUNTDOWN", "LIVE">>,
     <<"LIVE", "PAUSED">>, <<"LIVE", "RECOVERING">>}
    \cup (Frozen \X {"LIVE"}) \cup (({"LIVE"} \cup Frozen) \X {"COMPLETED"})
    \cup (Ongoing \X {"CANCELLED", "FAILED"})
Legal(from, to) == <<from, to>> \in Transitions

NoJob == [op |-> Nothing, status |-> Nothing, seq |-> 0, left |-> 0,
          todo |-> {}, seen |-> {}]

BattleInit ==
    /\ status = Nothing /\ resumeSeq = 0 /\ endsIn = 0
    /\ invitation = [p \in Players |-> Nothing]
    /\ given = {} /\ pool = Nothing /\ jobs = {}
    /\ battlePc = [p \in BattleProcs |-> "idle"] /\ battleJob = [p \in BattleProcs |-> NoJob]
    /\ giftPc = [g \in Gifts |-> "idle"] /\ battleFaults = 0
    /\ cast \in Casts

Goto(p, l, j) == battlePc' = [battlePc EXCEPT ![p] = l] /\ battleJob' = [battleJob EXCEPT ![p] = j]
Finish(p) == Goto(p, "idle", NoJob)

(* Faulty variant: a write of the status does not ask what it was.         *)
WonUnread(from, to) == Legal(from, to)

(* state.transition: the table first, then UPDATE ... WHERE status = from. *)
(* A settlement that has taken the row makes the UPDATE wait.              *)
Won(from, to) == Legal(from, to) /\ status = from
CanWrite == \A p \in BattleProcs : battlePc[p] # "pay"

EnqueueJob(kind, seq, left) ==
    IF \E j \in jobs : j.kind = kind /\ j.seq = seq THEN UNCHANGED jobs
    ELSE jobs' = jobs \cup {[kind |-> kind, seq |-> seq, left |-> left]}

-----------------------------------------------------------------------------
(* Commands.  Each holds the lifecycle lock from its read to its answer.   *)

Invite ==
    /\ battlePc["room"] = "idle" /\ status = Nothing
    /\ status' = "CREATED"
    /\ Goto("room", "send", [NoJob EXCEPT !.todo = Players])
    /\ UNCHANGED <<resumeSeq, endsIn, invitation, ledger, pool, jobs, battleFaults>>

Send ==
    /\ battlePc["room"] = "send"
    /\ \E p \in battleJob["room"].todo :
         /\ Side[p] = "RED" \/ \A q \in battleJob["room"].todo : Side[q] = "BLUE"
         /\ invitation' = [invitation EXCEPT ![p] = "SENT"]
         /\ LET rest == battleJob["room"].todo \ {p}
            IN  Goto("room", IF rest = {} THEN "invited" ELSE "send", [NoJob EXCEPT !.todo = rest])
    /\ UNCHANGED <<battleRow, ledger, pool, jobs, battleFaults>>

Invited ==
    /\ battlePc["room"] = "invited" /\ CanWrite
    /\ status' = IF Won("CREATED", "INVITED") THEN "INVITED" ELSE status
    /\ Finish("room")
    /\ UNCHANGED <<resumeSeq, endsIn, invitation, ledger, pool, jobs, battleFaults>>

(* An answer may name the battle, so it also reaches one that is over. *)
Respond(op, p) ==
    /\ battlePc["room"] = "idle" /\ status # Nothing
    /\ IF invitation[p] = "SENT"
       THEN /\ invitation' = [invitation EXCEPT ![p] = IF op = "accept" THEN "ACCEPTED" ELSE "CLOSED"]
            /\ Goto("room", "tally", [NoJob EXCEPT !.op = op, !.status = status])
       ELSE UNCHANGED <<invitation, battlePc, battleJob>>
    /\ UNCHANGED <<battleRow, ledger, pool, jobs, battleFaults>>

Outstanding == \E p \in Players : invitation[p] = "SENT"

Tally ==
    /\ battlePc["room"] = "tally" /\ (Outstanding \/ CanWrite)
    /\ LET to == IF battleJob["room"].op = "accept" THEN "ACCEPTED" ELSE "CANCELLED"
       IN  status' = IF ~Outstanding /\ Won(battleJob["room"].status, to) THEN to ELSE status
    /\ Finish("room")
    /\ UNCHANGED <<resumeSeq, endsIn, invitation, ledger, pool, jobs, battleFaults>>

(* cancelAll, then the UPDATE from the status read before it. *)
Cancel ==
    /\ battlePc["room"] = "idle" /\ status \in Ongoing
    /\ invitation' = [p \in Players |-> IF invitation[p] = "SENT" THEN "CLOSED" ELSE invitation[p]]
    /\ Goto("room", "write", [NoJob EXCEPT !.op = "CANCELLED", !.status = status])
    /\ UNCHANGED <<battleRow, ledger, pool, jobs, battleFaults>>

(* A process that reads a status and then writes from it, with nothing in  *)
(* between that another could see, is one step: the write that lost would  *)
(* change nothing.                                                         *)
ToLive(p, from, seq) ==
    /\ status = from /\ status' = "LIVE" /\ resumeSeq' = seq
    /\ Goto(p, "arm", [NoJob EXCEPT !.op = "end", !.seq = seq, !.left = endsIn])
    /\ UNCHANGED endsIn

Start ==
    /\ battlePc["room"] = "idle" /\ CanWrite /\ status = "ACCEPTED"
    /\ status' = "COUNTDOWN" /\ endsIn' = Countdown + Duration
    /\ Goto("room", "arm", [NoJob EXCEPT !.op = "start", !.seq = resumeSeq, !.left = Countdown])
    /\ UNCHANGED <<resumeSeq, invitation, ledger, pool, jobs, battleFaults>>

(* cancelEnd takes the job out of the queue, or fails and is swallowed. *)
CancelEnd ==
    \/ jobs' = {j \in jobs : ~(j.kind = "end" /\ j.seq = resumeSeq)} /\ UNCHANGED battleFaults
    \/ battleFaults < MaxMishaps /\ battleFaults' = battleFaults + 1 /\ UNCHANGED jobs

Pause ==
    /\ battlePc["room"] = "idle" /\ status = "LIVE" /\ CancelEnd
    /\ Goto("room", "write", [NoJob EXCEPT !.op = "PAUSED", !.status = "LIVE"])
    /\ UNCHANGED <<battleRow, invitation, ledger, pool>>

(* endsAt moves by the time spent paused: the time left is what it was. *)
Resume ==
    /\ battlePc["room"] = "idle" /\ CanWrite /\ resumeSeq < MaxResumes
    /\ ToLive("room", "PAUSED", resumeSeq + 1)
    /\ UNCHANGED <<invitation, ledger, pool, jobs, battleFaults>>

EndBattle ==
    /\ battlePc["room"] = "idle" /\ status \in {"LIVE", "PAUSED"}
    /\ Goto("room", "settle", [NoJob EXCEPT !.op = "manual"])
    /\ UNCHANGED <<battleRow, invitation, ledger, pool, jobs, battleFaults>>

(* The conditional UPDATE of cancel, pause and the dropped host. *)
Write(p) ==
    /\ battlePc[p] = "write" /\ CanWrite
    /\ status' = IF Won(battleJob[p].status, battleJob[p].op) THEN battleJob[p].op ELSE status
    /\ Finish(p)
    /\ UNCHANGED <<resumeSeq, endsIn, invitation, ledger, pool, jobs, battleFaults>>

(* scheduleCountdown and scheduleEnd; the job id is made of kind and seq. *)
Arm(p) ==
    /\ battlePc[p] = "arm"
    /\ EnqueueJob(battleJob[p].op, battleJob[p].seq, battleJob[p].left)
    /\ Finish(p)
    /\ UNCHANGED <<battleRow, invitation, ledger, pool, battleFaults>>

-----------------------------------------------------------------------------
(* The two job handlers. *)

Due(kind) == {j \in jobs : j.kind = kind /\ j.left = 0}

HandleStart ==
    /\ battlePc["worker"] = "idle" /\ CanWrite
    /\ \E j \in Due("start") :
         /\ jobs' = jobs \ {j}
         /\ \/ ToLive("worker", "COUNTDOWN", resumeSeq)
            \/ status # "COUNTDOWN" /\ UNCHANGED <<battleRow, battlePc, battleJob>>
    /\ UNCHANGED <<invitation, ledger, pool, battleFaults>>

HandleEnd ==
    /\ battlePc["worker"] = "idle"
    /\ \E j \in Due("end") :
         /\ jobs' = jobs \ {j}
         /\ IF j.seq = resumeSeq /\ status \notin Terminal
            THEN Goto("worker", "settle", [NoJob EXCEPT !.op = "timer", !.seq = j.seq])
            ELSE UNCHANGED <<battlePc, battleJob>>
    /\ UNCHANGED <<battleRow, invitation, ledger, pool, battleFaults>>

-----------------------------------------------------------------------------
(* Settlement, by whoever calls it: a read, then one transaction whose     *)
(* first statement takes the row and reads the scores.                     *)

SettleRead(p) ==
    /\ battlePc[p] = "settle"
    /\ IF Legal(status, "COMPLETED")
       THEN Goto(p, "take", [battleJob[p] EXCEPT !.status = status])
       ELSE Finish(p)
    /\ UNCHANGED <<battleRow, invitation, ledger, pool, jobs, battleFaults>>

(* Faulty variant: the result is committed before the pool is.             *)
TakeFirst(p) ==
    /\ battlePc[p] = "take" /\ CanWrite
    /\ IF Won(battleJob[p].status, "COMPLETED")
       THEN status' = "COMPLETED" /\ Goto(p, "pay", [battleJob[p] EXCEPT !.seen = given])
       ELSE Finish(p) /\ UNCHANGED status
    /\ UNCHANGED <<resumeSeq, endsIn, invitation, ledger, pool, jobs, battleFaults>>

Take(p) ==
    /\ battlePc[p] = "take" /\ CanWrite
    /\ IF Won(battleJob[p].status, "COMPLETED")
       THEN Goto(p, "pay", [battleJob[p] EXCEPT !.seen = given])
       ELSE Finish(p)
    /\ UNCHANGED <<battleRow, invitation, ledger, pool, jobs, battleFaults>>

(* sumBaseAmount over the contributions committed by now. *)
SumOver(f, S) == SumFunctionOnSet(f, S)
Slice(amount, bps) == (amount * bps) \div 10000
Split(amount, S) == Cardinality(S) * (amount \div Cardinality(S))

(* A team's score is the sum of its contributions: both are written by the *)
(* gift's transaction, the score with a compare-and-set that is tried      *)
(* again.  `seen' is the ledger when the scores were read, S when the      *)
(* coins were added up.                                                    *)
Score(t, S) == SumOver(Scored, {g \in S : Side[To[g]] = t})
Leaders(S) == {t \in Teams : \A u \in Teams : Score(t, S) >= Score(u, S)}

PoolOf(seen, S) ==
    LET source == SumOver(Worth, S)
        size == Slice(source, PoolBps)
        winners == {p \in Players : Leaders(seen) = {Side[p]}}
    IN  [source |-> source, size |-> size,
         winner |-> IF winners = {} THEN Nothing ELSE CHOOSE t \in Leaders(seen) : TRUE,
         won |-> IF winners = {} THEN 0 ELSE Split(Slice(size, WinnerBps), winners),
         taken |-> Split(Slice(size, ParticipationBps), Players),
         bonus |-> IF S = {} THEN 0 ELSE Slice(size, BonusBps)]
ASSUME PoolAssumption == \A seen, S \in SUBSET Gifts : PoolOf(seen, S) # Nothing

(* The pool row is unique to the battle: a second one fails the transaction. *)
Pay(p) ==
    /\ battlePc[p] = "pay"
    /\ IF pool = Nothing
       THEN status' = "COMPLETED" /\ pool' = PoolOf(battleJob[p].seen, given)
       ELSE UNCHANGED <<status, pool>>
    /\ Finish(p)
    /\ UNCHANGED <<resumeSeq, endsIn, invitation, ledger, jobs, battleFaults>>

-----------------------------------------------------------------------------
(* The recovery sweep.  A pass looks for six conditions; one that does not *)
(* hold is passed over.  How long an invitation, a battle that never       *)
(* started and an absent player are waited for is not counted: a pass may  *)
(* find those deadlines past at any time.                                  *)

ToSettle(p) == Goto(p, "settle", [NoJob EXCEPT !.op = "recovery"])

(* Faulty variant: the sweep looks only for live battles.                  *)
SweepSettlesLive ==
    /\ battlePc["sweep"] = "idle" /\ status \in {"COUNTDOWN", "LIVE"} /\ endsIn = 0
    /\ ToSettle("sweep")
    /\ UNCHANGED <<battleRow, invitation, ledger, pool, jobs, battleFaults>>

SweepSettles ==
    /\ battlePc["sweep"] = "idle"
    /\ \/ status \in {"COUNTDOWN", "LIVE"} /\ endsIn = 0
       \/ status = "RECOVERING"
    /\ ToSettle("sweep")
    /\ UNCHANGED <<battleRow, invitation, ledger, pool, jobs, battleFaults>>

(* sweepDeadRooms: the room may have closed under the battle at any time. *)
SweepDeadRooms ==
    /\ battlePc["sweep"] = "idle" /\ status = "LIVE"
    /\ ToSettle("sweep")
    /\ UNCHANGED <<battleRow, invitation, ledger, pool, jobs, battleFaults>>

SweepCountdowns ==
    /\ battlePc["sweep"] = "idle" /\ CanWrite /\ endsIn <= Duration
    /\ ToLive("sweep", "COUNTDOWN", resumeSeq)
    /\ UNCHANGED <<invitation, ledger, pool, jobs, battleFaults>>

SweepInvitations ==
    /\ battlePc["sweep"] = "idle" /\ Outstanding
    /\ invitation' = [p \in Players |-> IF invitation[p] = "SENT" THEN "CLOSED" ELSE invitation[p]]
    /\ Goto("sweep", "expired", NoJob)
    /\ UNCHANGED <<battleRow, ledger, pool, jobs, battleFaults>>

Expired ==
    /\ battlePc["sweep"] = "expired" /\ CanWrite
    /\ status' = IF ~Outstanding /\ status \in {"INVITED", "PENDING"} THEN "CANCELLED" ELSE status
    /\ Finish("sweep")
    /\ UNCHANGED <<resumeSeq, endsIn, invitation, ledger, pool, jobs, battleFaults>>

SweepStranded ==
    /\ battlePc["sweep"] = "idle" /\ CanWrite /\ status \in PreLive
    /\ status' = "CANCELLED"
    /\ UNCHANGED <<resumeSeq, endsIn, invitation, ledger, pool, jobs, battlePc, battleJob, battleFaults>>

-----------------------------------------------------------------------------
(* Presence: a player's socket drops and comes back. *)

HostDrop(h) ==
    /\ h \in cast /\ battlePc[h] = "idle" /\ status = "LIVE" /\ CancelEnd
    /\ Goto(h, "write", [NoJob EXCEPT !.op = "RECOVERING", !.status = "LIVE"])
    /\ UNCHANGED <<battleRow, invitation, ledger, pool>>

HostReturn(h) ==
    /\ h \in cast /\ battlePc[h] = "idle" /\ CanWrite /\ resumeSeq < MaxResumes
    /\ ToLive(h, "RECOVERING", resumeSeq + 1)
    /\ UNCHANGED <<invitation, ledger, pool, jobs, battleFaults>>

-----------------------------------------------------------------------------
(* A gift's transaction: it looks for a LIVE battle, without which it      *)
(* scores nothing, then adds its score and its contribution.  It does not  *)
(* hold the battle row.                                                    *)

GiftLooks(g) ==
    /\ g \in cast /\ giftPc[g] = "idle" /\ status = "LIVE"
    /\ giftPc' = [giftPc EXCEPT ![g] = "scoring"]
    /\ UNCHANGED <<battleRow, invitation, given, pool, jobs, battlePc, battleJob, battleFaults, cast>>

GiftScores(g) ==
    /\ giftPc[g] = "scoring"
    /\ given' = given \cup {g}
    /\ giftPc' = [giftPc EXCEPT ![g] = "sent"]
    /\ UNCHANGED <<battleRow, invitation, pool, jobs, battlePc, battleJob, battleFaults, cast>>

-----------------------------------------------------------------------------
(* Time and faults. *)

Less(n) == IF n = 0 THEN 0 ELSE n - 1

Tick ==
    /\ jobs' = {[j EXCEPT !.left = Less(@)] : j \in jobs}
    /\ endsIn' = IF status \in {"COUNTDOWN", "LIVE"} THEN Less(endsIn) ELSE endsIn
    /\ <<jobs, endsIn>>' # <<jobs, endsIn>>
    /\ UNCHANGED <<status, resumeSeq, invitation, ledger, pool, battlePc, battleJob, battleFaults>>

(* A process dies; an open settlement rolls back.  The job a worker held   *)
(* is delivered again or is gone.                                          *)
Dies(p) ==
    /\ battlePc[p] # "idle" /\ battleFaults < MaxMishaps /\ battleFaults' = battleFaults + 1
    /\ Finish(p)
    /\ \/ p = "worker" /\ EnqueueJob(IF battlePc[p] = "arm" THEN "start" ELSE "end", battleJob[p].seq, 0)
       \/ UNCHANGED jobs
    /\ UNCHANGED <<battleRow, invitation, ledger, pool>>

RoomStep ==
    \/ Invite \/ Send \/ Invited \/ Tally
    \/ \E op \in {"accept", "reject"}, p \in Players : Respond(op, p)
    \/ Cancel \/ Start \/ Pause \/ Resume \/ EndBattle
Sweeping == SweepSettles \/ SweepDeadRooms \/ SweepCountdowns \/ SweepInvitations \/ Expired \/ SweepStranded
Goes(p) == Write(p) \/ Arm(p) \/ SettleRead(p) \/ Take(p) \/ Pay(p)

BattleNext ==
    \/ RoomStep \/ HandleStart \/ HandleEnd \/ Sweeping \/ Tick
    \/ \E p \in BattleProcs : Goes(p) \/ Dies(p)
    \/ \E h \in Hosts : HostDrop(h) \/ HostReturn(h)
    \/ \E g \in Gifts : GiftLooks(g) \/ GiftScores(g)

BattleSpec == BattleInit /\ [][BattleNext]_battleVars

(* Time passes and a transaction that holds the row commits or dies.  The  *)
(* sweep is switched on, goes on, and comes to every condition on every    *)
(* pass, also while another one holds.  Nobody else has to move: no button *)
(* is pressed, no job arrives, no host comes back.                         *)
FairBattle ==
    /\ BattleSpec
    /\ WF_battleVars(Tick) /\ WF_battleVars(\E p \in BattleProcs : Pay(p))
    /\ WF_battleVars(SweepSettles) /\ WF_battleVars(SweepStranded) /\ SF_battleVars(SweepCountdowns)
    /\ WF_battleVars(Expired \/ Goes("sweep"))

-----------------------------------------------------------------------------
BattleStatuses == Ongoing \cup Terminal \cup {Nothing}
BattlePcs == {"idle", "send", "invited", "tally", "write", "arm", "settle", "take", "pay", "expired"}
Orders == {"accept", "reject", "start", "end", "manual", "timer", "recovery"}
JobType == [op : BattleStatuses \cup Orders, status : BattleStatuses, seq : 0 .. MaxResumes,
            left : 0 .. Countdown + Duration, todo : SUBSET Players, seen : SUBSET Gifts]

(* Every part of the state has the shape the code gives it. *)
BattleTypeOK ==
    /\ status \in BattleStatuses /\ resumeSeq \in 0 .. MaxResumes /\ endsIn \in 0 .. Countdown + Duration
    /\ invitation \in [Players -> {Nothing, "SENT", "ACCEPTED", "CLOSED"}]
    /\ given \subseteq Gifts /\ giftPc \in [Gifts -> {"idle", "scoring", "sent"}]
    /\ jobs \subseteq [kind : {"start", "end"}, seq : 0 .. MaxResumes, left : 0 .. Countdown + Duration]
    /\ battleFaults \in 0 .. MaxMishaps
    /\ cast \in Casts /\ battlePc \in [BattleProcs -> BattlePcs] /\ battleJob \in [BattleProcs -> JobType]

(* VideoRoomPkService.start and the answers: a battle that is counted down *)
(* or played has asked every player, nobody may still answer, and somebody *)
(* said yes, whatever expired, was refused or died on the way.             *)
Agreed ==
    status \in {"ACCEPTED", "COUNTDOWN", "LIVE"} \cup Frozen =>
        /\ \A p \in Players : invitation[p] \in {"ACCEPTED", "CLOSED"}
        /\ \E p \in Players : invitation[p] = "ACCEPTED"

(* VideoRoomPkSettlementService.settle: the result and the money are one   *)
(* commit.  A battle is COMPLETED exactly when its pool was written, also  *)
(* when a settlement died half way or two of them ran at once.             *)
ResultIsPaid == (status = "COMPLETED") <=> (pool # Nothing)

(* The pool is a share of the coins that were really spent on gifts, a     *)
(* multiplier or a late gift does not enlarge it, and what is handed out   *)
(* never exceeds it; a draw pays no winner.                                *)
PoolIsCovered ==
    pool # Nothing =>
        /\ pool.size * 10000 <= PoolBps * SumOver(Worth, given)
        /\ pool.won + pool.taken + pool.bonus <= pool.size
        /\ pool.winner = Nothing => pool.won = 0

(* A battle starts agreed and ends paid.                                   *)
BattleOK == BattleTypeOK /\ Agreed /\ ResultIsPaid /\ PoolIsCovered

(* A finished battle stays as it finished: no command, no job of an        *)
(* earlier life and no sweep revives it, settles it again or changes what  *)
(* it paid.                                                                *)
FinalIsFinal ==
    [][(status \in Terminal) => UNCHANGED <<status, pool, resumeSeq>>]_battleVars

(* VideoRoomPkRecoveryService.tick: with the sweep switched on no battle   *)
(* blocks its room for ever, whatever job was lost and whoever died; only  *)
(* an operator's pause may last.                                           *)
EveryBattleEnds == []<>(status \in Terminal \cup {Nothing, "PAUSED"})

(* VideoRoomPkTimerService.cancelEnd, VideoRoomPkJobsService.handleEnd:    *)
(* the clock's own job settles a battle only when its playing time is      *)
(* used up.                                                                *)
NotEarly == [][\A p \in BattleProcs : Pay(p) /\ battleJob[p].op = "timer" => endsIn = 0]_battleVars
=============================================================================

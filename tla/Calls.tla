------------------------------- MODULE Calls --------------------------------
(***************************************************************************)
(* Private one-to-one calls: CallsService over the calls table, its        *)
(* deadline jobs and the sweep that makes up for lost ones.  There are no  *)
(* locks.  Every change of a row is one conditional UPDATE that names the  *)
(* statuses it is legal from, and reports whether it won.  Media, privacy  *)
(* gates and rate limits are left out: they only refuse.                   *)
(***************************************************************************)
EXTENDS Integers, Sequences, FiniteSets

CONSTANTS
    Users,
    Keys,         \* idempotency keys, made by the clients
    Taps,         \* requests that place a call; a call is named after the tap that made its row
    Acts,         \* requests about a call that exists
    Scenes,       \* who calls whom with which key, and who makes the other requests
    Workers,      \* handlers of the calls queue
    Batch,        \* calls of each kind that one sweep looks at
    MaxFaults,    \* bound on requests and jobs that die half way
    None

Procs == Taps \cup Acts \cup Workers

SceneType == [from : [Taps -> Users], to : [Taps -> Users], key : [Taps -> Keys],
              actor : [Acts -> Users \cup {None}]]

ASSUME ScenesAssumption ==
    Scenes \subseteq SceneType /\ \A s \in Scenes, t \in Taps : s.from[t] # s.to[t]
ASSUME ProcsAssumption ==
    /\ Taps \cap Acts = {} /\ (Taps \cup Acts) \cap Workers = {}
    /\ None \notin Users \cup Procs /\ Batch \in Nat \ {0} /\ MaxFaults \in Nat
ASSUME NoneAssumption ==
    None \notin {"RINGING", "ACCEPTED", "CONNECTED",
                 "ENDED", "REJECTED", "CANCELLED", "MISSED", "BUSY", "FAILED"}

VARIABLES
    row,      \* the calls table: None, or status, endedBy, acceptedAt, connectedAt set
    late,     \* calls whose present stage has outlived its deadline
    jobs,     \* the deadline jobs in the queue
    endings,  \* the endings published on the bus about each call
    pc, job,  \* where each request and worker is, and what it holds in memory
    faults,
    scene     \* one of Scenes, for good

vars == <<row, late, jobs, endings, pc, job, faults, scene>>

Live == {"RINGING", "ACCEPTED", "CONNECTED"}
Hangup == {"ACCEPTED", "CONNECTED"}
Terminal == {"ENDED", "REJECTED", "CANCELLED", "MISSED", "BUSY", "FAILED"}

Status(c) == IF row[c] = None THEN None ELSE row[c].status
Party(c, u) == u \in {scene.from[c], scene.to[c]}

(* A call and the stage whose deadline the job watches: ring-, connect- or *)
(* max-<call id>.  The id is fixed, so arming twice arms once.             *)
JobIds == Taps \X Live

NoJob == [op |-> None, user |-> None, call |-> None, stage |-> None,
          todo |-> {}, sweep |-> FALSE, won |-> FALSE]

Init ==
    /\ row = [c \in Taps |-> None] /\ late = {} /\ jobs = {}
    /\ endings = [c \in Taps |-> <<>>]
    /\ pc = [r \in Procs |-> "idle"] /\ job = [r \in Procs |-> NoJob] /\ faults = 0
    /\ scene \in Scenes

Goto(r, l) == pc' = [pc EXCEPT ![r] = l]
Keep(r, l, v) == Goto(r, l) /\ job' = [job EXCEPT ![r] = v]
Step(r, from, to) == pc[r] = from /\ Goto(r, to) /\ UNCHANGED job
Finish(r) == Keep(r, "done", NoJob)
Publish(c, e) == endings' = [endings EXCEPT ![c] = Append(@, e)]

(* Faulty variant: the update forgets its WHERE status.                    *)
WonUnread(c, from) == row[c] # None

(* UPDATE ... WHERE id = c AND status IN from: it wins or changes nothing. *)
Won(c, from) == Status(c) \in from
Transition(c, from, new) ==
    IF Won(c, from)
    THEN row' = [row EXCEPT ![c] = new] /\ late' = late \ {c}
    ELSE UNCHANGED <<row, late>>

Terminated(c, s, u) == [row[c] EXCEPT !.status = s, !.endedBy = u]

-----------------------------------------------------------------------------
(* Placing a call.                                                         *)
SameTap(t) == {c \in Taps : row[c] # None /\ scene.from[c] = scene.from[t]
                                          /\ scene.key[c] = scene.key[t]}
InCall(u) == \E c \in Taps : Party(c, u) /\ Status(c) \in Live

(* A key that was used already returns its call; a caller in a call is     *)
(* refused.  The two reads are in this order, each on its own.             *)
InitiateKey(t) ==
    /\ pc[t] = "idle" /\ Goto(t, IF SameTap(t) # {} THEN "done" ELSE "caller")
    /\ UNCHANGED <<row, late, jobs, endings, job, faults, scene>>

InitiateCaller(t) ==
    /\ pc[t] = "caller" /\ Goto(t, IF InCall(scene.from[t]) THEN "done" ELSE "callee")
    /\ UNCHANGED <<row, late, jobs, endings, job, faults, scene>>

InitiateCallee(t) ==
    /\ pc[t] = "callee" /\ Goto(t, IF InCall(scene.to[t]) THEN "busy" ELSE "create")
    /\ UNCHANGED <<row, late, jobs, endings, job, faults, scene>>

NewRow(s) == [status |-> s, endedBy |-> None, accepted |-> FALSE, connected |-> FALSE]

(* A busy callee still makes a row, over as it begins.  A second tap with  *)
(* the same key fails on the unique index.                                 *)
CreateBusy(t) ==
    /\ pc[t] = "busy"
    /\ IF SameTap(t) = {}
       THEN /\ row' = [row EXCEPT ![t] = NewRow("BUSY")]
            /\ Goto(t, "tellBusy")
       ELSE Goto(t, "done") /\ UNCHANGED row
    /\ UNCHANGED <<late, jobs, endings, job, faults, scene>>

TellBusy(t) ==
    /\ Step(t, "tellBusy", "done") /\ Publish(t, "BUSY")
    /\ UNCHANGED <<row, late, jobs, faults, scene>>

(* Or the invitation, which converges on the first row of the same key.    *)
Create(t) ==
    /\ pc[t] = "create"
    /\ IF SameTap(t) = {}
       THEN /\ row' = [row EXCEPT ![t] = NewRow("RINGING")]
            /\ Keep(t, "armRing", [job[t] EXCEPT !.call = t])
       ELSE /\ \E c \in SameTap(t) : Keep(t, "armRing", [job[t] EXCEPT !.call = c])
            /\ UNCHANGED row
    /\ UNCHANGED <<late, jobs, endings, faults, scene>>

ArmRing(t) ==
    /\ pc[t] = "armRing" /\ jobs' = jobs \cup {<<job[t].call, "RINGING">>} /\ Finish(t)
    /\ UNCHANGED <<row, late, endings, faults, scene>>

-----------------------------------------------------------------------------
(* Requests about a call.  Each reads the row first and decides on what it *)
(* read: refuse, report the call as it is, or go on to the UPDATE.         *)
Ops == {"accept", "reject", "cancel", "connect", "end", "fail"}

ReadFor(r, op, u, c) ==
    LET caller == scene.from[c] = u
        s == Status(c)
        go == CASE op = "accept" -> ~caller /\ s = "RINGING"
                [] op = "reject" -> ~caller /\ s = "RINGING"
                [] op = "cancel" -> caller /\ s = "RINGING"
                [] op = "connect" -> s = "ACCEPTED"
                [] OTHER -> s \in Live
        way == IF op = "end" /\ s = "RINGING" THEN "reroute" ELSE "write"
    IN  IF go THEN Keep(r, way, [NoJob EXCEPT !.op = op, !.user = u, !.call = c])
        ELSE Finish(r)

Read(r) ==
    /\ pc[r] = "idle"
    /\ \E c \in Taps, op \in Ops :
           row[c] # None /\ Party(c, scene.actor[r]) /\ ReadFor(r, op, scene.actor[r], c)
    /\ UNCHANGED <<row, late, jobs, endings, faults, scene>>

(* A hang-up while it rings is a cancel or a reject, with a read of its    *)
(* own: when the call was answered in between, the hang-up is refused.     *)
Reroute(r) ==
    /\ pc[r] = "reroute"
    /\ LET j == job[r] IN
           ReadFor(r, IF scene.from[j.call] = j.user THEN "cancel" ELSE "reject", j.user, j.call)
    /\ UNCHANGED <<row, late, jobs, endings, faults, scene>>

(* The statuses an operation is legal from and the one it leads to.        *)
From(op) == CASE op \in {"accept", "reject", "cancel"} -> {"RINGING"}
              [] op = "connect" -> {"ACCEPTED"}
              [] op = "end" -> Hangup
              [] op = "fail" -> {"RINGING"} \cup Hangup
EndsAs(op) == CASE op = "reject" -> "REJECTED" [] op = "cancel" -> "CANCELLED"
                [] op = "end" -> "ENDED" [] op = "fail" -> "FAILED"

(* Faulty variant: the ending is not published.                            *)
DecidedQuietly(r, won, next) ==
    IF won THEN Keep(r, IF next = "tell" THEN "disarm" ELSE next, [job[r] EXCEPT !.won = TRUE])
    ELSE Finish(r)
Decided(r, won, next) ==
    IF won THEN Keep(r, next, [job[r] EXCEPT !.won = TRUE]) ELSE Finish(r)

MarkAccepted(r) ==
    /\ pc[r] = "write" /\ job[r].op = "accept"
    /\ LET c == job[r].call IN
       /\ Transition(c, From("accept"), [row[c] EXCEPT !.status = "ACCEPTED", !.accepted = TRUE])
       /\ Decided(r, Won(c, From("accept")), "arm")
    /\ UNCHANGED <<jobs, endings, faults, scene>>

MarkConnected(r) ==
    /\ pc[r] = "write" /\ job[r].op = "connect"
    /\ LET c == job[r].call IN
       /\ Transition(c, From("connect"), [row[c] EXCEPT !.status = "CONNECTED", !.connected = TRUE])
       /\ Decided(r, Won(c, From("connect")), "arm")
    /\ UNCHANGED <<jobs, endings, faults, scene>>

Terminate(r) ==
    /\ pc[r] = "write" /\ job[r].op \notin {"accept", "connect"}
    /\ LET c == job[r].call  op == job[r].op IN
       /\ Transition(c, From(op), Terminated(c, EndsAs(op), job[r].user))
       /\ Decided(r, Won(c, From(op)), "tell")
    /\ UNCHANGED <<jobs, endings, faults, scene>>

StageOf(op) == IF op = "accept" THEN "ACCEPTED" ELSE "CONNECTED"

(* Faulty variant: only an answered call gets a deadline.                  *)
ArmAnswerOnly(r) ==
    /\ Step(r, "arm", "done")
    /\ jobs' = IF job[r].op = "accept" THEN jobs \cup {<<job[r].call, "ACCEPTED">>} ELSE jobs
    /\ UNCHANGED <<row, late, endings, faults, scene>>

(* Won: arm the next deadline, or tell and drop the deadlines.  What else  *)
(* is published (ringing, accepted, connected) changes nothing here.       *)
Arm(r) ==
    /\ Step(r, "arm", "done") /\ jobs' = jobs \cup {<<job[r].call, StageOf(job[r].op)>>}
    /\ UNCHANGED <<row, late, endings, faults, scene>>

Tell(r) ==
    /\ Step(r, "tell", "disarm") /\ Publish(job[r].call, EndsAs(job[r].op))
    /\ UNCHANGED <<row, late, jobs, faults, scene>>

Disarm(r) ==
    /\ Step(r, "disarm", "done") /\ jobs' = {j \in jobs : j[1] # job[r].call}
    /\ UNCHANGED <<row, late, endings, faults, scene>>

-----------------------------------------------------------------------------
(* The queue.  Time passes for the stage a call is in; a job is due when   *)
(* its stage is over, by its deadline or because the call has moved on.    *)
DeadlinePasses(c) ==
    /\ Status(c) \in Live /\ c \notin late /\ late' = late \cup {c}
    /\ UNCHANGED <<row, jobs, endings, pc, job, faults, scene>>

Due(j) == Status(j[1]) # j[2] \/ j[1] \in late

TakeJob(w) ==
    /\ pc[w] = "idle"
    /\ \E j \in jobs :
           /\ Due(j) /\ jobs' = jobs \ {j}
           /\ Keep(w, "expire", [NoJob EXCEPT !.stage = j[2], !.todo = {j[1]}])
    /\ UNCHANGED <<row, late, endings, faults, scene>>

(* A job that is lost: the worker died with it, or Redis dropped it.       *)
LoseJob(j) ==
    /\ j \in jobs /\ faults < MaxFaults /\ faults' = faults + 1 /\ jobs' = jobs \ {j}
    /\ UNCHANGED <<row, late, endings, pc, job, scene>>

(* Faulty variant: the sweep does not look for calls that are too long.    *)
OverdueUnconnected(s) == {c \in late : Status(c) = s /\ s # "CONNECTED"}
Overdue(s) == {c \in late : Status(c) = s}
Found(s) == {S \in SUBSET Overdue(s) : Cardinality(S) <= Batch /\ (S = {} => Overdue(s) = {})}
NextStage(s) == IF s = "RINGING" THEN "ACCEPTED" ELSE "CONNECTED"

(* The sweep reads the overdue calls of one stage, settles each, and goes  *)
(* on to the next stage.                                                   *)
Reap(w) ==
    /\ pc[w] = "idle" /\ late # {}
    /\ \E S \in Found("RINGING") :
           Keep(w, "expire", [NoJob EXCEPT !.stage = "RINGING", !.todo = S, !.sweep = TRUE])
    /\ UNCHANGED <<row, late, jobs, endings, faults, scene>>

ReapNext(w) ==
    /\ pc[w] = "expire" /\ job[w].todo = {}
    /\ IF job[w].sweep /\ job[w].stage # "CONNECTED"
       THEN \E S \in Found(NextStage(job[w].stage)) :
                Keep(w, "expire", [job[w] EXCEPT !.stage = NextStage(job[w].stage), !.todo = S])
       ELSE Keep(w, "idle", NoJob)
    /\ UNCHANGED <<row, late, jobs, endings, faults, scene>>

(* expireRinging, expireConnecting, expireConnected.                       *)
ExpiresAs(s) == CASE s = "RINGING" -> "MISSED" [] s = "ACCEPTED" -> "FAILED" [] OTHER -> "ENDED"

Expire(w) ==
    /\ pc[w] = "expire"
    /\ \E c \in job[w].todo :
       LET s == job[w].stage  rest == [job[w] EXCEPT !.todo = @ \ {c}] IN
       /\ Transition(c, {s}, Terminated(c, ExpiresAs(s), None))
       /\ IF Won(c, {s}) THEN Keep(w, "tellExpired", [rest EXCEPT !.call = c])
          ELSE Keep(w, "expire", rest)
    /\ UNCHANGED <<jobs, endings, faults, scene>>

TellExpired(w) ==
    /\ Step(w, "tellExpired", "expire") /\ Publish(job[w].call, ExpiresAs(job[w].stage))
    /\ UNCHANGED <<row, late, jobs, faults, scene>>

(* The process dies, or a call to Redis fails, half way: what was written  *)
(* stays, what was still to do is not done.                                *)
Crash(r) ==
    /\ pc[r] \notin {"idle", "done"} /\ faults < MaxFaults /\ faults' = faults + 1
    /\ Keep(r, IF r \in Workers THEN "idle" ELSE "done", NoJob)
    /\ UNCHANGED <<row, late, jobs, endings, scene>>

-----------------------------------------------------------------------------
Tap(t) ==
    \/ InitiateKey(t) \/ InitiateCaller(t) \/ InitiateCallee(t)
    \/ CreateBusy(t) \/ TellBusy(t) \/ Create(t) \/ ArmRing(t)
Act(r) ==
    \/ Reroute(r) \/ MarkAccepted(r) \/ MarkConnected(r) \/ Terminate(r)
    \/ Arm(r) \/ Tell(r) \/ Disarm(r)
Work(w) == ReapNext(w) \/ Expire(w) \/ TellExpired(w)

Next ==
    \/ \E t \in Taps : Tap(t)
    \/ \E r \in Acts : Read(r) \/ Act(r)
    \/ \E w \in Workers : TakeJob(w) \/ Reap(w) \/ Work(w)
    \/ \E c \in Taps : DeadlinePasses(c)
    \/ \E j \in JobIds : LoseJob(j)
    \/ \E r \in Procs : Crash(r)

Spec == Init /\ [][Next]_vars

(* What was begun goes on, time passes, the repeatable sweep comes round.  *)
(* Nobody has to hang up, and no job has to arrive.                        *)
FairSpec ==
    /\ Spec
    /\ WF_vars(\/ \E t \in Taps : Tap(t) \/ DeadlinePasses(t)
               \/ \E r \in Acts : Act(r)
               \/ \E w \in Workers : Work(w))
    /\ WF_vars(\E w \in Workers : Reap(w))

-----------------------------------------------------------------------------
PcType == {"idle", "done", "caller", "callee", "busy", "tellBusy", "create", "armRing",
           "reroute", "write", "arm", "tell", "disarm", "expire", "tellExpired"}
RowType == [status : Live \cup Terminal, endedBy : Users \cup {None},
            accepted : BOOLEAN, connected : BOOLEAN]
ASSUME RowAssumption == None \notin RowType
JobType == [op : Ops \cup {None}, user : Users \cup {None}, call : Taps \cup {None},
            stage : Live \cup {None}, todo : SUBSET Taps,
            sweep : BOOLEAN, won : BOOLEAN]

TypeOK ==
    /\ row \in [Taps -> RowType \cup {None}] /\ late \subseteq Taps /\ jobs \subseteq JobIds
    /\ endings \in [Taps -> Seq(Terminal)]
    /\ pc \in [Procs -> PcType] /\ job \in [Procs -> JobType] /\ faults \in 0 .. MaxFaults
    /\ scene \in Scenes

(* "settles the call exactly once": a call that was answered is never also *)
(* declined, withdrawn or missed, and one that connected was answered.     *)
AnsweredOrNot ==
    \A c \in Taps : row[c] # None =>
        /\ row[c].accepted => Status(c) \in Hangup \cup {"ENDED", "FAILED"}
        /\ row[c].connected => row[c].accepted /\ Status(c) # "ACCEPTED"
        /\ Status(c) \in Hangup \cup {"ENDED"} => row[c].accepted

(* "the loser is told it lost instead of overwriting a decided call": what *)
(* a request was told it did stands for good, under its own name.          *)
WinnerStands ==
    \A r \in Acts : job[r].won =>
        LET call == row[job[r].call] IN
        CASE job[r].op = "accept" -> call.accepted
          [] job[r].op = "connect" -> call.connected
          [] OTHER -> call.status = EndsAs(job[r].op) /\ call.endedBy = job[r].user

(* What the conditional updates of calls.repository keep of every row.     *)
RowsOK == TypeOK /\ AnsweredOrNot /\ WinnerStands

(* "a worker that dies between arming a ring timeout and running it would  *)
(* leave a phone ringing forever": without a fault, no live call is left   *)
(* without the job that ends it, whatever was disarmed on the way.         *)
LiveIsWatched ==
    faults = 0 /\ (\A r \in Procs : pc[r] \in {"idle", "done"}) =>
        \A c \in Taps : Status(c) \in Live => <<c, Status(c)>> \in jobs

(* Without a fault the people in a call that ends are told of it.          *)
EndingIsTold ==
    \A c \in Taps : Status(c) \in Terminal ~> (endings[c] # <<>> \/ faults > 0)

(* The table and the bus keep the promise of CallLife: forward only, one   *)
(* ending, one announcement of it, and no call that is live for ever,      *)
(* whatever is lost.                                                       *)
Announced(c) == CASE endings[c] = <<>> -> None
                  [] Len(endings[c]) = 1 -> endings[c][1]
                  [] OTHER -> "twice"
Life == INSTANCE CallLife WITH CallIds <- Taps,
            status <- [c \in Taps |-> Status(c)], announced <- [c \in Taps |-> Announced(c)]
Promise == Life!Spec
=============================================================================

----------------------------- MODULE CallsProofs ----------------------------
(***************************************************************************)
(* Calls keeps every row going forward, tells each ending once, and so     *)
(* implements what CallLife promises, for any number of people, requests,  *)
(* workers, lost jobs and deaths.                                          *)
(*                                                                         *)
(* No lock orders the steps; what orders them is that an UPDATE wins only  *)
(* against a row that is not terminal, and that whoever ends a row is the  *)
(* only one who tells of it.  The invariant says so (TellInv), and Shape   *)
(* says that every step is one of three: it leaves rows and endings alone, *)
(* it moves one row forward, or it tells of an ending.                     *)
(*                                                                         *)
(* A second invariant says who watches a live call whose deadline has no   *)
(* job in the queue (WatchInv).                                            *)
(***************************************************************************)
EXTENDS Calls, TLAPS

-----------------------------------------------------------------------------
(* Where each kind of process can be, and what it holds there.             *)
TapOk(t) ==
    /\ pc[t] \in {"idle", "done", "caller", "callee", "busy", "tellBusy", "create", "armRing"}
    /\ pc[t] = "armRing" => job[t].call \in Taps

ActOk(r) ==
    /\ pc[r] \in {"idle", "done", "reroute", "write", "arm", "tell", "disarm"}
    /\ pc[r] \in {"reroute", "write", "arm", "tell", "disarm"} =>
           job[r].call \in Taps /\ job[r].op \in Ops

WorkOk(w) ==
    /\ pc[w] \in {"idle", "expire", "tellExpired"}
    /\ pc[w] # "idle" => job[w].stage \in Live
    /\ pc[w] = "tellExpired" => job[w].call \in Taps

JobInv ==
    /\ \A t \in Taps : TapOk(t)
    /\ \A r \in Acts : ActOk(r)
    /\ \A w \in Workers : WorkOk(w)

(* What a request that won was told it did.                                *)
Stands(r) ==
    LET call == row[job[r].call] IN
    /\ job[r].call \in Taps /\ call # None
    /\ CASE job[r].op = "accept" -> call.accepted
         [] job[r].op = "connect" -> call.connected
         [] OTHER -> call.status = EndsAs(job[r].op) /\ call.endedBy = job[r].user
                     /\ call.status \in Terminal

WonInv == \A r \in Acts : job[r].won => Stands(r)

(* Who is about to tell, of which call, and what.                          *)
Telling == {"tellBusy", "tell", "tellExpired"}
Subject(r) == IF pc[r] = "tellBusy" THEN r ELSE job[r].call
News(r) == CASE pc[r] = "tellBusy" -> "BUSY"
             [] pc[r] = "tell" -> EndsAs(job[r].op)
             [] OTHER -> ExpiresAs(job[r].stage)

TellInv ==
    /\ \A c \in Taps : endings[c] = <<>> \/ (Status(c) \in Terminal /\ endings[c] = <<Status(c)>>)
    /\ \A r \in Procs : pc[r] \in Telling =>
           /\ Subject(r) \in Taps /\ News(r) \in Terminal
           /\ Status(Subject(r)) = News(r) /\ endings[Subject(r)] = <<>>
    /\ \A q, r \in Procs : pc[q] \in Telling /\ pc[r] \in Telling /\ Subject(q) = Subject(r) => q = r

IInv == TypeOK /\ JobInv /\ AnsweredOrNot /\ WonInv /\ TellInv

-----------------------------------------------------------------------------
(* The shapes a step can have.                                             *)
Only(r) ==
    /\ pc' \in [Procs -> PcType] /\ job' \in [Procs -> JobType]
    /\ \A q \in Procs \ {r} : pc'[q] = pc[q] /\ job'[q] = job[q]

Own(r) ==
    /\ r \in Taps => TapOk(r)'
    /\ r \in Acts => ActOk(r)'
    /\ r \in Workers => WorkOk(r)'

Quiet(r) ==
    /\ Only(r) /\ UNCHANGED <<row, endings>>
    /\ pc'[r] \notin Telling
    /\ r \in Acts /\ job'[r].won => job'[r] = job[r]

Forward(c, v) ==
    \/ row[c] = None /\ v \in {NewRow("RINGING"), NewRow("BUSY")}
    \/ Status(c) = "RINGING" /\ v = [row[c] EXCEPT !.status = "ACCEPTED", !.accepted = TRUE]
    \/ Status(c) = "ACCEPTED" /\ v = [row[c] EXCEPT !.status = "CONNECTED", !.connected = TRUE]
    \/ Status(c) \in Live /\ \E s \in Life!Endings[Status(c)], u \in Users \cup {None} :
                                 v = Terminated(c, s, u)

Moves(r, c) ==
    /\ Only(r) /\ endings' = endings
    /\ \E v \in RowType : Forward(c, v) /\ row' = [row EXCEPT ![c] = v]
    /\ pc'[r] \in Telling => Subject(r)' = c /\ News(r)' = Status(c)' /\ Status(c)' \in Terminal
    /\ r \in Acts /\ job'[r].won => Stands(r)'

Tells(r) ==
    /\ Only(r) /\ row' = row /\ job'[r] = job[r]
    /\ pc[r] \in Telling /\ pc'[r] \notin Telling
    /\ endings' = [endings EXCEPT ![Subject(r)] = Append(@, News(r))]

Shape ==
    \/ UNCHANGED <<row, endings, pc, job>>
    \/ \E r \in Procs : Quiet(r) \/ Tells(r) \/ \E c \in Taps : Moves(r, c)

Good == TypeOK' /\ JobInv' /\ Shape

-----------------------------------------------------------------------------
(* A row that moved, moved forward from one that was not over.             *)
LEMMA ForwardRow ==
  ASSUME TypeOK, AnsweredOrNot, NEW c \in Taps, NEW v \in RowType, Forward(c, v)
  PROVE  /\ row[c] = None \/ Status(c) \in Live
         /\ Status(c) \notin Terminal
         /\ v.accepted => v.status \in Hangup \cup {"ENDED", "FAILED"}
         /\ v.connected => v.accepted /\ v.status # "ACCEPTED"
         /\ v.status \in Hangup \cup {"ENDED"} => v.accepted
         /\ row[c] # None => (row[c].accepted => v.accepted) /\ (row[c].connected => v.connected)
<1> DEFINE old == row[c]
<1>1. CASE row[c] = None /\ v \in {NewRow("RINGING"), NewRow("BUSY")}
  BY <1>1, NoneAssumption DEF NewRow, Status, Terminal, Hangup
<1> SUFFICES ASSUME row[c] # None
             PROVE  /\ old.status \in Live
                    /\ v.accepted => v.status \in Hangup \cup {"ENDED", "FAILED"}
                    /\ v.connected => v.accepted /\ v.status # "ACCEPTED"
                    /\ v.status \in Hangup \cup {"ENDED"} => v.accepted
                    /\ (old.accepted => v.accepted) /\ (old.connected => v.connected)
  BY <1>1, NoneAssumption DEF Status, Live, Terminal, Forward
<1>2. /\ old \in RowType /\ Status(c) = old.status
      /\ old.accepted => old.status \in Hangup \cup {"ENDED", "FAILED"}
      /\ old.connected => old.accepted /\ old.status # "ACCEPTED"
      /\ old.status \in Hangup \cup {"ENDED"} => old.accepted
  BY DEF TypeOK, Status, AnsweredOrNot
<1> HIDE DEF old
<1>3. CASE old.status = "RINGING" /\ v = [old EXCEPT !.status = "ACCEPTED", !.accepted = TRUE]
  BY <1>2, <1>3 DEF RowType, Hangup, Live
<1>4. CASE old.status = "ACCEPTED" /\ v = [old EXCEPT !.status = "CONNECTED", !.connected = TRUE]
  BY <1>2, <1>4 DEF RowType, Hangup, Live
<1>5. ASSUME old.status \in Live, NEW s \in Life!Endings[old.status], NEW u \in Users \cup {None},
             v = [old EXCEPT !.status = s, !.endedBy = u]
      PROVE  /\ v.accepted => v.status \in Hangup \cup {"ENDED", "FAILED"}
             /\ v.connected => v.accepted /\ v.status # "ACCEPTED"
             /\ v.status \in Hangup \cup {"ENDED"} => v.accepted
             /\ (old.accepted => v.accepted) /\ (old.connected => v.connected)
  <2>1. /\ v.status = s /\ v.accepted = old.accepted /\ v.connected = old.connected
    BY <1>2, <1>5 DEF RowType
  <2>2. CASE old.status = "RINGING"
    BY <1>2, <1>5, <2>1, <2>2 DEF Life!Endings, Hangup
  <2>3. CASE old.status \in {"ACCEPTED", "CONNECTED"}
    BY <1>2, <1>5, <2>1, <2>3 DEF Life!Endings, Hangup
  <2> QED
    BY <1>5, <2>2, <2>3 DEF Live
<1> QED
  BY <1>1, <1>2, <1>3, <1>4, <1>5 DEF Forward, Terminated, old

LEMMA KeepsAnswered ==
  ASSUME IInv, TypeOK', Shape
  PROVE  AnsweredOrNot'
<1>1. CASE row' = row
  BY <1>1 DEF IInv, AnsweredOrNot, Status
<1>2. ASSUME NEW r \in Procs, NEW c \in Taps, Moves(r, c)
      PROVE  AnsweredOrNot'
  <2>1. PICK v \in RowType : Forward(c, v) /\ row' = [row EXCEPT ![c] = v]
    BY <1>2 DEF Moves
  <2>2. ASSUME NEW d \in Taps, row'[d] # None
        PROVE  /\ row'[d].accepted => row'[d].status \in Hangup \cup {"ENDED", "FAILED"}
               /\ row'[d].connected => row'[d].accepted /\ row'[d].status # "ACCEPTED"
               /\ row'[d].status \in Hangup \cup {"ENDED"} => row'[d].accepted
    <3>1. CASE d = c
      BY <2>1, <3>1, ForwardRow DEF IInv, TypeOK
    <3>2. CASE d # c
      BY <2>1, <2>2, <3>2 DEF IInv, TypeOK, AnsweredOrNot, Status
    <3> QED
      BY <3>1, <3>2
  <2> QED
    BY <2>2 DEF AnsweredOrNot, Status
<1> QED
  BY <1>1, <1>2 DEF Shape, Quiet, Tells

LEMMA KeepsWon ==
  ASSUME IInv, TypeOK', Shape
  PROVE  WonInv'
<1> SUFFICES ASSUME NEW a \in Acts, job'[a].won
             PROVE  Stands(a)'
  BY DEF WonInv
<1> a \in Procs
  BY DEF Procs
<1>1. ASSUME job'[a] = job[a], row' = row
      PROVE  Stands(a)'
  BY <1>1 DEF IInv, WonInv, Stands
<1>2. CASE UNCHANGED <<row, endings, pc, job>>
  BY <1>1, <1>2
<1>3. ASSUME NEW r \in Procs, Quiet(r) \/ Tells(r)
      PROVE  Stands(a)'
  BY <1>1, <1>3 DEF Quiet, Tells, Only
<1>4. ASSUME NEW r \in Procs, NEW c \in Taps, Moves(r, c)
      PROVE  Stands(a)'
  <2>1. CASE a = r
    BY <1>4, <2>1 DEF Moves
  <2>2. PICK v \in RowType : Forward(c, v) /\ row' = [row EXCEPT ![c] = v]
    BY <1>4 DEF Moves
  <2>3. CASE a # r
    <3>1. job'[a] = job[a] /\ Stands(a)
      BY <1>4, <2>3 DEF Moves, Only, IInv, WonInv
    <3>2. CASE job[a].call # c
      BY <2>2, <3>1, <3>2 DEF IInv, TypeOK, Stands
    <3>3. CASE job[a].call = c
      <4>1. row[c] # None /\ row'[c] = v /\ v # None
        BY <2>2, <3>1, <3>3, RowAssumption DEF IInv, TypeOK, Stands
      <4>2. row[c].status \notin Terminal
            /\ (row[c].accepted => v.accepted) /\ (row[c].connected => v.connected)
        BY <2>2, <4>1, ForwardRow DEF IInv, Status
      <4> QED
        BY <3>1, <3>3, <4>1, <4>2 DEF Stands
    <3> QED
      BY <3>2, <3>3
  <2> QED
    BY <2>1, <2>3
<1> QED
  BY <1>2, <1>3, <1>4 DEF Shape

(* A teller that is not the one who moved is where it was.                 *)
LEMMA SameTeller ==
  ASSUME IInv, NEW r \in Procs, Only(r), NEW q \in Procs, q # r, pc'[q] \in Telling
  PROVE  pc[q] \in Telling /\ Subject(q)' = Subject(q) /\ News(q)' = News(q)
BY DEF Only, Subject, News

LEMMA KeepsTold ==
  ASSUME IInv, TypeOK', Shape
  PROVE  TellInv'
<1>1. CASE UNCHANGED <<row, endings, pc, job>>
  BY <1>1 DEF IInv, TellInv, Subject, News, Status
<1>2. ASSUME NEW r \in Procs, Quiet(r)
      PROVE  TellInv'
  <2>1. \A c \in Taps : Status(c)' = Status(c)
    BY <1>2 DEF Quiet, Status
  <2>2. ASSUME NEW q \in Procs, pc'[q] \in Telling
        PROVE  q # r /\ pc[q] \in Telling /\ Subject(q)' = Subject(q) /\ News(q)' = News(q)
    BY <1>2, <2>2, SameTeller DEF Quiet
  <2> QED
    BY <1>2, <2>1, <2>2 DEF IInv, TellInv, Quiet
<1>3. ASSUME NEW r \in Procs, Tells(r)
      PROVE  TellInv'
  <2> DEFINE S == Subject(r)
  <2>1. \A c \in Taps : Status(c)' = Status(c)
    BY <1>3 DEF Tells, Status
  <2>2. ASSUME NEW q \in Procs, pc'[q] \in Telling
        PROVE  q # r /\ pc[q] \in Telling /\ Subject(q)' = Subject(q) /\ News(q)' = News(q)
    BY <1>3, <2>2, SameTeller DEF Tells
  <2>3. S \in Taps /\ News(r) \in Terminal /\ Status(S) = News(r) /\ endings[S] = <<>>
    BY <1>3 DEF Tells, IInv, TellInv
  <2>4. endings'[S] = <<News(r)>> /\ \A c \in Taps \ {S} : endings'[c] = endings[c]
    BY <1>3, <2>3 DEF Tells, IInv, TypeOK
  <2>5. \A c \in Taps : endings'[c] = <<>> \/ (Status(c)' \in Terminal /\ endings'[c] = <<Status(c)'>>)
    BY <2>1, <2>3, <2>4 DEF IInv, TellInv
  <2>6. ASSUME NEW q \in Procs, pc'[q] \in Telling
        PROVE  /\ Subject(q)' \in Taps /\ News(q)' \in Terminal
               /\ Status(Subject(q))' = News(q)' /\ endings'[Subject(q)'] = <<>>
    <3>1. q # r /\ pc[q] \in Telling /\ Subject(q)' = Subject(q) /\ News(q)' = News(q)
      BY <2>2, <2>6
    <3>2. Subject(q) # S
      BY <1>3, <3>1 DEF IInv, TellInv, Tells
    <3>3. /\ Subject(q) \in Taps /\ News(q) \in Terminal
          /\ Status(Subject(q)) = News(q) /\ endings[Subject(q)] = <<>>
      BY <3>1 DEF IInv, TellInv
    <3>4. Status(Subject(q))' = Status(Subject(q))
      BY <1>3, <3>1 DEF Tells, Status
    <3> QED
      BY <2>4, <3>1, <3>2, <3>3, <3>4
  <2> QED
    BY <2>2, <2>5, <2>6 DEF IInv, TellInv
<1>4. ASSUME NEW r \in Procs, NEW c \in Taps, Moves(r, c)
      PROVE  TellInv'
  <2>1. PICK v \in RowType : Forward(c, v) /\ row' = [row EXCEPT ![c] = v]
    BY <1>4 DEF Moves
  <2>2. Status(c) \notin Terminal /\ endings[c] = <<>>
    BY <2>1, ForwardRow DEF IInv, TellInv
  <2>3. \A d \in Taps \ {c} : Status(d)' = Status(d)
    BY <2>1 DEF IInv, TypeOK, Status
  <2>4. endings' = endings
    BY <1>4 DEF Moves
  <2>5. ASSUME NEW q \in Procs, pc'[q] \in Telling, q # r
        PROVE  /\ pc[q] \in Telling /\ Subject(q)' = Subject(q) /\ Subject(q) # c
               /\ Subject(q) \in Taps /\ News(q)' \in Terminal
               /\ Status(Subject(q))' = News(q)' /\ endings'[Subject(q)'] = <<>>
    <3>1. pc[q] \in Telling /\ Subject(q)' = Subject(q) /\ News(q)' = News(q)
      BY <1>4, <2>5, SameTeller DEF Moves
    <3>2. /\ Subject(q) \in Taps /\ News(q) \in Terminal
          /\ Status(Subject(q)) = News(q) /\ endings[Subject(q)] = <<>>
      BY <3>1 DEF IInv, TellInv
    <3>3. Subject(q) # c
      BY <2>2, <3>2
    <3>4. Status(Subject(q))' = Status(Subject(q))
      BY <2>1, <3>1, <3>2, <3>3 DEF IInv, TypeOK, Status
    <3> QED
      BY <2>4, <3>1, <3>2, <3>3, <3>4
  <2>6. ASSUME pc'[r] \in Telling
        PROVE  /\ Subject(r)' = c /\ News(r)' \in Terminal
               /\ Status(Subject(r))' = News(r)' /\ endings'[Subject(r)'] = <<>>
    <3>1. Subject(r)' = c /\ News(r)' = Status(c)' /\ Status(c)' \in Terminal
      BY <1>4, <2>6 DEF Moves
    <3>2. Status(Subject(r))' = Status(c)'
      BY <3>1 DEF Status
    <3> QED
      BY <2>2, <2>4, <3>1, <3>2
  <2>7. \A d \in Taps : endings'[d] = <<>> \/ (Status(d)' \in Terminal /\ endings'[d] = <<Status(d)'>>)
    BY <2>2, <2>3, <2>4 DEF IInv, TellInv
  <2>8. \A q, p \in Procs : pc'[q] \in Telling /\ pc'[p] \in Telling /\ Subject(q)' = Subject(p)' => q = p
    <3> SUFFICES ASSUME NEW q \in Procs, NEW p \in Procs,
                        pc'[q] \in Telling, pc'[p] \in Telling, Subject(q)' = Subject(p)'
                 PROVE  q = p
      OBVIOUS
    <3>1. CASE q # r /\ p # r
      <4>1. pc[q] \in Telling /\ pc[p] \in Telling /\ Subject(q) = Subject(p)
        BY <2>5, <3>1
      <4> QED
        BY <4>1 DEF IInv, TellInv
    <3>2. CASE q = r \/ p = r
      BY <2>5, <2>6, <3>2
    <3> QED
      BY <3>1, <3>2
  <2>9. \A q \in Procs : pc'[q] \in Telling =>
           /\ Subject(q)' \in Taps /\ News(q)' \in Terminal
           /\ Status(Subject(q))' = News(q)' /\ endings'[Subject(q)'] = <<>>
    BY <2>5, <2>6
  <2> QED
    BY <2>7, <2>8, <2>9 DEF TellInv
<1> QED
  BY <1>1, <1>2, <1>3, <1>4 DEF Shape

-----------------------------------------------------------------------------
(* Every step has one of the shapes.                                       *)

LEMMA Framed ==
  ASSUME IInv, NEW r \in Procs, Only(r), Own(r)
  PROVE  JobInv'
<1>1. ASSUME NEW t \in Taps
      PROVE  TapOk(t)'
  BY <1>1 DEF Own, Only, Procs, IInv, JobInv, TapOk
<1>2. ASSUME NEW a \in Acts
      PROVE  ActOk(a)'
  BY <1>2 DEF Own, Only, Procs, IInv, JobInv, ActOk
<1>3. ASSUME NEW w \in Workers
      PROVE  WorkOk(w)'
  BY <1>3 DEF Own, Only, Procs, IInv, JobInv, WorkOk
<1> QED
  BY <1>1, <1>2, <1>3 DEF JobInv

LEMMA KindOf ==
  /\ \A t \in Taps : t \in Procs /\ t \notin Acts /\ t \notin Workers
  /\ \A a \in Acts : a \in Procs /\ a \notin Taps /\ a \notin Workers
  /\ \A w \in Workers : w \in Procs /\ w \notin Taps /\ w \notin Acts
BY ProcsAssumption DEF Procs

LEMMA OnlyOne ==
  ASSUME IInv, NEW r \in Procs, NEW l \in PcType, NEW v \in JobType,
         pc' = [pc EXCEPT ![r] = l], job' = [job EXCEPT ![r] = v]
  PROVE  Only(r) /\ pc'[r] = l /\ job'[r] = v
BY DEF IInv, TypeOK, Only

LEMMA NoJobType == NoJob \in JobType /\ ~NoJob.won
BY DEF NoJob, JobType

LEMMA JobsTyped ==
  ASSUME IInv, NEW r \in Procs
  PROVE  job[r] \in JobType /\ pc[r] \in PcType /\ (job' = job => job' = [job EXCEPT ![r] = job[r]])
BY DEF IInv, TypeOK

-----------------------------------------------------------------------------
(* Placing a call.                                                         *)
LEMMA ReadsAreGood ==
  ASSUME IInv, NEW t \in Taps, InitiateKey(t) \/ InitiateCaller(t) \/ InitiateCallee(t)
  PROVE  Good
<1>1. PICK l \in {"done", "caller", "callee", "busy", "create"} : pc' = [pc EXCEPT ![t] = l]
  BY DEF InitiateKey, InitiateCaller, InitiateCallee, Goto
<1>2. job' = job /\ UNCHANGED <<row, late, jobs, endings, faults, scene>>
  BY DEF InitiateKey, InitiateCaller, InitiateCallee
<1>3. Only(t) /\ pc'[t] = l /\ job'[t] = job[t]
  BY <1>1, <1>2, KindOf DEF Only, IInv, TypeOK, PcType
<1>4. Own(t)
  BY <1>3, KindOf DEF Own, TapOk
<1>5. Quiet(t)
  BY <1>2, <1>3 DEF Quiet, Telling
<1> QED
  BY <1>2, <1>3, <1>4, <1>5, Framed, KindOf DEF Good, Shape, IInv, TypeOK, Only

LEMMA CreateBusyIsGood ==
  ASSUME IInv, NEW t \in Taps, CreateBusy(t)
  PROVE  Good
<1>1. /\ pc[t] = "busy" /\ job' = job /\ UNCHANGED <<late, jobs, endings, faults, scene>>
      /\ t \in Procs /\ t \notin Acts /\ t \notin Workers
  BY KindOf DEF CreateBusy
<1>2. CASE SameTap(t) = {}
  <2>1. row' = [row EXCEPT ![t] = NewRow("BUSY")] /\ pc' = [pc EXCEPT ![t] = "tellBusy"]
    BY <1>2 DEF CreateBusy, Goto
  <2>2. row[t] = None
    BY <1>2 DEF SameTap
  <2>3. NewRow("BUSY") \in RowType /\ Forward(t, NewRow("BUSY"))
    BY <2>2 DEF NewRow, RowType, Terminal, Forward
  <2>4. Only(t) /\ pc'[t] = "tellBusy" /\ job'[t] = job[t]
    BY <1>1, <2>1, JobsTyped, OnlyOne DEF PcType
  <2>5. Own(t)
    BY <1>1, <2>4 DEF Own, TapOk
  <2>6. row'[t] = NewRow("BUSY") /\ NewRow("BUSY") # None
    BY <2>1, <2>3, RowAssumption DEF IInv, TypeOK
  <2>7. Status(t)' = "BUSY"
    BY <2>6 DEF Status, NewRow
  <2>8. Subject(t)' = t /\ News(t)' = "BUSY"
    BY <2>4 DEF Subject, News
  <2>9. Moves(t, t)
    BY <1>1, <2>1, <2>3, <2>4, <2>7, <2>8 DEF Moves, Terminal
  <2> QED
    BY <1>1, <2>1, <2>3, <2>4, <2>5, <2>9, Framed DEF Good, Shape, IInv, TypeOK, Only
<1>3. CASE SameTap(t) # {}
  <2>1. row' = row /\ pc' = [pc EXCEPT ![t] = "done"]
    BY <1>3 DEF CreateBusy, Goto
  <2>2. Only(t) /\ pc'[t] = "done" /\ job'[t] = job[t]
    BY <1>1, <2>1, JobsTyped, OnlyOne DEF PcType
  <2>3. Own(t) /\ Quiet(t)
    BY <1>1, <2>1, <2>2 DEF Own, TapOk, Quiet, Telling
  <2> QED
    BY <1>1, <2>1, <2>2, <2>3, Framed DEF Good, Shape, IInv, TypeOK, Only
<1> QED
  BY <1>2, <1>3

LEMMA TellBusyIsGood ==
  ASSUME IInv, NEW t \in Taps, TellBusy(t)
  PROVE  Good
<1>1. /\ pc[t] = "tellBusy" /\ pc' = [pc EXCEPT ![t] = "done"] /\ job' = job
      /\ UNCHANGED <<row, late, jobs, faults, scene>>
      /\ endings' = [endings EXCEPT ![t] = Append(@, "BUSY")]
      /\ t \in Procs /\ t \notin Acts /\ t \notin Workers
  BY KindOf DEF TellBusy, Step, Goto, Publish
<1>2. Only(t) /\ pc'[t] = "done" /\ job'[t] = job[t]
  BY <1>1, JobsTyped, OnlyOne DEF PcType
<1>3. Own(t)
  BY <1>1, <1>2 DEF Own, TapOk
<1>4. Tells(t)
  BY <1>1, <1>2 DEF Tells, Telling, Subject, News
<1>5. endings' \in [Taps -> Seq(Terminal)]
  BY <1>1 DEF IInv, TypeOK, Terminal
<1> QED
  BY <1>1, <1>2, <1>3, <1>4, <1>5, Framed DEF Good, Shape, IInv, TypeOK, Only

LEMMA CreateIsGood ==
  ASSUME IInv, NEW t \in Taps, Create(t)
  PROVE  Good
<1>1. /\ UNCHANGED <<late, jobs, endings, faults, scene>>
      /\ t \in Procs /\ t \notin Acts /\ t \notin Workers
  BY KindOf DEF Create
<1>2. ASSUME NEW c \in Taps, Keep(t, "armRing", [job[t] EXCEPT !.call = c])
      PROVE  Only(t) /\ Own(t) /\ pc'[t] = "armRing"
  <2>1. [job[t] EXCEPT !.call = c] \in JobType
    BY <1>1, JobsTyped DEF JobType
  <2>2. Only(t) /\ pc'[t] = "armRing" /\ job'[t] = [job[t] EXCEPT !.call = c]
    BY <1>1, <1>2, <2>1, OnlyOne DEF Keep, Goto, PcType
  <2>3. job'[t].call = c
    BY <1>1, <2>2, JobsTyped DEF JobType
  <2> QED
    BY <1>1, <2>2, <2>3 DEF Own, TapOk
<1>3. CASE SameTap(t) = {}
  <2>1. row' = [row EXCEPT ![t] = NewRow("RINGING")] /\ Keep(t, "armRing", [job[t] EXCEPT !.call = t])
    BY <1>3 DEF Create
  <2>2. row[t] = None
    BY <1>3 DEF SameTap
  <2>3. NewRow("RINGING") \in RowType /\ Forward(t, NewRow("RINGING"))
    BY <2>2 DEF NewRow, RowType, Live, Forward
  <2>4. Only(t) /\ Own(t) /\ pc'[t] = "armRing"
    BY <1>2, <2>1
  <2>5. Moves(t, t)
    BY <1>1, <2>1, <2>3, <2>4 DEF Moves, Telling
  <2> QED
    BY <1>1, <2>1, <2>3, <2>4, <2>5, Framed DEF Good, Shape, IInv, TypeOK, Only
<1>4. CASE SameTap(t) # {}
  <2>1. PICK c \in SameTap(t) : Keep(t, "armRing", [job[t] EXCEPT !.call = c])
    BY <1>4 DEF Create
  <2>2. Only(t) /\ Own(t) /\ pc'[t] = "armRing" /\ row' = row
    BY <1>2, <1>4, <2>1 DEF SameTap, Create
  <2>3. Quiet(t)
    BY <1>1, <2>2 DEF Quiet, Telling
  <2> QED
    BY <1>1, <2>2, <2>3, Framed DEF Good, Shape, IInv, TypeOK, Only
<1> QED
  BY <1>3, <1>4

LEMMA FinishIsQuiet ==
  ASSUME IInv, NEW r \in Taps \cup Acts, Finish(r), UNCHANGED <<row, endings>>
  PROVE  Only(r) /\ Own(r) /\ Quiet(r)
<1>1. r \in Procs /\ r \notin Workers
  BY KindOf DEF Procs
<1>2. Only(r) /\ pc'[r] = "done" /\ job'[r] = NoJob
  BY <1>1, NoJobType, OnlyOne DEF Finish, Keep, Goto, PcType
<1> QED
  BY <1>1, <1>2, NoJobType DEF Own, TapOk, ActOk, Quiet, Telling

LEMMA ArmRingIsGood ==
  ASSUME IInv, NEW t \in Taps, ArmRing(t)
  PROVE  Good
<1>1. Only(t) /\ Own(t) /\ Quiet(t) /\ t \in Procs
  BY KindOf, FinishIsQuiet DEF ArmRing
<1>2. jobs' \subseteq JobIds
  <2>1. job[t].call \in Taps
    BY DEF ArmRing, IInv, JobInv, TapOk
  <2> QED
    BY <2>1 DEF ArmRing, IInv, TypeOK, JobIds, Live
<1>3. UNCHANGED <<row, late, endings, faults, scene>>
  BY DEF ArmRing
<1> QED
  BY <1>1, <1>2, <1>3, Framed DEF Good, Shape, IInv, TypeOK, Only

-----------------------------------------------------------------------------
(* Requests about a call.                                                  *)
LEMMA ReadForIsGood ==
  ASSUME IInv, NEW r \in Acts, NEW op \in Ops, NEW u \in Users \cup {None}, NEW c \in Taps,
         ReadFor(r, op, u, c), UNCHANGED <<row, late, jobs, endings, faults, scene>>
  PROVE  Good
<1>1. r \in Procs /\ r \notin Taps /\ r \notin Workers
  BY KindOf
<1>2. CASE Finish(r)
  BY <1>1, <1>2, FinishIsQuiet, Framed DEF Good, Shape, IInv, TypeOK, Only
<1>3. CASE ~Finish(r)
  <2> DEFINE v == [NoJob EXCEPT !.op = op, !.user = u, !.call = c]
  <2>1. PICK l \in {"reroute", "write"} : Keep(r, l, v)
    BY <1>3 DEF ReadFor
  <2>2. v \in JobType /\ ~v.won /\ v.call = c /\ v.op = op
    BY DEF NoJob, JobType
  <2>3. Only(r) /\ pc'[r] = l /\ job'[r] = v
    BY <1>1, <2>1, <2>2, OnlyOne DEF Keep, Goto, PcType
  <2> HIDE DEF v
  <2>4. Own(r)
    BY <1>1, <2>2, <2>3 DEF Own, ActOk
  <2>5. Quiet(r)
    BY <2>2, <2>3 DEF Quiet, Telling
  <2> QED
    BY <1>1, <2>3, <2>4, <2>5, Framed DEF Good, Shape, IInv, TypeOK, Only
<1> QED
  BY <1>2, <1>3

LEMMA ReadIsGood ==
  ASSUME IInv, NEW r \in Acts, Read(r)
  PROVE  Good
<1>1. scene \in SceneType
  BY ScenesAssumption DEF IInv, TypeOK
<1>2. scene.actor[r] \in Users \cup {None}
  BY <1>1 DEF SceneType
<1> QED
  BY <1>2, ReadForIsGood DEF Read

LEMMA RerouteIsGood ==
  ASSUME IInv, NEW r \in Acts, Reroute(r)
  PROVE  Good
<1>1. job[r].call \in Taps
  BY DEF Reroute, IInv, JobInv, ActOk
<1>2. job[r].user \in Users \cup {None}
  BY KindOf, JobsTyped DEF JobType
<1>3. {"cancel", "reject"} \subseteq Ops
  BY DEF Ops
<1> QED
  BY <1>1, <1>2, <1>3, ReadForIsGood DEF Reroute

(* An UPDATE that wins moves its row; one that loses moves nothing.        *)
LEMMA WriteIsGood ==
  ASSUME IInv, NEW r \in Acts, NEW c \in Taps, job[r].call = c, pc[r] = "write",
         NEW from \in SUBSET Live, NEW v, NEW next \in {"arm", "tell"},
         Transition(c, from, v), Decided(r, Won(c, from), next),
         UNCHANGED <<jobs, endings, faults, scene>>,
         Won(c, from) => v \in RowType /\ Forward(c, v),
         next = "tell" => v.status = EndsAs(job[r].op) /\ v.status \in Terminal,
         CASE job[r].op = "accept" -> v.accepted
           [] job[r].op = "connect" -> v.connected
           [] OTHER -> /\ v.status = EndsAs(job[r].op) /\ v.endedBy = job[r].user
                       /\ v.status \in Terminal
  PROVE  Good
<1>1. r \in Procs /\ r \notin Taps /\ r \notin Workers
  BY KindOf
<1>2. CASE ~Won(c, from)
  <2>1. Finish(r) /\ UNCHANGED <<row, late>>
    BY <1>2 DEF Decided, Transition
  <2> QED
    BY <1>1, <2>1, FinishIsQuiet, Framed DEF Good, Shape, IInv, TypeOK, Only
<1>3. CASE Won(c, from)
  <2> DEFINE w == [job[r] EXCEPT !.won = TRUE]
  <2>1. Keep(r, next, w) /\ row' = [row EXCEPT ![c] = v] /\ late' = late \ {c}
    BY <1>3 DEF Decided, Transition
  <2>2. job[r] \in JobType /\ job[r].op \in Ops
    BY <1>1, JobsTyped DEF IInv, JobInv, ActOk
  <2>3. /\ w \in JobType /\ w.call = c /\ w.op = job[r].op /\ w.user = job[r].user
    BY <2>2 DEF JobType
  <2>4. Only(r) /\ pc'[r] = next /\ job'[r] = w
    BY <1>1, <2>1, <2>3, OnlyOne DEF Keep, Goto, PcType
  <2> HIDE DEF w
  <2>5. Own(r)
    BY <1>1, <2>2, <2>3, <2>4 DEF Own, ActOk
  <2>6. row'[c] = v /\ v # None /\ v \in RowType /\ Forward(c, v)
    BY <1>3, <2>1, RowAssumption DEF IInv, TypeOK
  <2>7. Status(c)' = v.status
    BY <2>6 DEF Status
  <2>8. Stands(r)'
    BY <2>3, <2>4, <2>6 DEF Stands
  <2>9. pc'[r] \in Telling => Subject(r)' = c /\ News(r)' = Status(c)' /\ Status(c)' \in Terminal
    BY <2>3, <2>4, <2>7 DEF Subject, News, Telling
  <2>10. Moves(r, c)
    BY <2>1, <2>4, <2>6, <2>8, <2>9 DEF Moves
  <2> QED
    BY <1>1, <2>1, <2>4, <2>5, <2>6, <2>10, Framed DEF Good, Shape, IInv, TypeOK, Only
<1> QED
  BY <1>2, <1>3

LEMMA WonRow ==
  ASSUME IInv, NEW c \in Taps, NEW from \in SUBSET Live, Won(c, from)
  PROVE  row[c] \in RowType /\ row[c].status \in from /\ Status(c) = row[c].status
<1>1. row[c] # None
  BY NoneAssumption DEF Won, Status, Live
<1> QED
  BY <1>1 DEF IInv, TypeOK, Won, Status

LEMMA MarkAcceptedIsGood ==
  ASSUME IInv, NEW r \in Acts, MarkAccepted(r)
  PROVE  Good
<1> DEFINE c == job[r].call
           v == [row[c] EXCEPT !.status = "ACCEPTED", !.accepted = TRUE]
<1>1. c \in Taps /\ pc[r] = "write" /\ job[r].op = "accept"
  BY DEF MarkAccepted, IInv, JobInv, ActOk
<1>2. From("accept") = {"RINGING"} /\ {"RINGING"} \subseteq Live
  BY DEF From, Live
<1>3. CASE Won(c, From("accept"))
  <2>1. row[c] \in RowType /\ Status(c) = "RINGING"
    BY <1>1, <1>2, <1>3, WonRow
  <2>2. v \in RowType /\ v.accepted
    BY <2>1 DEF RowType, Live
  <2>3. Forward(c, v)
    BY <2>1 DEF Forward
  <2> QED
    BY <1>1, <1>2, <2>2, <2>3, WriteIsGood DEF MarkAccepted
<1>4. CASE ~Won(c, From("accept"))
  <2>1. Finish(r) /\ UNCHANGED <<row, late>>
    BY <1>4 DEF MarkAccepted, Decided, Transition
  <2> QED
    BY <2>1, KindOf, FinishIsQuiet, Framed
    DEF MarkAccepted, Good, Shape, IInv, TypeOK, Only
<1> QED
  BY <1>3, <1>4

LEMMA MarkConnectedIsGood ==
  ASSUME IInv, NEW r \in Acts, MarkConnected(r)
  PROVE  Good
<1> DEFINE c == job[r].call
           v == [row[c] EXCEPT !.status = "CONNECTED", !.connected = TRUE]
<1>1. c \in Taps /\ pc[r] = "write" /\ job[r].op = "connect"
  BY DEF MarkConnected, IInv, JobInv, ActOk
<1>2. From("connect") = {"ACCEPTED"} /\ {"ACCEPTED"} \subseteq Live
  BY DEF From, Live
<1>3. CASE Won(c, From("connect"))
  <2>1. row[c] \in RowType /\ Status(c) = "ACCEPTED"
    BY <1>1, <1>2, <1>3, WonRow
  <2>2. v \in RowType /\ v.connected
    BY <2>1 DEF RowType, Live
  <2>3. Forward(c, v)
    BY <2>1 DEF Forward
  <2> QED
    BY <1>1, <1>2, <2>2, <2>3, WriteIsGood DEF MarkConnected
<1>4. CASE ~Won(c, From("connect"))
  <2>1. Finish(r) /\ UNCHANGED <<row, late>>
    BY <1>4 DEF MarkConnected, Decided, Transition
  <2> QED
    BY <2>1, KindOf, FinishIsQuiet, Framed
    DEF MarkConnected, Good, Shape, IInv, TypeOK, Only
<1> QED
  BY <1>3, <1>4

LEMMA TerminateIsGood ==
  ASSUME IInv, NEW r \in Acts, Terminate(r)
  PROVE  Good
<1> DEFINE c == job[r].call  op == job[r].op  from == From(op)
           v == Terminated(c, EndsAs(op), job[r].user)
<1>1. c \in Taps /\ pc[r] = "write" /\ op \in {"reject", "cancel", "end", "fail"}
  BY DEF Terminate, IInv, JobInv, ActOk, Ops
<1>2. from \subseteq Live /\ EndsAs(op) \in Terminal
      /\ \A s \in from : EndsAs(op) \in Life!Endings[s]
  BY <1>1 DEF From, Live, Hangup, EndsAs, Terminal, Life!Endings
<1>3. job[r].user \in Users \cup {None}
  BY KindOf, JobsTyped DEF JobType
<1>4. Transition(c, from, v) /\ Decided(r, Won(c, from), "tell")
      /\ UNCHANGED <<jobs, endings, faults, scene>>
  BY DEF Terminate
<1>5. CASE Won(c, from)
  <2>1. row[c] \in RowType /\ row[c].status \in from /\ Status(c) = row[c].status
    BY <1>1, <1>2, <1>5, WonRow
  <2>2. v \in RowType /\ v.status = EndsAs(op) /\ v.endedBy = job[r].user
    BY <1>2, <1>3, <2>1 DEF RowType, Terminated
  <2>3. Forward(c, v)
    BY <1>2, <1>3, <2>1 DEF Forward
  <2> HIDE DEF v, from
  <2> QED
    BY <1>1, <1>2, <1>4, <2>2, <2>3, WriteIsGood
<1>6. CASE ~Won(c, from)
  <2>1. Finish(r) /\ UNCHANGED <<row, late>>
    BY <1>4, <1>6 DEF Decided, Transition
  <2> QED
    BY <1>4, <2>1, KindOf, FinishIsQuiet, Framed DEF Good, Shape, IInv, TypeOK, Only
<1> QED
  BY <1>5, <1>6

LEMMA AfterIsGood ==
  ASSUME IInv, NEW r \in Acts, Arm(r) \/ Disarm(r)
  PROVE  Good
<1>1. /\ r \in Procs /\ r \notin Taps /\ r \notin Workers
      /\ pc' = [pc EXCEPT ![r] = "done"] /\ job' = job
      /\ UNCHANGED <<row, late, endings, faults, scene>>
  BY KindOf DEF Arm, Disarm, Step, Goto
<1>2. Only(r) /\ pc'[r] = "done" /\ job'[r] = job[r]
  BY <1>1, JobsTyped, OnlyOne DEF PcType
<1>3. Own(r) /\ Quiet(r)
  BY <1>1, <1>2 DEF Own, ActOk, Quiet, Telling
<1>4. jobs' \subseteq JobIds
  <2>1. CASE Disarm(r)
    BY <2>1 DEF Disarm, IInv, TypeOK
  <2>2. CASE Arm(r)
    <3>1. job[r].call \in Taps /\ StageOf(job[r].op) \in Live
      BY <2>2 DEF Arm, Step, IInv, JobInv, ActOk, StageOf, Live
    <3> QED
      BY <2>2, <3>1 DEF Arm, IInv, TypeOK, JobIds
  <2> QED
    BY <2>1, <2>2
<1> QED
  BY <1>1, <1>2, <1>3, <1>4, Framed DEF Good, Shape, IInv, TypeOK, Only

LEMMA TellIsGood ==
  ASSUME IInv, NEW r \in Acts, Tell(r)
  PROVE  Good
<1>1. /\ pc[r] = "tell" /\ pc' = [pc EXCEPT ![r] = "disarm"] /\ job' = job
      /\ UNCHANGED <<row, late, jobs, faults, scene>>
      /\ endings' = [endings EXCEPT ![job[r].call] = Append(@, EndsAs(job[r].op))]
      /\ r \in Procs /\ r \notin Taps /\ r \notin Workers
  BY KindOf DEF Tell, Step, Goto, Publish
<1>2. Only(r) /\ pc'[r] = "disarm" /\ job'[r] = job[r]
  BY <1>1, JobsTyped, OnlyOne DEF PcType
<1>3. job[r].call \in Taps /\ job[r].op \in Ops
  BY <1>1 DEF IInv, JobInv, ActOk
<1>4. Own(r)
  BY <1>1, <1>2, <1>3 DEF Own, ActOk
<1>5. Tells(r)
  BY <1>1, <1>2 DEF Tells, Telling, Subject, News
<1>6. EndsAs(job[r].op) \in Terminal
  BY <1>1 DEF IInv, TellInv, News, Telling
<1>7. endings' \in [Taps -> Seq(Terminal)]
  BY <1>1, <1>3, <1>6 DEF IInv, TypeOK
<1> QED
  BY <1>1, <1>2, <1>4, <1>5, <1>7, Framed DEF Good, Shape, IInv, TypeOK, Only

-----------------------------------------------------------------------------
(* The queue.                                                              *)
LEMMA TimeIsGood ==
  ASSUME IInv, (\E c \in Taps : DeadlinePasses(c)) \/ (\E j \in JobIds : LoseJob(j))
  PROVE  Good
<1>1. UNCHANGED <<row, endings, pc, job, scene>>
  BY DEF DeadlinePasses, LoseJob
<1>2. JobInv'
  BY <1>1 DEF IInv, JobInv, TapOk, ActOk, WorkOk
<1>3. late' \subseteq Taps /\ jobs' \subseteq JobIds /\ faults' \in 0 .. MaxFaults
  BY ProcsAssumption DEF DeadlinePasses, LoseJob, IInv, TypeOK
<1> QED
  BY <1>1, <1>2, <1>3 DEF Good, Shape, IInv, TypeOK

LEMMA PicksAreGood ==
  ASSUME IInv, NEW w \in Workers, TakeJob(w) \/ Reap(w) \/ ReapNext(w)
  PROVE  Good
<1>1. /\ w \in Procs /\ w \notin Taps /\ w \notin Acts
      /\ UNCHANGED <<row, late, endings, faults, scene>> /\ jobs' \subseteq JobIds
  BY KindOf DEF TakeJob, Reap, ReapNext, IInv, TypeOK
<1>2. ASSUME NEW l \in {"idle", "expire"}, NEW v \in JobType, Keep(w, l, v),
             l = "expire" => v.stage \in Live
      PROVE  Good
  <2>1. Only(w) /\ pc'[w] = l /\ job'[w] = v
    BY <1>1, <1>2, OnlyOne DEF Keep, Goto, PcType
  <2>2. Own(w) /\ Quiet(w)
    BY <1>1, <1>2, <2>1 DEF Own, WorkOk, Quiet, Telling
  <2> QED
    BY <1>1, <2>1, <2>2, Framed DEF Good, Shape, IInv, TypeOK, Only
<1>3. CASE TakeJob(w)
  <2>1. PICK j \in jobs : Keep(w, "expire", [NoJob EXCEPT !.stage = j[2], !.todo = {j[1]}])
    BY <1>3 DEF TakeJob
  <2>2. j[1] \in Taps /\ j[2] \in Live
    BY DEF IInv, TypeOK, JobIds
  <2>3. /\ [NoJob EXCEPT !.stage = j[2], !.todo = {j[1]}] \in JobType
        /\ [NoJob EXCEPT !.stage = j[2], !.todo = {j[1]}].stage = j[2]
    BY <2>2 DEF NoJob, JobType
  <2> QED
    BY <1>2, <2>1, <2>2, <2>3
<1>4. ASSUME NEW s \in Live, NEW S \in Found(s)
      PROVE  S \subseteq Taps
  BY DEF Found, Overdue, IInv, TypeOK
<1>5. CASE Reap(w)
  <2>1. PICK S \in Found("RINGING") :
             Keep(w, "expire", [NoJob EXCEPT !.stage = "RINGING", !.todo = S, !.sweep = TRUE])
    BY <1>5 DEF Reap
  <2>2. S \subseteq Taps
    BY <1>4 DEF Live
  <2>3. /\ [NoJob EXCEPT !.stage = "RINGING", !.todo = S, !.sweep = TRUE] \in JobType
        /\ [NoJob EXCEPT !.stage = "RINGING", !.todo = S, !.sweep = TRUE].stage \in Live
    BY <2>2 DEF NoJob, JobType, Live
  <2> QED
    BY <1>2, <2>1, <2>3
<1>6. CASE ReapNext(w)
  <2>1. CASE job[w].sweep /\ job[w].stage # "CONNECTED"
    <3> DEFINE s == NextStage(job[w].stage)
    <3>1. PICK S \in Found(s) : Keep(w, "expire", [job[w] EXCEPT !.stage = s, !.todo = S])
      BY <1>6, <2>1 DEF ReapNext
    <3>2. s \in Live
      BY DEF NextStage, Live
    <3>3. S \subseteq Taps
      BY <1>4, <3>2
    <3> HIDE DEF s
    <3>4. /\ [job[w] EXCEPT !.stage = s, !.todo = S] \in JobType
          /\ [job[w] EXCEPT !.stage = s, !.todo = S].stage = s
      BY <1>1, <3>2, <3>3, JobsTyped DEF JobType
    <3> QED
      BY <1>2, <3>1, <3>2, <3>4
  <2>2. CASE ~(job[w].sweep /\ job[w].stage # "CONNECTED")
    BY <1>2, <1>6, <2>2, NoJobType DEF ReapNext
  <2> QED
    BY <2>1, <2>2
<1> QED
  BY <1>3, <1>5, <1>6

LEMMA ExpireIsGood ==
  ASSUME IInv, NEW w \in Workers, Expire(w)
  PROVE  Good
<1> DEFINE s == job[w].stage
<1>1. /\ w \in Procs /\ w \notin Taps /\ w \notin Acts /\ pc[w] = "expire" /\ s \in Live
      /\ job[w] \in JobType /\ UNCHANGED <<jobs, endings, faults, scene>>
  BY KindOf, JobsTyped DEF Expire, IInv, JobInv, WorkOk
<1>2. PICK c \in job[w].todo :
        LET rest == [job[w] EXCEPT !.todo = @ \ {c}] IN
        /\ Transition(c, {s}, Terminated(c, ExpiresAs(s), None))
        /\ IF Won(c, {s}) THEN Keep(w, "tellExpired", [rest EXCEPT !.call = c])
           ELSE Keep(w, "expire", rest)
  BY DEF Expire
<1> DEFINE rest == [job[w] EXCEPT !.todo = @ \ {c}]
           v == Terminated(c, ExpiresAs(s), None)
<1>3. c \in Taps /\ rest \in JobType /\ rest.stage = s
  BY <1>1 DEF JobType
<1>4. CASE ~Won(c, {s})
  <2>1. Keep(w, "expire", rest) /\ UNCHANGED <<row, late>>
    BY <1>2, <1>4 DEF Transition
  <2> HIDE DEF rest
  <2>2. Only(w) /\ pc'[w] = "expire" /\ job'[w] = rest
    BY <1>1, <1>3, <2>1, OnlyOne DEF Keep, Goto, PcType
  <2>3. Own(w) /\ Quiet(w)
    BY <1>1, <1>3, <2>1, <2>2 DEF Own, WorkOk, Quiet, Telling
  <2> QED
    BY <1>1, <2>1, <2>2, <2>3, Framed DEF Good, Shape, IInv, TypeOK, Only
<1>5. CASE Won(c, {s})
  <2> DEFINE t == [rest EXCEPT !.call = c]
  <2>1. Keep(w, "tellExpired", t) /\ row' = [row EXCEPT ![c] = v] /\ late' = late \ {c}
    BY <1>2, <1>5 DEF Transition
  <2>2. t \in JobType /\ t.call = c /\ t.stage = s
    BY <1>3 DEF JobType
  <2> HIDE DEF t, rest
  <2>3. Only(w) /\ pc'[w] = "tellExpired" /\ job'[w] = t
    BY <1>1, <2>1, <2>2, OnlyOne DEF Keep, Goto, PcType
  <2>4. row[c] \in RowType /\ row[c].status = s /\ Status(c) = s
    BY <1>1, <1>3, <1>5, WonRow
  <2>5. ExpiresAs(s) \in Terminal /\ ExpiresAs(s) \in Life!Endings[s]
    BY <1>1 DEF Live, ExpiresAs, Terminal, Life!Endings
  <2>6. v \in RowType /\ v.status = ExpiresAs(s)
    BY <2>4, <2>5 DEF Terminated, RowType
  <2>7. Forward(c, v)
    BY <1>1, <2>4, <2>5 DEF Forward
  <2> HIDE DEF v, s
  <2>8. row'[c] = v /\ v # None
    BY <1>3, <2>1, <2>6, RowAssumption DEF IInv, TypeOK
  <2>9. Status(c)' = ExpiresAs(s)
    BY <2>6, <2>8 DEF Status
  <2>10. Subject(w)' = c /\ News(w)' = ExpiresAs(s)
    BY <2>2, <2>3 DEF Subject, News
  <2>11. Moves(w, c)
    BY <1>1, <2>1, <2>3, <2>5, <2>6, <2>7, <2>9, <2>10 DEF Moves
  <2>12. Own(w)
    BY <1>1, <1>3, <2>2, <2>3 DEF Own, WorkOk
  <2> QED
    BY <1>1, <1>3, <2>1, <2>3, <2>6, <2>11, <2>12, Framed DEF Good, Shape, IInv, TypeOK, Only
<1> QED
  BY <1>4, <1>5

LEMMA TellExpiredIsGood ==
  ASSUME IInv, NEW w \in Workers, TellExpired(w)
  PROVE  Good
<1>1. /\ pc[w] = "tellExpired" /\ pc' = [pc EXCEPT ![w] = "expire"] /\ job' = job
      /\ UNCHANGED <<row, late, jobs, faults, scene>>
      /\ endings' = [endings EXCEPT ![job[w].call] = Append(@, ExpiresAs(job[w].stage))]
      /\ w \in Procs /\ w \notin Taps /\ w \notin Acts
  BY KindOf DEF TellExpired, Step, Goto, Publish
<1>2. Only(w) /\ pc'[w] = "expire" /\ job'[w] = job[w]
  BY <1>1, JobsTyped, OnlyOne DEF PcType
<1>3. job[w].call \in Taps /\ job[w].stage \in Live
  BY <1>1 DEF IInv, JobInv, WorkOk
<1>4. Own(w)
  BY <1>1, <1>2, <1>3 DEF Own, WorkOk
<1>5. Tells(w)
  BY <1>1, <1>2 DEF Tells, Telling, Subject, News
<1>6. ExpiresAs(job[w].stage) \in Terminal
  BY <1>1 DEF IInv, TellInv, News, Telling
<1>7. endings' \in [Taps -> Seq(Terminal)]
  BY <1>1, <1>3, <1>6 DEF IInv, TypeOK
<1> QED
  BY <1>1, <1>2, <1>4, <1>5, <1>7, Framed DEF Good, Shape, IInv, TypeOK, Only

LEMMA CrashIsGood ==
  ASSUME IInv, NEW r \in Procs, Crash(r)
  PROVE  Good
<1>1. UNCHANGED <<row, late, jobs, endings, scene>> /\ faults' \in 0 .. MaxFaults
  BY ProcsAssumption DEF Crash, IInv, TypeOK
<1>2. PICK l \in {"idle", "done"} : Keep(r, l, NoJob) /\ (r \in Workers => l = "idle")
  BY DEF Crash
<1>3. Only(r) /\ pc'[r] = l /\ job'[r] = NoJob
  BY <1>2, NoJobType, OnlyOne DEF Keep, Goto, PcType
<1>4. Own(r) /\ Quiet(r)
  BY <1>1, <1>2, <1>3, NoJobType DEF Own, TapOk, ActOk, WorkOk, Quiet, Telling
<1> QED
  BY <1>1, <1>3, <1>4, Framed DEF Good, Shape, IInv, TypeOK, Only

-----------------------------------------------------------------------------
(* The invariant.                                                          *)
LEMMA StepIsGood ==
  ASSUME IInv, Next
  PROVE  Good
<1>1. CASE \E t \in Taps : Tap(t)
  BY <1>1, ReadsAreGood, CreateBusyIsGood, TellBusyIsGood, CreateIsGood, ArmRingIsGood DEF Tap
<1>2. CASE \E r \in Acts : Read(r) \/ Act(r)
  BY <1>2, ReadIsGood, RerouteIsGood, MarkAcceptedIsGood, MarkConnectedIsGood, TerminateIsGood,
     AfterIsGood, TellIsGood DEF Act
<1>3. CASE \E w \in Workers : TakeJob(w) \/ Reap(w) \/ Work(w)
  BY <1>3, PicksAreGood, ExpireIsGood, TellExpiredIsGood DEF Work
<1>4. CASE (\E c \in Taps : DeadlinePasses(c)) \/ (\E j \in JobIds : LoseJob(j))
  BY <1>4, TimeIsGood
<1>5. CASE \E r \in Procs : Crash(r)
  BY <1>5, CrashIsGood
<1> QED
  BY <1>1, <1>2, <1>3, <1>4, <1>5 DEF Next

LEMMA InitIInv == Init => IInv
<1> SUFFICES ASSUME Init PROVE IInv
  OBVIOUS
<1>1. TypeOK
  BY NoJobType, ProcsAssumption DEF Init, TypeOK, JobIds, PcType
<1>2. JobInv
  BY DEF Init, JobInv, TapOk, ActOk, WorkOk, Procs
<1>3. AnsweredOrNot
  BY DEF Init, AnsweredOrNot
<1>4. WonInv
  BY NoJobType DEF Init, WonInv, Procs
<1>5. TellInv
  BY DEF Init, TellInv, Telling
<1> QED
  BY <1>1, <1>2, <1>3, <1>4, <1>5 DEF IInv

LEMMA NextIInv == IInv /\ [Next]_vars => IInv'
<1>1. ASSUME IInv, Next PROVE IInv'
  BY <1>1, StepIsGood, KeepsAnswered, KeepsWon, KeepsTold DEF Good, IInv
<1>2. ASSUME IInv, UNCHANGED vars PROVE IInv'
  <2>1. TypeOK' /\ JobInv' /\ Shape
    BY <1>2 DEF vars, IInv, TypeOK, JobInv, TapOk, ActOk, WorkOk, Shape
  <2> QED
    BY <1>2, <2>1, KeepsAnswered, KeepsWon, KeepsTold DEF IInv
<1> QED
  BY <1>1, <1>2

LEMMA Invariance == Spec => []IInv
<1> QED
  BY InitIInv, NextIInv, PTL DEF Spec

(* Rows are well formed and consistent, and what a request was told it did *)
(* stands, however requests, deadline jobs and the sweep race.             *)
THEOREM RowsAlwaysOK == Spec => []RowsOK
<1>1. IInv => RowsOK
  <2> SUFFICES ASSUME IInv PROVE WinnerStands
    BY DEF IInv, RowsOK
  <2> QED
    BY DEF IInv, WonInv, Stands, WinnerStands
<1> QED
  BY <1>1, Invariance, PTL

-----------------------------------------------------------------------------
(* The table and the bus implement CallLife.                               *)
Stat == [c \in Taps |-> Status(c)]
Anno == [c \in Taps |-> Announced(c)]

LEMMA StillIsStutter ==
  ASSUME row' = row, endings' = endings
  PROVE  Stat' = Stat /\ Anno' = Anno
BY DEF Stat, Anno, Status, Announced

LEMMA MovesAdvance ==
  ASSUME IInv, TypeOK', NEW r \in Procs, NEW c \in Taps, Moves(r, c)
  PROVE  Life!Attempt(c) \/ Life!Answer(c) \/ Life!Connect(c) \/ Life!Terminate(c)
<1>1. PICK v \in RowType : Forward(c, v) /\ row' = [row EXCEPT ![c] = v]
  BY DEF Moves
<1>2. Anno' = Anno
  BY DEF Moves, Anno, Announced
<1>3. row'[c] = v /\ v # None
  BY <1>1, RowAssumption DEF IInv, TypeOK
<1>4. Status(c)' = v.status
  BY <1>3 DEF Status
<1>5. \A d \in Taps \ {c} : Status(d)' = Status(d)
  BY <1>1 DEF IInv, TypeOK, Status
<1>6. Stat' = [Stat EXCEPT ![c] = v.status]
  BY <1>4, <1>5 DEF Stat
<1>7. Life!Become(c, v.status)
  BY <1>2, <1>6 DEF Life!Become, Stat, Anno
<1>8. Stat[c] = Status(c)
  BY DEF Stat
<1>9. CASE row[c] = None /\ v \in {NewRow("RINGING"), NewRow("BUSY")}
  BY <1>7, <1>9 DEF NewRow, Status, Life!Attempt
<1>10. row[c] # None => row[c] \in RowType /\ Status(c) = row[c].status
  BY DEF IInv, TypeOK, Status
<1>11. CASE Status(c) = "RINGING" /\ v = [row[c] EXCEPT !.status = "ACCEPTED", !.accepted = TRUE]
  <2>1. row[c] # None
    BY <1>11, NoneAssumption DEF Status
  <2>2. v.status = "ACCEPTED"
    BY <1>10, <1>11, <2>1 DEF RowType
  <2> QED
    BY <1>7, <1>11, <2>2 DEF Life!Answer
<1>12. CASE Status(c) = "ACCEPTED" /\ v = [row[c] EXCEPT !.status = "CONNECTED", !.connected = TRUE]
  <2>1. row[c] # None
    BY <1>12, NoneAssumption DEF Status
  <2>2. v.status = "CONNECTED"
    BY <1>10, <1>12, <2>1 DEF RowType
  <2> QED
    BY <1>7, <1>12, <2>2 DEF Life!Connect
<1>13. CASE Status(c) \in Live /\ \E s \in Life!Endings[Status(c)], u \in Users \cup {None} :
                                     v = Terminated(c, s, u)
  <2>1. row[c] # None
    BY <1>13, NoneAssumption DEF Status, Live
  <2>2. PICK s \in Life!Endings[Status(c)] : v.status = s
    BY <1>10, <1>13, <2>1 DEF RowType, Terminated
  <2> QED
    BY <1>7, <1>13, <2>2 DEF Life!Terminate, Life!Live, Live
<1> QED
  BY <1>1, <1>9, <1>11, <1>12, <1>13 DEF Forward

LEMMA TellsAnnounce ==
  ASSUME IInv, NEW r \in Procs, Tells(r), NEW c \in Taps, c = Subject(r)
  PROVE  Life!Announce(c)
<1>1. News(r) \in Terminal /\ Status(c) = News(r) /\ endings[c] = <<>>
  BY DEF Tells, IInv, TellInv
<1>2. endings'[c] = <<Status(c)>> /\ \A d \in Taps \ {c} : endings'[d] = endings[d]
  BY <1>1 DEF Tells, IInv, TypeOK
<1>3. <<Status(c)>> # <<>> /\ Len(<<Status(c)>>) = 1 /\ <<Status(c)>>[1] = Status(c)
  OBVIOUS
<1>4. Announced(c) = None
  BY <1>1 DEF Announced
<1>5. Announced(c)' = Status(c)
  BY <1>2, <1>3 DEF Announced
<1>6. \A d \in Taps \ {c} : Announced(d)' = Announced(d)
  BY <1>2 DEF Announced
<1>7. Anno' = [Anno EXCEPT ![c] = Stat[c]] /\ Anno[c] = None /\ Stat[c] \in Terminal
  BY <1>1, <1>4, <1>5, <1>6 DEF Anno, Stat
<1>8. Stat' = Stat
  BY DEF Tells, Stat, Status
<1> QED
  BY <1>7, <1>8 DEF Life!Announce, Life!Terminal, Terminal, Stat, Anno

(* Forward only, one ending, announced once and as what it was: the safety *)
(* part of CallLife, which the schema of the calls table states.           *)
THEOREM KeepsCallLife == Spec => Life!Safety
<1>1. Init => Life!Init
  BY DEF Init, Life!Init, Status, Announced
<1>2. IInv /\ IInv' /\ [Next]_vars => [Life!Next]_(Life!vars)
  <2> SUFFICES ASSUME IInv, IInv', [Next]_vars PROVE [Life!Next]_(Life!vars)
    OBVIOUS
  <2>1. Shape
    BY StepIsGood DEF Good, Shape, vars
  <2>2. CASE UNCHANGED <<row, endings>>
    BY <2>2, StillIsStutter DEF Life!vars, Stat, Anno
  <2>3. ASSUME NEW r \in Procs, NEW c \in Taps, Moves(r, c) PROVE Life!Next
    BY <2>3, MovesAdvance DEF IInv, Life!Next
  <2>4. ASSUME NEW r \in Procs, Tells(r) PROVE Life!Next
    <3>1. Subject(r) \in Taps
      BY <2>4 DEF Tells, IInv, TellInv
    <3>2. PICK c \in Taps : c = Subject(r)
      BY <3>1
    <3> QED
      BY <2>4, <3>2, TellsAnnounce DEF Life!Next
  <2> QED
    BY <2>1, <2>2, <2>3, <2>4 DEF Shape, Quiet
<1> QED
  BY <1>1, <1>2, Invariance, PTL DEF Spec, Life!Safety
-----------------------------------------------------------------------------
(* Who still watches a live call when its job is not in the queue: the     *)
(* request that is about to arm it, or the worker that took the job and    *)
(* has yet to look at the call.                                            *)
Watches(r, c) ==
    \/ r \in Taps /\ pc[r] = "armRing" /\ job[r].call = c /\ Status(c) = "RINGING"
    \/ r \in Acts /\ pc[r] = "arm" /\ job[r].call = c /\ Status(c) = StageOf(job[r].op)
    \/ /\ r \in Workers /\ pc[r] \in {"expire", "tellExpired"}
       /\ c \in job[r].todo /\ Status(c) = job[r].stage
InQueue(c) == <<c, Status(c)>> \in jobs
Watched(c) == InQueue(c) \/ \E r \in Procs : Watches(r, c)

(* Deadlines are only dropped by a request that has ended the call.        *)
Closed(r) ==
    r \in Acts /\ pc[r] \in {"tell", "disarm"} =>
        job[r].won /\ job[r].op \notin {"accept", "connect"}

WatchInv ==
    /\ \A r \in Procs : Closed(r)
    /\ faults = 0 => \A c \in Taps : Status(c) \in Live => Watched(c)

Others(r) == \A q \in Procs \ {r} : pc'[q] = pc[q] /\ job'[q] = job[q]

LEMMA KeepIs ==
  ASSUME IInv, NEW r \in Procs, NEW l, NEW v, Keep(r, l, v)
  PROVE  pc'[r] = l /\ job'[r] = v /\ Others(r)
BY DEF IInv, TypeOK, Keep, Goto, Others

LEMMA GotoIs ==
  ASSUME IInv, NEW r \in Procs, NEW l, Goto(r, l), job' = job
  PROVE  pc'[r] = l /\ job'[r] = job[r] /\ Others(r)
BY DEF IInv, TypeOK, Goto, Others

(* What the step of one process owes a live call: to watch it, to put its  *)
(* job into the queue, or to leave alone what watches it.                  *)
Left(r, c) ==
    Status(c)' = Status(c) /\ (InQueue(c) => InQueue(c)') /\ ~Watches(r, c)
Cares(r, c) == Watches(r, c)' \/ InQueue(c)' \/ Left(r, c)

LEMMA WatchKept ==
  ASSUME WatchInv, NEW r \in Procs, Others(r), Closed(r)', faults' = faults,
         \A c \in Taps : faults = 0 /\ Status(c)' \in Live => Cares(r, c)
  PROVE  WatchInv'
<1>1. ASSUME NEW q \in Procs PROVE Closed(q)'
  <2>1. CASE q = r
    BY <2>1
  <2>2. CASE q # r
    BY <2>2 DEF WatchInv, Closed, Others
  <2> QED
    BY <2>1, <2>2
<1>2. ASSUME faults' = 0, NEW c \in Taps, Status(c)' \in Live PROVE Watched(c)'
  <2>1. CASE Watches(r, c)' \/ InQueue(c)'
    BY <2>1 DEF Watched
  <2>2. CASE Left(r, c)
    <3>1. Status(c)' = Status(c) /\ Watched(c)
      BY <1>2, <2>2 DEF Left, WatchInv
    <3>2. CASE InQueue(c)
      BY <2>2, <3>2 DEF Left, Watched
    <3>3. CASE \E q \in Procs : Watches(q, c)
      <4>1. PICK q \in Procs : Watches(q, c)
        BY <3>3
      <4>2. q # r
        BY <2>2, <4>1 DEF Left
      <4>3. Watches(q, c)'
        BY <3>1, <4>1, <4>2 DEF Watches, Others
      <4> QED
        BY <4>3 DEF Watched
    <3> QED
      BY <3>1, <3>2, <3>3 DEF Watched
  <2> QED
    BY <1>2, <2>1, <2>2 DEF Cares
<1> QED
  BY <1>1, <1>2 DEF WatchInv

(* The common case: nothing happens to the rows or the jobs, and who moves *)
(* was watching nothing.                                                   *)
LEMMA StillWatched ==
  ASSUME WatchInv, NEW r \in Procs, Others(r), Closed(r)', UNCHANGED <<row, jobs, faults>>,
         \A c \in Taps : ~Watches(r, c)
  PROVE  WatchInv'
<1>1. \A c \in Taps : Left(r, c)
  BY DEF Left, InQueue, Status
<1> QED
  BY <1>1, WatchKept DEF Cares

LEMMA TapsWatch ==
  ASSUME IInv, WatchInv, NEW t \in Taps, Tap(t)
  PROVE  WatchInv'
<1>0. t \in Procs /\ t \notin Acts /\ t \notin Workers
  BY KindOf
<1>1. ASSUME Others(t), UNCHANGED <<row, jobs, faults>>, pc[t] # "armRing" PROVE WatchInv'
  BY <1>0, <1>1, StillWatched DEF Closed, Watches
<1>2. CASE InitiateKey(t) \/ InitiateCaller(t) \/ InitiateCallee(t)
  <2>1. Others(t)
    BY <1>0, <1>2, GotoIs DEF InitiateKey, InitiateCaller, InitiateCallee
  <2> QED
    BY <1>1, <1>2, <2>1 DEF InitiateKey, InitiateCaller, InitiateCallee
<1>3. CASE TellBusy(t)
  <2>1. Others(t)
    BY <1>0, <1>3, GotoIs DEF TellBusy, Step
  <2> QED
    BY <1>1, <1>3, <2>1 DEF TellBusy, Step
<1>4. ASSUME NEW s \in {"RINGING", "BUSY"}, row' = [row EXCEPT ![t] = NewRow(s)]
      PROVE  Status(t)' = s /\ \A c \in Taps \ {t} : Status(c)' = Status(c)
  <2>1. NewRow(s) \in RowType /\ NewRow(s) # None /\ NewRow(s).status = s
    <3>1. NewRow(s) \in RowType /\ NewRow(s).status = s
      BY DEF NewRow, RowType, Live, Terminal
    <3> QED
      BY <3>1, RowAssumption
  <2>2. row'[t] = NewRow(s) /\ \A c \in Taps \ {t} : row'[c] = row[c]
    BY <1>4 DEF IInv, TypeOK
  <2> QED
    BY <2>1, <2>2 DEF Status
<1>5. CASE CreateBusy(t)
  <2>1. /\ pc[t] = "busy" /\ UNCHANGED <<jobs, faults>> /\ Others(t)
        /\ \/ row' = [row EXCEPT ![t] = NewRow("BUSY")]
           \/ row' = row
    BY <1>0, <1>5, GotoIs DEF CreateBusy
  <2>2. CASE row' = [row EXCEPT ![t] = NewRow("BUSY")]
    <3>1. Status(t)' \notin Live /\ \A c \in Taps \ {t} : Status(c)' = Status(c)
      BY <1>4, <2>2 DEF Live
    <3>2. \A c \in Taps : Status(c)' \in Live => Left(t, c)
      BY <1>0, <2>1, <3>1 DEF Left, InQueue, Watches
    <3> QED
      BY <1>0, <2>1, <3>2, WatchKept DEF Cares, Closed
  <2> QED
    BY <1>1, <2>1, <2>2
<1>6. CASE Create(t)
  <2>1. pc[t] = "create" /\ UNCHANGED <<jobs, faults>>
    BY <1>6 DEF Create
  <2>2. CASE SameTap(t) = {}
    <3>1. row' = [row EXCEPT ![t] = NewRow("RINGING")] /\ Keep(t, "armRing", [job[t] EXCEPT !.call = t])
      BY <1>6, <2>2 DEF Create
    <3>2. Status(t)' = "RINGING" /\ \A c \in Taps \ {t} : Status(c)' = Status(c)
      BY <1>4, <3>1
    <3>3. pc'[t] = "armRing" /\ job'[t].call = t /\ Others(t)
      <4>1. job[t] \in JobType
        BY <1>0, JobsTyped
      <4>2. [job[t] EXCEPT !.call = t].call = t
        BY <4>1 DEF JobType
      <4> QED
        BY <1>0, <3>1, <4>2, KeepIs
    <3>4. Watches(t, t)'
      BY <3>2, <3>3 DEF Watches
    <3>5. \A c \in Taps \ {t} : Left(t, c)
      BY <1>0, <2>1, <3>2 DEF Left, InQueue, Watches
    <3> QED
      BY <1>0, <2>1, <3>3, <3>4, <3>5, WatchKept DEF Cares, Closed
  <2>3. CASE SameTap(t) # {}
    <3>1. row' = row /\ \E v : Keep(t, "armRing", v)
      BY <1>6, <2>3 DEF Create
    <3>2. Others(t)
      BY <1>0, <3>1, KeepIs
    <3> QED
      BY <1>1, <2>1, <3>1, <3>2
  <2> QED
    BY <2>2, <2>3
<1>7. CASE ArmRing(t)
  <2>1. /\ Others(t) /\ UNCHANGED <<row, faults>>
        /\ jobs' = jobs \cup {<<job[t].call, "RINGING">>}
    BY <1>0, <1>7, KeepIs DEF ArmRing, Finish
  <2>2. \A c \in Taps : Status(c)' = Status(c)
    BY <2>1 DEF Status
  <2>3. ASSUME NEW c \in Taps PROVE Cares(t, c)
    <3>1. CASE Watches(t, c)
      <4>1. job[t].call = c /\ Status(c) = "RINGING"
        BY <1>0, <3>1 DEF Watches
      <4>2. InQueue(c)'
        BY <2>1, <2>2, <4>1 DEF InQueue
      <4> QED
        BY <4>2 DEF Cares
    <3>2. CASE ~Watches(t, c)
      BY <2>1, <2>2, <3>2 DEF Cares, Left, InQueue
    <3> QED
      BY <3>1, <3>2
  <2> QED
    BY <1>0, <2>1, <2>3, WatchKept DEF Closed
<1> QED
  BY <1>2, <1>3, <1>5, <1>6, <1>7 DEF Tap

(* A request that wins its UPDATE moves one row.                           *)
LEMMA RowMoves ==
  ASSUME IInv, NEW c \in Taps, NEW v \in RowType, row' = [row EXCEPT ![c] = v]
  PROVE  Status(c)' = v.status /\ \A d \in Taps \ {c} : Status(d)' = Status(d)
<1>1. row'[c] = v /\ v # None /\ \A d \in Taps \ {c} : row'[d] = row[d]
  BY RowAssumption DEF IInv, TypeOK
<1> QED
  BY <1>1 DEF Status

LEMMA WriteIs ==
  ASSUME IInv, NEW r \in Acts, NEW c \in Taps, NEW from, NEW v, NEW next, pc[r] = "write",
         Transition(c, from, v), Decided(r, Won(c, from), next)
  PROVE  /\ Others(r) /\ \A d \in Taps : ~Watches(r, d)
         /\ \/ row' = row /\ pc'[r] = "done"
            \/ /\ Won(c, from) /\ row' = [row EXCEPT ![c] = v]
               /\ pc'[r] = next /\ job'[r] = [job[r] EXCEPT !.won = TRUE]
<1>1. \A d \in Taps : ~Watches(r, d)
  BY KindOf DEF Watches
<1>2. CASE Won(c, from)
  <2>1. Keep(r, next, [job[r] EXCEPT !.won = TRUE]) /\ row' = [row EXCEPT ![c] = v]
    BY <1>2 DEF Transition, Decided
  <2> QED
    BY <1>1, <1>2, <2>1, KeepIs, KindOf
<1>3. CASE ~Won(c, from)
  <2>1. Keep(r, "done", NoJob) /\ row' = row
    BY <1>3 DEF Transition, Decided, Finish
  <2> QED
    BY <1>1, <2>1, KeepIs, KindOf
<1> QED
  BY <1>2, <1>3

(* The winner arms the next deadline next, or has ended the call.          *)
LEMMA WritesWatch ==
  ASSUME IInv, WatchInv, NEW r \in Acts, NEW c \in Taps, NEW from, NEW v, NEW next,
         pc[r] = "write", job[r].call = c,
         Transition(c, from, v), Decided(r, Won(c, from), next), UNCHANGED <<jobs, faults>>,
         Won(c, from) =>
            /\ v \in RowType
            /\ \/ next = "arm" /\ v.status = StageOf(job[r].op)
               \/ next = "tell" /\ v.status \in Terminal /\ job[r].op \notin {"accept", "connect"}
  PROVE  WatchInv'
<1>0. r \in Procs /\ r \notin Taps /\ r \notin Workers /\ job[r] \in JobType
  BY KindOf, JobsTyped
<1>1. Others(r) /\ \A d \in Taps : ~Watches(r, d)
  BY WriteIs
<1>2. CASE row' = row /\ pc'[r] = "done"
  BY <1>0, <1>1, <1>2, StillWatched DEF Closed
<1>3. CASE /\ Won(c, from) /\ row' = [row EXCEPT ![c] = v]
           /\ pc'[r] = next /\ job'[r] = [job[r] EXCEPT !.won = TRUE]
  <2>1. Status(c)' = v.status /\ \A d \in Taps \ {c} : Status(d)' = Status(d)
    BY <1>3, RowMoves
  <2>2. job'[r].call = c /\ job'[r].op = job[r].op /\ job'[r].won
    BY <1>0, <1>3 DEF JobType
  <2>3. \A d \in Taps \ {c} : Left(r, d)
    BY <1>1, <2>1 DEF Left, InQueue
  <2>4. Closed(r)'
    BY <1>3, <2>2 DEF Closed
  <2>5. Watches(r, c)' \/ Status(c)' \notin Live
    BY <1>3, <2>1, <2>2 DEF Watches, Live, Terminal
  <2> QED
    BY <1>0, <1>1, <2>3, <2>4, <2>5, WatchKept DEF Cares
<1> QED
  BY <1>2, <1>3, WriteIs

LEMMA ActsWatch ==
  ASSUME IInv, WatchInv, NEW r \in Acts, Read(r) \/ Act(r)
  PROVE  WatchInv'
<1>0. r \in Procs /\ r \notin Taps /\ r \notin Workers
  BY KindOf
<1>1. ASSUME NEW op, NEW u, NEW c, ReadFor(r, op, u, c), UNCHANGED <<row, jobs, faults>>, pc[r] # "arm"
      PROVE  WatchInv'
  <2>1. \E l \in {"reroute", "write", "done"} : \E v : Keep(r, l, v)
    BY <1>1 DEF ReadFor, Finish
  <2>2. Others(r) /\ pc'[r] \notin {"tell", "disarm"}
    BY <1>0, <2>1, KeepIs
  <2> QED
    BY <1>0, <1>1, <2>2, StillWatched DEF Closed, Watches
<1>2. CASE Read(r)
  BY <1>1, <1>2 DEF Read
<1>3. CASE Reroute(r)
  BY <1>1, <1>3 DEF Reroute
<1>4. ASSUME pc[r] \in {"write", "arm", "tell", "disarm"}
      PROVE  job[r].call \in Taps /\ job[r].op \in Ops
  BY <1>4 DEF IInv, JobInv, ActOk
<1>5. CASE MarkAccepted(r)
  <2>1. PICK c \in Taps : c = job[r].call
    BY <1>4, <1>5 DEF MarkAccepted
  <2> DEFINE v == [row[c] EXCEPT !.status = "ACCEPTED", !.accepted = TRUE]
  <2>2. /\ pc[r] = "write" /\ job[r].op = "accept" /\ UNCHANGED <<jobs, faults>>
        /\ Transition(c, From("accept"), v) /\ Decided(r, Won(c, From("accept")), "arm")
    BY <1>5, <2>1 DEF MarkAccepted
  <2>3. Won(c, From("accept")) => v \in RowType /\ v.status = StageOf(job[r].op)
    <3>1. From("accept") \in SUBSET Live
      BY DEF From, Live
    <3>2. Won(c, From("accept")) => row[c] \in RowType
      BY <3>1, WonRow
    <3> QED
      BY <2>2, <3>2 DEF RowType, Live, StageOf
  <2> HIDE DEF v
  <2> QED
    BY <2>1, <2>2, <2>3, WritesWatch
<1>6. CASE MarkConnected(r)
  <2>1. PICK c \in Taps : c = job[r].call
    BY <1>4, <1>6 DEF MarkConnected
  <2> DEFINE v == [row[c] EXCEPT !.status = "CONNECTED", !.connected = TRUE]
  <2>2. /\ pc[r] = "write" /\ job[r].op = "connect" /\ UNCHANGED <<jobs, faults>>
        /\ Transition(c, From("connect"), v) /\ Decided(r, Won(c, From("connect")), "arm")
    BY <1>6, <2>1 DEF MarkConnected
  <2>3. Won(c, From("connect")) => v \in RowType /\ v.status = StageOf(job[r].op)
    <3>1. From("connect") \in SUBSET Live
      BY DEF From, Live
    <3>2. Won(c, From("connect")) => row[c] \in RowType
      BY <3>1, WonRow
    <3> QED
      BY <2>2, <3>2 DEF RowType, Live, StageOf
  <2> HIDE DEF v
  <2> QED
    BY <2>1, <2>2, <2>3, WritesWatch
<1>7. CASE Terminate(r)
  <2>1. PICK c \in Taps : c = job[r].call
    BY <1>4, <1>7 DEF Terminate
  <2> DEFINE from == From(job[r].op)
             v == Terminated(c, EndsAs(job[r].op), job[r].user)
  <2>2. /\ pc[r] = "write" /\ job[r].op \in {"reject", "cancel", "end", "fail"}
        /\ UNCHANGED <<jobs, faults>>
        /\ Transition(c, from, v) /\ Decided(r, Won(c, from), "tell")
    BY <1>4, <1>7, <2>1 DEF Terminate, Ops
  <2>3. Won(c, from) => v \in RowType /\ v.status \in Terminal
    <3>1. from \in SUBSET Live /\ EndsAs(job[r].op) \in Terminal
      BY <2>2 DEF From, EndsAs, Live, Hangup, Terminal
    <3>2. Won(c, from) => row[c] \in RowType
      BY <3>1, WonRow
    <3>3. job[r].user \in Users \cup {None}
      BY <1>0, JobsTyped DEF JobType
    <3> QED
      BY <3>1, <3>2, <3>3 DEF Terminated, RowType
  <2> HIDE DEF v, from
  <2> QED
    BY <2>1, <2>2, <2>3, WritesWatch
<1>8. ASSUME Goto(r, "done") \/ Goto(r, "disarm"), job' = job, row' = row, faults' = faults
      PROVE  /\ Others(r) /\ \A c \in Taps : Status(c)' = Status(c)
             /\ job'[r] = job[r] /\ pc'[r] \in {"done", "disarm"}
             /\ Goto(r, "done") => pc'[r] = "done"
  <2>1. \A c \in Taps : Status(c)' = Status(c)
    BY <1>8 DEF Status
  <2> QED
    BY <1>0, <1>8, <2>1, GotoIs
<1>9. CASE Arm(r)
  <2>1. /\ pc[r] = "arm" /\ jobs' = jobs \cup {<<job[r].call, StageOf(job[r].op)>>}
        /\ Others(r) /\ pc'[r] = "done" /\ faults' = faults
        /\ \A c \in Taps : Status(c)' = Status(c)
    BY <1>8, <1>9 DEF Arm, Step
  <2>2. ASSUME NEW c \in Taps PROVE Cares(r, c)
    <3>1. CASE Watches(r, c)
      <4>1. job[r].call = c /\ Status(c) = StageOf(job[r].op)
        BY <1>0, <3>1 DEF Watches
      <4>2. InQueue(c)'
        BY <2>1, <4>1 DEF InQueue
      <4> QED
        BY <4>2 DEF Cares
    <3>2. CASE ~Watches(r, c)
      BY <2>1, <3>2 DEF Cares, Left, InQueue
    <3> QED
      BY <3>1, <3>2
  <2> QED
    BY <1>0, <2>1, <2>2, WatchKept DEF Closed
<1>10. CASE Tell(r)
  <2>1. /\ pc[r] = "tell" /\ UNCHANGED <<row, jobs, faults>> /\ Others(r) /\ job'[r] = job[r]
    BY <1>8, <1>10 DEF Tell, Step
  <2>2. Closed(r)'
    BY <1>0, <2>1 DEF Closed, WatchInv
  <2> QED
    BY <1>0, <2>1, <2>2, StillWatched DEF Watches
<1>11. CASE Disarm(r)
  <2>1. /\ pc[r] = "disarm" /\ jobs' = {j \in jobs : j[1] # job[r].call}
        /\ Others(r) /\ pc'[r] = "done" /\ faults' = faults
        /\ \A c \in Taps : Status(c)' = Status(c)
    BY <1>8, <1>11 DEF Disarm, Step
  <2>2. Status(job[r].call) \in Terminal
    <3>1. job[r].won /\ job[r].op \notin {"accept", "connect"}
      BY <1>0, <2>1 DEF Closed, WatchInv
    <3>2. Stands(r)
      BY <3>1 DEF IInv, WonInv
    <3> QED
      BY <3>1, <3>2 DEF Stands, Status
  <2>3. ASSUME NEW c \in Taps, Status(c)' \in Live PROVE Cares(r, c)
    <3>1. Status(c) \in Live /\ job[r].call # c
      BY <2>1, <2>2, <2>3 DEF Live, Terminal
    <3>2. InQueue(c) => InQueue(c)'
      BY <2>1, <3>1 DEF InQueue
    <3> QED
      BY <1>0, <2>1, <3>2 DEF Cares, Left, Watches
  <2> QED
    BY <1>0, <2>1, <2>3, WatchKept DEF Closed
<1> QED
  BY <1>2, <1>3, <1>5, <1>6, <1>7, <1>9, <1>10, <1>11 DEF Act

LEMMA WorkersWatch ==
  ASSUME IInv, WatchInv, NEW w \in Workers, TakeJob(w) \/ Reap(w) \/ Work(w)
  PROVE  WatchInv'
<1>0. w \in Procs /\ w \notin Taps /\ w \notin Acts /\ job[w] \in JobType
  BY KindOf, JobsTyped
<1>1. Closed(w)'
  BY <1>0 DEF Closed
<1>2. CASE TakeJob(w)
  <2>1. PICK j \in jobs : /\ jobs' = jobs \ {j}
                          /\ Keep(w, "expire", [NoJob EXCEPT !.stage = j[2], !.todo = {j[1]}])
    BY <1>2 DEF TakeJob
  <2>2. pc[w] = "idle" /\ UNCHANGED <<row, faults>> /\ \A c \in Taps : Status(c)' = Status(c)
    BY <1>2 DEF TakeJob, Status
  <2>3. pc'[w] = "expire" /\ job'[w].stage = j[2] /\ j[1] \in job'[w].todo /\ Others(w)
    <3> DEFINE v == [NoJob EXCEPT !.stage = j[2], !.todo = {j[1]}]
    <3>1. v.stage = j[2] /\ v.todo = {j[1]}
      BY DEF NoJob
    <3>2. Keep(w, "expire", v)
      BY <2>1
    <3> HIDE DEF v
    <3>3. pc'[w] = "expire" /\ job'[w] = v /\ Others(w)
      BY <1>0, <3>2, KeepIs
    <3> QED
      BY <3>1, <3>3
  <2>4. ASSUME NEW c \in Taps PROVE Cares(w, c)
    <3>1. CASE j = <<c, Status(c)>>
      <4>1. Watches(w, c)'
        BY <2>2, <2>3, <3>1 DEF Watches
      <4> QED
        BY <4>1 DEF Cares
    <3>2. CASE j # <<c, Status(c)>>
      <4>1. InQueue(c) => InQueue(c)'
        BY <2>1, <2>2, <3>2 DEF InQueue
      <4> QED
        BY <1>0, <2>2, <4>1 DEF Cares, Left, Watches
    <3> QED
      BY <3>1, <3>2
  <2> QED
    BY <1>0, <1>1, <2>2, <2>3, <2>4, WatchKept
<1>3. CASE Reap(w)
  <2>1. pc[w] = "idle" /\ UNCHANGED <<row, jobs, faults>> /\ \E v : Keep(w, "expire", v)
    BY <1>3 DEF Reap
  <2>2. Others(w)
    BY <1>0, <2>1, KeepIs
  <2> QED
    BY <1>0, <1>1, <2>1, <2>2, StillWatched DEF Watches
<1>4. CASE ReapNext(w)
  <2>1. job[w].todo = {} /\ UNCHANGED <<row, jobs, faults>> /\ \E l, v : Keep(w, l, v)
    BY <1>4 DEF ReapNext
  <2>2. Others(w)
    BY <1>0, <2>1, KeepIs
  <2> QED
    BY <1>0, <1>1, <2>1, <2>2, StillWatched DEF Watches
<1>5. CASE Expire(w)
  <2>1. PICK c \in job[w].todo :
          LET s == job[w].stage  rest == [job[w] EXCEPT !.todo = @ \ {c}] IN
          /\ Transition(c, {s}, Terminated(c, ExpiresAs(s), None))
          /\ IF Won(c, {s}) THEN Keep(w, "tellExpired", [rest EXCEPT !.call = c])
             ELSE Keep(w, "expire", rest)
    BY <1>5 DEF Expire
  <2>2. pc[w] = "expire" /\ UNCHANGED <<jobs, faults>> /\ c \in Taps /\ job[w].stage \in Live
    BY <1>0, <1>5 DEF Expire, JobType, IInv, JobInv, WorkOk
  <2>3. /\ Others(w) /\ pc'[w] \in {"expire", "tellExpired"}
        /\ job'[w].stage = job[w].stage /\ job'[w].todo = job[w].todo \ {c}
    <3> DEFINE rest == [job[w] EXCEPT !.todo = @ \ {c}]
               told == [rest EXCEPT !.call = c]
    <3>1. /\ rest.stage = job[w].stage /\ rest.todo = job[w].todo \ {c}
          /\ told.stage = job[w].stage /\ told.todo = job[w].todo \ {c}
      BY <1>0, <2>2 DEF JobType
    <3>2. Keep(w, "tellExpired", told) \/ Keep(w, "expire", rest)
      BY <2>1
    <3> HIDE DEF rest, told
    <3> QED
      BY <1>0, <3>1, <3>2, KeepIs
  <2>4. \A d \in Taps \ {c} : Status(d)' = Status(d)
    BY <2>1, <2>2 DEF Transition, Status, IInv, TypeOK
  <2>5. ASSUME NEW d \in Taps, d # c PROVE Cares(w, d)
    <3>1. CASE Watches(w, d)
      <4>1. Watches(w, d)'
        BY <1>0, <2>3, <2>4, <2>5, <3>1 DEF Watches
      <4> QED
        BY <4>1 DEF Cares
    <3>2. CASE ~Watches(w, d)
      BY <2>2, <2>4, <2>5, <3>2 DEF Cares, Left, InQueue
    <3> QED
      BY <3>1, <3>2
  <2>6. CASE Won(c, {job[w].stage})
    <3> DEFINE v == Terminated(c, ExpiresAs(job[w].stage), None)
    <3>1. row' = [row EXCEPT ![c] = v]
      BY <2>1, <2>6 DEF Transition
    <3>2. row[c] \in RowType
      BY <2>2, <2>6, WonRow
    <3>3. v \in RowType /\ v.status \in Terminal
      BY <2>2, <3>2 DEF Terminated, RowType, ExpiresAs, Terminal
    <3> HIDE DEF v
    <3>4. Status(c)' \notin Live
      BY <2>2, <3>1, <3>3, RowMoves DEF Live, Terminal
    <3> QED
      BY <1>0, <1>1, <2>2, <2>3, <2>5, <3>4, WatchKept
  <2>7. CASE ~Won(c, {job[w].stage})
    <3>1. row' = row
      BY <2>1, <2>7 DEF Transition
    <3>2. Status(c)' = Status(c) /\ ~Watches(w, c)
      BY <1>0, <2>7, <3>1 DEF Status, Watches, Won
    <3>3. Cares(w, c)
      BY <2>2, <3>2 DEF Cares, Left, InQueue
    <3> QED
      BY <1>0, <1>1, <2>2, <2>3, <2>5, <3>3, WatchKept
  <2> QED
    BY <2>6, <2>7
<1>6. CASE TellExpired(w)
  <2>1. /\ pc[w] = "tellExpired" /\ UNCHANGED <<row, jobs, faults>>
        /\ Others(w) /\ pc'[w] = "expire" /\ job'[w] = job[w]
    BY <1>0, <1>6, GotoIs DEF TellExpired, Step
  <2>2. \A c \in Taps : Status(c)' = Status(c)
    BY <2>1 DEF Status
  <2>3. ASSUME NEW c \in Taps PROVE Cares(w, c)
    <3>1. CASE Watches(w, c)
      <4>1. Watches(w, c)'
        BY <1>0, <2>1, <2>2, <3>1 DEF Watches
      <4> QED
        BY <4>1 DEF Cares
    <3>2. CASE ~Watches(w, c)
      BY <2>1, <2>2, <3>2 DEF Cares, Left, InQueue
    <3> QED
      BY <3>1, <3>2
  <2> QED
    BY <1>0, <1>1, <2>1, <2>3, WatchKept
<1> QED
  BY <1>2, <1>3, <1>4, <1>5, <1>6 DEF Work

LEMMA NextWatches == IInv /\ WatchInv /\ [Next]_vars => WatchInv'
<1> SUFFICES ASSUME IInv, WatchInv, [Next]_vars PROVE WatchInv'
  OBVIOUS
<1>1. CASE \E t \in Taps : Tap(t)
  BY <1>1, TapsWatch
<1>2. CASE \E r \in Acts : Read(r) \/ Act(r)
  BY <1>2, ActsWatch
<1>3. CASE \E w \in Workers : TakeJob(w) \/ Reap(w) \/ Work(w)
  BY <1>3, WorkersWatch
<1>4. CASE (\E c \in Taps : DeadlinePasses(c)) \/ UNCHANGED vars
  <2>1. UNCHANGED <<row, jobs, pc, job, faults>>
    BY <1>4 DEF DeadlinePasses, vars
  <2> QED
    BY <2>1 DEF WatchInv, Watched, InQueue, Watches, Closed, Status
<1>5. CASE \E j \in JobIds : LoseJob(j)
  <2>1. UNCHANGED <<pc, job>> /\ faults' # 0
    BY <1>5 DEF LoseJob, IInv, TypeOK
  <2> QED
    BY <2>1 DEF WatchInv, Closed
<1>6. ASSUME NEW r \in Procs, Crash(r) PROVE WatchInv'
  <2>1. faults' # 0 /\ \E l \in {"idle", "done"} : Keep(r, l, NoJob)
    BY <1>6 DEF Crash, IInv, TypeOK
  <2>2. Others(r) /\ pc'[r] \in {"idle", "done"}
    BY <2>1, KeepIs
  <2>3. \A q \in Procs : Closed(q)'
    BY <2>2 DEF WatchInv, Closed, Others
  <2> QED
    BY <2>1, <2>3 DEF WatchInv
<1> QED
  BY <1>1, <1>2, <1>3, <1>4, <1>5, <1>6 DEF Next

(* Unless a request or a job died, a live call is watched once everybody   *)
(* is done: the deadline of the stage it is in has a job in the queue,     *)
(* whatever was armed, taken and disarmed in whichever order.              *)
THEOREM LiveIsAlwaysWatched == Spec => []LiveIsWatched
<1>1. Init => WatchInv
  BY NoneAssumption DEF Init, WatchInv, Closed, Status, Live
<1>2. WatchInv => LiveIsWatched
  <2> SUFFICES ASSUME WatchInv, faults = 0, \A r \in Procs : pc[r] \in {"idle", "done"},
                      NEW c \in Taps, Status(c) \in Live
               PROVE  InQueue(c)
    BY DEF LiveIsWatched, InQueue
  <2>1. \A r \in Procs : ~Watches(r, c)
    BY DEF Watches
  <2> QED
    BY <2>1 DEF WatchInv, Watched
<1> QED
  BY <1>1, <1>2, NextWatches, Invariance, PTL DEF Spec
=============================================================================

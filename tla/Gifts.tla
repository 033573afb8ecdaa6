------------------------------- MODULE Gifts -------------------------------
(***************************************************************************)
(* Gifts sent in one room, and the day's treasure boxes that they fill.  A *)
(* send takes the sender's and the receiver's wallet locks and runs one    *)
(* transaction: the debit, the receiver's share and the gift's row.  In an *)
(* audio room the send holds the room's treasure lock too, and the same    *)
(* transaction pours the coins into the boxes, pays the prizes of those it *)
(* fills, and refunds what no box takes.  After the commit the gift is     *)
(* announced, and a listener, which for a video room is the only one to    *)
(* fill the boxes, writes box by box under the treasure lock.  Readers,    *)
(* and managers who cancel or reset, touch the ladder without the lock.    *)
(***************************************************************************)
EXTENDS Integers, Sequences, FiniteSets, FiniteSetsExt, Functions

CONSTANTS Users,      \* senders and receivers
          Keys,       \* the clients' idempotency keys
          Reqs,       \* send requests; two may carry one key
          Mgrs,       \* other calls: start, status, cancel, reset, archive
          Scenes,     \* the room, what is sent and called, days and deaths
          BoxCount,   \* boxes of a ladder, 5 in the code
          Threshold,  \* coins that fill a box
          Prize,      \* coins of the ranks of a box
          Fund,       \* GOLD at first
          EarnPct, CashPct, CashFrom,    \* the settlement rules
          GOLD, DIAMOND, None

Levels == 1 .. BoxCount
Ranks == DOMAIN Prize

SceneType ==
    [room : {"AUDIO", "VIDEO"},
     send : [Reqs -> [key : Keys, from : Users, to : Users, amt : Nat \ {0}]],
     op : [Mgrs -> {"none", "start", "status", "cancel", "reset", "archive"}],
     days : Nat \ {0}, deaths : Nat]

(* A retry repeats its request.                                            *)
ASSUME GiftsAssumption ==
    /\ BoxCount \in Nat \ {0} /\ Threshold \in [Levels -> Nat \ {0}]
    /\ Prize \in Seq(Nat) /\ EarnPct \in Nat /\ CashPct \in Nat /\ CashFrom \in Nat
    /\ GOLD # DIAMOND /\ Reqs \cap Mgrs = {} /\ None \notin Reqs \cup Mgrs
    /\ Scenes \subseteq SceneType
    /\ \A sc \in Scenes : \A r, q \in Reqs :
         sc.send[r].key = sc.send[q].key => sc.send[r] = sc.send[q]

Procs == Reqs \cup Mgrs
LockKeys == Users \cup {"room"}

VARIABLES
    scene, day,
    gift,     \* per key: the request whose transaction wrote the gift's row
    ledger,   \* the wallet entries, one per idempotency key
    bag,      \* backpack grants, one per box and rank
    sess,     \* the room's treasure sessions, oldest first, with their boxes
    lock,     \* holders of the Redis locks
    pc, job,  \* per process: its next step, and what it has in hand
    faults

wallets == <<gift, ledger>>
vars == <<scene, day, wallets, bag, sess, lock, pc, job, faults>>

-----------------------------------------------------------------------------
Send(r) == scene.send[r]
Audio == scene.room = "AUDIO"
At(p, where) == pc[p] = where

Blank == [sess |-> 0, old |-> 0, level |-> 0, left |-> 0, took |-> 0,
          back |-> 0, full |-> {}, all |-> {}]
Go(p, where) == pc' = [pc EXCEPT ![p] = where]
Hold(p, j) == job' = [job EXCEPT ![p] = j]
Freed(p) == [k \in LockKeys |-> IF lock[k] = p THEN None ELSE lock[k]]
End(p) == Go(p, "done") /\ Hold(p, Blank) /\ lock' = Freed(p)

-----------------------------------------------------------------------------
(* The wallet.  Movements are idempotent by key: an entry is posted once.  *)
Entry(why, of, u, cur, amt) == [why |-> why, of |-> of, user |-> u, cur |-> cur, amt |-> amt]
Posted(es) ==
    ledger \cup {e \in es : e.amt # 0 /\ ~\E x \in ledger : x.why = e.why /\ x.of = e.of}
SumAmt(es) == SumFunction([e \in es |-> e.amt])
Gold(u) == Fund[u] + SumAmt({e \in ledger : e.user = u /\ e.cur = GOLD})

(* What a send moves besides the treasure: debit, earnings and cashback.   *)
Settlement(r) ==
    LET g == Send(r)
        cash == IF g.amt >= CashFrom THEN (g.amt * CashPct) \div 100 ELSE 0
    IN {Entry("debit", g.key, g.from, GOLD, -g.amt),
        Entry("earnings", g.key, g.to, DIAMOND, (g.amt * EarnPct) \div 100),
        Entry("cashback", g.key, g.to, GOLD, cash)}

-----------------------------------------------------------------------------
(* Sessions and boxes.  A box keeps the rows of its contributions.         *)
NoBox == [status |-> "ABSENT", prog |-> 0, rows |-> <<>>]
Fresh(l) == [NoBox EXCEPT !.status = IF l = 1 THEN "ACTIVE" ELSE "PENDING"]
Bare == [day |-> day, status |-> "ACTIVE", level |-> 1, box |-> [l \in Levels |-> NoBox]]
Laid(se) == [se EXCEPT !.box = [l \in Levels |-> Fresh(l)]]

Sessions == DOMAIN sess
Active == {s \in Sessions : sess[s].status = "ACTIVE"}
CompletedToday == \E s \in Sessions : sess[s].status = "COMPLETED" /\ sess[s].day = day
Finish(ss, status) ==
    [s \in Sessions |-> IF s \in ss THEN [sess[s] EXCEPT !.status = status] ELSE sess[s]]

Row(u, amt, txn) == [user |-> u, amt |-> amt, txn |-> txn]
Given(rows, u) ==
    SumFunction([i \in {j \in DOMAIN rows : rows[j].user = u} |-> rows[i].amt])
First(rows, u) == Min({i \in DOMAIN rows : rows[i].user = u})
Givers(rows) == {rows[i].user : i \in DOMAIN rows}

(* The ranking of a box's contributors.  The send's transaction leaves     *)
(* ties open, the repository breaks them by the first contribution.        *)
Rankings(rows, strict) ==
    {q \in [1 .. Cardinality(Givers(rows)) -> Givers(rows)] :
        /\ IsInjective(q)
        /\ \A i, j \in DOMAIN q : i < j =>
             \/ Given(rows, q[i]) > Given(rows, q[j])
             \/ /\ Given(rows, q[i]) = Given(rows, q[j])
                /\ strict => First(rows, q[i]) < First(rows, q[j])}

-----------------------------------------------------------------------------
(* A gift poured into a session by its transaction: box after box while    *)
(* coins are left, no further than box `last`, nothing if the current box  *)
(* is not open.                                                            *)
Need(se, l) == Threshold[l] - se.box[l].prog
Reach(se, last) == IF se.box[se.level].status = "ACTIVE" THEN se.level .. last ELSE {}
Comes(se, v, l) ==
    v - SumFunctionOnSet([j \in Levels |-> Need(se, j)], se.level .. l - 1)
(* Faulty variant: the last box takes all that comes.                      *)
PouredWhole(se, v, last, l) == IF l \in Reach(se, last) THEN Max({0, Comes(se, v, l)}) ELSE 0
Poured(se, v, last, l) ==
    IF l \in Reach(se, last) THEN Max({0, Min({Need(se, l), Comes(se, v, l)})}) ELSE 0
Filled(se, v, last) == {l \in Reach(se, last) : Comes(se, v, l) >= Need(se, l)}
(* Faulty variant: only what the current box took is counted as accepted.  *)
AcceptedHere(se, v, last) == Poured(se, v, last, se.level)
Accepted(se, v, last) == SumFunction([l \in Levels |-> Poured(se, v, last, l)])

(* The box to be opened next was never created: the transaction fails.     *)
Broken(se, v, last) ==
    \E l \in Filled(se, v, last) : l < BoxCount /\ se.box[l + 1].status = "ABSENT"

Pour(se, u, v, txn, last) ==
    LET full == Filled(se, v, last)
        got(l) == Poured(se, v, last, l)
    IN [se EXCEPT
          !.box = [l \in Levels |->
             [status |-> IF l \in full THEN "OPENED"
                         ELSE IF l - 1 \in full THEN "ACTIVE" ELSE se.box[l].status,
              prog |-> se.box[l].prog + got(l),
              rows |-> IF got(l) > 0 THEN Append(se.box[l].rows, Row(u, got(l), txn))
                       ELSE se.box[l].rows]],
          !.level = IF full = {} THEN @ ELSE Min({Max(full) + 1, BoxCount}),
          !.status = IF BoxCount \in full THEN "COMPLETED" ELSE @]

(* The prizes of the boxes a gift filled, for each way to rank ties.       *)
(* Faulty variant: the smallest contributor ranks first.                   *)
PrizesAscending(s, q) ==
    UNION {{Entry("box", <<s, l, n>>, q[l][Cardinality(DOMAIN q[l]) + 1 - n], GOLD, Prize[n]) :
               n \in Ranks \cap DOMAIN q[l]} : l \in DOMAIN q}
Prizes(s, q) ==
    UNION {{Entry("box", <<s, l, n>>, q[l][n], GOLD, Prize[n]) :
               n \in Ranks \cap DOMAIN q[l]} : l \in DOMAIN q}

-----------------------------------------------------------------------------
(* The send.  A key that is already written is answered without an event;  *)
(* otherwise the locks are taken, in sorted order, each with a budget of   *)
(* retries; or the request fails.                                          *)
Check(r) ==
    /\ At(r, "idle")
    /\ IF gift[Send(r).key] # None THEN End(r)
       ELSE Go(r, "lock") /\ UNCHANGED <<job, lock>>
    /\ UNCHANGED <<scene, day, wallets, bag, sess, faults>>

(* Faulty variant: the room's treasure lock is left out.                   *)
LocksOfWallets(r) == {Send(r).from, Send(r).to}
LocksOf(r) == {Send(r).from, Send(r).to} \cup (IF Audio THEN {"room"} ELSE {})
Lock(r) ==
    /\ At(r, "lock")
    /\ IF \A k \in LocksOf(r) : lock[k] = None
       THEN /\ lock' = [k \in LockKeys |-> IF k \in LocksOf(r) THEN r ELSE lock[k]]
            /\ Go(r, "open") /\ UNCHANGED job
       ELSE End(r)
    /\ UNCHANGED <<scene, day, wallets, bag, sess, faults>>

(* The transaction re-checks the key: a row that is there by now is        *)
(* returned, and announced again.  It debits, and finds the day's session, *)
(* or that yesterday's is to be finished, or that one is to be created.    *)
OpenSend(r) ==
    /\ At(r, "open")
    /\ \/ /\ gift[Send(r).key] # None
          /\ Go(r, "tell") /\ lock' = Freed(r) /\ UNCHANGED job
       \/ /\ gift[Send(r).key] = None /\ Gold(Send(r).from) < Send(r).amt
          /\ End(r)
       \/ /\ gift[Send(r).key] = None /\ Gold(Send(r).from) >= Send(r).amt
          /\ \E s \in IF Audio /\ Active # {} THEN Active ELSE {0} :
               LET today == s # 0 /\ sess[s].day = day
                   new == Audio /\ ~today /\ ~CompletedToday
               IN Hold(r, [Blank EXCEPT !.sess = IF today THEN s ELSE IF new THEN -1 ELSE 0,
                                        !.old = IF today THEN 0 ELSE s])
          /\ Go(r, "settle") /\ UNCHANGED lock
    /\ UNCHANGED <<scene, day, wallets, bag, sess, faults>>

(* The rest of it, and the commit.  A session that was cancelled or        *)
(* archived since it was found may have been read before or after.         *)
SettleSend(r) ==
    LET g == Send(r)
        kept == Finish({job[r].old} \ {0}, "COMPLETED")
        base == IF job[r].sess = -1 THEN Append(kept, Laid(Bare)) ELSE kept
        s == IF job[r].sess = -1 THEN Len(base) ELSE job[r].sess
        ended == s # 0 /\ base[s].status # "ACTIVE"
        write(paid, made) == /\ ledger' = Posted(Settlement(r) \cup paid)
                             /\ sess' = made
                             /\ gift' = [gift EXCEPT ![g.key] = r]
                             /\ Go(r, "tell")
    IN /\ At(r, "settle")
       /\ \/ s = 0 /\ write({}, base)
          \/ /\ s # 0
             /\ \E last \in IF ended THEN {base[s].level - 1, base[s].level} ELSE {BoxCount} :
                  LET to == Pour(base[s], g.from, g.amt, r, last)
                      back == g.amt - Accepted(base[s], g.amt, last)
                      full == Filled(base[s], g.amt, last)
                  IN IF Broken(base[s], g.amt, last)
                     THEN Go(r, "done") /\ UNCHANGED <<wallets, sess>>
                     ELSE \E q \in [full -> UNION {Rankings(to.box[l].rows, FALSE) : l \in full}] :
                            /\ \A l \in full : q[l] \in Rankings(to.box[l].rows, FALSE)
                            /\ write(Prizes(s, q) \cup {Entry("refund", g.key, g.from, GOLD, back)},
                                     [base EXCEPT ![s] = to])
       /\ Hold(r, Blank) /\ lock' = Freed(r)
       /\ UNCHANGED <<scene, day, bag, faults>>

(* The gift is announced, and the listener's work begins.                  *)
Tell(r) ==
    /\ At(r, "tell") /\ Go(r, "feed")
    /\ UNCHANGED <<scene, day, wallets, bag, sess, lock, job, faults>>

-----------------------------------------------------------------------------
(* The listener.  It has nothing to do for a gift that some box has a row  *)
(* of, nor on a day whose ladder is complete.                              *)
Txn(r) == gift[Send(r).key]
Counted(t) == \E s \in Sessions, l \in Levels : \E i \in DOMAIN sess[s].box[l].rows :
                 sess[s].box[l].rows[i].txn = t
Feed(r) ==
    /\ At(r, "feed")
    /\ IF lock["room"] # None \/ Counted(Txn(r)) \/ CompletedToday THEN End(r)
       ELSE /\ lock' = [lock EXCEPT !["room"] = r]
            /\ \/ /\ Active = {} /\ Go(r, "make")
                  /\ Hold(r, [Blank EXCEPT !.level = 1, !.left = Send(r).amt])
               \/ \E s \in Active :
                    /\ Go(r, "fill")
                    /\ Hold(r, [Blank EXCEPT !.sess = s, !.level = sess[s].level,
                                             !.left = Send(r).amt])
    /\ UNCHANGED <<scene, day, wallets, bag, sess, faults>>

(* The current box is filled, or takes what is left; a missing one is      *)
(* created.                                                                *)
MyBox(r) == LET b == sess[job[r].sess].box[job[r].level]
            IN IF b.status = "ABSENT" THEN [b EXCEPT !.status = "ACTIVE"] ELSE b
SetBox(r, l, b) == sess' = [sess EXCEPT ![job[r].sess].box[l] = b]

Fill(r) ==
    /\ At(r, "fill")
    /\ LET l == job[r].level
           need == Threshold[l] - MyBox(r).prog
           isFull == job[r].left >= need
           took == IF isFull THEN need ELSE job[r].left
       IN /\ SetBox(r, l, [MyBox(r) EXCEPT !.prog = @ + took,
                                           !.status = IF isFull THEN "OPENED" ELSE "ACTIVE"])
          /\ Hold(r, [job[r] EXCEPT !.took = took, !.left = @ - took,
                                    !.full = IF isFull THEN @ \cup {l} ELSE @])
    /\ Go(r, "count")
    /\ UNCHANGED <<scene, day, wallets, bag, lock, faults>>

(* A gift to oneself fills the box but has no row.                         *)
Count(r) ==
    /\ At(r, "count")
    /\ LET l == job[r].level
           g == Send(r)
       IN /\ IF job[r].took > 0 /\ g.from # g.to
             THEN SetBox(r, l, [MyBox(r) EXCEPT !.rows = Append(@, Row(g.from, job[r].took, Txn(r)))])
             ELSE UNCHANGED sess
          /\ IF l \in job[r].full THEN Go(r, "next") /\ UNCHANGED lock
             ELSE Go(r, "refund") /\ lock' = Freed(r)
    /\ UNCHANGED <<scene, day, wallets, bag, job, faults>>

(* Behind the last box the session is complete and the rest is to be       *)
(* refunded; otherwise the next box is opened, and then becomes current.   *)
Complete(r) ==
    /\ At(r, "next") /\ job[r].level = BoxCount
    /\ sess' = Finish({job[r].sess}, "COMPLETED")
    /\ Hold(r, [job[r] EXCEPT !.back = @ + job[r].left, !.left = 0])
    /\ Go(r, "refund") /\ lock' = Freed(r)
    /\ UNCHANGED <<scene, day, wallets, bag, faults>>

OpenNext(r) ==
    /\ At(r, "next") /\ job[r].level < BoxCount
    /\ SetBox(r, job[r].level + 1,
              [sess[job[r].sess].box[job[r].level + 1] EXCEPT !.status = "ACTIVE"])
    /\ Go(r, "level")
    /\ UNCHANGED <<scene, day, wallets, bag, lock, job, faults>>

Advance(r) ==
    /\ At(r, "level")
    /\ sess' = [sess EXCEPT ![job[r].sess].level = job[r].level + 1]
    /\ Hold(r, [job[r] EXCEPT !.level = @ + 1])
    /\ IF job[r].left > 0 THEN Go(r, "fill") /\ UNCHANGED lock
       ELSE Go(r, "refund") /\ lock' = Freed(r)
    /\ UNCHANGED <<scene, day, wallets, bag, faults>>

(* Outside the lock: the refund, and the items of the boxes it filled.     *)
RefundRest(r) ==
    /\ At(r, "refund")
    /\ ledger' = Posted({Entry("rest", <<job[r].sess, Txn(r)>>, Send(r).from, GOLD, job[r].back)})
    /\ Go(r, "grant")
    /\ UNCHANGED <<scene, day, gift, bag, sess, lock, job, faults>>

Grant(r) ==
    /\ At(r, "grant")
    /\ LET s == job[r].sess
           winners(l) == CHOOSE q \in Rankings(sess[s].box[l].rows, TRUE) : TRUE
           new == UNION {{[box |-> <<s, l>>, rank |-> n, user |-> winners(l)[n]] :
                             n \in Ranks \cap DOMAIN winners(l)} : l \in job[r].full}
       IN bag' = bag \cup {x \in new : ~\E y \in bag : y.box = x.box /\ y.rank = x.rank}
    /\ End(r)
    /\ UNCHANGED <<scene, day, wallets, sess, faults>>

-----------------------------------------------------------------------------
(* Creating a session: the session, then its boxes.                        *)
Make(p) ==
    /\ At(p, "make")
    /\ sess' = Append(sess, Bare)
    /\ Hold(p, [job[p] EXCEPT !.sess = Len(sess) + 1]) /\ Go(p, "boxes")
    /\ UNCHANGED <<scene, day, wallets, bag, lock, faults>>

Boxes(p) ==
    /\ At(p, "boxes")
    /\ IF sess[job[p].sess].box[1] # NoBox THEN End(p) /\ UNCHANGED sess
       ELSE /\ sess' = [sess EXCEPT ![job[p].sess] = Laid(@)]
            /\ IF p \in Reqs THEN Go(p, "fill") /\ UNCHANGED <<lock, job>> ELSE End(p)
    /\ UNCHANGED <<scene, day, wallets, bag, faults>>

(* Opening the room, or its owner's start: under the treasure lock.        *)
Start(p) ==
    /\ At(p, "idle") /\ scene.op[p] = "start"
    /\ \/ lock["room"] # None /\ End(p) /\ UNCHANGED sess
       \/ /\ lock["room"] = None
          /\ \E s \in IF Active = {} THEN {0} ELSE Active :
               IF CompletedToday \/ (s # 0 /\ sess[s].day = day)
               THEN End(p) /\ sess' = Finish({x \in {s} \ {0} : sess[x].day # day}, "COMPLETED")
               ELSE /\ sess' = Finish({s} \ {0}, "COMPLETED")
                    /\ lock' = [lock EXCEPT !["room"] = p] /\ Go(p, "make") /\ UNCHANGED job
    /\ UNCHANGED <<scene, day, wallets, bag, faults>>

(* A reader of the room's boxes starts the day's session too, unlocked.    *)
Status(p) ==
    /\ \/ At(p, "idle") /\ scene.op[p] = "status"
       \/ At(p, "look")
    /\ IF Active # {} \/ CompletedToday THEN End(p)
       ELSE Go(p, "make") /\ UNCHANGED <<job, lock>>
    /\ UNCHANGED <<scene, day, wallets, bag, sess, faults>>

(* A manager cancels the session he found active; an admin archives every  *)
(* one and starts anew.                                                    *)
Find(p) ==
    /\ At(p, "idle") /\ scene.op[p] \in {"cancel", "reset"}
    /\ \/ Active = {} /\ scene.op[p] = "cancel" /\ End(p)
       \/ /\ UNCHANGED lock /\ Go(p, "close")
          /\ \/ scene.op[p] = "reset" /\ Hold(p, [Blank EXCEPT !.all = Active])
             \/ \E s \in Active : scene.op[p] = "cancel" /\ Hold(p, [Blank EXCEPT !.all = {s}])
    /\ UNCHANGED <<scene, day, wallets, bag, sess, faults>>

Close(p) ==
    /\ At(p, "close")
    /\ \/ /\ scene.op[p] = "cancel" /\ End(p)
          /\ sess' = Finish(job[p].all, "CANCELLED")
       \/ /\ scene.op[p] = "reset" /\ Go(p, "look") /\ UNCHANGED <<job, lock>>
          /\ sess' = Finish(job[p].all, "ARCHIVED")
    /\ UNCHANGED <<scene, day, wallets, bag, faults>>

-----------------------------------------------------------------------------
(* Midnight, and the archiving of the sessions it left active.             *)
Midnight ==
    /\ day < scene.days /\ day' = day + 1
    /\ UNCHANGED <<scene, wallets, bag, sess, lock, pc, job, faults>>

Archive(p) ==
    /\ At(p, "idle") /\ scene.op[p] = "archive"
    /\ sess' = Finish({s \in Active : sess[s].day < day}, "COMPLETED")
    /\ End(p)
    /\ UNCHANGED <<scene, day, wallets, bag, faults>>

(* A process dies, its transaction rolled back; its locks time out.  What  *)
(* it had in hand stays visible to the properties.                         *)
Crash(p) ==
    /\ pc[p] \notin {"idle", "done", "dead"} /\ faults < scene.deaths
    /\ faults' = faults + 1 /\ Go(p, "dead")
    /\ UNCHANGED <<scene, day, wallets, bag, sess, lock, job>>

Expire(k) ==
    /\ lock[k] # None /\ pc[lock[k]] = "dead"
    /\ lock' = [lock EXCEPT ![k] = None]
    /\ UNCHANGED <<scene, day, wallets, bag, sess, pc, job, faults>>

-----------------------------------------------------------------------------
Init ==
    /\ scene \in Scenes /\ day = 1
    /\ gift = [k \in Keys |-> None] /\ ledger = {} /\ bag = {} /\ sess = <<>>
    /\ lock = [k \in LockKeys |-> None]
    /\ pc = [p \in Procs |-> "idle"] /\ job = [p \in Procs |-> Blank]
    /\ faults = 0

Step(p) ==
    \/ /\ p \in Reqs
       /\ \/ Check(p) \/ Lock(p) \/ OpenSend(p) \/ SettleSend(p) \/ Tell(p)
          \/ Feed(p) \/ Fill(p) \/ Count(p) \/ Complete(p) \/ OpenNext(p) \/ Advance(p)
          \/ RefundRest(p) \/ Grant(p)
    \/ p \in Mgrs /\ (Start(p) \/ Status(p) \/ Find(p) \/ Close(p) \/ Archive(p))
    \/ Make(p) \/ Boxes(p)

Next ==
    \/ \E p \in Procs : Step(p) \/ Crash(p)
    \/ Midnight
    \/ \E k \in LockKeys : Expire(k)

Spec == Init /\ [][Next]_vars
-----------------------------------------------------------------------------
(* Type invariant.                                                         *)
BoxStatuses == {"ABSENT", "PENDING", "ACTIVE", "OPENED"}
BoxType == [status : BoxStatuses, prog : Nat, rows : Seq([user : Users, amt : Nat, txn : Reqs])]
SessType == [day : 1 .. day, level : Levels, box : [Levels -> BoxType],
             status : {"ACTIVE", "COMPLETED", "CANCELLED", "ARCHIVED"}]
PCs == {"idle", "lock", "open", "settle", "tell", "feed", "make", "boxes", "fill", "count",
        "next", "level", "refund", "grant", "look", "close", "done", "dead"}
TypeOK ==
    /\ scene \in Scenes /\ day \in 1 .. scene.days /\ faults \in 0 .. scene.deaths
    /\ gift \in [Keys -> Reqs \cup {None}]
    /\ \A e \in ledger : e.user \in Users /\ e.cur \in {GOLD, DIAMOND} /\ e.amt \in Int
    /\ \A x \in bag : x.user \in Users /\ x.rank \in Ranks
    /\ sess \in Seq(SessType)
    /\ lock \in [LockKeys -> Procs \cup {None}]
    /\ pc \in [Procs -> PCs]

(* Rooms that nothing touches without the treasure lock: no status, and    *)
(* no cancel, reset or archive.                                            *)
Locked == \A m \in Mgrs : scene.op[m] \in {"none", "start"}

(* In an audio room, no start and no listener died: it would leave a       *)
(* session without boxes, or without an open box, where a send is refunded *)
(* in full and then heard and counted.                                     *)
Whole == Audio => \A p \in Procs : pc[p] = "dead" => p \in Reqs /\ job[p].level = 0

(* No listener died with coins in hand, and nobody gives to himself: such  *)
(* coins fill a box and have no row.                                       *)
Exact == \A r \in Reqs : /\ Send(r).from # Send(r).to
                         /\ ~(At(r, "dead") /\ job[r].took > 0)

(* No box takes more than it holds, one is open exactly when it is full,   *)
(* and its contributions never exceed its progress; they are its progress, *)
(* but for the coins a listener is about to count.  Sends, listeners,      *)
(* managers and readers interleave and die.                                *)
Contributed(rows) == SumFunction([i \in DOMAIN rows |-> rows[i].amt])
ProgressIsCounted ==
    \A s \in Sessions, l \in Levels :
        LET b == sess[s].box[l]
            counted == Contributed(b.rows)
        IN /\ b.prog <= Threshold[l]
           /\ b.status = "OPENED" <=> b.prog = Threshold[l]
           /\ counted <= b.prog
           /\ Exact => \/ counted = b.prog
                       \/ \E r \in Reqs : /\ At(r, "count") /\ job[r].sess = s /\ job[r].level = l
                                         /\ counted + job[r].took = b.prog

(* The boxes of a ladder open in order: the opened ones come first, one at *)
(* most is active, and none behind it has progress.                        *)
LadderInOrder ==
    \A s \in Sessions : \A l \in Levels, m \in Levels :
        LET b == sess[s].box
        IN l < m /\ b[l].status # "OPENED" =>
             /\ b[m].prog = 0 /\ b[m].status \in {"ABSENT", "PENDING"}

BoxesOK == TypeOK /\ ProgressIsCounted /\ LadderInOrder

(* Where only sends, starts and midnights touch a room's ladder, a day has *)
(* one, however they race: the ladders of a day pay their prizes once.     *)
OneLadderADay ==
    Locked => \A s, x \in Sessions : s # x => sess[s].day # sess[x].day

(* In such a room a gift's coins land once in a ladder, though it is       *)
(* announced twice and listeners die half way: what the boxes took and     *)
(* what came back are never more than the gift, and in an audio room they  *)
(* are the gift, but for one that met the last box of a ladder filled,     *)
(* which neither that ladder nor an earlier one has a coin of.             *)
RowsOf(rows, t) == SumFunction([i \in DOMAIN rows |-> IF rows[i].txn = t THEN rows[i].amt ELSE 0])
LandedIn(t, s) == SumFunction([l \in Levels |-> RowsOf(sess[s].box[l].rows, t)])
Back(k, s) ==
    SumAmt({e \in ledger : \/ e.why = "refund" /\ e.of = k
                           \/ e.why = "rest" /\ e.of = <<s, gift[k]>>})
Full(s) == sess[s].box[BoxCount].status = "OPENED"
Lands(k, s) == LandedIn(gift[k], s) + Back(k, s)
LandsOnce(k) ==
    /\ \A s \in Sessions : Lands(k, s) <= Send(gift[k]).amt
    /\ Audio => \/ \E s \in Sessions : Lands(k, s) = Send(gift[k]).amt
                \/ \E c \in Sessions : /\ Full(c)
                                       /\ \A s \in Sessions :
                                            sess[s].day <= sess[c].day => Lands(k, s) = 0
CoinsLandOnce ==
    Locked /\ Whole =>
       /\ \A e \in ledger : e.why = "refund" => gift[e.of] # None
       /\ \A k \in Keys : gift[k] # None => LandsOnce(k)

(* Every prize, in coins or in items, went to the one who holds its rank   *)
(* among the contributions that the box ended with.                        *)
Places(rows, n) == {q[n] : q \in {x \in Rankings(rows, FALSE) : n \in DOMAIN x}}
PrizesFollowRows ==
    /\ \A e \in ledger : e.why = "box" =>
          e.user \in Places(sess[e.of[1]].box[e.of[2]].rows, e.of[3])
    /\ \A x \in bag : x.user \in Places(sess[x.box[1]].box[x.box[2]].rows, x.rank)
=============================================================================

----------------------------- MODULE GiftsProofs ----------------------------
(***************************************************************************)
(* Gifts and treasure boxes, for any number of users, keys, requests,      *)
(* managers, boxes, days and deaths.  Whoever is about to write a box in   *)
(* the listener or in an audio send holds the room's treasure lock         *)
(* (ControlInv), so what it found is still there: the box it fills is the  *)
(* ladder's open one (BoxInv), its rows are the box's progress but for the *)
(* coins in hand (CountInv), and a box that has paid its prizes takes no   *)
(* further row (PrizeInv).  In a room that nothing touches without the     *)
(* lock, the days of its ladders ascend (DayInv) and every gift's coins    *)
(* are accounted for, in the boxes, in the ledger and in somebody's hands  *)
(* (EntryInv, LandInv), because an audio send finds an open box or a       *)
(* filled ladder (ReadyInv, SkipInv).                                      *)
(***************************************************************************)
EXTENDS Gifts, Sums, TLAPS

-----------------------------------------------------------------------------
(* Who holds the treasure lock, and what everybody has in hand.            *)
Working == {"fill", "count", "next", "level"}
Holds(p) ==
    \/ pc[p] \in Working
    \/ pc[p] \in {"make", "boxes"} /\ (p \in Mgrs => scene.op[p] = "start")
    \/ Audio /\ pc[p] \in {"open", "settle"}
Behind == {"make", "boxes", "refund", "grant"} \cup Working
Late == Working \cup {"refund", "grant"}

JobType == [sess : Int, old : Nat, level : Nat, left : Nat, took : Int, back : Nat,
            full : SUBSET Levels, all : SUBSET Nat]
Hand(p) ==
    /\ p \in Mgrs => /\ pc[p] \in {"idle", "make", "boxes", "look", "close", "done", "dead"}
                     /\ pc[p] = "close" => scene.op[p] \in {"cancel", "reset"}
                     /\ pc[p] = "look" => scene.op[p] = "reset"
                     /\ pc[p] \in {"make", "boxes"} => scene.op[p] \in {"start", "status", "reset"}
    /\ p \in Reqs => pc[p] \notin {"look", "close"}
    /\ pc[p] \in {"boxes"} \cup Late => job[p].sess \in Sessions
    /\ pc[p] \in {"idle", "lock", "open", "tell", "feed"} => job[p] = Blank
    /\ pc[p] = "settle" => /\ job[p].sess \in {-1, 0} \cup Sessions
                           /\ job[p].old \in {0} \cup Sessions
                           /\ job[p].level = 0
                           /\ ~Audio => job[p].sess = 0
                           /\ gift[Send(p).key] = None
    /\ pc[p] = "close" => job[p].all \subseteq Sessions
    /\ p \in Reqs /\ pc[p] \in Behind => /\ job[p].level \in Levels
                                         /\ gift[Send(p).key] # None
    /\ pc[p] \in {"tell", "feed"} => gift[Send(p).key] # None
    /\ p \in Reqs /\ pc[p] \in {"make", "boxes"} =>
         job[p] = [Blank EXCEPT !.sess = job[p].sess, !.level = 1, !.left = Send(p).amt]
    /\ pc[p] \in Working => job[p].back = 0
    /\ pc[p] = "level" => job[p].level < BoxCount
    /\ pc[p] \in {"open", "settle"} => lock[Send(p).from] = p
    /\ Holds(p) => lock["room"] = p
Written == \A k \in Keys : gift[k] # None => Send(gift[k]).key = k
Typed == TypeOK /\ job \in [Procs -> JobType]
ControlInv == Typed /\ Written /\ \A p \in Procs : Hand(p)

-----------------------------------------------------------------------------
(* Small facts.                                                            *)

LEMMA ProcsAre ==
  /\ None \notin Procs /\ \A r \in Reqs : r \in Procs /\ r \notin Mgrs
  /\ \A m \in Mgrs : m \in Procs /\ m \notin Reqs
  /\ \A p \in Procs : p \in Reqs \/ p \in Mgrs
BY GiftsAssumption DEF Procs

LEMMA LevelsAre ==
  /\ BoxCount \in Nat /\ BoxCount > 0 /\ IsFiniteSet(Levels)
  /\ \A l \in Levels : l \in Nat
  /\ \A l \in Levels : Threshold[l] \in Nat /\ Threshold[l] > 0
<1>1. BoxCount \in Nat /\ BoxCount > 0 /\ Threshold \in [Levels -> Nat \ {0}]
  BY GiftsAssumption
<1>2. IsFiniteSet(1 .. BoxCount)
  BY <1>1, FS_Interval
<1> QED
  BY <1>1, <1>2 DEF Levels

LEMMA SceneIs ==
  ASSUME TypeOK
  PROVE  /\ scene.op \in [Mgrs -> {"none", "start", "status", "cancel", "reset", "archive"}]
         /\ scene.send \in [Reqs -> [key : Keys, from : Users, to : Users, amt : Nat \ {0}]]
         /\ scene.room \in {"AUDIO", "VIDEO"}
         /\ \A r, q \in Reqs : Send(r).key = Send(q).key => Send(r) = Send(q)
BY GiftsAssumption DEF TypeOK, SceneType, Send

LEMMA SendIs ==
  ASSUME TypeOK, NEW r \in Reqs
  PROVE  /\ Send(r) \in [key : Keys, from : Users, to : Users, amt : Nat \ {0}]
         /\ Send(r).key \in Keys /\ Send(r).from \in Users /\ Send(r).to \in Users
         /\ Send(r).amt \in Nat /\ Send(r).amt > 0
BY SceneIs DEF Send

LEMMA SessionsAre ==
  ASSUME TypeOK
  PROVE  /\ Len(sess) \in Nat /\ Sessions = 1 .. Len(sess) /\ Sessions \subseteq Nat
         /\ \A s \in Sessions : sess[s] \in SessType
         /\ 0 \notin Sessions
BY DEF TypeOK, Sessions

LEMMA BoxIs ==
  ASSUME TypeOK, NEW s \in Sessions, NEW l \in Levels
  PROVE  /\ sess[s].box \in [Levels -> BoxType]
         /\ sess[s].box[l] \in BoxType /\ sess[s].box[l].prog \in Nat
         /\ sess[s].box[l].status \in BoxStatuses
         /\ sess[s].box[l].rows \in Seq([user : Users, amt : Nat, txn : Reqs])
         /\ sess[s].level \in Levels /\ sess[s].day \in Nat /\ sess[s].day <= day
<1>1. sess[s] \in SessType /\ day \in Nat
  BY SessionsAre, GiftsAssumption DEF TypeOK, SceneType
<1>2. sess[s].box \in [Levels -> BoxType] /\ sess[s].level \in Levels
      /\ sess[s].day \in 1 .. day
  BY <1>1 DEF SessType
<1>3. sess[s].box[l] \in BoxType /\ sess[s].day \in Nat /\ sess[s].day <= day
  BY <1>2
<1> QED
  BY <1>2, <1>3 DEF BoxType

LEMMA JobIs ==
  ASSUME Typed, NEW p \in Procs
  PROVE  job[p] \in JobType
BY DEF Typed

LEMMA BlankIs == Blank \in JobType
BY DEF Blank, JobType

LEMMA Goes ==
  ASSUME TypeOK, NEW p \in Procs, NEW w \in PCs, Go(p, w)
  PROVE  pc'[p] = w /\ pc' \in [Procs -> PCs] /\ \A q \in Procs : q # p => pc'[q] = pc[q]
BY DEF TypeOK, Go

LEMMA HoldsJob ==
  ASSUME Typed, NEW p \in Procs, NEW j \in JobType, Hold(p, j)
  PROVE  job'[p] = j /\ job' \in [Procs -> JobType] /\ \A q \in Procs : q # p => job'[q] = job[q]
BY DEF Typed, Hold

LEMMA FreedIs ==
  ASSUME TypeOK, NEW p \in Procs, lock' = Freed(p)
  PROVE  /\ lock' \in [LockKeys -> Procs \cup {None}]
         /\ \A k \in LockKeys : lock'[k] = IF lock[k] = p THEN None ELSE lock[k]
BY DEF TypeOK, Freed

LEMMA EndIs ==
  ASSUME Typed, NEW p \in Procs, End(p)
  PROVE  /\ pc'[p] = "done" /\ pc' \in [Procs -> PCs] /\ \A q \in Procs : q # p => pc'[q] = pc[q]
         /\ job'[p] = Blank /\ job' \in [Procs -> JobType] /\ \A q \in Procs : q # p => job'[q] = job[q]
         /\ lock' \in [LockKeys -> Procs \cup {None}]
         /\ \A k \in LockKeys : lock'[k] = IF lock[k] = p THEN None ELSE lock[k]
<1>1. TypeOK /\ "done" \in PCs /\ Go(p, "done") /\ Hold(p, Blank) /\ lock' = Freed(p)
  BY DEF Typed, End, PCs
<1> QED
  BY <1>1, Goes, HoldsJob, FreedIs, BlankIs

-----------------------------------------------------------------------------
(* What a step does to the sessions.                                       *)

(* One box is written.                                                     *)
LEMMA SetBoxIs ==
  ASSUME TypeOK, NEW p \in Procs, job[p].sess \in Sessions, NEW l \in Levels, NEW b \in BoxType,
         SetBox(p, l, b)
  PROVE  LET s == job[p].sess IN
         /\ sess' \in Seq(SessType) /\ Len(sess') = Len(sess) /\ DOMAIN sess' = DOMAIN sess
         /\ \A x \in Sessions : /\ x # s => sess'[x] = sess[x]
                                /\ sess'[x].day = sess[x].day /\ sess'[x].status = sess[x].status
                                /\ sess'[x].level = sess[x].level
         /\ sess'[s].box[l] = b
         /\ \A m \in Levels : m # l => sess'[s].box[m] = sess[s].box[m]
<1> DEFINE s == job[p].sess
           se == [sess[s] EXCEPT !.box = [sess[s].box EXCEPT ![l] = b]]
<1>1. sess[s] \in SessType /\ s \in 1 .. Len(sess) /\ sess \in Seq(SessType) /\ Len(sess) \in Nat
  BY SessionsAre DEF TypeOK
<1>2. sess' = [sess EXCEPT ![s] = se]
  BY DEF SetBox
<1>3. se \in SessType /\ se.day = sess[s].day /\ se.status = sess[s].status /\ se.level = sess[s].level
      /\ se.box[l] = b /\ \A m \in Levels : m # l => se.box[m] = sess[s].box[m]
  BY <1>1 DEF SessType
<1> HIDE DEF se
<1>4. sess' \in Seq(SessType) /\ Len(sess') = Len(sess) /\ DOMAIN sess' = DOMAIN sess
  BY <1>1, <1>2, <1>3
<1>5. sess'[s] = se /\ \A x \in Sessions : x # s => sess'[x] = sess[x]
  BY <1>1, <1>2 DEF Sessions
<1> QED
  BY <1>3, <1>4, <1>5

(* The same, with nothing named.                                           *)
LEMMA SetBoxSets ==
  ASSUME TypeOK, NEW p \in Procs, NEW s, s = job[p].sess, s \in Sessions, NEW l \in Levels,
         NEW b \in BoxType, SetBox(p, l, b)
  PROVE  /\ DOMAIN sess' = DOMAIN sess /\ \A x \in Sessions : x # s => sess'[x] = sess[x]
         /\ sess'[s].box[l] = b /\ \A m \in Levels : m # l => sess'[s].box[m] = sess[s].box[m]
<1>1. /\ DOMAIN sess' = DOMAIN sess /\ \A x \in Sessions : x # job[p].sess => sess'[x] = sess[x]
      /\ sess'[job[p].sess].box[l] = b
      /\ \A m \in Levels : m # l => sess'[job[p].sess].box[m] = sess[job[p].sess].box[m]
  BY SetBoxIs, ZenonT(40)
<1> QED
  BY <1>1

(* Sessions get a new status.                                              *)
LEMMA FinishIs ==
  ASSUME TypeOK, NEW ss, NEW st \in {"ACTIVE", "COMPLETED", "CANCELLED", "ARCHIVED"}
  PROVE  LET f == Finish(ss, st) IN
         /\ f \in Seq(SessType) /\ Len(f) = Len(sess) /\ DOMAIN f = DOMAIN sess
         /\ \A x \in Sessions : /\ f[x].day = sess[x].day /\ f[x].level = sess[x].level
                                /\ f[x].box = sess[x].box
                                /\ f[x].status = IF x \in ss THEN st ELSE sess[x].status
<1>1. \A x \in Sessions : sess[x] \in SessType
  BY SessionsAre
<1>2. Sessions = 1 .. Len(sess) /\ Len(sess) \in Nat
  BY SessionsAre
<1>3. \A x \in Sessions : LET e == IF x \in ss THEN [sess[x] EXCEPT !.status = st] ELSE sess[x] IN
         /\ e \in SessType /\ e.day = sess[x].day /\ e.level = sess[x].level /\ e.box = sess[x].box
         /\ e.status = IF x \in ss THEN st ELSE sess[x].status
  BY <1>1 DEF SessType
<1>4. Finish(ss, st) \in [1 .. Len(sess) -> SessType]
  BY <1>2, <1>3 DEF Finish
<1>5. Finish(ss, st) \in Seq(SessType) /\ Len(Finish(ss, st)) = Len(sess) /\ DOMAIN Finish(ss, st) = DOMAIN sess
  BY <1>4, <1>2 DEF Sessions
<1> QED
  BY <1>3, <1>5, Zenon DEF Finish

(* A session is created, without boxes or with them.                       *)
LEMMA FreshIs ==
  ASSUME TypeOK
  PROVE  /\ NoBox \in BoxType /\ (\A l \in Levels : Fresh(l) \in BoxType)
         /\ Bare \in SessType /\ Laid(Bare) \in SessType
         /\ \A se \in SessType : /\ Laid(se) \in SessType
                                 /\ Laid(se).day = se.day /\ Laid(se).level = se.level
                                 /\ Laid(se).status = se.status
                                 /\ \A l \in Levels : Laid(se).box[l] = Fresh(l)
<1>1. NoBox \in BoxType /\ \A l \in Levels : Fresh(l) \in BoxType
  <2>1. <<>> \in Seq([user : Users, amt : Nat, txn : Reqs])
    OBVIOUS
  <2>2. NoBox \in BoxType
    BY <2>1 DEF NoBox, BoxType, BoxStatuses
  <2>3. ASSUME NEW l \in Levels PROVE Fresh(l) \in BoxType
    BY <2>2 DEF Fresh, BoxType, BoxStatuses
  <2> QED
    BY <2>2, <2>3
<1>2. Bare \in SessType
  <2>1. day \in 1 .. day /\ 1 \in Levels
    BY LevelsAre, GiftsAssumption DEF TypeOK, SceneType, Levels
  <2> QED
    BY <1>1, <2>1 DEF Bare, SessType
<1>3. ASSUME NEW se \in SessType
      PROVE  /\ Laid(se) \in SessType
             /\ Laid(se).day = se.day /\ Laid(se).level = se.level
             /\ Laid(se).status = se.status
             /\ \A l \in Levels : Laid(se).box[l] = Fresh(l)
  BY <1>1 DEF Laid, SessType
<1> QED
  BY <1>1, <1>2, <1>3

LEMMA AppendIs ==
  ASSUME TypeOK, NEW f \in Seq(SessType), NEW se \in SessType
  PROVE  /\ Append(f, se) \in Seq(SessType) /\ Len(Append(f, se)) = Len(f) + 1
         /\ DOMAIN Append(f, se) = 1 .. Len(f) + 1
         /\ Append(f, se)[Len(f) + 1] = se
         /\ \A x \in 1 .. Len(f) : Append(f, se)[x] = f[x]
OBVIOUS

-----------------------------------------------------------------------------
(* How a gift is poured.  What comes to a box is what the boxes from the   *)
(* current one on have left over; so a gift fills a first part of those    *)
(* boxes, and the next takes the rest.                                     *)
BoxOK(se, l) ==
    LET b == se.box[l]
    IN /\ b.prog <= Threshold[l]
       /\ b.status = "OPENED" <=> b.prog = Threshold[l]
       /\ Contributed(b.rows) <= b.prog
       /\ b.status = "ABSENT" => b.prog = 0
       /\ l < se.level => b.status = "OPENED"
       /\ l > se.level => /\ b.prog = 0 /\ b.rows = <<>> /\ b.status # "OPENED"
                          /\ b.status = "ACTIVE" => l = se.level + 1 /\ se.box[se.level].status = "OPENED"
SessOK(se) == \A l \in Levels : BoxOK(se, l)

LEMMA SumSubset ==
  ASSUME NEW f, NEW S, IsFiniteSet(S), \A x \in S : f[x] \in Nat, NEW T \in SUBSET S
  PROVE  SumFunctionOnSet(f, T) <= SumFunctionOnSet(f, S)
<1> DEFINE Sum(U) == SumFunctionOnSet(f, U)
           Good == {U \in SUBSET S : Sum(U \cap T) <= Sum(U)}
<1>1. ASSUME NEW U \in SUBSET S, \A x \in U : U \ {x} \in Good
      PROVE  U \in Good
  <2>1. CASE U = {}
    <3>1. U \cap T = {}
      BY <2>1
    <3> QED
      BY <2>1, <3>1, SumEmpty
  <2>2. CASE U # {}
    <3>1. PICK c \in U : TRUE
      BY <2>2
    <3>2. IsFiniteSet(U) /\ IsFiniteSet(U \cap T) /\ f[c] \in Nat
      BY FS_Subset
    <3>3. Sum(U) = f[c] + Sum(U \ {c})
      BY <3>1, <3>2, SumPick
    <3>4. Sum((U \ {c}) \cap T) <= Sum(U \ {c})
      BY <1>1, <3>1
    <3>5. Sum(U \ {c}) \in Nat /\ Sum((U \ {c}) \cap T) \in Nat
      BY SumNat
    <3>6. CASE c \in T
      <4>1. Sum(U \cap T) = f[c] + Sum((U \cap T) \ {c})
        BY <3>1, <3>2, <3>6, SumPick
      <4>2. (U \cap T) \ {c} = (U \ {c}) \cap T
        OBVIOUS
      <4>3. Sum((U \cap T) \ {c}) = Sum((U \ {c}) \cap T)
        BY <4>2
      <4> HIDE DEF Sum
      <4>4. Sum(U \cap T) <= Sum(U)
        BY <3>2, <3>3, <3>4, <3>5, <4>1, <4>3
      <4> QED
        BY <4>4
    <3>7. CASE c \notin T
      <4>1. Sum((U \ {c}) \cap T) = Sum(U \cap T)
        <5>1. (U \ {c}) \cap T = U \cap T
          BY <3>7
        <5> QED
          BY <5>1
      <4> HIDE DEF Sum
      <4>2. Sum(U \cap T) <= Sum(U)
        BY <3>2, <3>3, <3>4, <3>5, <4>1
      <4> QED
        BY <4>2
    <3> QED
      BY <3>6, <3>7
  <2> QED
    BY <2>1, <2>2
<1>2. \A U \in SUBSET S : U \in Good
  <2> HIDE DEF Good
  <2> QED
    BY <1>1, SubsetInduction
<1>3. S \cap T = T /\ S \in Good
  BY <1>2
<1> QED
  BY <1>3

LEMMA MaxZero == ASSUME NEW x \in Int PROVE Max({0, x}) = IF x > 0 THEN x ELSE 0
<1> DEFINE m == IF x > 0 THEN x ELSE 0
<1>1. m \in {0, x} /\ \A y \in {0, x} : m >= y
  OBVIOUS
<1>2. \A z \in {0, x} : (\A y \in {0, x} : z >= y) => z = m
  OBVIOUS
<1> HIDE DEF m
<1>3. Max({0, x}) = m
  BY <1>1, <1>2 DEF Max
<1> QED
  BY <1>3 DEF m

LEMMA MinTwo == ASSUME NEW a \in Int, NEW b \in Int PROVE Min({a, b}) = IF a <= b THEN a ELSE b
<1> DEFINE m == IF a <= b THEN a ELSE b
<1>1. m \in {a, b} /\ \A y \in {a, b} : m <= y
  OBVIOUS
<1>2. \A z \in {a, b} : (\A y \in {a, b} : z <= y) => z = m
  OBVIOUS
<1> HIDE DEF m
<1>3. Min({a, b}) = m
  BY <1>1, <1>2 DEF Min
<1> QED
  BY <1>3 DEF m

LEMMA MaxIs ==
  ASSUME NEW S, S \subseteq Int, NEW m \in S, \A y \in S : m >= y
  PROVE  Max(S) = m
<1>1. \A z \in S : (\A y \in S : z >= y) => z = m
  OBVIOUS
<1> QED
  BY <1>1 DEF Max

LEMMA MinIs ==
  ASSUME NEW S, S \subseteq Int, NEW m \in S, \A y \in S : m <= y
  PROVE  Min(S) = m
<1>1. \A z \in S : (\A y \in S : z <= y) => z = m
  OBVIOUS
<1> QED
  BY <1>1 DEF Min

(* A set of levels that is not empty has a greatest one.                   *)
LEMMA MaxLevel ==
  ASSUME NEW S, S \subseteq Levels, S # {}
  PROVE  Max(S) \in S /\ \A y \in S : y <= Max(S)
<1> DEFINE T == {BoxCount - l : l \in S}
<1>0. BoxCount \in Nat /\ \A l \in S : l \in Int /\ BoxCount - l \in Nat
  BY LevelsAre DEF Levels
<1>1. T \subseteq Nat /\ T # {} /\ S \subseteq Int /\ BoxCount \in Nat
  BY <1>0
<1>2. \E n \in T : \A m \in T : n <= m
  <2> HIDE DEF T
  <2> QED
    BY <1>1, LeastNatural
<1>3. PICK l \in S : \A m \in T : BoxCount - l <= m
  BY <1>2
<1>4. \A y \in S : l >= y
  BY <1>1, <1>3
<1>5. Max(S) = l
  BY <1>1, <1>4, MaxIs
<1> QED
  BY <1>4, <1>5, <1>1

LEMMA NeedIs ==
  ASSUME NEW se, se.level \in Levels, se.box \in [Levels -> BoxType]
  PROVE  \A l \in Levels : /\ Need(se, l) \in Int
                           /\ Need(se, l) = Threshold[l] - se.box[l].prog
                           /\ se.box[l].prog \in Nat /\ Threshold[l] \in Nat
BY LevelsAre DEF Need, BoxType

LEMMA ComesInt ==
  ASSUME NEW se, se.level \in Levels, se.box \in [Levels -> BoxType], NEW v \in Nat,
         NEW l \in 1 .. BoxCount + 1
  PROVE  Comes(se, v, l) \in Int
<1> DEFINE f == [j \in Levels |-> Need(se, j)]
           T == se.level .. l - 1
<1>1. T \subseteq Levels /\ IsFiniteSet(Levels)
  <2>1. l \in Nat /\ l <= BoxCount + 1 /\ se.level \in Nat /\ se.level >= 1 /\ BoxCount \in Nat
    BY LevelsAre DEF Levels
  <2>2. T \subseteq Levels
    BY <2>1 DEF Levels
  <2> QED
    BY <2>2, LevelsAre
<1>2. \A x \in Levels : f[x] \in Int
  BY NeedIs
<1>3. SumFunctionOnSet(f, T) \in Int
  <2> HIDE DEF f, T
  <2> QED
    BY <1>1, <1>2, SumInt
<1> QED
  BY <1>3 DEF Comes

LEMMA ReachIs ==
  ASSUME NEW se, se.level \in Levels, NEW v, NEW last \in 0 .. BoxCount
  PROVE  /\ Reach(se, last) \subseteq Levels /\ Filled(se, v, last) \subseteq Reach(se, last)
         /\ \A l \in Reach(se, last) : l \in Nat /\ se.level <= l /\ l <= last
                                       /\ se.box[se.level].status = "ACTIVE"
BY LevelsAre DEF Reach, Filled, Levels

LEMMA PouredNat ==
  ASSUME NEW se, se.level \in Levels, se.box \in [Levels -> BoxType], NEW v \in Nat,
         NEW last \in 0 .. BoxCount, NEW l \in Levels
  PROVE  /\ Poured(se, v, last, l) \in Nat
         /\ l \notin Reach(se, last) => Poured(se, v, last, l) = 0
         /\ l \in Reach(se, last) =>
              LET c == Comes(se, v, l)
                  n == Need(se, l)
              IN Poured(se, v, last, l) = IF n <= c THEN (IF n > 0 THEN n ELSE 0)
                                          ELSE IF c > 0 THEN c ELSE 0
<1>1. l \in 1 .. BoxCount + 1
  BY LevelsAre DEF Levels
<1> DEFINE c == Comes(se, v, l)
           n == Need(se, l)
<1>2. c \in Int /\ n \in Int
  BY <1>1, ComesInt, NeedIs
<1>3. Min({n, c}) = IF n <= c THEN n ELSE c
  BY <1>2, MinTwo
<1>4. Min({n, c}) \in Int
  BY <1>2, <1>3
<1>5. Max({0, Min({n, c})}) = IF Min({n, c}) > 0 THEN Min({n, c}) ELSE 0
  BY <1>4, MaxZero
<1>6. Max({0, Min({n, c})}) = IF n <= c THEN (IF n > 0 THEN n ELSE 0) ELSE IF c > 0 THEN c ELSE 0
  BY <1>2, <1>3, <1>5
<1>7. Poured(se, v, last, l) = IF l \in Reach(se, last) THEN Max({0, Min({n, c})}) ELSE 0
  BY DEF Poured
<1> HIDE DEF c, n
<1>8. Max({0, Min({n, c})}) \in Nat
  BY <1>2, <1>6
<1> QED
  BY <1>6, <1>7, <1>8 DEF c, n

LEMMA AcceptedInt ==
  ASSUME NEW se, se.level \in Levels, se.box \in [Levels -> BoxType], NEW v \in Nat,
         NEW last \in 0 .. BoxCount
  PROVE  Accepted(se, v, last) \in Nat
<1> DEFINE f == [l \in Levels |-> Poured(se, v, last, l)]
<1>1. \A l \in Levels : f[l] \in Nat
  BY PouredNat
<1>2. IsFiniteSet(Levels) /\ DOMAIN f = Levels
  BY LevelsAre
<1>3. SumFunctionOnSet(f, Levels) \in Nat
  <2> HIDE DEF f
  <2> QED
    BY <1>1, <1>2, SumNat
<1>4. SumFunction(f) = SumFunctionOnSet(f, DOMAIN f)
  BY SumOfAll
<1>5. SumFunction(f) \in Nat
  BY <1>2, <1>3, <1>4
<1> QED
  BY <1>5 DEF Accepted

(* What a poured session is.                                               *)
LEMMA PourTyped ==
  ASSUME TypeOK, NEW se \in SessType, NEW u \in Users, NEW v \in Nat, NEW t \in Reqs,
         NEW last \in 0 .. BoxCount
  PROVE  LET to == Pour(se, u, v, t, last)
             full == Filled(se, v, last)
             got(l) == Poured(se, v, last, l)
         IN /\ to \in SessType /\ to.day = se.day
            /\ to.status = IF BoxCount \in full THEN "COMPLETED" ELSE se.status
            /\ full = {} => to.level = se.level
            /\ full # {} => /\ Max(full) \in full /\ \A l \in full : l <= Max(full)
                            /\ to.level = IF Max(full) < BoxCount THEN Max(full) + 1 ELSE BoxCount
            /\ \A l \in Levels :
                 /\ to.box[l].status = IF l \in full THEN "OPENED"
                                       ELSE IF l - 1 \in full THEN "ACTIVE" ELSE se.box[l].status
                 /\ to.box[l].prog = se.box[l].prog + got(l)
                 /\ to.box[l].rows = IF got(l) > 0 THEN Append(se.box[l].rows, Row(u, got(l), t))
                                     ELSE se.box[l].rows
<1> DEFINE to == Pour(se, u, v, t, last)
           full == Filled(se, v, last)
           got(l) == Poured(se, v, last, l)
           box(l) == [status |-> IF l \in full THEN "OPENED"
                         ELSE IF l - 1 \in full THEN "ACTIVE" ELSE se.box[l].status,
                      prog |-> se.box[l].prog + got(l),
                      rows |-> IF got(l) > 0 THEN Append(se.box[l].rows, Row(u, got(l), t))
                               ELSE se.box[l].rows]
           level == IF full = {} THEN se.level ELSE Min({Max(full) + 1, BoxCount})
           status == IF BoxCount \in full THEN "COMPLETED" ELSE se.status
<1>1. /\ se.level \in Levels /\ se.box \in [Levels -> BoxType]
      /\ se.status \in {"ACTIVE", "COMPLETED", "CANCELLED", "ARCHIVED"}
  BY DEF SessType
<1>2. \A l \in Levels : got(l) \in Nat
  BY <1>1, PouredNat
<1>3. full \subseteq Levels
  <2>1. \A x : Filled(se, x, last) \subseteq Reach(se, last) /\ Reach(se, last) \subseteq Levels
    BY <1>1, ReachIs
  <2> QED
    BY <2>1
<1>4. full # {} => Max(full) \in full /\ \A l \in full : l <= Max(full)
  <2> HIDE DEF full
  <2> QED
    BY <1>3, MaxLevel
<1>5. full # {} => level = IF Max(full) < BoxCount THEN Max(full) + 1 ELSE BoxCount
  <2>1. full # {} => Max(full) + 1 \in Int /\ BoxCount \in Int /\ Max(full) \in Int
    BY <1>3, <1>4, LevelsAre
  <2>2. full # {} => Min({Max(full) + 1, BoxCount}) = IF Max(full) + 1 <= BoxCount THEN Max(full) + 1 ELSE BoxCount
    BY <2>1, MinTwo
  <2> HIDE DEF full
  <2> QED
    BY <2>1, <2>2
<1>6. level \in Levels
  <2> HIDE DEF full
  <2> QED
    <3>1. full = {} => level = se.level
      OBVIOUS
    <3> HIDE DEF level
    <3>2. full # {} => Max(full) \in 1 .. BoxCount /\ BoxCount \in Nat /\ BoxCount > 0
      BY <1>3, <1>4, LevelsAre DEF Levels
    <3>3. full # {} => level \in 1 .. BoxCount
      BY <1>5, <3>2
    <3> QED
      BY <1>1, <3>1, <3>3 DEF Levels
<1>7. \A l \in Levels : box(l) \in BoxType
  <2> SUFFICES ASSUME NEW l \in Levels PROVE box(l) \in BoxType
    OBVIOUS
  <2>1. se.box[l] \in BoxType /\ got(l) \in Nat
    BY <1>1, <1>2
  <2>2. Row(u, got(l), t) \in [user : Users, amt : Nat, txn : Reqs]
    BY <2>1 DEF Row
  <2> HIDE DEF got, full
  <2>3. box(l).rows \in Seq([user : Users, amt : Nat, txn : Reqs])
    <3> DEFINE T == [user : Users, amt : Nat, txn : Reqs]
               e == Row(u, got(l), t)
    <3>1. se.box[l].rows \in Seq(T) /\ e \in T
      BY <2>1, <2>2 DEF BoxType
    <3> HIDE DEF T, e
    <3>2. Append(se.box[l].rows, e) \in Seq(T)
      BY <3>1
    <3> QED
      BY <3>1, <3>2 DEF T, e
  <2>4. box(l).status \in BoxStatuses /\ box(l).prog \in Nat
    BY <2>1 DEF BoxType, BoxStatuses
  <2> QED
    BY <2>3, <2>4 DEF BoxType
<1>8. to = [se EXCEPT !.box = [l \in Levels |-> box(l)], !.level = level, !.status = status]
  BY DEF Pour
<1>a. \A l \in Levels :
         /\ box(l).status = IF l \in full THEN "OPENED"
                            ELSE IF l - 1 \in full THEN "ACTIVE" ELSE se.box[l].status
         /\ box(l).prog = se.box[l].prog + got(l)
         /\ box(l).rows = IF got(l) > 0 THEN Append(se.box[l].rows, Row(u, got(l), t))
                          ELSE se.box[l].rows
  <2> HIDE DEF full, got
  <2> QED
    OBVIOUS
<1> HIDE DEF to, box, level, status, full, got
<1>9. status \in {"ACTIVE", "COMPLETED", "CANCELLED", "ARCHIVED"}
  BY <1>1 DEF status
<1>10. to \in SessType /\ to.day = se.day /\ to.level = level /\ to.status = status
       /\ \A l \in Levels : to.box[l] = box(l)
  BY <1>6, <1>7, <1>8, <1>9, Zenon DEF SessType
<1>11. \A l \in Levels :
         /\ to.box[l].status = IF l \in full THEN "OPENED"
                               ELSE IF l - 1 \in full THEN "ACTIVE" ELSE se.box[l].status
         /\ to.box[l].prog = se.box[l].prog + got(l)
         /\ to.box[l].rows = IF got(l) > 0 THEN Append(se.box[l].rows, Row(u, got(l), t))
                             ELSE se.box[l].rows
  <2> SUFFICES ASSUME NEW l \in Levels
               PROVE  /\ to.box[l].status = IF l \in full THEN "OPENED"
                                            ELSE IF l - 1 \in full THEN "ACTIVE" ELSE se.box[l].status
                      /\ to.box[l].prog = se.box[l].prog + got(l)
                      /\ to.box[l].rows = IF got(l) > 0 THEN Append(se.box[l].rows, Row(u, got(l), t))
                                          ELSE se.box[l].rows
    OBVIOUS
  <2>1. to.box[l] = box(l)
    BY <1>10
  <2> QED
    BY <1>a, <2>1
<1>12. full = {} => to.level = se.level
  BY <1>10 DEF level
<1>13. full # {} => to.level = IF Max(full) < BoxCount THEN Max(full) + 1 ELSE BoxCount
  BY <1>5, <1>10
<1>14. to.status = IF BoxCount \in full THEN "COMPLETED" ELSE se.status
  BY <1>10 DEF status
<1>15. to \in SessType /\ to.day = se.day
  BY <1>10
<1> QED
  BY <1>4, <1>11, <1>12, <1>13, <1>14, <1>15 DEF full, got, to

-----------------------------------------------------------------------------
(* The ranking of a box's contributors always exists, also when ties are   *)
(* to be broken: of those still to be placed, the last one is the smallest *)
(* contributor, and of the smallest the one who came last.                 *)
RowType == [user : Users, amt : Nat, txn : Reqs]

LEMMA RowsAre ==
  ASSUME NEW rows \in Seq(RowType)
  PROVE  /\ IsFiniteSet(DOMAIN rows) /\ DOMAIN rows \subseteq Nat /\ DOMAIN rows = 1 .. Len(rows)
         /\ Len(rows) \in Nat
         /\ \A i \in DOMAIN rows : rows[i].amt \in Nat /\ rows[i].user \in Users /\ rows[i].txn \in Reqs
         /\ Givers(rows) \subseteq Users /\ IsFiniteSet(Givers(rows))
<1>1. Len(rows) \in Nat /\ DOMAIN rows = 1 .. Len(rows)
  OBVIOUS
<1>2. \A i \in DOMAIN rows : rows[i] \in RowType
  OBVIOUS
<1>3. \A i \in DOMAIN rows : rows[i].amt \in Nat /\ rows[i].user \in Users /\ rows[i].txn \in Reqs
  BY <1>2 DEF RowType
<1>4. IsFiniteSet(DOMAIN rows)
  BY <1>1, FS_Interval
<1> DEFINE f == [i \in DOMAIN rows |-> rows[i].user]
<1>5. Givers(rows) = {f[i] : i \in DOMAIN rows}
  BY DEF Givers
<1>6. f \in [DOMAIN rows -> Givers(rows)] /\ \A u \in Givers(rows) : \E i \in DOMAIN rows : f[i] = u
  BY <1>5
<1>7. IsFiniteSet(Givers(rows))
  <2>1. f \in Surjection(DOMAIN rows, Givers(rows))
    BY <1>6 DEF Surjection
  <2> QED
    BY <1>4, <2>1, FS_Surjection
<1> QED
  BY <1>1, <1>3, <1>4, <1>5, <1>7

LEMMA GivenNat ==
  ASSUME NEW rows \in Seq(RowType), NEW u
  PROVE  Given(rows, u) \in Nat
<1> DEFINE D == {j \in DOMAIN rows : rows[j].user = u}
           f == [i \in D |-> rows[i].amt]
<1>1. IsFiniteSet(D) /\ \A i \in D : f[i] \in Nat
  BY RowsAre, FS_Subset
<1>2. SumFunctionOnSet(f, D) \in Nat
  <2> HIDE DEF f, D
  <2> QED
    BY <1>1, SumNat
<1>3. SumFunction(f) = SumFunctionOnSet(f, D)
  BY SumOfAll
<1> QED
  BY <1>2, <1>3 DEF Given

LEMMA FirstIs ==
  ASSUME NEW rows \in Seq(RowType), NEW u \in Givers(rows)
  PROVE  First(rows, u) \in DOMAIN rows /\ First(rows, u) \in Nat /\ rows[First(rows, u)].user = u
         /\ First(rows, u) <= Len(rows)
<1> DEFINE D == {i \in DOMAIN rows : rows[i].user = u}
<1>1. D \subseteq Nat /\ D # {} /\ D \subseteq Int
  BY RowsAre DEF Givers
<1>2. \E n \in D : \A m \in D : n <= m
  <2> HIDE DEF D
  <2> QED
    BY <1>1, LeastNatural
<1>3. PICK n \in D : \A m \in D : n <= m
  BY <1>2
<1>4. Min(D) = n
  <2> HIDE DEF D
  <2> QED
    BY <1>1, <1>3, MinIs
<1>5. First(rows, u) = n
  BY <1>4 DEF First
<1> QED
  BY <1>3, <1>5, RowsAre

(* u is ranked before w.                                                   *)
Ahead(rows, u, w) ==
    \/ Given(rows, u) > Given(rows, w)
    \/ Given(rows, u) = Given(rows, w) /\ First(rows, u) < First(rows, w)

LEMMA LastIs ==
  ASSUME NEW rows \in Seq(RowType), NEW T \in SUBSET Givers(rows), T # {}
  PROVE  \E u \in T : \A w \in T : w # u => Ahead(rows, w, u)
<1> DEFINE G == {Given(rows, u) : u \in T}
<1>1. G \subseteq Nat /\ G # {}
  BY GivenNat
<1>2. \E n \in G : \A m \in G : n <= m
  <2> HIDE DEF G
  <2> QED
    BY <1>1, LeastNatural
<1>3. PICK a \in T : \A w \in T : Given(rows, a) <= Given(rows, w)
  BY <1>2
<1> DEFINE S == {u \in T : Given(rows, u) = Given(rows, a)}
           F == {Len(rows) - First(rows, u) : u \in S}
<1>4. \A u \in T : First(rows, u) \in Nat /\ First(rows, u) <= Len(rows) /\ Len(rows) \in Nat
                   /\ rows[First(rows, u)].user = u /\ Given(rows, u) \in Nat
  BY FirstIs, RowsAre, GivenNat
<1>5. F \subseteq Nat /\ F # {}
  BY <1>3, <1>4
<1>6. \E n \in F : \A m \in F : n <= m
  <2> HIDE DEF F
  <2> QED
    BY <1>5, LeastNatural
<1>7. PICK u \in S : \A m \in F : Len(rows) - First(rows, u) <= m
  BY <1>6
<1>8. \A w \in S : First(rows, w) <= First(rows, u)
  <2>1. \A w \in S : Len(rows) - First(rows, u) <= Len(rows) - First(rows, w)
    BY <1>7
  <2> QED
    BY <1>4, <1>7, <2>1
<1>9. \A w \in T : w # u => Ahead(rows, w, u)
  <2> SUFFICES ASSUME NEW w \in T, w # u PROVE Ahead(rows, w, u)
    OBVIOUS
  <2>1. Given(rows, u) <= Given(rows, w) /\ Given(rows, u) \in Nat /\ Given(rows, w) \in Nat
    BY <1>3, <1>4, <1>7
  <2>2. CASE Given(rows, w) = Given(rows, u)
    <3>1. First(rows, w) <= First(rows, u) /\ First(rows, w) # First(rows, u)
      BY <1>4, <1>7, <1>8, <2>2
    <3>2. First(rows, w) < First(rows, u)
      BY <1>4, <1>7, <3>1
    <3> QED
      BY <2>2, <3>2 DEF Ahead
  <2>3. CASE Given(rows, w) # Given(rows, u)
    BY <2>1, <2>3 DEF Ahead
  <2> QED
    BY <2>2, <2>3
<1> QED
  BY <1>7, <1>9

LEMMA RankingExists ==
  ASSUME NEW rows \in Seq(RowType)
  PROVE  \E q : q \in Rankings(rows, TRUE)
<1> DEFINE U == Givers(rows)
           Order(T) == {q \in [1 .. Cardinality(T) -> T] :
                          \A i, j \in 1 .. Cardinality(T) : i < j => q[i] # q[j] /\ Ahead(rows, q[i], q[j])}
           Good == {T \in SUBSET U : Order(T) # {}}
<1>1. IsFiniteSet(U)
  BY RowsAre
<1>2. ASSUME NEW T \in SUBSET U, \A x \in T : T \ {x} \in Good
      PROVE  T \in Good
  <2>1. CASE T = {}
    <3>1. Cardinality(T) = 0
      BY <2>1, FS_EmptySet
    <3>2. [i \in 1 .. 0 |-> 0] \in Order(T)
      BY <3>1
    <3> QED
      BY <3>2
  <2>2. CASE T # {}
    <3>1. PICK u \in T : \A w \in T : w # u => Ahead(rows, w, u)
      BY <2>2, LastIs
    <3> DEFINE n == Cardinality(T)
    <3>2. IsFiniteSet(T) /\ n \in Nat
      BY <1>1, FS_Subset, FS_CardinalityType
    <3>3. Cardinality(T \ {u}) = n - 1 /\ Cardinality(T \ {u}) \in Nat
      BY <3>2, FS_RemoveElement, FS_CardinalityType
    <3>4. T \ {u} \in Good
      BY <1>2
    <3>5. Order(T \ {u}) # {}
      BY <3>4
    <3>6. PICK p : p \in Order(T \ {u})
      BY <3>5
    <3>7. p \in [1 .. n - 1 -> T \ {u}]
          /\ \A i, j \in 1 .. n - 1 : i < j => p[i] # p[j] /\ Ahead(rows, p[i], p[j])
      BY <3>3, <3>6
    <3> HIDE DEF n
    <3> DEFINE q == [i \in 1 .. n |-> IF i = n THEN u ELSE p[i]]
    <3>8. \A i \in 1 .. n : i # n => i \in 1 .. n - 1 /\ q[i] = p[i] /\ q[i] \in T \ {u}
      BY <3>2, <3>7
    <3>9. n \in 1 .. n => q[n] = u
      BY <3>1
    <3>10. q \in [1 .. n -> T]
      BY <3>1, <3>8, <3>9
    <3>11. ASSUME NEW i \in 1 .. n, NEW j \in 1 .. n, i < j
           PROVE  q[i] # q[j] /\ Ahead(rows, q[i], q[j])
      <4>1. i # n /\ q[i] = p[i] /\ p[i] \in T \ {u} /\ i \in 1 .. n - 1
        BY <3>2, <3>8, <3>11
      <4>2. CASE j = n
        BY <3>1, <3>9, <4>1, <4>2
      <4>3. CASE j # n
        <5>1. q[j] = p[j] /\ j \in 1 .. n - 1
          BY <3>8, <4>3
        <5> HIDE DEF q
        <5> QED
          BY <3>7, <3>11, <4>1, <5>1
      <4> QED
        BY <4>2, <4>3
    <3> HIDE DEF q
    <3>12. q \in Order(T)
      BY <3>10, <3>11 DEF n
    <3> QED
      BY <3>12
  <2> QED
    BY <2>1, <2>2
<1>3. \A T \in SUBSET U : T \in Good
  <2>1. \A T \in SUBSET U : (\A x \in T : T \ {x} \in Good) => T \in Good
    BY <1>2
  <2> HIDE DEF Good, U
  <2> QED
    BY <1>1, <2>1, SubsetInduction
<1>4. PICK q : q \in Order(U)
  BY <1>3
<1>5. q \in [1 .. Cardinality(U) -> U] /\ Cardinality(U) \in Nat
  BY <1>1, <1>4, FS_CardinalityType
<1>6. \A i, j \in DOMAIN q : i < j => q[i] # q[j] /\ Ahead(rows, q[i], q[j])
  BY <1>4, <1>5
<1>7. IsInjective(q)
  <2> SUFFICES ASSUME NEW i \in DOMAIN q, NEW j \in DOMAIN q, q[i] = q[j] PROVE i = j
    BY DEF IsInjective
  <2>1. i \in Nat /\ j \in Nat
    BY <1>5
  <2>2. ~(i < j) /\ ~(j < i)
    BY <1>6
  <2> QED
    BY <2>1, <2>2
<1>8. \A i, j \in DOMAIN q : i < j =>
         \/ Given(rows, q[i]) > Given(rows, q[j])
         \/ Given(rows, q[i]) = Given(rows, q[j]) /\ (TRUE => First(rows, q[i]) < First(rows, q[j]))
  BY <1>6 DEF Ahead
<1>9. q \in Rankings(rows, TRUE)
  BY <1>5, <1>7, <1>8 DEF Rankings
<1> QED
  BY <1>9

LEMMA RankingIs ==
  ASSUME NEW rows \in Seq(RowType), NEW q, NEW strict \in BOOLEAN, q \in Rankings(rows, strict)
  PROVE  /\ q \in Rankings(rows, FALSE)
         /\ DOMAIN q \subseteq Nat
         /\ \A n \in DOMAIN q : q[n] \in Users /\ q[n] \in Places(rows, n)
<1>1. q \in [1 .. Cardinality(Givers(rows)) -> Givers(rows)] /\ IsInjective(q)
      /\ \A i, j \in DOMAIN q : i < j =>
           \/ Given(rows, q[i]) > Given(rows, q[j])
           \/ /\ Given(rows, q[i]) = Given(rows, q[j])
              /\ strict => First(rows, q[i]) < First(rows, q[j])
  BY DEF Rankings
<1>2. q \in Rankings(rows, FALSE)
  BY <1>1 DEF Rankings
<1>3. Cardinality(Givers(rows)) \in Nat
  BY RowsAre, FS_CardinalityType
<1>4. \A n \in DOMAIN q : q[n] \in Users
  BY <1>1, RowsAre
<1>5. \A n \in DOMAIN q : q[n] \in Places(rows, n)
  BY <1>2 DEF Places
<1>6. DOMAIN q \subseteq Nat
  BY <1>1, <1>3
<1> QED
  BY <1>2, <1>4, <1>5, <1>6

-----------------------------------------------------------------------------
(* What a step of p leaves to the others.                                  *)
Frame(p) ==
    /\ scene' = scene
    /\ \A q \in Procs : q # p => pc'[q] = pc[q] /\ job'[q] = job[q]
    /\ \A k \in LockKeys, q \in Procs : q # p /\ lock[k] = q => lock'[k] = q
    /\ DOMAIN sess \subseteq DOMAIN sess'
    /\ \A k \in Keys : gift[k] # None => gift'[k] = gift[k]
    /\ \A q \in Reqs : q # p /\ pc[q] = "settle" => gift'[Send(q).key] = gift[Send(q).key]

LEMMA KeysAre ==
  ASSUME TypeOK
  PROVE  /\ "room" \in LockKeys /\ \A r \in Reqs : Send(r).from \in LockKeys /\ Send(r).to \in LockKeys
BY SendIs DEF LockKeys

LEMMA PCsAre == ASSUME TypeOK, NEW p \in Procs PROVE pc[p] \in PCs
BY DEF TypeOK

LEMMA OthersKeepHand ==
  ASSUME ControlInv, NEW p \in Procs, Frame(p), NEW q \in Procs, q # p
  PROVE  Hand(q)'
<1>1. /\ scene' = scene /\ pc'[q] = pc[q] /\ job'[q] = job[q] /\ DOMAIN sess \subseteq DOMAIN sess'
      /\ Send(q)' = Send(q) /\ (Audio <=> Audio') /\ (Holds(q)' <=> Holds(q))
  BY DEF Frame, Send, Audio, Holds
<1>2. lock["room"] = q => lock'["room"] = q
  BY KeysAre DEF Frame, ControlInv, Typed
<1>3. CASE q \in Reqs
  <2>1. /\ lock[Send(q).from] = q => lock'[Send(q).from] = q
        /\ gift[Send(q).key] # None => gift'[Send(q).key] = gift[Send(q).key]
        /\ pc[q] = "settle" => gift'[Send(q).key] = gift[Send(q).key]
    BY <1>3, KeysAre, SendIs DEF Frame, ControlInv, Typed
  <2>2. Hand(q) /\ q \notin Mgrs /\ pc[q] \notin {"look", "close"}
    BY <1>3, ProcsAre, Zenon DEF ControlInv, Hand
  <2>3. Send(q)'.from = Send(q).from /\ Send(q)'.key = Send(q).key /\ Send(q)'.amt = Send(q).amt
    BY <1>1
  <2> QED
    BY <1>1, <1>2, <1>3, <2>1, <2>2, <2>3 DEF Hand, Sessions, Late, Behind, Working
<1>4. CASE q \in Mgrs
  <2>1. Hand(q) /\ q \notin Reqs /\ pc[q] \notin {"open", "settle", "tell", "feed"}
    BY <1>4, ProcsAre, Zenon DEF Hand, ControlInv
  <2> QED
    BY <1>1, <1>2, <1>4, <2>1 DEF Hand, Sessions, Late, Behind, Working
<1> QED
  BY <1>3, <1>4, ProcsAre

(* Steps that only move p, or also take and free locks.                    *)
LEMMA MoveControl ==
  ASSUME ControlInv, NEW p \in Procs, NEW w \in PCs, NEW j \in JobType,
         scene' = scene, day' = day, ledger' = ledger, gift' = gift, bag' = bag, sess' = sess,
         faults' \in 0 .. scene.deaths,
         Go(p, w), job'[p] = j, job' \in [Procs -> JobType],
         \A q \in Procs : q # p => job'[q] = job[q],
         lock' \in [LockKeys -> Procs \cup {None}],
         \A k \in LockKeys, q \in Procs : q # p /\ lock[k] = q => lock'[k] = q
  PROVE  /\ Frame(p) /\ Typed' /\ Written' /\ pc'[p] = w /\ Send(p)' = Send(p) /\ Audio' = Audio
         /\ (Holds(p)' <=> \/ w \in Working
                           \/ w \in {"make", "boxes"} /\ (p \in Mgrs => scene.op[p] = "start")
                           \/ Audio /\ w \in {"open", "settle"})
<1>1. Typed /\ TypeOK /\ Written
  BY DEF ControlInv, Typed
<1>2. pc'[p] = w /\ pc' \in [Procs -> PCs] /\ \A q \in Procs : q # p => pc'[q] = pc[q]
  BY <1>1, Goes
<1>3. Frame(p)
  BY <1>2 DEF Frame
<1>4. TypeOK'
  BY <1>1, <1>2 DEF TypeOK, SessType, Sessions
<1>5. Written'
  BY <1>1 DEF Written, Send
<1>6. Send(p)' = Send(p) /\ Audio' = Audio
  BY DEF Send, Audio
<1> QED
  BY <1>2, <1>3, <1>4, <1>5, <1>6 DEF Typed, Holds

LEMMA EndControl ==
  ASSUME ControlInv, NEW p \in Procs, End(p),
         scene' = scene, day' = day, ledger' = ledger, gift' = gift, bag' = bag, sess' = sess,
         faults' = faults
  PROVE  Frame(p) /\ Typed' /\ Written' /\ Hand(p)'
<1>1. Typed /\ TypeOK
  BY DEF ControlInv, Typed
<1>2. /\ job'[p] = Blank /\ job' \in [Procs -> JobType] /\ \A q \in Procs : q # p => job'[q] = job[q]
      /\ lock' \in [LockKeys -> Procs \cup {None}]
      /\ \A k \in LockKeys : lock'[k] = IF lock[k] = p THEN None ELSE lock[k]
  BY <1>1, EndIs
<1>3. Go(p, "done") /\ "done" \in PCs /\ faults' \in 0 .. scene.deaths
  BY <1>1 DEF End, PCs, TypeOK
<1>4. Frame(p) /\ Typed' /\ Written' /\ pc'[p] = "done" /\ ~Holds(p)'
  <2>1. \A k \in LockKeys, q \in Procs : q # p /\ lock[k] = q => lock'[k] = q
    BY <1>2
  <2> QED
    BY <1>2, <1>3, <2>1, BlankIs, MoveControl DEF Working
<1>5. Hand(p)'
  BY <1>4 DEF Hand, Late, Behind, Working
<1> QED
  BY <1>4, <1>5

LEMMA CheckControl ==
  ASSUME ControlInv, NEW r \in Reqs, Check(r)
  PROVE  Frame(r) /\ Typed' /\ Written' /\ Hand(r)'
<1>1. Typed /\ TypeOK /\ r \in Procs /\ r \notin Mgrs /\ Hand(r)
  BY ProcsAre DEF ControlInv, Typed
<1>2. CASE End(r)
  BY <1>1, <1>2, EndControl DEF Check, wallets
<1>3. CASE Go(r, "lock") /\ UNCHANGED <<job, lock>>
  <2>1. "lock" \in PCs /\ faults' \in 0 .. scene.deaths /\ job[r] \in JobType /\ job \in [Procs -> JobType]
        /\ lock \in [LockKeys -> Procs \cup {None}]
    BY <1>1 DEF Check, PCs, TypeOK, Typed
  <2>2. scene' = scene /\ day' = day /\ ledger' = ledger /\ gift' = gift /\ bag' = bag /\ sess' = sess
        /\ pc[r] = "idle"
    BY DEF Check, wallets, At
  <2>3. Frame(r) /\ Typed' /\ Written' /\ pc'[r] = "lock" /\ ~Holds(r)' /\ job'[r] = Blank
    BY <1>1, <1>3, <2>1, <2>2, MoveControl DEF Working, Hand
  <2> QED
    BY <1>1, <2>3 DEF Hand, Late, Behind, Working
<1> QED
  BY <1>2, <1>3 DEF Check

LEMMA LockControl ==
  ASSUME ControlInv, NEW r \in Reqs, Lock(r)
  PROVE  Frame(r) /\ Typed' /\ Written' /\ Hand(r)'
<1>1. Typed /\ TypeOK /\ r \in Procs /\ r \notin Mgrs /\ Hand(r) /\ None \notin Procs
  BY ProcsAre DEF ControlInv, Typed
<1>2. CASE End(r)
  BY <1>1, <1>2, EndControl DEF Lock, wallets
<1>3. CASE /\ \A k \in LocksOf(r) : lock[k] = None
           /\ lock' = [k \in LockKeys |-> IF k \in LocksOf(r) THEN r ELSE lock[k]]
           /\ Go(r, "open") /\ UNCHANGED job
  <2>1. "open" \in PCs /\ faults' \in 0 .. scene.deaths /\ job[r] \in JobType /\ job \in [Procs -> JobType]
        /\ lock' \in [LockKeys -> Procs \cup {None}]
    BY <1>1, <1>3 DEF Lock, PCs, TypeOK, Typed
  <2>2. scene' = scene /\ day' = day /\ ledger' = ledger /\ gift' = gift /\ bag' = bag /\ sess' = sess
        /\ pc[r] = "lock"
    BY DEF Lock, wallets, At
  <2>3. \A k \in LockKeys, q \in Procs : q # r /\ lock[k] = q => lock'[k] = q
    BY <1>1, <1>3
  <2>4. Frame(r) /\ Typed' /\ Written' /\ pc'[r] = "open" /\ Send(r)' = Send(r) /\ (Holds(r)' <=> Audio) /\ job'[r] = Blank
    <3>1. job'[r] = job[r] /\ job' \in [Procs -> JobType] /\ (\A q \in Procs : q # r => job'[q] = job[q]) /\ job[r] = Blank
      BY <1>1, <1>3, <2>1, <2>2 DEF Hand
    <3> QED
      BY <1>1, <1>3, <2>1, <2>2, <2>3, <3>1, MoveControl DEF Working
  <2>5. lock'[Send(r).from] = r /\ (Audio => lock'["room"] = r)
    BY <1>1, <1>3, KeysAre DEF LocksOf
  <2> QED
    BY <1>1, <2>4, <2>5 DEF Hand, Late, Behind, Working
<1> QED
  BY <1>2, <1>3 DEF Lock

LEMMA OpenSendControl ==
  ASSUME ControlInv, NEW r \in Reqs, OpenSend(r)
  PROVE  Frame(r) /\ Typed' /\ Written' /\ Hand(r)'
<1>1. Typed /\ TypeOK /\ r \in Procs /\ r \notin Mgrs /\ Hand(r) /\ None \notin Procs
  BY ProcsAre DEF ControlInv, Typed
<1>0. scene' = scene /\ day' = day /\ ledger' = ledger /\ gift' = gift /\ bag' = bag /\ sess' = sess
      /\ pc[r] = "open" /\ faults' = faults /\ faults' \in 0 .. scene.deaths
      /\ lock[Send(r).from] = r /\ (Audio => lock["room"] = r) /\ job[r] = Blank
      /\ lock \in [LockKeys -> Procs \cup {None}] /\ job \in [Procs -> JobType]
  BY <1>1, Zenon DEF OpenSend, wallets, At, Hand, Holds, TypeOK, Typed
<1>2. CASE End(r)
  BY <1>0, <1>1, <1>2, EndControl
<1>3. CASE gift[Send(r).key] # None /\ Go(r, "tell") /\ lock' = Freed(r) /\ UNCHANGED job
  <2>1. /\ lock' \in [LockKeys -> Procs \cup {None}] /\ "tell" \in PCs
        /\ \A k \in LockKeys, q \in Procs : q # r /\ lock[k] = q => lock'[k] = q
    BY <1>1, <1>3, FreedIs DEF PCs
  <2>2. job'[r] = Blank /\ job' \in [Procs -> JobType] /\ \A q \in Procs : q # r => job'[q] = job[q]
    BY <1>0, <1>3
  <2>3. Frame(r) /\ Typed' /\ Written' /\ pc'[r] = "tell" /\ Send(r)' = Send(r) /\ ~Holds(r)'
    BY <1>0, <1>1, <1>3, <2>1, <2>2, BlankIs, MoveControl DEF Working
  <2> QED
    BY <1>0, <1>1, <1>3, <2>2, <2>3 DEF Hand, Late, Behind, Working
<1>4. ASSUME gift[Send(r).key] = None, NEW s \in (IF Audio /\ Active # {} THEN Active ELSE {0}),
             LET today == s # 0 /\ sess[s].day = day
                 new == Audio /\ ~today /\ ~CompletedToday
             IN Hold(r, [Blank EXCEPT !.sess = IF today THEN s ELSE IF new THEN -1 ELSE 0,
                                      !.old = IF today THEN 0 ELSE s]),
             Go(r, "settle"), UNCHANGED lock
      PROVE  Frame(r) /\ Typed' /\ Written' /\ Hand(r)'
  <2> DEFINE today == s # 0 /\ sess[s].day = day
             new == Audio /\ ~today /\ ~CompletedToday
             j == [Blank EXCEPT !.sess = IF today THEN s ELSE IF new THEN -1 ELSE 0,
                                !.old = IF today THEN 0 ELSE s]
  <2>0. s \in {0} \cup Sessions /\ s \in Nat /\ (~Audio => s = 0) /\ Sessions \subseteq Nat
    BY <1>1, SessionsAre DEF Active
  <2>1. j \in JobType
    <3> DEFINE a == IF today THEN s ELSE IF new THEN -1 ELSE 0
               b == IF today THEN 0 ELSE s
    <3>1. a \in Int /\ b \in Nat
      BY <2>0
    <3> HIDE DEF a, b
    <3>2. [Blank EXCEPT !.sess = a, !.old = b] \in JobType
      BY <3>1, BlankIs DEF JobType
    <3> QED
      BY <3>2 DEF a, b
  <2>2. j.sess \in {-1, 0} \cup Sessions /\ j.old \in {0} \cup Sessions /\ j.level = 0 /\ (~Audio => j.sess = 0)
    BY <2>0 DEF Blank
  <2>3. Hold(r, j)
    BY <1>4
  <2> HIDE DEF j
  <2>4. job'[r] = j /\ job' \in [Procs -> JobType] /\ \A q \in Procs : q # r => job'[q] = job[q]
    BY <1>1, <2>1, <2>3, HoldsJob
  <2>5. "settle" \in PCs /\ lock' = lock /\ \A k \in LockKeys, q \in Procs : q # r /\ lock[k] = q => lock'[k] = q
    BY <1>4 DEF PCs
  <2>6. Frame(r) /\ Typed' /\ Written' /\ pc'[r] = "settle" /\ Send(r)' = Send(r) /\ (Holds(r)' <=> Audio)
        /\ Audio' = Audio
    BY <1>0, <1>1, <1>4, <2>1, <2>4, <2>5, MoveControl DEF Working
  <2> QED
    BY <1>0, <1>1, <1>4, <2>2, <2>4, <2>5, <2>6 DEF Hand, Late, Behind, Working, Sessions
<1> QED
  BY <1>2, <1>3, <1>4, Zenon DEF OpenSend

LEMMA TellControl ==
  ASSUME ControlInv, NEW r \in Reqs, Tell(r)
  PROVE  Frame(r) /\ Typed' /\ Written' /\ Hand(r)'
<1>1. Typed /\ TypeOK /\ r \in Procs /\ r \notin Mgrs /\ Hand(r)
  BY ProcsAre DEF ControlInv, Typed
<1>2. "feed" \in PCs /\ faults' \in 0 .. scene.deaths /\ job[r] \in JobType /\ job \in [Procs -> JobType]
      /\ lock \in [LockKeys -> Procs \cup {None}]
  BY <1>1 DEF Tell, PCs, TypeOK, Typed
<1>3. scene' = scene /\ day' = day /\ ledger' = ledger /\ gift' = gift /\ bag' = bag /\ sess' = sess
      /\ pc[r] = "tell" /\ lock' = lock /\ job' = job /\ Go(r, "feed") /\ gift[Send(r).key] # None
      /\ job[r] = Blank
  BY <1>1 DEF Tell, wallets, At, Hand
<1>4. Frame(r) /\ Typed' /\ Written' /\ pc'[r] = "feed" /\ Send(r)' = Send(r) /\ ~Holds(r)'
  BY <1>1, <1>2, <1>3, MoveControl DEF Working
<1> QED
  BY <1>1, <1>3, <1>4 DEF Hand, Late, Behind, Working

(* What comes of a send: no session takes its gift, or the transaction     *)
(* fails, or session Into takes it and the boxes it fills are ranked by q. *)
Kept(r) == Finish({job[r].old} \ {0}, "COMPLETED")
Base(r) == IF job[r].sess = -1 THEN Append(Kept(r), Laid(Bare)) ELSE Kept(r)
Into(r) == IF job[r].sess = -1 THEN Len(Base(r)) ELSE job[r].sess
Amt(r) == Send(r).amt

PutNowhere(r) ==
    /\ Into(r) = 0 /\ pc'[r] = "tell" /\ gift' = [gift EXCEPT ![Send(r).key] = r]
    /\ ledger' = Posted(Settlement(r) \cup {}) /\ sess' = Base(r)
PutFails(r) ==
    Into(r) # 0 /\ pc'[r] = "done" /\ UNCHANGED <<wallets, sess>>
PutInto(r, last, q) ==
    LET s == Into(r)
        se == Base(r)[s]
        to == Pour(se, Send(r).from, Amt(r), r, last)
        full == Filled(se, Amt(r), last)
        back == Amt(r) - Accepted(se, Amt(r), last)
    IN /\ s # 0 /\ pc'[r] = "tell" /\ gift' = [gift EXCEPT ![Send(r).key] = r]
       /\ ~Broken(se, Amt(r), last)
       /\ DOMAIN q = full /\ \A l \in full : q[l] \in Rankings(to.box[l].rows, FALSE)
       /\ ledger' = Posted(Settlement(r) \cup
                           (Prizes(s, q) \cup {Entry("refund", Send(r).key, Send(r).from, GOLD, back)}))
       /\ sess' = [Base(r) EXCEPT ![s] = to]
       /\ last \in 0 .. BoxCount /\ (se.status = "ACTIVE" => last = BoxCount)
       /\ se \in SessType

LEMMA BaseIs ==
  ASSUME ControlInv, NEW r \in Reqs, pc[r] = "settle"
  PROVE  /\ Base(r) \in Seq(SessType)
         /\ DOMAIN Base(r) = 1 .. Len(Base(r)) /\ Len(Base(r)) \in Nat
         /\ Len(Base(r)) = IF job[r].sess = -1 THEN Len(sess) + 1 ELSE Len(sess)
         /\ Sessions \subseteq DOMAIN Base(r)
         /\ \A x \in Sessions : /\ Base(r)[x].day = sess[x].day /\ Base(r)[x].level = sess[x].level
                                /\ Base(r)[x].box = sess[x].box
                                /\ Base(r)[x].status = IF x = job[r].old THEN "COMPLETED" ELSE sess[x].status
         /\ job[r].sess = -1 => Into(r) = Len(sess) + 1 /\ Base(r)[Into(r)] = Laid(Bare)
         /\ job[r].sess # -1 => Into(r) = job[r].sess /\ DOMAIN Base(r) = Sessions
         /\ Into(r) # 0 => Into(r) \in DOMAIN Base(r) /\ Base(r)[Into(r)] \in SessType
<1>1. TypeOK /\ r \in Procs /\ Hand(r)
  BY ProcsAre DEF ControlInv, Typed
<1>2. job[r].sess \in {-1, 0} \cup Sessions /\ job[r].old \in {0} \cup Sessions
  BY <1>1 DEF Hand
<1>3. Len(sess) \in Nat /\ Sessions = 1 .. Len(sess) /\ 0 \notin Sessions
  BY <1>1, SessionsAre
<1> DEFINE f == Kept(r)
<1>4. /\ f \in Seq(SessType) /\ Len(f) = Len(sess) /\ DOMAIN f = DOMAIN sess
      /\ \A x \in Sessions : /\ f[x].day = sess[x].day /\ f[x].level = sess[x].level
                             /\ f[x].box = sess[x].box
                             /\ f[x].status = IF x = job[r].old THEN "COMPLETED" ELSE sess[x].status
  <2>1. LET g == Finish({job[r].old} \ {0}, "COMPLETED") IN
         /\ g \in Seq(SessType) /\ Len(g) = Len(sess) /\ DOMAIN g = DOMAIN sess
         /\ \A x \in Sessions : /\ g[x].day = sess[x].day /\ g[x].level = sess[x].level
                                /\ g[x].box = sess[x].box
                                /\ g[x].status = IF x \in {job[r].old} \ {0} THEN "COMPLETED" ELSE sess[x].status
    BY <1>1, FinishIs
  <2>2. \A x \in Sessions : x \in {job[r].old} \ {0} <=> x = job[r].old
    BY <1>3
  <2> QED
    BY <2>1, <2>2 DEF Kept
<1> HIDE DEF f
<1>5. CASE job[r].sess = -1
  <2>1. Laid(Bare) \in SessType
    BY <1>1, FreshIs
  <2>2. Base(r) = Append(f, Laid(Bare))
    BY <1>5 DEF Base, f
  <2>3. /\ Base(r) \in Seq(SessType) /\ Len(Base(r)) = Len(f) + 1
        /\ DOMAIN Base(r) = 1 .. Len(f) + 1
        /\ Base(r)[Len(f) + 1] = Laid(Bare)
        /\ \A x \in 1 .. Len(f) : Base(r)[x] = f[x]
    BY <1>1, <1>4, <2>1, <2>2, AppendIs
  <2>4. Into(r) = Len(sess) + 1
    BY <1>4, <1>5, <2>3 DEF Into
  <2> QED
    BY <1>3, <1>4, <1>5, <2>1, <2>3, <2>4
<1>6. CASE job[r].sess # -1
  <2>1. Base(r) = f /\ Into(r) = job[r].sess /\ DOMAIN f = Sessions
    BY <1>4, <1>6 DEF Base, f, Into, Sessions
  <2>2. Into(r) # 0 => Into(r) \in DOMAIN f /\ f[Into(r)] \in SessType
    BY <1>2, <1>4, <1>6, <2>1
  <2> QED
    BY <1>3, <1>4, <1>6, <2>1, <2>2
<1> QED
  BY <1>5, <1>6

LEMMA SettleCases ==
  ASSUME ControlInv, NEW r \in Reqs, SettleSend(r)
  PROVE  /\ pc[r] = "settle" /\ job'[r] = Blank /\ lock' = Freed(r)
         /\ scene' = scene /\ day' = day /\ bag' = bag /\ faults' = faults
         /\ Hold(r, Blank) /\ (Go(r, "tell") \/ Go(r, "done"))
         /\ PutNowhere(r) \/ PutFails(r) \/ \E last \in 0 .. BoxCount : \E q : PutInto(r, last, q)
<1>1. Typed /\ TypeOK /\ r \in Procs
  BY ProcsAre DEF ControlInv, Typed
<1>2. pc[r] = "settle" /\ Hold(r, Blank) /\ lock' = Freed(r)
      /\ scene' = scene /\ day' = day /\ bag' = bag /\ faults' = faults
  BY Zenon DEF SettleSend, At
<1>3. job'[r] = Blank
  BY <1>1, <1>2, HoldsJob, BlankIs
<1> DEFINE s == Into(r)
           se == Base(r)[s]
           v == Amt(r)
           kept == Finish({job[r].old} \ {0}, "COMPLETED")
           base == IF job[r].sess = -1 THEN Append(kept, Laid(Bare)) ELSE kept
           t == IF job[r].sess = -1 THEN Len(base) ELSE job[r].sess
           ended == t # 0 /\ base[t].status # "ACTIVE"
           write(paid, made) == /\ ledger' = Posted(Settlement(r) \cup paid)
                                /\ sess' = made
                                /\ gift' = [gift EXCEPT ![Send(r).key] = r]
                                /\ Go(r, "tell")
<1>4. base = Base(r) /\ t = s
  BY DEF Base, Kept, Into
<1>5. \/ t = 0 /\ write({}, base)
      \/ /\ t # 0
         /\ \E last \in IF ended THEN {base[t].level - 1, base[t].level} ELSE {BoxCount} :
              LET to == Pour(base[t], Send(r).from, Send(r).amt, r, last)
                  back == Send(r).amt - Accepted(base[t], Send(r).amt, last)
                  full == Filled(base[t], Send(r).amt, last)
              IN IF Broken(base[t], Send(r).amt, last)
                 THEN Go(r, "done") /\ UNCHANGED <<wallets, sess>>
                 ELSE \E q \in [full -> UNION {Rankings(to.box[l].rows, FALSE) : l \in full}] :
                        /\ \A l \in full : q[l] \in Rankings(to.box[l].rows, FALSE)
                        /\ write(Prizes(t, q) \cup {Entry("refund", Send(r).key, Send(r).from, GOLD, back)},
                                 [base EXCEPT ![t] = to])
  BY Zenon DEF SettleSend
<1> HIDE DEF base, t, s
<1>6. "tell" \in PCs /\ "done" \in PCs
  BY DEF PCs
<1>7. CASE t = 0 /\ write({}, base)
  <2>1. PutNowhere(r)
    BY <1>1, <1>4, <1>6, <1>7, Goes DEF PutNowhere, s
  <2> QED
    BY <1>2, <1>3, <1>7, <2>1
<1>8. ASSUME t # 0, NEW last \in (IF ended THEN {base[t].level - 1, base[t].level} ELSE {BoxCount}),
             Broken(base[t], Send(r).amt, last), Go(r, "done"), UNCHANGED <<wallets, sess>>
      PROVE  (Go(r, "tell") \/ Go(r, "done")) /\ PutFails(r)
  BY <1>1, <1>4, <1>6, <1>8, Goes DEF PutFails, s
<1>9. ASSUME t # 0, NEW last \in (IF ended THEN {base[t].level - 1, base[t].level} ELSE {BoxCount}),
             ~Broken(base[t], Send(r).amt, last),
             LET to == Pour(base[t], Send(r).from, Send(r).amt, r, last)
                 back == Send(r).amt - Accepted(base[t], Send(r).amt, last)
                 full == Filled(base[t], Send(r).amt, last)
             IN \E q \in [full -> UNION {Rankings(to.box[l].rows, FALSE) : l \in full}] :
                        /\ \A l \in full : q[l] \in Rankings(to.box[l].rows, FALSE)
                        /\ write(Prizes(t, q) \cup {Entry("refund", Send(r).key, Send(r).from, GOLD, back)},
                                 [base EXCEPT ![t] = to])
      PROVE  (Go(r, "tell") \/ Go(r, "done")) /\ last \in 0 .. BoxCount /\ \E q : PutInto(r, last, q)
  <2>1. se \in SessType
    BY <1>2, <1>4, <1>9, BaseIs DEF s
  <2>2. se.level \in Levels /\ BoxCount \in Nat
    BY <2>1, LevelsAre DEF SessType
  <2>3. last \in 0 .. BoxCount /\ (se.status = "ACTIVE" => last = BoxCount)
    BY <1>4, <1>9, <2>2 DEF Levels
  <2>4. PICK q \in [Filled(base[t], Send(r).amt, last) ->
              UNION {Rankings(Pour(base[t], Send(r).from, Send(r).amt, r, last).box[l].rows, FALSE) :
                       l \in Filled(base[t], Send(r).amt, last)}] :
           /\ \A l \in Filled(base[t], Send(r).amt, last) :
                q[l] \in Rankings(Pour(base[t], Send(r).from, Send(r).amt, r, last).box[l].rows, FALSE)
           /\ write(Prizes(t, q) \cup {Entry("refund", Send(r).key, Send(r).from, GOLD,
                                             Send(r).amt - Accepted(base[t], Send(r).amt, last))},
                    [base EXCEPT ![t] = Pour(base[t], Send(r).from, Send(r).amt, r, last)])
    BY <1>9
  <2>5. pc'[r] = "tell"
    BY <1>1, <1>6, <2>4, Goes
  <2>6. DOMAIN q = Filled(base[t], Send(r).amt, last)
    BY <2>4
  <2>7. PutInto(r, last, q)
    BY <1>4, <1>9, <2>1, <2>3, <2>4, <2>5, <2>6 DEF PutInto, Amt, s
  <2> QED
    BY <2>3, <2>4, <2>7
<1>10. (Go(r, "tell") \/ Go(r, "done")) /\ (PutNowhere(r) \/ PutFails(r) \/ \E last \in 0 .. BoxCount : \E q : PutInto(r, last, q))
  <2>1. CASE t = 0 /\ write({}, base)
    <3>1. PutNowhere(r)
      BY <1>1, <1>4, <1>6, <2>1, Goes DEF PutNowhere, s
    <3> QED
      BY <2>1, <3>1
  <2> QED
    BY <1>5, <1>8, <1>9, <2>1
<1> QED
  BY <1>2, <1>3, <1>10

EntriesOK(es) == \A e \in es : e.user \in Users /\ e.cur \in {GOLD, DIAMOND} /\ e.amt \in Int
GrantsOK(xs) == \A x \in xs : x.user \in Users /\ x.rank \in Ranks

(* Steps that also write the sessions, the wallets or the backpacks.       *)
LEMMA WriteControl ==
  ASSUME ControlInv, NEW p \in Procs, NEW w \in PCs,
         scene' = scene, day' = day, gift' = gift,
         EntriesOK(ledger'), GrantsOK(bag'),
         sess' \in Seq(SessType), DOMAIN sess \subseteq DOMAIN sess',
         faults' \in 0 .. scene.deaths,
         Go(p, w), job'[p] \in JobType, job' \in [Procs -> JobType],
         \A q \in Procs : q # p => job'[q] = job[q],
         lock' \in [LockKeys -> Procs \cup {None}],
         \A k \in LockKeys, q \in Procs : q # p /\ lock[k] = q => lock'[k] = q
  PROVE  /\ Frame(p) /\ Typed' /\ Written' /\ pc'[p] = w /\ Send(p)' = Send(p) /\ Audio' = Audio
         /\ (Holds(p)' <=> \/ w \in Working
                           \/ w \in {"make", "boxes"} /\ (p \in Mgrs => scene.op[p] = "start")
                           \/ Audio /\ w \in {"open", "settle"})
<1>1. Typed /\ TypeOK /\ Written
  BY DEF ControlInv, Typed
<1>2. pc'[p] = w /\ pc' \in [Procs -> PCs] /\ \A q \in Procs : q # p => pc'[q] = pc[q]
  BY <1>1, Goes
<1>3. Frame(p)
  BY <1>2 DEF Frame
<1>4. TypeOK'
  <2>1. sess' \in Seq(SessType')
    BY DEF SessType
  <2> QED
    BY <1>1, <1>2, <2>1 DEF TypeOK, EntriesOK, GrantsOK
<1>5. Written'
  BY <1>1 DEF Written, Send
<1>6. Send(p)' = Send(p) /\ Audio' = Audio
  BY DEF Send, Audio
<1> QED
  BY <1>2, <1>3, <1>4, <1>5, <1>6 DEF Typed, Holds

LEMMA TypedIs ==
  ASSUME Typed
  PROVE  /\ EntriesOK(ledger) /\ GrantsOK(bag) /\ sess \in Seq(SessType)
         /\ faults \in 0 .. scene.deaths
         /\ lock \in [LockKeys -> Procs \cup {None}] /\ job \in [Procs -> JobType]
         /\ gift \in [Keys -> Reqs \cup {None}]
BY DEF Typed, TypeOK, EntriesOK, GrantsOK

LEMMA PostedIs ==
  ASSUME EntriesOK(ledger), NEW es, EntriesOK(es)
  PROVE  EntriesOK(Posted(es)) /\ ledger \subseteq Posted(es)
         /\ \A e \in Posted(es) : e \in ledger \/ e \in es
BY DEF EntriesOK, Posted

LEMMA EntryIs ==
  \A why, of, u, cur, amt :
     LET e == Entry(why, of, u, cur, amt) IN
     e.why = why /\ e.of = of /\ e.user = u /\ e.cur = cur /\ e.amt = amt
BY DEF Entry

LEMMA DivInt == ASSUME NEW a \in Nat, NEW b \in Nat PROVE (a * b) \div 100 \in Int
<1>1. a * b \in Nat
  OBVIOUS
<1> DEFINE c == a * b
<1>2. c \div 100 \in Int
  <2> HIDE DEF c
  <2> QED
    BY <1>1 DEF c
<1> QED
  BY <1>2

LEMMA SettlementOK ==
  ASSUME TypeOK, NEW r \in Reqs
  PROVE  /\ EntriesOK(Settlement(r))
         /\ \A e \in Settlement(r) : e.why \in {"debit", "earnings", "cashback"}
<1>1. Send(r).from \in Users /\ Send(r).to \in Users /\ Send(r).amt \in Nat
      /\ EarnPct \in Nat /\ CashPct \in Nat
  BY SendIs, GiftsAssumption
<1> DEFINE g == Send(r)
           cash == IF g.amt >= CashFrom THEN (g.amt * CashPct) \div 100 ELSE 0
           earn == (g.amt * EarnPct) \div 100
<1>2. cash \in Int /\ earn \in Int /\ -g.amt \in Int
  BY <1>1, DivInt
<1>3. Settlement(r) = {Entry("debit", g.key, g.from, GOLD, -g.amt),
                       Entry("earnings", g.key, g.to, DIAMOND, earn),
                       Entry("cashback", g.key, g.to, GOLD, cash)}
  BY DEF Settlement
<1> HIDE DEF cash, earn
<1>4. ASSUME NEW e \in Settlement(r)
      PROVE  e.user \in Users /\ e.cur \in {GOLD, DIAMOND} /\ e.amt \in Int
             /\ e.why \in {"debit", "earnings", "cashback"}
  <2>1. \/ e = Entry("debit", g.key, g.from, GOLD, -g.amt)
        \/ e = Entry("earnings", g.key, g.to, DIAMOND, earn)
        \/ e = Entry("cashback", g.key, g.to, GOLD, cash)
    BY <1>3
  <2> HIDE DEF g
  <2> QED
    BY <1>1, <1>2, <2>1, EntryIs DEF g
<1> QED
  BY <1>4 DEF EntriesOK

(* The prizes of a gift go to who holds the rank.                          *)
LEMMA PrizesAre ==
  ASSUME TypeOK, NEW s, NEW q, NEW e \in Prizes(s, q)
  PROVE  /\ e.why = "box" /\ e.cur = GOLD /\ e.amt \in Nat
         /\ \E l \in DOMAIN q, n \in Ranks : n \in DOMAIN q[l] /\ e.of = <<s, l, n>> /\ e.user = q[l][n]
<1>1. PICK l \in DOMAIN q : e \in {Entry("box", <<s, l, n>>, q[l][n], GOLD, Prize[n]) :
               n \in Ranks \cap DOMAIN q[l]}
  BY DEF Prizes
<1>2. PICK n \in Ranks \cap DOMAIN q[l] : e = Entry("box", <<s, l, n>>, q[l][n], GOLD, Prize[n])
  BY <1>1
<1>3. Prize[n] \in Nat
  BY <1>2, GiftsAssumption DEF Ranks
<1> QED
  BY <1>2, <1>3, EntryIs

LEMMA SettleControl ==
  ASSUME ControlInv, NEW r \in Reqs, SettleSend(r)
  PROVE  Frame(r) /\ Typed' /\ Written' /\ Hand(r)'
<1>1. Typed /\ TypeOK /\ r \in Procs /\ r \notin Mgrs /\ Hand(r) /\ Written
  BY ProcsAre DEF ControlInv, Typed
<1>2. /\ pc[r] = "settle" /\ job'[r] = Blank /\ lock' = Freed(r)
      /\ scene' = scene /\ day' = day /\ bag' = bag /\ faults' = faults
      /\ Hold(r, Blank)
  BY SettleCases
<1>3. /\ job' \in [Procs -> JobType] /\ \A q \in Procs : q # r => job'[q] = job[q]
  BY <1>1, <1>2, HoldsJob, BlankIs
<1>4. /\ lock' \in [LockKeys -> Procs \cup {None}]
      /\ \A k \in LockKeys : lock'[k] = IF lock[k] = r THEN None ELSE lock[k]
  BY <1>1, <1>2, FreedIs
<1>5. /\ pc' \in [Procs -> PCs] /\ \A q \in Procs : q # r => pc'[q] = pc[q]
  <2>1. Go(r, "tell") \/ Go(r, "done")
    BY SettleCases
  <2> QED
    BY <1>1, <2>1, Goes DEF PCs
<1>6. /\ Sessions = 1 .. Len(sess) /\ Len(sess) \in Nat
      /\ Base(r) \in Seq(SessType) /\ Sessions \subseteq DOMAIN Base(r)
      /\ Into(r) # 0 => Into(r) \in DOMAIN Base(r) /\ Base(r)[Into(r)] \in SessType
  BY <1>1, <1>2, BaseIs, SessionsAre
<1>7. /\ sess' \in Seq(SessType) /\ DOMAIN sess \subseteq DOMAIN sess' /\ EntriesOK(ledger')
      /\ \/ gift' = gift /\ pc'[r] = "done"
         \/ gift' = [gift EXCEPT ![Send(r).key] = r] /\ pc'[r] = "tell"
  <2>1. CASE PutNowhere(r)
    <3>1. EntriesOK(ledger) /\ EntriesOK(Settlement(r) \cup {})
      BY <1>1, SettlementOK, TypedIs DEF EntriesOK
    <3>2. EntriesOK(ledger')
      BY <2>1, <3>1, PostedIs DEF PutNowhere
    <3> QED
      BY <1>6, <2>1, <3>2 DEF PutNowhere, Sessions
  <2>2. CASE PutFails(r)
    BY <1>1, <1>6, <2>2, TypedIs DEF PutFails, wallets
  <2>3. CASE \E last \in 0 .. BoxCount : \E q : PutInto(r, last, q)
    <3>0. PICK last \in 0 .. BoxCount : \E q : PutInto(r, last, q)
      BY <2>3
    <3>1. PICK q : PutInto(r, last, q)
      BY <3>0
    <3> DEFINE s == Into(r)
               se == Base(r)[s]
               to == Pour(se, Send(r).from, Amt(r), r, last)
               full == Filled(se, Amt(r), last)
               back == Amt(r) - Accepted(se, Amt(r), last)
    <3>2. s \in DOMAIN Base(r) /\ se \in SessType
      BY <1>6, <3>1 DEF PutInto
    <3>3. Send(r).from \in Users /\ Amt(r) \in Nat /\ Send(r).key \in Keys
      BY <1>1, SendIs DEF Amt
    <3>4. to \in SessType
      BY <1>1, <3>2, <3>3, PourTyped
    <3>5. se.level \in Levels /\ se.box \in [Levels -> BoxType]
      BY <3>2 DEF SessType
    <3>6. back \in Int
      BY <3>3, <3>5, AcceptedInt
    <3>7. full \subseteq Levels
      BY <3>5, ReachIs
    <3> HIDE DEF back, to, se
    <3>8. \A l \in full : to.box[l].rows \in Seq(RowType)
      BY <3>4, <3>7 DEF SessType, BoxType, RowType
    <3>9. EntriesOK(Prizes(s, q))
      <4> SUFFICES ASSUME NEW e \in Prizes(s, q)
                   PROVE  e.user \in Users /\ e.cur \in {GOLD, DIAMOND} /\ e.amt \in Int
        BY DEF EntriesOK
      <4>1. e.cur = GOLD /\ e.amt \in Nat
            /\ \E l \in DOMAIN q, n \in Ranks : n \in DOMAIN q[l] /\ e.of = <<s, l, n>> /\ e.user = q[l][n]
        BY <1>1, PrizesAre
      <4>2. PICK l \in DOMAIN q, n \in Ranks : n \in DOMAIN q[l] /\ e.user = q[l][n]
        BY <4>1
      <4>3. l \in full /\ q[l] \in Rankings(to.box[l].rows, FALSE)
        BY <3>1, <4>2 DEF PutInto, to, se
      <4>4. q[l][n] \in Users
        BY <3>8, <4>2, <4>3, RankingIs
      <4> QED
        BY <4>1, <4>2, <4>4
    <3> DEFINE es == Settlement(r) \cup (Prizes(s, q) \cup {Entry("refund", Send(r).key, Send(r).from, GOLD, back)})
    <3>10. EntriesOK({Entry("refund", Send(r).key, Send(r).from, GOLD, back)})
      BY <3>3, <3>6, EntryIs DEF EntriesOK
    <3>11. EntriesOK(Settlement(r)) /\ EntriesOK(ledger)
      BY <1>1, SettlementOK, TypedIs
    <3>12. EntriesOK(es)
      BY <3>9, <3>10, <3>11 DEF EntriesOK
    <3>13. ledger' = Posted(es) /\ sess' = [Base(r) EXCEPT ![s] = to]
           /\ gift' = [gift EXCEPT ![Send(r).key] = r] /\ pc'[r] = "tell"
      BY <3>1 DEF PutInto, to, se, back
    <3> HIDE DEF es, s
    <3>14. EntriesOK(ledger')
      BY <3>11, <3>12, <3>13, PostedIs
    <3>15. sess' \in Seq(SessType) /\ DOMAIN sess' = DOMAIN Base(r)
      BY <1>6, <3>2, <3>4, <3>13
    <3> QED
      BY <1>6, <3>13, <3>14, <3>15 DEF Sessions
  <2> QED
    BY <2>1, <2>2, <2>3, SettleCases
<1>8. gift[Send(r).key] = None /\ lock[Send(r).from] = r /\ Send(r).key \in Keys
  BY <1>1, <1>2, SendIs DEF Hand
<1>9. gift' \in [Keys -> Reqs \cup {None}] /\ (\A k \in Keys : gift[k] # None => gift'[k] = gift[k])
      /\ (\A k \in Keys : k # Send(r).key => gift'[k] = gift[k])
      /\ (gift'[Send(r).key] \in {None, r})
  BY <1>1, <1>7, <1>8, TypedIs
<1>10. \A q \in Reqs : q # r /\ pc[q] = "settle" => gift'[Send(q).key] = gift[Send(q).key]
  <2> SUFFICES ASSUME NEW q \in Reqs, q # r, pc[q] = "settle", Send(q).key = Send(r).key PROVE FALSE
    BY <1>1, <1>9, SendIs
  <2>1. Send(q) = Send(r)
    BY <1>1, SceneIs
  <2>2. lock[Send(q).from] = q
    BY ProcsAre, Zenon DEF ControlInv, Hand
  <2> QED
    BY <1>8, <2>1, <2>2
<1>11. Frame(r)
  BY <1>2, <1>3, <1>4, <1>5, <1>7, <1>9, <1>10, ProcsAre DEF Frame
<1>12. Typed'
  <2>1. sess' \in Seq(SessType')
    BY <1>2, <1>7 DEF SessType
  <2> QED
    BY <1>1, <1>2, <1>3, <1>4, <1>5, <1>7, <1>9, <2>1 DEF Typed, TypeOK, EntriesOK
<1>13. Written'
  <2> SUFFICES ASSUME NEW k \in Keys, gift'[k] # None PROVE Send(gift'[k]).key = k
    BY <1>2 DEF Written, Send
  <2> QED
    BY <1>1, <1>9 DEF Written
<1>14. Hand(r)'
  <2>1. Send(r)' = Send(r) /\ ~Holds(r)' /\ pc'[r] \in {"tell", "done"}
    BY <1>2, <1>7 DEF Send, Holds, Working
  <2>2. pc'[r] = "tell" => gift'[Send(r).key] # None
    BY <1>1, <1>7, <1>8, TypedIs, ProcsAre
  <2> QED
    BY <1>1, <1>2, <2>1, <2>2 DEF Hand, Late, Behind, Working
<1> QED
  BY <1>11, <1>12, <1>13, <1>14

LEMMA FeedControl ==
  ASSUME ControlInv, NEW r \in Reqs, Feed(r)
  PROVE  Frame(r) /\ Typed' /\ Written' /\ Hand(r)'
<1>1. Typed /\ TypeOK /\ r \in Procs /\ r \notin Mgrs /\ Hand(r) /\ None \notin Procs
  BY ProcsAre DEF ControlInv, Typed
<1>2. /\ scene' = scene /\ day' = day /\ ledger' = ledger /\ gift' = gift /\ bag' = bag /\ sess' = sess
      /\ pc[r] = "feed" /\ faults' = faults /\ faults' \in 0 .. scene.deaths
      /\ gift[Send(r).key] # None
  BY <1>1, Zenon DEF Feed, wallets, At, Hand, TypeOK
<1>3. CASE End(r)
  BY <1>1, <1>2, <1>3, EndControl
<1>4. ASSUME lock["room"] = None, lock' = [lock EXCEPT !["room"] = r],
             NEW w \in {"make", "fill"}, NEW j \in JobType, Go(r, w), Hold(r, j),
             w = "make" => j = [Blank EXCEPT !.level = 1, !.left = Send(r).amt],
             w = "fill" => j.sess \in Sessions /\ j.back = 0,
             j.level \in Levels
      PROVE  Frame(r) /\ Typed' /\ Written' /\ Hand(r)'
  <2>1. w \in PCs /\ lock' \in [LockKeys -> Procs \cup {None}]
        /\ \A k \in LockKeys, q \in Procs : q # r /\ lock[k] = q => lock'[k] = q
    BY <1>1, <1>4, KeysAre, TypedIs DEF PCs
  <2>2. job'[r] = j /\ job' \in [Procs -> JobType] /\ \A q \in Procs : q # r => job'[q] = job[q]
    BY <1>1, <1>4, HoldsJob
  <2>3. Frame(r) /\ Typed' /\ Written' /\ pc'[r] = w /\ Send(r)' = Send(r)
    BY <1>1, <1>2, <1>4, <2>1, <2>2, MoveControl
  <2>4. lock'["room"] = r
    BY <1>1, <1>4, KeysAre, TypedIs
  <2>5. w = "make" => j = [Blank EXCEPT !.sess = j.sess, !.level = 1, !.left = Send(r).amt]
    BY <1>4 DEF Blank
  <2> QED
    BY <1>1, <1>2, <1>4, <2>2, <2>3, <2>4, <2>5 DEF Hand, Late, Behind, Working, Sessions
<1>5. Send(r).amt \in Nat /\ 1 \in Levels
  BY <1>1, SendIs, LevelsAre DEF Levels
<1>6. CASE /\ lock["room"] = None /\ lock' = [lock EXCEPT !["room"] = r]
           /\ Go(r, "make") /\ Hold(r, [Blank EXCEPT !.level = 1, !.left = Send(r).amt])
  <2> DEFINE j == [Blank EXCEPT !.level = 1, !.left = Send(r).amt]
  <2>1. j \in JobType /\ j.level = 1
    BY <1>5, BlankIs DEF JobType
  <2> HIDE DEF j
  <2>2. Hold(r, j)
    BY <1>6 DEF j
  <2> QED
    BY <1>4, <1>5, <1>6, <2>1, <2>2 DEF j
<1>7. ASSUME lock["room"] = None, lock' = [lock EXCEPT !["room"] = r], NEW s \in Active,
             Go(r, "fill"),
             Hold(r, [Blank EXCEPT !.sess = s, !.level = sess[s].level, !.left = Send(r).amt])
      PROVE  Frame(r) /\ Typed' /\ Written' /\ Hand(r)'
  <2> DEFINE j == [Blank EXCEPT !.sess = s, !.level = sess[s].level, !.left = Send(r).amt]
  <2>1. s \in Sessions /\ s \in Int /\ sess[s].level \in Levels /\ sess[s].level \in Nat
    BY <1>1, <1>5, SessionsAre, BoxIs, LevelsAre DEF Active
  <2>2. j \in JobType /\ j.sess = s /\ j.level = sess[s].level /\ j.back = 0
    BY <1>5, <2>1, BlankIs DEF JobType, Blank
  <2> HIDE DEF j
  <2>3. Hold(r, j)
    BY <1>7 DEF j
  <2> QED
    BY <1>4, <1>7, <2>1, <2>2, <2>3
<1> QED
  BY <1>3, <1>6, <1>7, Zenon DEF Feed

LEMMA MineIs ==
  ASSUME TypeOK, NEW r \in Procs, job[r].sess \in Sessions, job[r].level \in Levels
  PROVE  MyBox(r) \in BoxType /\ MyBox(r).prog \in Nat
         /\ MyBox(r).prog = sess[job[r].sess].box[job[r].level].prog
         /\ MyBox(r).rows = sess[job[r].sess].box[job[r].level].rows
         /\ MyBox(r).rows \in Seq(RowType)
         /\ MyBox(r).status = IF sess[job[r].sess].box[job[r].level].status = "ABSENT" THEN "ACTIVE"
                              ELSE sess[job[r].sess].box[job[r].level].status
<1>1. sess[job[r].sess].box[job[r].level] \in BoxType
  BY BoxIs
<1> QED
  BY <1>1 DEF MyBox, BoxType, BoxStatuses, RowType

(* What filling a box does.                                                *)
FillNeed(r) == Threshold[job[r].level] - MyBox(r).prog
FillFull(r) == job[r].left >= FillNeed(r)
FillTook(r) == IF FillFull(r) THEN FillNeed(r) ELSE job[r].left
FilledBox(r) == [MyBox(r) EXCEPT !.prog = @ + FillTook(r),
                                 !.status = IF FillFull(r) THEN "OPENED" ELSE "ACTIVE"]
FilledJob(r) == [job[r] EXCEPT !.took = FillTook(r), !.left = @ - FillTook(r),
                               !.full = IF FillFull(r) THEN @ \cup {job[r].level} ELSE @]

LEMMA FillIs ==
  ASSUME ControlInv, NEW r \in Reqs, Fill(r)
  PROVE  /\ pc[r] = "fill" /\ Go(r, "count") /\ scene' = scene /\ day' = day /\ ledger' = ledger
         /\ gift' = gift /\ bag' = bag /\ lock' = lock /\ faults' = faults
         /\ job[r].sess \in Sessions /\ job[r].level \in Levels /\ job[r] \in JobType
         /\ FilledJob(r) \in JobType /\ Hold(r, FilledJob(r))
         /\ job'[r].sess = job[r].sess /\ job'[r].level = job[r].level
         /\ job'[r].took = FillTook(r) /\ job'[r].left = job[r].left - FillTook(r)
         /\ job'[r].full = (IF FillFull(r) THEN job[r].full \cup {job[r].level} ELSE job[r].full)
         /\ job'[r].back = job[r].back
         /\ FillNeed(r) \in Int /\ FillTook(r) \in Int
         /\ FilledBox(r) \in BoxType /\ SetBox(r, job[r].level, FilledBox(r))
         /\ FilledBox(r).prog = MyBox(r).prog + FillTook(r)
         /\ FilledBox(r).rows = MyBox(r).rows
         /\ FilledBox(r).status = IF FillFull(r) THEN "OPENED" ELSE "ACTIVE"
<1>1. Typed /\ TypeOK /\ r \in Procs /\ r \notin Mgrs /\ Hand(r)
  BY ProcsAre DEF ControlInv, Typed
<1>2. /\ pc[r] = "fill" /\ Go(r, "count") /\ scene' = scene /\ day' = day /\ ledger' = ledger
      /\ gift' = gift /\ bag' = bag /\ lock' = lock /\ faults' = faults
      /\ Hold(r, FilledJob(r)) /\ SetBox(r, job[r].level, FilledBox(r))
  BY DEF Fill, At, wallets, FilledJob, FilledBox, FillNeed, FillFull, FillTook
<1>3. job[r].sess \in Sessions /\ job[r].level \in Levels /\ job[r] \in JobType
  BY <1>1, <1>2, JobIs DEF Hand, Late, Behind, Working
<1>4. job[r].left \in Nat /\ job[r].full \in SUBSET Levels
  BY <1>3 DEF JobType
<1>5. MyBox(r) \in BoxType /\ MyBox(r).prog \in Nat /\ Threshold[job[r].level] \in Nat
      /\ Threshold[job[r].level] > 0
  BY <1>1, <1>3, MineIs, LevelsAre
<1>6. FillNeed(r) \in Int /\ FillTook(r) \in Int /\ job[r].left - FillTook(r) \in Nat
      /\ MyBox(r).prog + FillTook(r) \in Nat
  BY <1>4, <1>5 DEF FillNeed, FillTook, FillFull
<1>7. FilledBox(r) \in BoxType
      /\ FilledBox(r).prog = MyBox(r).prog + FillTook(r)
      /\ FilledBox(r).rows = MyBox(r).rows
      /\ FilledBox(r).status = IF FillFull(r) THEN "OPENED" ELSE "ACTIVE"
  <2>1. FilledBox(r) = [MyBox(r) EXCEPT !.prog = MyBox(r).prog + FillTook(r),
                                        !.status = IF FillFull(r) THEN "OPENED" ELSE "ACTIVE"]
    BY DEF FilledBox
  <2> QED
    BY <1>5, <1>6, <2>1 DEF BoxType, BoxStatuses
<1>8. FilledJob(r) \in JobType
      /\ FilledJob(r).sess = job[r].sess /\ FilledJob(r).level = job[r].level
      /\ FilledJob(r).took = FillTook(r) /\ FilledJob(r).left = job[r].left - FillTook(r)
      /\ FilledJob(r).full = (IF FillFull(r) THEN job[r].full \cup {job[r].level} ELSE job[r].full)
      /\ FilledJob(r).back = job[r].back
  <2> DEFINE t == FillTook(r)
             f == IF FillFull(r) THEN job[r].full \cup {job[r].level} ELSE job[r].full
  <2>1. f \in SUBSET Levels /\ t \in Int /\ job[r].left - t \in Nat
    BY <1>3, <1>4, <1>6
  <2>2. FilledJob(r) = [job[r] EXCEPT !.took = t, !.left = job[r].left - t, !.full = f]
    BY DEF FilledJob
  <2> HIDE DEF t, f
  <2>3. [job[r] EXCEPT !.took = t, !.left = job[r].left - t, !.full = f] \in JobType
    BY <1>3, <2>1 DEF JobType
  <2>4. /\ FilledJob(r) \in JobType
        /\ FilledJob(r).sess = job[r].sess /\ FilledJob(r).level = job[r].level
        /\ FilledJob(r).took = t /\ FilledJob(r).left = job[r].left - t
        /\ FilledJob(r).full = f
        /\ FilledJob(r).back = job[r].back
    BY <1>3, <2>2, <2>3 DEF JobType
  <2> QED
    BY <2>4 DEF t, f
<1>9. job'[r] = FilledJob(r)
  BY <1>1, <1>2, <1>8, HoldsJob
<1> QED
  BY <1>2, <1>3, <1>6, <1>7, <1>8, <1>9

LEMMA FillControl ==
  ASSUME ControlInv, NEW r \in Reqs, Fill(r)
  PROVE  Frame(r) /\ Typed' /\ Written' /\ Hand(r)'
<1>1. Typed /\ TypeOK /\ r \in Procs /\ r \notin Mgrs /\ Hand(r)
  BY ProcsAre DEF ControlInv, Typed
<1>2. /\ pc[r] = "fill" /\ Go(r, "count") /\ scene' = scene /\ day' = day /\ ledger' = ledger
      /\ gift' = gift /\ bag' = bag /\ lock' = lock /\ faults' = faults
      /\ job[r].sess \in Sessions /\ job[r].level \in Levels
      /\ FilledJob(r) \in JobType /\ Hold(r, FilledJob(r))
      /\ job'[r].sess = job[r].sess /\ job'[r].level = job[r].level
      /\ job'[r].back = job[r].back
      /\ FilledBox(r) \in BoxType /\ SetBox(r, job[r].level, FilledBox(r))
  BY FillIs
<1>3. job' \in [Procs -> JobType] /\ job'[r] \in JobType /\ \A q \in Procs : q # r => job'[q] = job[q]
  BY <1>1, <1>2, HoldsJob
<1>4. sess' \in Seq(SessType) /\ DOMAIN sess' = DOMAIN sess
  BY <1>1, <1>2, SetBoxIs
<1>5. "count" \in PCs /\ faults' \in 0 .. scene.deaths /\ EntriesOK(ledger') /\ GrantsOK(bag')
      /\ lock' \in [LockKeys -> Procs \cup {None}]
  BY <1>1, <1>2, TypedIs DEF PCs
<1>6. Frame(r) /\ Typed' /\ Written' /\ pc'[r] = "count" /\ Send(r)' = Send(r)
  BY <1>1, <1>2, <1>3, <1>4, <1>5, WriteControl
<1>7. lock["room"] = r /\ gift[Send(r).key] # None /\ job[r].back = 0
  BY <1>1, <1>2 DEF Hand, Holds, Working, Behind
<1> QED
  BY <1>1, <1>2, <1>4, <1>6, <1>7 DEF Hand, Late, Behind, Working, Sessions

(* What the listener's other steps do.                                     *)
CountsRow(r) == job[r].took > 0 /\ Send(r).from # Send(r).to
CountedBox(r) == [MyBox(r) EXCEPT !.rows = Append(@, Row(Send(r).from, job[r].took, Txn(r)))]

LEMMA WorkerIs ==
  ASSUME ControlInv, NEW r \in Reqs, pc[r] \in Late
  PROVE  /\ Typed /\ TypeOK /\ r \in Procs /\ r \notin Mgrs /\ Hand(r)
         /\ job[r] \in JobType /\ job[r].sess \in Sessions /\ job[r].level \in Levels
         /\ job[r].left \in Nat /\ job[r].back \in Nat /\ job[r].took \in Int /\ job[r].full \subseteq Levels
         /\ gift[Send(r).key] # None /\ Txn(r) \in Reqs /\ Send(Txn(r)).key = Send(r).key
         /\ Send(Txn(r)) = Send(r)
         /\ pc[r] \in Working => lock["room"] = r /\ job[r].back = 0
<1>1. Typed /\ TypeOK /\ r \in Procs /\ r \notin Mgrs /\ Hand(r) /\ Written
  BY ProcsAre DEF ControlInv, Typed
<1>2. job[r] \in JobType
  BY <1>1, JobIs
<1>3. job[r].sess \in Sessions /\ job[r].level \in Levels /\ gift[Send(r).key] # None
      /\ (pc[r] \in Working => lock["room"] = r /\ job[r].back = 0)
  BY <1>1 DEF Hand, Late, Behind, Holds
<1>4. Send(r).key \in Keys /\ Txn(r) \in Reqs
  BY <1>1, <1>3, SendIs, TypedIs DEF Txn
<1>5. Send(Txn(r)).key = Send(r).key
  BY <1>1, <1>3, <1>4 DEF Written, Txn
<1>6. Send(Txn(r)) = Send(r)
  BY <1>1, <1>4, <1>5, SceneIs
<1> QED
  BY <1>1, <1>2, <1>3, <1>4, <1>5, <1>6 DEF JobType

LEMMA CountIs ==
  ASSUME ControlInv, NEW r \in Reqs, Count(r)
  PROVE  /\ pc[r] = "count" /\ scene' = scene /\ day' = day /\ ledger' = ledger
         /\ gift' = gift /\ bag' = bag /\ faults' = faults /\ job' = job
         /\ \/ job[r].level \in job[r].full /\ Go(r, "next") /\ lock' = lock
            \/ job[r].level \notin job[r].full /\ Go(r, "refund") /\ lock' = Freed(r)
         /\ \/ ~CountsRow(r) /\ sess' = sess
            \/ /\ CountsRow(r) /\ SetBox(r, job[r].level, CountedBox(r))
               /\ CountedBox(r) \in BoxType
               /\ CountedBox(r).prog = MyBox(r).prog /\ CountedBox(r).status = MyBox(r).status
               /\ CountedBox(r).rows = Append(MyBox(r).rows, Row(Send(r).from, job[r].took, Txn(r)))
               /\ Row(Send(r).from, job[r].took, Txn(r)) \in RowType
<1>1. /\ pc[r] = "count" /\ scene' = scene /\ day' = day /\ ledger' = ledger
      /\ gift' = gift /\ bag' = bag /\ faults' = faults /\ job' = job
      /\ \/ job[r].level \in job[r].full /\ Go(r, "next") /\ lock' = lock
         \/ job[r].level \notin job[r].full /\ Go(r, "refund") /\ lock' = Freed(r)
      /\ \/ ~CountsRow(r) /\ sess' = sess
         \/ CountsRow(r) /\ SetBox(r, job[r].level, CountedBox(r))
  BY DEF Count, At, wallets, CountsRow, CountedBox
<1>2. /\ TypeOK /\ r \in Procs /\ job[r].sess \in Sessions /\ job[r].level \in Levels /\ job[r].took \in Int
      /\ Txn(r) \in Reqs
  BY <1>1, WorkerIs DEF Late, Working
<1>3. MyBox(r) \in BoxType /\ MyBox(r).rows \in Seq(RowType)
  BY <1>2, MineIs
<1>4. CountsRow(r) => Row(Send(r).from, job[r].took, Txn(r)) \in RowType
  BY <1>2, SendIs DEF CountsRow, Row, RowType
<1>5. CountsRow(r) =>
         /\ CountedBox(r) \in BoxType
         /\ CountedBox(r).prog = MyBox(r).prog /\ CountedBox(r).status = MyBox(r).status
         /\ CountedBox(r).rows = Append(MyBox(r).rows, Row(Send(r).from, job[r].took, Txn(r)))
  <2> DEFINE e == Row(Send(r).from, job[r].took, Txn(r))
  <2>1. CountsRow(r) => Append(MyBox(r).rows, e) \in Seq(RowType)
    <3> HIDE DEF e
    <3> QED
      BY <1>3, <1>4 DEF e
  <2>2. CountedBox(r) = [MyBox(r) EXCEPT !.rows = Append(MyBox(r).rows, e)]
    BY DEF CountedBox
  <2> HIDE DEF e
  <2>3. CountsRow(r) =>
         /\ CountedBox(r) \in BoxType
         /\ CountedBox(r).prog = MyBox(r).prog /\ CountedBox(r).status = MyBox(r).status
         /\ CountedBox(r).rows = Append(MyBox(r).rows, e)
    BY <1>3, <2>1, <2>2 DEF BoxType, RowType
  <2> QED
    BY <2>3 DEF e
<1> QED
  BY <1>1, <1>4, <1>5

LEMMA CountControl ==
  ASSUME ControlInv, NEW r \in Reqs, Count(r)
  PROVE  Frame(r) /\ Typed' /\ Written' /\ Hand(r)'
<1>1. /\ pc[r] = "count" /\ scene' = scene /\ day' = day /\ ledger' = ledger
      /\ gift' = gift /\ bag' = bag /\ faults' = faults /\ job' = job
      /\ \/ job[r].level \in job[r].full /\ Go(r, "next") /\ lock' = lock
         \/ job[r].level \notin job[r].full /\ Go(r, "refund") /\ lock' = Freed(r)
  BY CountIs
<1>2. /\ Typed /\ TypeOK /\ r \in Procs /\ r \notin Mgrs /\ Hand(r)
      /\ job[r].sess \in Sessions /\ job[r].level \in Levels
      /\ gift[Send(r).key] # None /\ lock["room"] = r /\ job[r].back = 0 /\ job[r] \in JobType
  BY <1>1, WorkerIs DEF Late, Working
<1>3. sess' \in Seq(SessType) /\ DOMAIN sess' = DOMAIN sess
  <2>1. CASE sess' = sess
    BY <1>2, <2>1, TypedIs
  <2>2. CASE CountedBox(r) \in BoxType /\ SetBox(r, job[r].level, CountedBox(r))
    BY <1>2, <2>2, SetBoxIs
  <2> QED
    BY <2>1, <2>2, CountIs
<1>4. faults' \in 0 .. scene.deaths /\ EntriesOK(ledger') /\ GrantsOK(bag')
      /\ job' \in [Procs -> JobType] /\ lock \in [LockKeys -> Procs \cup {None}]
  BY <1>1, <1>2, TypedIs
<1>5. CASE Go(r, "next") /\ lock' = lock
  <2>1. Frame(r) /\ Typed' /\ Written' /\ pc'[r] = "next" /\ Send(r)' = Send(r)
    BY <1>1, <1>2, <1>3, <1>4, <1>5, WriteControl DEF PCs
  <2> QED
    BY <1>1, <1>2, <1>3, <1>5, <2>1 DEF Hand, Late, Behind, Working, Sessions
<1>6. CASE Go(r, "refund") /\ lock' = Freed(r)
  <2>1. lock' \in [LockKeys -> Procs \cup {None}]
        /\ \A k \in LockKeys, q \in Procs : q # r /\ lock[k] = q => lock'[k] = q
    BY <1>2, <1>6, FreedIs
  <2>2. Frame(r) /\ Typed' /\ Written' /\ pc'[r] = "refund" /\ Send(r)' = Send(r) /\ ~Holds(r)'
    <3>1. "refund" \in PCs /\ "refund" \notin Working \cup {"make", "boxes", "open", "settle"}
      BY DEF PCs, Working
    <3> QED
      BY <1>1, <1>2, <1>3, <1>4, <1>6, <2>1, <3>1, WriteControl
  <2> QED
    BY <1>1, <1>2, <1>3, <2>2 DEF Hand, Late, Behind, Working, Sessions
<1> QED
  BY <1>1, <1>5, <1>6

LEMMA CompleteControl ==
  ASSUME ControlInv, NEW r \in Reqs, Complete(r)
  PROVE  /\ Frame(r) /\ Typed' /\ Written' /\ Hand(r)'
         /\ job'[r].sess = job[r].sess /\ job'[r].level = job[r].level /\ job'[r].full = job[r].full
         /\ job'[r].back = job[r].left /\ pc'[r] = "refund"
<1>1. /\ pc[r] = "next" /\ scene' = scene /\ day' = day /\ ledger' = ledger
      /\ gift' = gift /\ bag' = bag /\ faults' = faults
      /\ sess' = Finish({job[r].sess}, "COMPLETED")
      /\ Hold(r, [job[r] EXCEPT !.back = @ + job[r].left, !.left = 0])
      /\ Go(r, "refund") /\ lock' = Freed(r)
  BY DEF Complete, At, wallets
<1>2. /\ Typed /\ TypeOK /\ r \in Procs /\ r \notin Mgrs /\ Hand(r)
      /\ job[r].sess \in Sessions /\ job[r].level \in Levels /\ job[r].left \in Nat
      /\ gift[Send(r).key] # None /\ lock["room"] = r /\ job[r].back = 0 /\ job[r] \in JobType
  BY <1>1, WorkerIs DEF Late, Working
<1>3. sess' \in Seq(SessType) /\ DOMAIN sess' = DOMAIN sess
  BY <1>1, <1>2, FinishIs
<1>4. faults' \in 0 .. scene.deaths /\ EntriesOK(ledger') /\ GrantsOK(bag')
  BY <1>1, <1>2, TypedIs
<1> DEFINE b == job[r].back + job[r].left
           j == [job[r] EXCEPT !.back = b, !.left = 0]
<1>5. j \in JobType /\ j.sess = job[r].sess /\ j.level = job[r].level /\ j.full = job[r].full
      /\ j.back = job[r].left
  <2>1. b = job[r].left /\ b \in Nat
    BY <1>2
  <2> HIDE DEF b
  <2> QED
    BY <1>2, <2>1 DEF JobType
<1>6. Hold(r, j)
  BY <1>1
<1> HIDE DEF b, j
<1>7. job'[r] = j /\ job' \in [Procs -> JobType] /\ \A q \in Procs : q # r => job'[q] = job[q]
  BY <1>2, <1>5, <1>6, HoldsJob
<1>8. lock' \in [LockKeys -> Procs \cup {None}]
      /\ \A k \in LockKeys, q \in Procs : q # r /\ lock[k] = q => lock'[k] = q
  BY <1>1, <1>2, FreedIs
<1>9. Frame(r) /\ Typed' /\ Written' /\ pc'[r] = "refund" /\ Send(r)' = Send(r) /\ ~Holds(r)'
  <2>1. "refund" \in PCs /\ "refund" \notin Working \cup {"make", "boxes", "open", "settle"}
    BY DEF PCs, Working
  <2>2. /\ scene' = scene /\ day' = day /\ gift' = gift /\ Go(r, "refund") /\ job'[r] \in JobType
        /\ faults' \in 0 .. scene.deaths /\ DOMAIN sess \subseteq DOMAIN sess'
    BY <1>1, <1>3, <1>4, <1>5, <1>7
  <2> QED
    BY <1>2, <1>3, <1>4, <1>7, <1>8, <2>1, <2>2, WriteControl
<1>10. Hand(r)'
  BY <1>1, <1>2, <1>3, <1>5, <1>7, <1>9, SMTT(30) DEF Hand, Late, Behind, Working, Sessions
<1> QED
  BY <1>5, <1>7, <1>9, <1>10

OpenedBox(r) == [sess[job[r].sess].box[job[r].level + 1] EXCEPT !.status = "ACTIVE"]

LEMMA OpenNextIs ==
  ASSUME ControlInv, NEW r \in Reqs, OpenNext(r)
  PROVE  /\ pc[r] = "next" /\ scene' = scene /\ day' = day /\ ledger' = ledger
         /\ gift' = gift /\ bag' = bag /\ faults' = faults /\ lock' = lock /\ job' = job
         /\ job[r].level < BoxCount /\ job[r].level + 1 \in Levels /\ Go(r, "level")
         /\ SetBox(r, job[r].level + 1, OpenedBox(r)) /\ OpenedBox(r) \in BoxType
         /\ OpenedBox(r).prog = sess[job[r].sess].box[job[r].level + 1].prog
         /\ OpenedBox(r).rows = sess[job[r].sess].box[job[r].level + 1].rows
         /\ OpenedBox(r).status = "ACTIVE"
<1>1. /\ pc[r] = "next" /\ scene' = scene /\ day' = day /\ ledger' = ledger
      /\ gift' = gift /\ bag' = bag /\ faults' = faults /\ lock' = lock /\ job' = job
      /\ job[r].level < BoxCount /\ Go(r, "level")
      /\ SetBox(r, job[r].level + 1, OpenedBox(r))
  BY DEF OpenNext, At, wallets, OpenedBox
<1>2. /\ TypeOK /\ job[r].sess \in Sessions /\ job[r].level \in Levels
  BY <1>1, WorkerIs DEF Late, Working
<1>3. job[r].level + 1 \in Levels
  BY <1>1, <1>2, LevelsAre DEF Levels
<1>4. sess[job[r].sess].box[job[r].level + 1] \in BoxType
  BY <1>2, <1>3, BoxIs
<1> QED
  BY <1>1, <1>3, <1>4 DEF OpenedBox, BoxType, BoxStatuses

LEMMA OpenNextControl ==
  ASSUME ControlInv, NEW r \in Reqs, OpenNext(r)
  PROVE  Frame(r) /\ Typed' /\ Written' /\ Hand(r)'
<1>1. /\ pc[r] = "next" /\ scene' = scene /\ day' = day /\ ledger' = ledger
      /\ gift' = gift /\ bag' = bag /\ faults' = faults /\ lock' = lock /\ job' = job
      /\ job[r].level + 1 \in Levels /\ Go(r, "level") /\ job[r].level < BoxCount
      /\ SetBox(r, job[r].level + 1, OpenedBox(r)) /\ OpenedBox(r) \in BoxType
  BY OpenNextIs
<1>2. /\ Typed /\ TypeOK /\ r \in Procs /\ r \notin Mgrs /\ Hand(r)
      /\ job[r].sess \in Sessions /\ job[r].level \in Levels
      /\ gift[Send(r).key] # None /\ lock["room"] = r /\ job[r].back = 0 /\ job[r] \in JobType
  BY <1>1, WorkerIs DEF Late, Working
<1>3. sess' \in Seq(SessType) /\ DOMAIN sess' = DOMAIN sess
  BY <1>1, <1>2, SetBoxIs
<1>4. faults' \in 0 .. scene.deaths /\ EntriesOK(ledger') /\ GrantsOK(bag')
      /\ job' \in [Procs -> JobType] /\ lock \in [LockKeys -> Procs \cup {None}]
  BY <1>1, <1>2, TypedIs
<1>5. Frame(r) /\ Typed' /\ Written' /\ pc'[r] = "level" /\ Send(r)' = Send(r)
  BY <1>1, <1>2, <1>3, <1>4, WriteControl DEF PCs
<1> QED
  BY <1>1, <1>2, <1>3, <1>5 DEF Hand, Late, Behind, Working, Sessions

(* The next box becomes current.                                           *)
LEMMA AdvanceControl ==
  ASSUME ControlInv, NEW r \in Reqs, Advance(r)
  PROVE  /\ Frame(r) /\ Typed' /\ Written' /\ Hand(r)'
         /\ pc[r] = "level" /\ pc'[r] = (IF job[r].left > 0 THEN "fill" ELSE "refund")
         /\ job[r].level + 1 \in Levels
         /\ job'[r].sess = job[r].sess /\ job'[r].level = job[r].level + 1 /\ job'[r].full = job[r].full
         /\ job'[r].back = 0 /\ job'[r].left = job[r].left
         /\ ledger' = ledger /\ bag' = bag /\ gift' = gift /\ day' = day
         /\ LET s == job[r].sess IN
            /\ DOMAIN sess' = DOMAIN sess /\ Len(sess') = Len(sess)
            /\ \A x \in Sessions : /\ x # s => sess'[x] = sess[x]
                                   /\ sess'[x].day = sess[x].day /\ sess'[x].status = sess[x].status
                                   /\ sess'[x].box = sess[x].box
            /\ sess'[s].level = job[r].level + 1
<1>1. /\ pc[r] = "level" /\ scene' = scene /\ day' = day /\ ledger' = ledger
      /\ gift' = gift /\ bag' = bag /\ faults' = faults
      /\ sess' = [sess EXCEPT ![job[r].sess].level = job[r].level + 1]
      /\ Hold(r, [job[r] EXCEPT !.level = @ + 1])
      /\ \/ job[r].left > 0 /\ Go(r, "fill") /\ lock' = lock
         \/ ~(job[r].left > 0) /\ Go(r, "refund") /\ lock' = Freed(r)
  BY DEF Advance, At, wallets
<1>2. /\ Typed /\ TypeOK /\ r \in Procs /\ r \notin Mgrs /\ Hand(r)
      /\ job[r].sess \in Sessions /\ job[r].level \in Levels /\ job[r].left \in Nat
      /\ gift[Send(r).key] # None /\ lock["room"] = r /\ job[r].back = 0 /\ job[r] \in JobType
  BY <1>1, WorkerIs DEF Late, Working
<1>3. job[r].level + 1 \in Levels /\ job[r].level \in Nat
  <2>1. job[r].level < BoxCount
    BY <1>1, <1>2 DEF Hand
  <2> QED
    BY <1>2, <2>1, LevelsAre DEF Levels
<1> DEFINE s == job[r].sess
           se == [sess[s] EXCEPT !.level = job[r].level + 1]
<1>4. sess[s] \in SessType /\ s \in 1 .. Len(sess) /\ sess \in Seq(SessType) /\ Len(sess) \in Nat
  BY <1>2, SessionsAre, TypedIs
<1>5. sess' = [sess EXCEPT ![s] = se]
  BY <1>1
<1>6. se \in SessType /\ se.day = sess[s].day /\ se.status = sess[s].status /\ se.box = sess[s].box
      /\ se.level = job[r].level + 1
  BY <1>3, <1>4 DEF SessType
<1> HIDE DEF se
<1>7. sess' \in Seq(SessType) /\ Len(sess') = Len(sess) /\ DOMAIN sess' = DOMAIN sess
  BY <1>4, <1>5, <1>6
<1>8. sess'[s] = se /\ \A x \in Sessions : x # s => sess'[x] = sess[x]
  BY <1>4, <1>5 DEF Sessions
<1> DEFINE j == [job[r] EXCEPT !.level = job[r].level + 1]
<1>9. j \in JobType /\ j.sess = job[r].sess /\ j.level = job[r].level + 1 /\ j.full = job[r].full
      /\ j.back = 0 /\ j.left = job[r].left
  BY <1>2, <1>3 DEF JobType
<1>10. Hold(r, j)
  BY <1>1
<1> HIDE DEF j
<1>11. job'[r] = j /\ job' \in [Procs -> JobType] /\ \A q \in Procs : q # r => job'[q] = job[q]
  BY <1>2, <1>9, <1>10, HoldsJob
<1>12. faults' \in 0 .. scene.deaths /\ EntriesOK(ledger') /\ GrantsOK(bag')
       /\ lock \in [LockKeys -> Procs \cup {None}]
  BY <1>1, <1>2, TypedIs
<1>13. /\ Frame(r) /\ Typed' /\ Written' /\ Hand(r)' /\ pc'[r] = (IF job[r].left > 0 THEN "fill" ELSE "refund")
  <2>1. CASE job[r].left > 0 /\ Go(r, "fill") /\ lock' = lock
    <3>1. Frame(r) /\ Typed' /\ Written' /\ pc'[r] = "fill" /\ Send(r)' = Send(r)
      BY <1>1, <1>2, <1>7, <1>9, <1>11, <1>12, <2>1, WriteControl DEF PCs
    <3> QED
      BY <1>1, <1>2, <1>3, <1>7, <1>9, <1>11, <2>1, <3>1 DEF Hand, Late, Behind, Working, Sessions
  <2>2. CASE ~(job[r].left > 0) /\ Go(r, "refund") /\ lock' = Freed(r)
    <3>1. lock' \in [LockKeys -> Procs \cup {None}]
          /\ \A k \in LockKeys, q \in Procs : q # r /\ lock[k] = q => lock'[k] = q
      BY <1>2, <2>2, FreedIs
    <3>2. "refund" \in PCs /\ "refund" \notin Working \cup {"make", "boxes", "open", "settle"}
      BY DEF PCs, Working
    <3>3. Frame(r) /\ Typed' /\ Written' /\ pc'[r] = "refund" /\ Send(r)' = Send(r) /\ ~Holds(r)'
      BY <1>1, <1>2, <1>7, <1>9, <1>11, <1>12, <2>2, <3>1, <3>2, WriteControl
    <3> QED
      BY <1>1, <1>2, <1>3, <1>7, <1>9, <1>11, <2>2, <3>3 DEF Hand, Late, Behind, Working, Sessions
  <2> QED
    BY <1>1, <2>1, <2>2
<1> QED
  BY <1>1, <1>2, <1>3, <1>6, <1>7, <1>8, <1>9, <1>11, <1>13

LEMMA EndWriteControl ==
  ASSUME ControlInv, NEW p \in Procs, End(p),
         scene' = scene, day' = day, gift' = gift, faults' = faults,
         EntriesOK(ledger'), GrantsOK(bag'),
         sess' \in Seq(SessType), DOMAIN sess \subseteq DOMAIN sess'
  PROVE  Frame(p) /\ Typed' /\ Written' /\ Hand(p)'
<1>1. Typed /\ TypeOK
  BY DEF ControlInv, Typed
<1>2. /\ job'[p] = Blank /\ job' \in [Procs -> JobType] /\ \A q \in Procs : q # p => job'[q] = job[q]
      /\ lock' \in [LockKeys -> Procs \cup {None}]
      /\ \A k \in LockKeys : lock'[k] = IF lock[k] = p THEN None ELSE lock[k]
  BY <1>1, EndIs
<1>3. Go(p, "done") /\ "done" \in PCs /\ faults' \in 0 .. scene.deaths /\ job'[p] \in JobType
  BY <1>1, <1>2, BlankIs DEF End, PCs, TypeOK
<1>4. \A k \in LockKeys, q \in Procs : q # p /\ lock[k] = q => lock'[k] = q
  BY <1>2
<1>5. Frame(p) /\ Typed' /\ Written' /\ pc'[p] = "done"
  BY <1>2, <1>3, <1>4, WriteControl
<1>6. ~Holds(p)'
  BY <1>5 DEF Holds, Working
<1>7. Hand(p)'
  BY <1>5, <1>6 DEF Hand, Late, Behind, Working
<1> QED
  BY <1>5, <1>7

LEMMA RefundRestControl ==
  ASSUME ControlInv, NEW r \in Reqs, RefundRest(r)
  PROVE  Frame(r) /\ Typed' /\ Written' /\ Hand(r)'
<1> DEFINE e == Entry("rest", <<job[r].sess, Txn(r)>>, Send(r).from, GOLD, job[r].back)
<1>1. /\ pc[r] = "refund" /\ ledger' = Posted({e}) /\ Go(r, "grant")
      /\ scene' = scene /\ day' = day /\ gift' = gift /\ bag' = bag /\ sess' = sess
      /\ lock' = lock /\ job' = job /\ faults' = faults
  BY DEF RefundRest, At
<1>2. /\ Typed /\ TypeOK /\ r \in Procs /\ r \notin Mgrs /\ Hand(r)
      /\ job[r].sess \in Sessions /\ job[r].level \in Levels /\ job[r].back \in Nat
      /\ gift[Send(r).key] # None /\ job[r] \in JobType
  BY <1>1, WorkerIs DEF Late
<1>3. /\ sess \in Seq(SessType) /\ faults' \in 0 .. scene.deaths /\ EntriesOK(ledger) /\ GrantsOK(bag')
      /\ job' \in [Procs -> JobType] /\ lock' \in [LockKeys -> Procs \cup {None}]
  BY <1>1, <1>2, TypedIs
<1>4. e.user \in Users /\ e.cur \in {GOLD, DIAMOND} /\ e.amt \in Int
  BY <1>2, SendIs, EntryIs
<1> HIDE DEF e
<1>5. EntriesOK(ledger')
  <2>1. EntriesOK({e})
    BY <1>4 DEF EntriesOK
  <2> QED
    BY <1>1, <1>3, <2>1, PostedIs
<1>6. Frame(r) /\ Typed' /\ Written' /\ pc'[r] = "grant" /\ Send(r)' = Send(r)
  BY <1>1, <1>2, <1>3, <1>5, WriteControl DEF PCs
<1>7. ~Holds(r)'
  BY <1>2, <1>6 DEF Holds, Working
<1> QED
  BY <1>1, <1>2, <1>6, <1>7 DEF Hand, Late, Behind, Working, Sessions

(* The items that a listener grants.                                       *)
Winners(s, l) == CHOOSE q \in Rankings(sess[s].box[l].rows, TRUE) : TRUE
NewGrants(r) ==
    UNION {{[box |-> <<job[r].sess, l>>, rank |-> n, user |-> Winners(job[r].sess, l)[n]] :
               n \in Ranks \cap DOMAIN Winners(job[r].sess, l)} : l \in job[r].full}

LEMMA GrantIs ==
  ASSUME ControlInv, NEW r \in Reqs, Grant(r)
  PROVE  /\ pc[r] = "grant" /\ End(r) /\ bag \subseteq bag'
         /\ scene' = scene /\ day' = day /\ ledger' = ledger /\ gift' = gift /\ sess' = sess
         /\ faults' = faults
         /\ \A x \in bag' : x \notin bag =>
              \E l \in job[r].full : /\ x.box = <<job[r].sess, l>> /\ x.rank \in Ranks /\ x.user \in Users
                                     /\ x.user \in Places(sess[job[r].sess].box[l].rows, x.rank)
<1>1. /\ pc[r] = "grant" /\ End(r)
      /\ bag' = bag \cup {x \in NewGrants(r) : ~\E y \in bag : y.box = x.box /\ y.rank = x.rank}
      /\ scene' = scene /\ day' = day /\ ledger' = ledger /\ gift' = gift /\ sess' = sess
      /\ faults' = faults
  BY DEF Grant, At, wallets, NewGrants, Winners
<1>2. TypeOK /\ job[r].sess \in Sessions /\ job[r].full \subseteq Levels
  BY <1>1, WorkerIs DEF Late
<1>3. ASSUME NEW x \in NewGrants(r)
      PROVE  \E l \in job[r].full : /\ x.box = <<job[r].sess, l>> /\ x.rank \in Ranks /\ x.user \in Users
                                    /\ x.user \in Places(sess[job[r].sess].box[l].rows, x.rank)
  <2>1. PICK l \in job[r].full : x \in {[box |-> <<job[r].sess, l>>, rank |-> n, user |-> Winners(job[r].sess, l)[n]] :
               n \in Ranks \cap DOMAIN Winners(job[r].sess, l)}
    BY DEF NewGrants
  <2>2. PICK n \in Ranks \cap DOMAIN Winners(job[r].sess, l) :
               x = [box |-> <<job[r].sess, l>>, rank |-> n, user |-> Winners(job[r].sess, l)[n]]
    BY <2>1
  <2> DEFINE rows == sess[job[r].sess].box[l].rows
             q == Winners(job[r].sess, l)
  <2>3. rows \in Seq(RowType)
    BY <1>2, BoxIs DEF RowType
  <2>4. q \in Rankings(rows, TRUE)
    <3> HIDE DEF rows
    <3> QED
      BY <2>3, RankingExists DEF Winners, rows
  <2> HIDE DEF rows, q
  <2>5. \A m \in DOMAIN q : q[m] \in Users /\ q[m] \in Places(rows, m)
    BY <2>3, <2>4, RankingIs
  <2> QED
    BY <2>2, <2>5 DEF rows, q
<1> QED
  BY <1>1, <1>3

LEMMA GrantControl ==
  ASSUME ControlInv, NEW r \in Reqs, Grant(r)
  PROVE  Frame(r) /\ Typed' /\ Written' /\ Hand(r)'
<1>1. /\ Typed /\ TypeOK /\ r \in Procs
  BY ProcsAre DEF ControlInv, Typed
<1>2. /\ sess \in Seq(SessType) /\ EntriesOK(ledger) /\ GrantsOK(bag)
  BY <1>1, TypedIs
<1>3. GrantsOK(bag')
  BY <1>2, GrantIs DEF GrantsOK
<1>4. /\ End(r) /\ scene' = scene /\ day' = day /\ ledger' = ledger /\ gift' = gift /\ sess' = sess
      /\ faults' = faults
  BY GrantIs
<1> QED
  BY <1>1, <1>2, <1>3, <1>4, EndWriteControl

LEMMA MakeIs ==
  ASSUME ControlInv, NEW p \in Procs, Make(p)
  PROVE  /\ pc[p] = "make" /\ Go(p, "boxes") /\ Frame(p) /\ Typed' /\ Written' /\ Hand(p)'
         /\ scene' = scene /\ day' = day /\ ledger' = ledger /\ gift' = gift /\ bag' = bag /\ lock' = lock
         /\ faults' = faults /\ pc'[p] = "boxes"
         /\ job'[p] = [job[p] EXCEPT !.sess = Len(sess) + 1] /\ job'[p].sess = Len(sess) + 1
         /\ sess' = Append(sess, Bare) /\ Bare \in SessType
         /\ Len(sess') = Len(sess) + 1 /\ DOMAIN sess' = 1 .. Len(sess) + 1
         /\ sess'[Len(sess) + 1] = Bare /\ \A s \in Sessions : sess'[s] = sess[s]
<1>1. Typed /\ TypeOK /\ Hand(p)
  BY DEF ControlInv, Typed
<1>2. /\ pc[p] = "make" /\ Go(p, "boxes") /\ sess' = Append(sess, Bare)
      /\ Hold(p, [job[p] EXCEPT !.sess = Len(sess) + 1])
      /\ scene' = scene /\ day' = day /\ ledger' = ledger /\ gift' = gift /\ bag' = bag /\ lock' = lock
      /\ faults' = faults
  BY DEF Make, At, wallets
<1> DEFINE n == Len(sess) + 1
           j == [job[p] EXCEPT !.sess = n]
<1>3. /\ sess \in Seq(SessType) /\ EntriesOK(ledger') /\ GrantsOK(bag') /\ faults' \in 0 .. scene.deaths
      /\ lock' \in [LockKeys -> Procs \cup {None}] /\ job[p] \in JobType
  BY <1>1, <1>2, TypedIs
<1>4. Bare \in SessType /\ Len(sess) \in Nat /\ Sessions = 1 .. Len(sess) /\ n \in Nat
  BY <1>1, FreshIs, SessionsAre
<1>5. /\ sess' \in Seq(SessType) /\ Len(sess') = n
      /\ DOMAIN sess' = 1 .. n
      /\ sess'[n] = Bare
      /\ \A x \in Sessions : sess'[x] = sess[x]
  BY <1>1, <1>2, <1>3, <1>4, AppendIs
<1>6. DOMAIN sess \subseteq DOMAIN sess' /\ n \in DOMAIN sess'
  BY <1>4, <1>5 DEF Sessions
<1> HIDE DEF n
<1>7. j \in JobType /\ j.sess = n /\ j.level = job[p].level
  <2>1. job[p] \in JobType /\ n \in Int
    BY <1>3, <1>4
  <2> QED
    BY <2>1 DEF JobType
<1>8. Hold(p, j)
  BY <1>2 DEF n
<1> HIDE DEF j
<1>9. job'[p] = j /\ job' \in [Procs -> JobType] /\ \A q \in Procs : q # p => job'[q] = job[q]
  BY <1>1, <1>7, <1>8, HoldsJob
<1>10. Frame(p) /\ Typed' /\ Written' /\ pc'[p] = "boxes" /\ Send(p)' = Send(p)
       /\ (Holds(p)' <=> (p \in Mgrs => scene.op[p] = "start"))
  BY <1>1, <1>2, <1>3, <1>5, <1>6, <1>7, <1>9, WriteControl DEF PCs, Working
<1>11. p \in Reqs => j = [Blank EXCEPT !.sess = n, !.level = 1, !.left = Send(p).amt]
  BY <1>1, <1>2 DEF Hand, j, Blank
<1>12. (p \in Mgrs => scene.op[p] = "start") => lock["room"] = p
  BY <1>1, <1>2 DEF Hand, Holds
<1>13. p \in Reqs => gift[Send(p).key] # None /\ job[p].level \in Levels
  BY <1>1, <1>2 DEF Hand, Behind
<1>14. Hand(p)'
  BY <1>1, <1>2, <1>6, <1>7, <1>9, <1>10, <1>11, <1>12, <1>13 DEF Hand, Late, Behind, Working, Sessions
<1> QED
  BY <1>2, <1>4, <1>5, <1>7, <1>9, <1>10, <1>14 DEF n, j

(* Laying out the boxes of a session that has none.                        *)
LEMMA BoxesIs ==
  ASSUME ControlInv, NEW p \in Procs, Boxes(p)
  PROVE  /\ pc[p] = "boxes" /\ job[p].sess \in Sessions
         /\ Frame(p) /\ Typed' /\ Written' /\ Hand(p)'
         /\ scene' = scene /\ day' = day /\ ledger' = ledger /\ gift' = gift /\ bag' = bag
         /\ faults' = faults /\ DOMAIN sess' = DOMAIN sess /\ Len(sess') = Len(sess)
         /\ \/ sess[job[p].sess].box[1] # NoBox /\ sess' = sess /\ End(p)
            \/ /\ sess[job[p].sess].box[1] = NoBox
               /\ \A s \in Sessions : /\ s # job[p].sess => sess'[s] = sess[s]
                                      /\ sess'[s].day = sess[s].day /\ sess'[s].level = sess[s].level
                                      /\ sess'[s].status = sess[s].status
               /\ \A l \in Levels : sess'[job[p].sess].box[l] = Fresh(l)
               /\ \/ p \in Reqs /\ Go(p, "fill") /\ pc'[p] = "fill" /\ lock' = lock /\ job' = job
                  \/ p \notin Reqs /\ End(p)
<1>1. Typed /\ TypeOK /\ Hand(p)
  BY DEF ControlInv, Typed
<1> DEFINE s == job[p].sess
           se == Laid(sess[s])
<1>2. /\ pc[p] = "boxes"
      /\ scene' = scene /\ day' = day /\ ledger' = ledger /\ gift' = gift /\ bag' = bag
      /\ faults' = faults
      /\ \/ sess[s].box[1] # NoBox /\ End(p) /\ sess' = sess
         \/ /\ sess[s].box[1] = NoBox /\ sess' = [sess EXCEPT ![s] = se]
            /\ \/ p \in Reqs /\ Go(p, "fill") /\ lock' = lock /\ job' = job
               \/ p \notin Reqs /\ End(p)
  BY DEF Boxes, At, wallets
<1>3. s \in Sessions
  BY <1>1, <1>2 DEF Hand
<1>4. /\ sess \in Seq(SessType) /\ EntriesOK(ledger') /\ GrantsOK(bag') /\ faults' \in 0 .. scene.deaths
      /\ lock \in [LockKeys -> Procs \cup {None}] /\ job[p] \in JobType /\ job \in [Procs -> JobType]
  BY <1>1, <1>2, TypedIs
<1>5. sess[s] \in SessType /\ Sessions = 1 .. Len(sess) /\ Len(sess) \in Nat
  BY <1>1, <1>3, SessionsAre
<1>6. /\ se \in SessType /\ se.day = sess[s].day /\ se.level = sess[s].level /\ se.status = sess[s].status
      /\ \A l \in Levels : se.box[l] = Fresh(l)
  BY <1>1, <1>5, FreshIs
<1>7. CASE sess[s].box[1] # NoBox /\ End(p) /\ sess' = sess
  <2>1. Frame(p) /\ Typed' /\ Written' /\ Hand(p)'
    BY <1>2, <1>7, EndControl
  <2> QED
    BY <1>2, <1>3, <1>7, <2>1
<1>8. ASSUME sess[s].box[1] = NoBox, sess' = [sess EXCEPT ![s] = se]
      PROVE  /\ sess' \in Seq(SessType) /\ DOMAIN sess' = DOMAIN sess /\ Len(sess') = Len(sess)
             /\ sess'[s] = se /\ \A x \in Sessions : x # s => sess'[x] = sess[x]
  <2> HIDE DEF se
  <2> QED
    BY <1>3, <1>4, <1>5, <1>6, <1>8 DEF Sessions
<1>9. ASSUME sess[s].box[1] = NoBox, sess' = [sess EXCEPT ![s] = se]
      PROVE  /\ \A x \in Sessions : /\ x # s => sess'[x] = sess[x]
                                    /\ sess'[x].day = sess[x].day /\ sess'[x].level = sess[x].level
                                    /\ sess'[x].status = sess[x].status
             /\ \A l \in Levels : sess'[s].box[l] = Fresh(l)
  <2> HIDE DEF se
  <2> QED
    BY <1>6, <1>8, <1>9
<1> HIDE DEF se
<1>10. CASE sess[s].box[1] = NoBox /\ sess' = [sess EXCEPT ![s] = se] /\ p \notin Reqs /\ End(p)
  <2>1. sess' \in Seq(SessType) /\ DOMAIN sess' = DOMAIN sess /\ Len(sess') = Len(sess)
    BY <1>8, <1>10
  <2>2. Frame(p) /\ Typed' /\ Written' /\ Hand(p)'
    BY <1>2, <1>4, <1>10, <2>1, EndWriteControl
  <2> QED
    BY <1>2, <1>3, <1>9, <1>10, <2>1, <2>2
<1>11. CASE /\ sess[s].box[1] = NoBox /\ sess' = [sess EXCEPT ![s] = se]
            /\ p \in Reqs /\ Go(p, "fill") /\ lock' = lock /\ job' = job
  <2>1. sess' \in Seq(SessType) /\ DOMAIN sess' = DOMAIN sess /\ Len(sess') = Len(sess)
    BY <1>8, <1>11
  <2>2. Frame(p) /\ Typed' /\ Written' /\ pc'[p] = "fill" /\ Send(p)' = Send(p)
    BY <1>1, <1>2, <1>4, <1>11, <2>1, WriteControl DEF PCs
  <2>3. job[p] = [Blank EXCEPT !.sess = job[p].sess, !.level = 1, !.left = Send(p).amt] /\ p \notin Mgrs
        /\ job[p].level \in Levels /\ gift[Send(p).key] # None /\ lock["room"] = p
    BY <1>1, <1>2, <1>11, ProcsAre DEF Hand, Holds, Behind
  <2>4. job[p].back = 0
    BY <2>3 DEF Blank
  <2>5. Hand(p)'
    BY <1>2, <1>3, <1>11, <2>1, <2>2, <2>3, <2>4 DEF Hand, Late, Behind, Working, Sessions
  <2> QED
    BY <1>2, <1>3, <1>9, <1>11, <2>1, <2>2, <2>5
<1> QED
  BY <1>2, <1>7, <1>10, <1>11

LEMMA StartControl ==
  ASSUME ControlInv, NEW p \in Mgrs, Start(p)
  PROVE  /\ Frame(p) /\ Typed' /\ Written' /\ Hand(p)'
         /\ scene' = scene /\ day' = day /\ ledger' = ledger /\ gift' = gift /\ bag' = bag
         /\ pc[p] = "idle" /\ scene.op[p] = "start"
         /\ \/ End(p) /\ sess' = sess
            \/ /\ lock["room"] = None
               /\ \E s \in (IF Active = {} THEN {0} ELSE Active) :
                    \/ /\ CompletedToday \/ (s # 0 /\ sess[s].day = day)
                       /\ End(p) /\ sess' = Finish({x \in {s} \ {0} : sess[x].day # day}, "COMPLETED")
                    \/ /\ ~CompletedToday /\ ~(s # 0 /\ sess[s].day = day)
                       /\ sess' = Finish({s} \ {0}, "COMPLETED")
                       /\ pc'[p] = "make" /\ job' = job
<1>1. Typed /\ TypeOK /\ Hand(p) /\ p \in Procs /\ p \notin Reqs
  BY ProcsAre DEF ControlInv, Typed
<1>2. /\ pc[p] = "idle" /\ scene.op[p] = "start"
      /\ scene' = scene /\ day' = day /\ ledger' = ledger /\ gift' = gift /\ bag' = bag /\ faults' = faults
      /\ \/ End(p) /\ sess' = sess
         \/ /\ lock["room"] = None
            /\ \E s \in (IF Active = {} THEN {0} ELSE Active) :
                 \/ /\ CompletedToday \/ (s # 0 /\ sess[s].day = day)
                    /\ End(p) /\ sess' = Finish({x \in {s} \ {0} : sess[x].day # day}, "COMPLETED")
                 \/ /\ ~CompletedToday /\ ~(s # 0 /\ sess[s].day = day)
                    /\ sess' = Finish({s} \ {0}, "COMPLETED")
                    /\ lock' = [lock EXCEPT !["room"] = p] /\ Go(p, "make") /\ job' = job
  <2>1. /\ pc[p] = "idle" /\ scene.op[p] = "start"
        /\ scene' = scene /\ day' = day /\ ledger' = ledger /\ gift' = gift /\ bag' = bag /\ faults' = faults
    BY DEF Start, At, wallets
  <2> QED
    BY <2>1 DEF Start
<1>3. /\ sess \in Seq(SessType) /\ EntriesOK(ledger') /\ GrantsOK(bag') /\ faults' \in 0 .. scene.deaths
      /\ lock \in [LockKeys -> Procs \cup {None}] /\ job[p] \in JobType /\ job \in [Procs -> JobType]
  BY <1>1, <1>2, TypedIs
<1>4. CASE End(p) /\ sess' = sess
  <2>1. Frame(p) /\ Typed' /\ Written' /\ Hand(p)'
    BY <1>1, <1>2, <1>4, EndControl
  <2> QED
    BY <1>2, <1>4, <2>1
<1>5. ASSUME lock["room"] = None, NEW s \in (IF Active = {} THEN {0} ELSE Active),
             CompletedToday \/ (s # 0 /\ sess[s].day = day),
             End(p), sess' = Finish({x \in {s} \ {0} : sess[x].day # day}, "COMPLETED")
      PROVE  Frame(p) /\ Typed' /\ Written' /\ Hand(p)'
  <2>1. sess' \in Seq(SessType) /\ DOMAIN sess' = DOMAIN sess
    BY <1>1, <1>5, FinishIs
  <2> QED
    BY <1>1, <1>2, <1>3, <1>5, <2>1, EndWriteControl
<1>6. ASSUME lock["room"] = None, NEW s \in (IF Active = {} THEN {0} ELSE Active),
             sess' = Finish({s} \ {0}, "COMPLETED"),
             lock' = [lock EXCEPT !["room"] = p], Go(p, "make"), job' = job
      PROVE  Frame(p) /\ Typed' /\ Written' /\ Hand(p)' /\ pc'[p] = "make"
  <2>1. sess' \in Seq(SessType) /\ DOMAIN sess' = DOMAIN sess
    BY <1>1, <1>6, FinishIs
  <2>2. /\ lock' \in [LockKeys -> Procs \cup {None}] /\ lock'["room"] = p
        /\ \A k \in LockKeys, q \in Procs : q # p /\ lock[k] = q => lock'[k] = q
    BY <1>1, <1>3, <1>6, KeysAre, ProcsAre
  <2>3. Frame(p) /\ Typed' /\ Written' /\ pc'[p] = "make" /\ Send(p)' = Send(p)
    BY <1>1, <1>2, <1>3, <1>6, <2>1, <2>2, WriteControl DEF PCs
  <2>4. Hand(p)'
    BY <1>1, <1>2, <1>6, <2>1, <2>2, <2>3 DEF Hand, Late, Behind, Working, Sessions
  <2> QED
    BY <2>3, <2>4
<1>7. CASE lock["room"] = None /\ sess' # sess
  BY <1>2, <1>5, <1>6, <1>7
<1> QED
  BY <1>2, <1>4, <1>5, <1>6

LEMMA StatusControl ==
  ASSUME ControlInv, NEW p \in Mgrs, Status(p)
  PROVE  Frame(p) /\ Typed' /\ Written' /\ Hand(p)'
<1>1. Typed /\ TypeOK /\ Hand(p) /\ p \in Procs /\ p \notin Reqs
  BY ProcsAre DEF ControlInv, Typed
<1>2. /\ scene' = scene /\ day' = day /\ ledger' = ledger /\ gift' = gift /\ bag' = bag /\ sess' = sess
      /\ faults' = faults /\ scene.op[p] \in {"status", "reset"}
      /\ faults' \in 0 .. scene.deaths
      /\ End(p) \/ (Go(p, "make") /\ job' = job /\ lock' = lock)
  BY <1>1, TypedIs DEF Status, At, wallets, Hand
<1>3. CASE End(p)
  BY <1>1, <1>2, <1>3, EndControl
<1>4. CASE Go(p, "make") /\ job' = job /\ lock' = lock
  <2>1. job[p] \in JobType /\ job' \in [Procs -> JobType] /\ lock' \in [LockKeys -> Procs \cup {None}]
    BY <1>1, <1>4, TypedIs
  <2>2. Frame(p) /\ Typed' /\ Written' /\ pc'[p] = "make" /\ Send(p)' = Send(p)
        /\ (Holds(p)' <=> scene.op[p] = "start")
    BY <1>1, <1>2, <1>4, <2>1, MoveControl DEF PCs, Working
  <2> QED
    BY <1>1, <1>2, <2>2 DEF Hand, Late, Behind, Working, Sessions
<1> QED
  BY <1>2, <1>3, <1>4

LEMMA FindControl ==
  ASSUME ControlInv, NEW p \in Mgrs, Find(p)
  PROVE  Frame(p) /\ Typed' /\ Written' /\ Hand(p)'
<1>1. Typed /\ TypeOK /\ Hand(p) /\ p \in Procs /\ p \notin Reqs
  BY ProcsAre DEF ControlInv, Typed
<1>2. /\ scene' = scene /\ day' = day /\ ledger' = ledger /\ gift' = gift /\ bag' = bag /\ sess' = sess
      /\ faults' = faults /\ scene.op[p] \in {"cancel", "reset"}
      /\ faults' \in 0 .. scene.deaths
      /\ End(p) \/ (/\ Go(p, "close") /\ lock' = lock
                    /\ \E a \in SUBSET Active : Hold(p, [Blank EXCEPT !.all = a]))
  <2>1. /\ scene' = scene /\ day' = day /\ ledger' = ledger /\ gift' = gift /\ bag' = bag /\ sess' = sess
        /\ faults' = faults /\ scene.op[p] \in {"cancel", "reset"}
        /\ faults' \in 0 .. scene.deaths
    BY <1>1, TypedIs DEF Find, At, wallets, Hand
  <2>2. \/ End(p)
        \/ /\ Go(p, "close") /\ lock' = lock
           /\ \/ Hold(p, [Blank EXCEPT !.all = Active])
              \/ \E s \in Active : Hold(p, [Blank EXCEPT !.all = {s}])
    BY DEF Find
  <2>3. Active \in SUBSET Active /\ \A s \in Active : {s} \in SUBSET Active
    OBVIOUS
  <2> QED
    BY <2>1, <2>2, <2>3
<1>3. CASE End(p)
  BY <1>1, <1>2, <1>3, EndControl
<1>4. ASSUME Go(p, "close"), lock' = lock, NEW a \in SUBSET Active, Hold(p, [Blank EXCEPT !.all = a])
      PROVE  Frame(p) /\ Typed' /\ Written' /\ Hand(p)'
  <2> DEFINE j == [Blank EXCEPT !.all = a]
  <2>1. a \subseteq Sessions /\ a \subseteq Nat
    BY <1>1, SessionsAre DEF Active
  <2>2. j \in JobType /\ j.all = a
    BY <2>1, BlankIs DEF JobType, Blank
  <2> HIDE DEF j
  <2>3. Hold(p, j)
    BY <1>4 DEF j
  <2>4. job'[p] = j /\ job' \in [Procs -> JobType] /\ \A q \in Procs : q # p => job'[q] = job[q]
    BY <1>1, <2>2, <2>3, HoldsJob
  <2>5. lock' \in [LockKeys -> Procs \cup {None}]
    BY <1>1, <1>4, TypedIs
  <2>6. Frame(p) /\ Typed' /\ Written' /\ pc'[p] = "close" /\ Send(p)' = Send(p) /\ ~Holds(p)'
    <3>1. "close" \in PCs /\ "close" \notin Working \cup {"make", "boxes", "open", "settle"}
      BY DEF PCs, Working
    <3> QED
      BY <1>1, <1>2, <1>4, <2>2, <2>4, <2>5, <3>1, MoveControl
  <2> QED
    BY <1>1, <1>2, <2>1, <2>2, <2>4, <2>6 DEF Hand, Late, Behind, Working, Sessions
<1> QED
  BY <1>2, <1>3, <1>4

LEMMA CloseControl ==
  ASSUME ControlInv, NEW p \in Mgrs, Close(p)
  PROVE  /\ Frame(p) /\ Typed' /\ Written' /\ Hand(p)'
         /\ scene.op[p] \in {"cancel", "reset"}
         /\ pc'[p] \in {"done", "look"} /\ scene' = scene /\ day' = day
         /\ ledger' = ledger /\ gift' = gift /\ bag' = bag
         /\ \E st \in {"CANCELLED", "ARCHIVED"} : sess' = Finish(job[p].all, st)
<1>1. Typed /\ TypeOK /\ Hand(p) /\ p \in Procs /\ p \notin Reqs
  BY ProcsAre DEF ControlInv, Typed
<1>2. /\ scene' = scene /\ day' = day /\ ledger' = ledger /\ gift' = gift /\ bag' = bag
      /\ faults' = faults /\ faults' \in 0 .. scene.deaths
      /\ EntriesOK(ledger') /\ GrantsOK(bag')
  BY <1>1, TypedIs DEF Close, At, wallets
<1>3. CASE scene.op[p] = "cancel" /\ End(p) /\ sess' = Finish(job[p].all, "CANCELLED")
  <2>1. sess' \in Seq(SessType) /\ DOMAIN sess' = DOMAIN sess
    BY <1>1, <1>3, FinishIs
  <2>2. Frame(p) /\ Typed' /\ Written' /\ Hand(p)'
    BY <1>1, <1>2, <1>3, <2>1, EndWriteControl
  <2>3. pc'[p] = "done"
    BY <1>1, <1>3, EndIs
  <2> QED
    BY <1>2, <1>3, <2>2, <2>3
<1>4. CASE /\ scene.op[p] = "reset" /\ Go(p, "look") /\ job' = job /\ lock' = lock
           /\ sess' = Finish(job[p].all, "ARCHIVED")
  <2>1. sess' \in Seq(SessType) /\ DOMAIN sess' = DOMAIN sess
    BY <1>1, <1>4, FinishIs
  <2>2. job[p] \in JobType /\ job' \in [Procs -> JobType] /\ lock' \in [LockKeys -> Procs \cup {None}]
    BY <1>1, <1>4, TypedIs
  <2>3. Frame(p) /\ Typed' /\ Written' /\ pc'[p] = "look" /\ Send(p)' = Send(p) /\ ~Holds(p)'
    <3>1. "look" \in PCs /\ "look" \notin Working \cup {"make", "boxes", "open", "settle"}
      BY DEF PCs, Working
    <3> QED
      BY <1>1, <1>2, <1>4, <2>1, <2>2, <3>1, WriteControl
  <2>4. Hand(p)'
    BY <1>1, <1>2, <1>4, <2>3 DEF Hand, Late, Behind, Working, Sessions
  <2> QED
    BY <1>2, <1>4, <2>3, <2>4
<1>5. \/ scene.op[p] = "cancel" /\ End(p) /\ sess' = Finish(job[p].all, "CANCELLED")
      \/ /\ scene.op[p] = "reset" /\ Go(p, "look") /\ job' = job /\ lock' = lock
         /\ sess' = Finish(job[p].all, "ARCHIVED")
  BY DEF Close
<1> QED
  BY <1>3, <1>4, <1>5

LEMMA ArchiveControl ==
  ASSUME ControlInv, NEW p \in Mgrs, Archive(p)
  PROVE  /\ Frame(p) /\ Typed' /\ Written' /\ Hand(p)' /\ scene' = scene /\ day' = day
         /\ ledger' = ledger /\ gift' = gift /\ bag' = bag /\ scene.op[p] = "archive"
         /\ sess' = Finish({s \in Active : sess[s].day < day}, "COMPLETED")
         /\ pc'[p] = "done"
<1>1. Typed /\ TypeOK /\ Hand(p) /\ p \in Procs /\ p \notin Reqs
  BY ProcsAre DEF ControlInv, Typed
<1>2. /\ scene' = scene /\ day' = day /\ ledger' = ledger /\ gift' = gift /\ bag' = bag
      /\ faults' = faults /\ scene.op[p] = "archive" /\ End(p)
      /\ sess' = Finish({s \in Active : sess[s].day < day}, "COMPLETED")
      /\ EntriesOK(ledger') /\ GrantsOK(bag')
  BY <1>1, TypedIs DEF Archive, At, wallets
<1>3. sess' \in Seq(SessType) /\ DOMAIN sess' = DOMAIN sess
  BY <1>1, <1>2, FinishIs
<1>4. Frame(p) /\ Typed' /\ Written' /\ Hand(p)'
  BY <1>1, <1>2, <1>3, EndWriteControl
<1>5. pc'[p] = "done"
  BY <1>1, <1>2, EndIs
<1> QED
  BY <1>2, <1>4, <1>5

LEMMA CrashControl ==
  ASSUME ControlInv, NEW p \in Procs, Crash(p)
  PROVE  Frame(p) /\ Typed' /\ Written' /\ Hand(p)' /\ pc'[p] = "dead" /\ job' = job
<1>1. Typed /\ TypeOK /\ Hand(p)
  BY DEF ControlInv, Typed
<1>2. /\ scene' = scene /\ day' = day /\ ledger' = ledger /\ gift' = gift /\ bag' = bag /\ sess' = sess
      /\ lock' = lock /\ job' = job /\ Go(p, "dead") /\ faults' \in 0 .. scene.deaths
  <2>1. scene.deaths \in Nat
    BY <1>1, GiftsAssumption DEF TypeOK, SceneType
  <2> QED
    BY <1>1, <2>1 DEF Crash, wallets, TypeOK
<1>3. job[p] \in JobType /\ job' \in [Procs -> JobType] /\ lock' \in [LockKeys -> Procs \cup {None}]
  BY <1>1, <1>2, TypedIs
<1>4. Frame(p) /\ Typed' /\ Written' /\ pc'[p] = "dead" /\ ~Holds(p)'
  <2>1. "dead" \in PCs /\ "dead" \notin Working \cup {"make", "boxes", "open", "settle"}
    BY DEF PCs, Working
  <2> QED
    BY <1>2, <1>3, <2>1, MoveControl
<1> QED
  BY <1>2, <1>4 DEF Hand, Late, Behind, Working

LEMMA ExpireControl ==
  ASSUME ControlInv, NEW k \in LockKeys, Expire(k)
  PROVE  ControlInv'
<1>1. Typed /\ TypeOK /\ Written
  BY DEF ControlInv, Typed
<1>2. /\ scene' = scene /\ day' = day /\ ledger' = ledger /\ gift' = gift /\ bag' = bag /\ sess' = sess
      /\ pc' = pc /\ job' = job /\ faults' = faults
      /\ lock[k] # None /\ pc[lock[k]] = "dead" /\ lock' = [lock EXCEPT ![k] = None]
  BY DEF Expire, wallets
<1>3. lock \in [LockKeys -> Procs \cup {None}]
  BY <1>1, TypedIs
<1>4. lock[k] \in Procs /\ lock' \in [LockKeys -> Procs \cup {None}]
  BY <1>2, <1>3
<1>p. PICK p \in Procs : p = lock[k]
  BY <1>4
<1>5. Frame(p)
  BY <1>2, <1>3, <1>p DEF Frame
<1>6. Hand(p)'
  BY <1>2, <1>p DEF Hand, Late, Behind, Working, Holds
<1>7. Typed'
  BY <1>1, <1>2, <1>4 DEF Typed, TypeOK, SessType
<1>8. Written'
  BY <1>1, <1>2 DEF Written, Send
<1>9. \A q \in Procs : Hand(q)'
  <2>1. \A q \in Procs : q # p => Hand(q)'
    BY <1>5, OthersKeepHand
  <2> QED
    BY <1>6, <2>1
<1> QED
  BY <1>7, <1>8, <1>9 DEF ControlInv

LEMMA MidnightControl ==
  ASSUME ControlInv, Midnight
  PROVE  ControlInv'
<1>1. Typed /\ TypeOK /\ Written
  BY DEF ControlInv, Typed
<1>2. /\ scene' = scene /\ day' = day + 1 /\ ledger' = ledger /\ gift' = gift /\ bag' = bag /\ sess' = sess
      /\ pc' = pc /\ job' = job /\ faults' = faults /\ lock' = lock /\ day < scene.days
  BY DEF Midnight, wallets
<1>3. day \in Nat /\ scene.days \in Nat /\ day \in 1 .. scene.days
  BY <1>1, GiftsAssumption DEF TypeOK, SceneType
<1>4. day' \in 1 .. scene.days /\ 1 .. day \subseteq 1 .. day'
  BY <1>2, <1>3
<1>5. SessType \subseteq SessType'
  BY <1>4 DEF SessType
<1>6. sess' \in Seq(SessType')
  <2>1. sess \in Seq(SessType)
    BY <1>1, TypedIs
  <2> HIDE DEF SessType
  <2> QED
    BY <1>2, <1>5, <2>1
<1>7. Typed'
  BY <1>1, <1>2, <1>4, <1>6 DEF Typed, TypeOK
<1>8. Written'
  BY <1>1, <1>2 DEF Written, Send
<1>9. ASSUME NEW q \in Procs PROVE Hand(q)'
  <2>1. Hand(q)
    BY DEF ControlInv
  <2> QED
    BY <1>2, <2>1 DEF Hand, Holds, Send, Audio, Sessions
<1> QED
  BY <1>7, <1>8, <1>9 DEF ControlInv

(* Everything above, for any step.                                         *)
LEMMA StepControl ==
  ASSUME ControlInv, NEW p \in Procs, Step(p) \/ Crash(p)
  PROVE  Frame(p) /\ Typed' /\ Written' /\ Hand(p)'
<1>1. CASE /\ p \in Reqs
           /\ \/ Check(p) \/ Lock(p) \/ OpenSend(p) \/ SettleSend(p) \/ Tell(p)
              \/ Feed(p) \/ Fill(p) \/ Count(p) \/ Complete(p) \/ OpenNext(p) \/ Advance(p)
              \/ RefundRest(p) \/ Grant(p)
  BY <1>1, CheckControl, LockControl, OpenSendControl, SettleControl, TellControl, FeedControl,
     FillControl, CountControl, CompleteControl, OpenNextControl, AdvanceControl,
     RefundRestControl, GrantControl
<1>2. CASE p \in Mgrs /\ (Start(p) \/ Status(p) \/ Find(p) \/ Close(p) \/ Archive(p))
  BY <1>2, StartControl, StatusControl, FindControl, CloseControl, ArchiveControl
<1>3. CASE Make(p) \/ Boxes(p) \/ Crash(p)
  BY <1>3, MakeIs, BoxesIs, CrashControl
<1> QED
  BY <1>1, <1>2, <1>3 DEF Step

LEMMA InitControl == Init => ControlInv
<1> SUFFICES ASSUME Init PROVE ControlInv
  OBVIOUS
<1>1. scene \in Scenes /\ scene \in SceneType
  BY GiftsAssumption DEF Init
<1>2. scene.days \in Nat /\ scene.days > 0 /\ scene.deaths \in Nat
  BY <1>1 DEF SceneType
<1>3. TypeOK
  <2>1. sess \in Seq(SessType)
    BY DEF Init
  <2> QED
    BY <1>1, <1>2, <2>1 DEF Init, TypeOK, PCs
<1>4. Typed
  BY <1>3, BlankIs DEF Typed, Init
<1>5. Written
  BY DEF Written, Init
<1>6. \A p \in Procs : Hand(p)
  BY DEF Init, Hand, Late, Behind, Working, Holds
<1> QED
  BY <1>4, <1>5, <1>6 DEF ControlInv

LEMMA NextControl == ControlInv /\ [Next]_vars => ControlInv'
<1> SUFFICES ASSUME ControlInv, [Next]_vars PROVE ControlInv'
  OBVIOUS
<1>1. ASSUME NEW p \in Procs, Step(p) \/ Crash(p) PROVE ControlInv'
  <2>1. Frame(p) /\ Typed' /\ Written' /\ Hand(p)'
    BY <1>1, StepControl
  <2>2. \A q \in Procs : q # p => Hand(q)'
    BY <2>1, OthersKeepHand
  <2> QED
    BY <2>1, <2>2 DEF ControlInv
<1>2. CASE UNCHANGED vars
  <2>1. ASSUME NEW q \in Procs PROVE Hand(q)'
    <3>1. Hand(q)
      BY DEF ControlInv
    <3> QED
      BY <1>2, <3>1 DEF vars, wallets, Hand, Holds, Send, Audio, Sessions
  <2>2. Typed'
    BY <1>2 DEF ControlInv, vars, wallets, Typed, TypeOK, SessType
  <2>3. Written'
    BY <1>2 DEF ControlInv, vars, wallets, Written, Send
  <2> QED
    BY <2>1, <2>2, <2>3 DEF ControlInv
<1> QED
  BY <1>1, <1>2, MidnightControl, ExpireControl DEF Next

LEMMA AlwaysControl == Spec => []ControlInv
BY InitControl, NextControl, PTL DEF Spec

-----------------------------------------------------------------------------
(* The contributions to a box.                                             *)
LEMMA ContributedNat ==
  ASSUME NEW rows \in Seq(RowType)
  PROVE  Contributed(rows) \in Nat
<1> DEFINE f == [i \in DOMAIN rows |-> rows[i].amt]
<1>1. IsFiniteSet(DOMAIN rows) /\ DOMAIN f = DOMAIN rows /\ \A i \in DOMAIN rows : f[i] \in Nat
  BY RowsAre
<1>2. SumFunctionOnSet(f, DOMAIN rows) \in Nat
  <2> HIDE DEF f
  <2> QED
    BY <1>1, SumNat
<1>3. SumFunction(f) = SumFunctionOnSet(f, DOMAIN f)
  BY SumOfAll
<1> QED
  BY <1>1, <1>2, <1>3 DEF Contributed

LEMMA ContributedNone == Contributed(<<>>) = 0
<1> DEFINE rows == <<>>
           f == [i \in DOMAIN rows |-> rows[i].amt]
<1>1. DOMAIN f = {}
  OBVIOUS
<1>2. SumFunction(f) = SumFunctionOnSet(f, {})
  <2>1. SumFunction(f) = SumFunctionOnSet(f, DOMAIN f)
    BY SumOfAll
  <2> HIDE DEF f
  <2> QED
    BY <1>1, <2>1
<1>3. SumFunctionOnSet(f, {}) = 0
  BY SumEmpty
<1> QED
  BY <1>2, <1>3 DEF Contributed

(* A row more: a sum over the rows grows by its share.                     *)
LEMMA SumAppend ==
  ASSUME NEW rows \in Seq(RowType), NEW e \in RowType, NEW f, NEW g,
         DOMAIN f = 1 .. Len(rows), DOMAIN g = 1 .. Len(rows) + 1,
         \A i \in 1 .. Len(rows) : f[i] \in Int /\ g[i] = f[i],
         g[Len(rows) + 1] \in Int
  PROVE  SumFunction(g) = SumFunction(f) + g[Len(rows) + 1]
<1> DEFINE n == Len(rows)
           S == 1 .. n
<1>1. n \in Nat /\ IsFiniteSet(S) /\ n + 1 \notin S /\ S \cup {n + 1} = 1 .. n + 1
  <2>1. n \in Nat
    OBVIOUS
  <2> HIDE DEF n
  <2>2. IsFiniteSet(S)
    BY <2>1, FS_Interval
  <2>3. n + 1 \notin S /\ S \cup {n + 1} = 1 .. n + 1
    BY <2>1
  <2> QED
    BY <2>1, <2>2, <2>3
<1>2. SumFunctionOnSet(g, S \cup {n + 1}) = g[n + 1] + SumFunctionOnSet(g, S)
  <2>1. \A x \in S \cup {n + 1} : g[x] \in Int
    OBVIOUS
  <2> HIDE DEF n, S
  <2> QED
    BY <1>1, <2>1, SumAdd
<1>3. SumFunctionOnSet(g, S) = SumFunctionOnSet(f, S)
  <2> HIDE DEF n
  <2> QED
    BY <1>1, SumEqual DEF n
<1>4. SumFunctionOnSet(f, S) \in Int
  <2>1. \A x \in S : f[x] \in Int
    OBVIOUS
  <2> HIDE DEF S
  <2> QED
    BY <1>1, <2>1, SumInt
<1>5. SumFunction(g) = SumFunctionOnSet(g, DOMAIN g) /\ SumFunction(f) = SumFunctionOnSet(f, DOMAIN f)
  BY SumOfAll
<1>6. SumFunction(g) = SumFunctionOnSet(g, S \cup {n + 1}) /\ SumFunction(f) = SumFunctionOnSet(f, S)
  BY <1>1, <1>5
<1> QED
  BY <1>2, <1>3, <1>4, <1>6

LEMMA ContributedAppend ==
  ASSUME NEW rows \in Seq(RowType), NEW e \in RowType
  PROVE  Contributed(Append(rows, e)) = Contributed(rows) + e.amt
<1> DEFINE more == Append(rows, e)
           f == [i \in DOMAIN rows |-> rows[i].amt]
           g == [i \in DOMAIN more |-> more[i].amt]
<1>1. Len(rows) \in Nat /\ DOMAIN rows = 1 .. Len(rows) /\ DOMAIN more = 1 .. Len(rows) + 1
      /\ more[Len(rows) + 1] = e /\ \A i \in 1 .. Len(rows) : more[i] = rows[i]
  OBVIOUS
<1>2. e.amt \in Nat /\ \A i \in 1 .. Len(rows) : rows[i].amt \in Nat
  BY <1>1, RowsAre DEF RowType
<1> HIDE DEF more
<1>3. DOMAIN f = 1 .. Len(rows) /\ DOMAIN g = 1 .. Len(rows) + 1
      /\ \A i \in 1 .. Len(rows) : f[i] \in Int /\ g[i] = f[i]
  BY <1>1, <1>2
<1>4. g[Len(rows) + 1] = e.amt
  BY <1>1
<1> HIDE DEF f, g
<1>5. SumFunction(g) = SumFunction(f) + g[Len(rows) + 1]
  BY <1>2, <1>3, <1>4, SumAppend
<1> QED
  BY <1>4, <1>5 DEF Contributed, f, g, more

(* The first box that a gift does not fill.                                *)
Cut(se, v, last) == IF Filled(se, v, last) = {} THEN se.level ELSE Max(Filled(se, v, last)) + 1

(* Every box passed takes from what comes to the next.                     *)
LEMMA ComesIs ==
  ASSUME NEW se \in SessType, SessOK(se), NEW v \in Nat
  PROVE  /\ Comes(se, v, se.level) = v
         /\ \A l \in se.level .. BoxCount : Comes(se, v, l + 1) = Comes(se, v, l) - Need(se, l)
         /\ \A j, l \in se.level .. BoxCount + 1 : j <= l => Comes(se, v, l) <= Comes(se, v, j)
         /\ \A l \in se.level .. BoxCount + 1 : Comes(se, v, l) \in Int
<1> DEFINE L == se.level
           f == [j \in Levels |-> Need(se, j)]
           Sum(T) == SumFunctionOnSet(f, T)
           C(l) == Comes(se, v, l)
<1>1. /\ se.level \in Levels /\ se.box \in [Levels -> BoxType]
      /\ L \in Nat /\ L >= 1 /\ L <= BoxCount /\ BoxCount \in Nat /\ IsFiniteSet(Levels)
  BY LevelsAre DEF SessType, Levels
<1>2. \A l \in Levels : f[l] \in Nat /\ f[l] = Need(se, l)
  BY <1>1, NeedIs DEF SessOK, BoxOK
<1>3. \A l : C(l) = v - Sum(L .. l - 1)
  BY DEF Comes
<1>4. \A l \in L .. BoxCount + 1 : L .. l - 1 \subseteq Levels /\ IsFiniteSet(L .. l - 1)
  <2> SUFFICES ASSUME NEW l \in L .. BoxCount + 1
               PROVE  L .. l - 1 \subseteq Levels /\ IsFiniteSet(L .. l - 1)
    OBVIOUS
  <2>1. L .. l - 1 \subseteq Levels
    BY <1>1 DEF Levels
  <2> QED
    BY <1>1, <2>1, FS_Subset
<1> HIDE DEF f, L
<1>5. \A T \in SUBSET Levels : Sum(T) \in Nat
  <2> HIDE DEF Sum
  <2> QED
    BY <1>1, <1>2, SumNat DEF Sum
<1>6. C(L) = v
  <2>1. L .. L - 1 = {}
    BY <1>1
  <2>2. Sum(L .. L - 1) = 0
    BY <2>1, SumEmpty
  <2> HIDE DEF Sum, C
  <2> QED
    BY <1>3, <2>2
<1>7. ASSUME NEW l \in L .. BoxCount
      PROVE  C(l + 1) = C(l) - Need(se, l)
  <2>1. l \in Levels /\ l \in Nat /\ l \in L .. BoxCount + 1 /\ l + 1 \in L .. BoxCount + 1
    BY <1>1 DEF Levels
  <2>2. L .. (l + 1) - 1 = (L .. l - 1) \cup {l} /\ l \notin L .. l - 1
    BY <1>1, <2>1
  <2>3. \A x \in (L .. l - 1) \cup {l} : f[x] \in Int
    BY <1>2, <1>4, <2>1
  <2>4. Sum((L .. l - 1) \cup {l}) = f[l] + Sum(L .. l - 1)
    BY <1>4, <2>1, <2>2, <2>3, SumAdd
  <2>5. Sum(L .. (l + 1) - 1) = f[l] + Sum(L .. l - 1)
    <3> HIDE DEF Sum
    <3> QED
      BY <2>2, <2>4
  <2>6. Sum(L .. l - 1) \in Nat /\ f[l] \in Nat /\ f[l] = Need(se, l)
    BY <1>2, <1>4, <1>5, <2>1
  <2> HIDE DEF Sum, C
  <2>7. C(l + 1) = v - Sum(L .. (l + 1) - 1) /\ C(l) = v - Sum(L .. l - 1)
    BY <1>3
  <2> QED
    BY <2>5, <2>6, <2>7
<1>8. ASSUME NEW j \in L .. BoxCount + 1, NEW l \in L .. BoxCount + 1, j <= l
      PROVE  C(l) <= C(j)
  <2>1. L .. j - 1 \subseteq L .. l - 1
    BY <1>1, <1>8
  <2>2. \A x \in L .. l - 1 : f[x] \in Nat
    BY <1>2, <1>4
  <2>3. Sum(L .. j - 1) <= Sum(L .. l - 1)
    BY <1>4, <2>1, <2>2, SumSubset
  <2>4. Sum(L .. j - 1) \in Nat /\ Sum(L .. l - 1) \in Nat
    BY <1>4, <1>5
  <2> HIDE DEF Sum, C
  <2>5. C(l) = v - Sum(L .. l - 1) /\ C(j) = v - Sum(L .. j - 1)
    BY <1>3
  <2> QED
    BY <2>3, <2>4, <2>5
<1>9. \A l \in L .. BoxCount + 1 : C(l) \in Int
  <2> SUFFICES ASSUME NEW l \in L .. BoxCount + 1 PROVE C(l) \in Int
    OBVIOUS
  <2>1. Sum(L .. l - 1) \in Nat
    BY <1>4, <1>5
  <2> HIDE DEF Sum
  <2> QED
    BY <1>3, <2>1
<1> QED
  BY <1>6, <1>7, <1>8, <1>9 DEF L

(* What a gift does to the boxes of a session whose current box is open.   *)
LEMMA CutIs ==
  ASSUME NEW se \in SessType, SessOK(se), se.box[se.level].status = "ACTIVE",
         NEW v \in Nat, NEW last \in 0 .. BoxCount
  PROVE  LET L == se.level
             n == Cut(se, v, last)
             full == Filled(se, v, last)
         IN /\ n \in L .. BoxCount + 1 /\ full = L .. n - 1
            /\ Comes(se, v, n) \in Nat
            /\ \A l \in Levels :
                 /\ Need(se, l) \in Nat /\ (l >= L => Need(se, l) > 0)
                 /\ Poured(se, v, last, l) \in Nat
                 /\ l \in full => Poured(se, v, last, l) = Need(se, l)
                 /\ l \notin full /\ l # n => Poured(se, v, last, l) = 0
                 /\ l \notin full => Poured(se, v, last, l) = 0 \/ Poured(se, v, last, l) < Need(se, l)
            /\ n \in Levels => /\ Poured(se, v, last, n) <= Comes(se, v, n)
                               /\ last = BoxCount => Poured(se, v, last, n) = Comes(se, v, n)
<1> DEFINE L == se.level
           n == Cut(se, v, last)
           full == Filled(se, v, last)
           got(l) == Poured(se, v, last, l)
           C(l) == Comes(se, v, l)
           N(l) == Need(se, l)
<1>1. /\ se.level \in Levels /\ se.box \in [Levels -> BoxType]
      /\ L \in Nat /\ L >= 1 /\ L <= BoxCount /\ BoxCount \in Nat
  BY LevelsAre DEF SessType, Levels
<1>2. ASSUME NEW l \in Levels
      PROVE  N(l) \in Nat /\ (l >= L => N(l) > 0) /\ l \in Nat
  <2>1. N(l) = Threshold[l] - se.box[l].prog /\ Threshold[l] \in Nat /\ se.box[l].prog \in Nat
        /\ Threshold[l] > 0 /\ l \in Nat
    BY <1>1, NeedIs, LevelsAre
  <2>2. BoxOK(se, l) /\ BoxOK(se, L)
    BY <1>1 DEF SessOK
  <2>3. N(l) \in Nat
    BY <2>1, <2>2 DEF BoxOK
  <2>4. CASE l = L
    BY <2>1, <2>2, <2>3, <2>4 DEF BoxOK
  <2>5. CASE l > L
    BY <1>1, <2>1, <2>2, <2>5 DEF BoxOK
  <2> QED
    BY <1>1, <2>1, <2>3, <2>4, <2>5
<1>3. /\ C(L) = v
      /\ \A l \in L .. BoxCount : C(l + 1) = C(l) - N(l)
      /\ \A j, l \in L .. BoxCount + 1 : j <= l => C(l) <= C(j)
      /\ \A l \in L .. BoxCount + 1 : C(l) \in Int
  BY ComesIs
<1>4. Reach(se, last) = L .. last /\ \A l \in L .. last : l \in Levels /\ l \in L .. BoxCount
  BY <1>1 DEF Reach, Levels
<1>5. \A l : l \in full <=> l \in L .. last /\ C(l) >= N(l)
  BY <1>4 DEF Filled
<1>6. \A l \in Levels : /\ got(l) \in Nat
                        /\ l \notin L .. last => got(l) = 0
                        /\ l \in L .. last =>
                             got(l) = IF N(l) <= C(l) THEN (IF N(l) > 0 THEN N(l) ELSE 0)
                                      ELSE IF C(l) > 0 THEN C(l) ELSE 0
  BY <1>1, <1>4, PouredNat
<1> HIDE DEF L, full, got, C, N
<1>7. n = IF full = {} THEN L ELSE Max(full) + 1
  BY DEF Cut, full, L
<1>8. full \subseteq Levels
  BY <1>4, <1>5
<1>9. full # {} => Max(full) \in full /\ \A l \in full : l <= Max(full)
  BY <1>8, MaxLevel
<1>10. n \in L .. BoxCount + 1
  <2>1. CASE full = {}
    BY <1>1, <1>7, <2>1
  <2>2. CASE full # {}
    <3>1. Max(full) \in L .. BoxCount
      BY <1>4, <1>5, <1>9, <2>2
    <3> QED
      BY <1>1, <1>7, <2>2, <3>1
  <2> QED
    BY <2>1, <2>2
<1>11. C(n) \in Nat
  <2>1. CASE full = {}
    BY <1>3, <1>7, <2>1
  <2>2. CASE full # {}
    <3>1. Max(full) \in L .. BoxCount /\ Max(full) \in Levels /\ C(Max(full)) >= N(Max(full))
      BY <1>4, <1>5, <1>9, <2>2
    <3>2. C(Max(full) + 1) = C(Max(full)) - N(Max(full)) /\ n = Max(full) + 1
      BY <1>3, <1>7, <2>2, <3>1
    <3>3. C(n) \in Int /\ C(Max(full)) \in Int /\ N(Max(full)) \in Nat
      BY <1>1, <1>2, <1>3, <1>10, <3>1
    <3> QED
      BY <3>1, <3>2, <3>3
  <2> QED
    BY <2>1, <2>2
<1>12. ASSUME NEW l \in L .. BoxCount, l < n
       PROVE  l \in full
  <2>1. full # {} /\ n = Max(full) + 1 /\ Max(full) \in L .. last
    BY <1>1, <1>5, <1>7, <1>9, <1>12
  <2>2. l \in L .. last /\ l \in Levels /\ l + 1 \in L .. BoxCount + 1 /\ l + 1 <= n
    BY <1>1, <1>4, <1>10, <1>12, <2>1
  <2>3. C(n) <= C(l + 1) /\ C(l + 1) = C(l) - N(l) /\ C(l) \in Int /\ C(l + 1) \in Int /\ N(l) \in Nat
    BY <1>1, <1>2, <1>3, <1>10, <1>12, <2>2
  <2>4. C(l) >= N(l)
    BY <1>11, <2>3
  <2> QED
    BY <1>5, <2>2, <2>4
<1>13. ASSUME NEW l \in full
       PROVE  l \in L .. n - 1
  <2>1. full # {} /\ n = Max(full) + 1 /\ l <= Max(full) /\ l \in L .. last /\ Max(full) \in L .. last
    BY <1>5, <1>7, <1>9
  <2> QED
    BY <1>1, <2>1
<1>14. full = L .. n - 1
  <2>1. \A l \in L .. n - 1 : l \in L .. BoxCount /\ l < n
    BY <1>1, <1>10
  <2> QED
    BY <1>12, <1>13, <2>1
<1>15. ASSUME NEW l \in Levels, l \in full
       PROVE  got(l) = N(l)
  BY <1>2, <1>5, <1>6, <1>15
<1>16. ASSUME NEW l \in Levels, l \notin full
       PROVE  got(l) = 0 \/ got(l) < N(l)
  <2>1. CASE l \in L .. last
    <3>1. ~(C(l) >= N(l)) /\ l \in L .. BoxCount + 1
      BY <1>1, <1>4, <1>5, <1>16, <2>1
    <3>2. C(l) \in Int /\ N(l) \in Nat
      BY <1>2, <1>3, <3>1
    <3> QED
      BY <1>6, <2>1, <3>1, <3>2
  <2> QED
    BY <1>6, <2>1
<1>17. ASSUME NEW l \in Levels, l \notin full, l # n
       PROVE  got(l) = 0
  <2>1. CASE l \in L .. last
    <3>1. l > n
      BY <1>1, <1>2, <1>10, <1>14, <1>17, <2>1
    <3>2. n \in L .. last /\ n \notin full /\ n \in Levels /\ n + 1 \in L .. BoxCount + 1 /\ l \in L .. BoxCount + 1
          /\ n + 1 <= l /\ n \in L .. BoxCount
      BY <1>1, <1>4, <1>10, <1>14, <2>1, <3>1
    <3>3. C(n) < N(n)
      <4>1. C(n) \in Int /\ N(n) \in Nat
        BY <1>2, <1>11, <3>2
      <4> QED
        BY <1>5, <3>2, <4>1
    <3>4. C(l) <= C(n + 1) /\ C(n + 1) = C(n) - N(n) /\ C(l) \in Int
      BY <1>3, <3>2
    <3>5. C(l) < 0 /\ N(l) \in Nat
      BY <1>2, <1>11, <3>2, <3>3, <3>4
    <3> QED
      BY <1>6, <2>1, <3>4, <3>5
  <2> QED
    BY <1>6, <2>1
<1>18. ASSUME n \in Levels
       PROVE  got(n) <= C(n) /\ (last = BoxCount => got(n) = C(n))
  <2>0. n \notin full /\ N(n) \in Nat /\ n \in L .. BoxCount
    BY <1>1, <1>2, <1>10, <1>14, <1>18 DEF Levels
  <2>1. CASE n \in L .. last
    <3>1. ~(C(n) >= N(n))
      BY <1>5, <2>0, <2>1
    <3> QED
      BY <1>6, <1>11, <1>18, <2>0, <2>1, <3>1
  <2>2. CASE n \notin L .. last
    BY <1>6, <1>11, <1>18, <2>0, <2>2
  <2> QED
    BY <2>1, <2>2
<1> QED
  BY <1>2, <1>6, <1>10, <1>11, <1>14, <1>15, <1>16, <1>17, <1>18 DEF L, full, got, C, N

(* The boxes take no more than the gift, and something of it if they are   *)
(* open to the last one.                                                   *)
LEMMA AcceptedIs ==
  ASSUME NEW se \in SessType, SessOK(se), NEW v \in Nat, NEW last \in 0 .. BoxCount
  PROVE  /\ Accepted(se, v, last) \in Nat /\ Accepted(se, v, last) <= v
         /\ se.box[se.level].status # "ACTIVE" =>
              /\ Accepted(se, v, last) = 0 /\ Filled(se, v, last) = {}
              /\ \A l \in Levels : Poured(se, v, last, l) = 0
         /\ se.box[se.level].status = "ACTIVE" /\ v > 0 /\ last = BoxCount =>
              Poured(se, v, last, se.level) > 0 /\ Accepted(se, v, last) > 0
<1> DEFINE L == se.level
           n == Cut(se, v, last)
           full == Filled(se, v, last)
           got == [l \in Levels |-> Poured(se, v, last, l)]
           need == [l \in Levels |-> Need(se, l)]
           C(l) == Comes(se, v, l)
           Sum(f, T) == SumFunctionOnSet(f, T)
<1>1. /\ se.level \in Levels /\ se.box \in [Levels -> BoxType]
      /\ L \in Nat /\ L >= 1 /\ L <= BoxCount /\ BoxCount \in Nat /\ IsFiniteSet(Levels)
  BY LevelsAre DEF SessType, Levels
<1>2. Accepted(se, v, last) \in Nat /\ \A l \in Levels : got[l] \in Nat /\ got[l] = Poured(se, v, last, l)
  BY <1>1, AcceptedInt, PouredNat
<1>3. Accepted(se, v, last) = Sum(got, Levels)
  <2>1. SumFunction(got) = SumFunctionOnSet(got, DOMAIN got) /\ DOMAIN got = Levels
    BY SumOfAll
  <2>2. SumFunction(got) = SumFunctionOnSet(got, Levels)
    <3> HIDE DEF got
    <3> QED
      BY <2>1
  <2> QED
    BY <2>2 DEF Accepted
<1>4. CASE se.box[se.level].status # "ACTIVE"
  <2>1. Reach(se, last) = {} /\ full = {}
    BY <1>4 DEF Reach, Filled
  <2>2. \A l \in Levels : Poured(se, v, last, l) = 0
    BY <1>1, <2>1, PouredNat
  <2>3. \A l \in Levels : got[l] = 0
    BY <2>2
  <2>4. Sum(got, Levels) = 0
    <3> HIDE DEF got
    <3> QED
      BY <1>1, <2>3, SumZero
  <2> QED
    BY <1>2, <1>3, <1>4, <2>1, <2>2, <2>4
<1>5. CASE se.box[se.level].status = "ACTIVE"
  <2>1. /\ n \in L .. BoxCount + 1 /\ full = L .. n - 1
        /\ C(n) \in Nat
        /\ \A l \in Levels :
             /\ need[l] \in Nat /\ (l >= L => need[l] > 0)
             /\ l \in full => got[l] = need[l]
             /\ l \notin full /\ l # n => got[l] = 0
        /\ n \in Levels => /\ got[n] <= C(n)
                           /\ last = BoxCount => got[n] = C(n)
    BY <1>5, CutIs
  <2>2. C(n) = v - Sum(need, full)
    BY <2>1 DEF Comes
  <2>3. full \subseteq Levels /\ n \notin full
    BY <1>1, <2>1 DEF Levels
  <2> DEFINE head == [l \in Levels |-> IF l \in full THEN need[l] ELSE 0]
             tail == [l \in Levels |-> IF l = n THEN got[n] ELSE 0]
  <2> HIDE DEF n, full, got, need, C
  <2>4. Sum(got, Levels) = Sum(head, Levels) + Sum(tail, Levels)
    <3>1. \A l \in Levels : head[l] \in Int /\ tail[l] \in Int /\ got[l] = head[l] + tail[l]
      <4> SUFFICES ASSUME NEW l \in Levels
                   PROVE  head[l] \in Int /\ tail[l] \in Int /\ got[l] = head[l] + tail[l]
        OBVIOUS
      <4>1. got[l] \in Nat /\ need[l] \in Nat
        BY <1>2, <2>1
      <4>2. CASE l \in full
        BY <2>1, <2>3, <4>1, <4>2
      <4>3. CASE l \notin full /\ l = n
        BY <2>1, <4>1, <4>3
      <4>4. CASE l \notin full /\ l # n
        BY <2>1, <4>1, <4>4
      <4> QED
        BY <4>2, <4>3, <4>4
    <3> HIDE DEF head, tail
    <3> QED
      BY <1>1, <3>1, SumPlus
  <2>5. Sum(head, Levels) = Sum(need, full)
    <3>1. (\A x \in full : need[x] \in Int /\ head[x] = need[x]) /\ \A x \in Levels \ full : head[x] = 0
      BY <2>1, <2>3
    <3> HIDE DEF head
    <3> QED
      BY <1>1, <2>3, <3>1, SumWithin
  <2>6. Sum(tail, Levels) = IF n \in Levels THEN got[n] ELSE 0
    <3>1. CASE n \notin Levels
      <4>1. \A x \in Levels : tail[x] = 0
        BY <3>1
      <4> HIDE DEF tail
      <4> QED
        BY <1>1, <3>1, <4>1, SumZero
    <3>2. CASE n \in Levels
      <4>0. IsFiniteSet({n})
        BY FS_Singleton
      <4>1. got[n] \in Int /\ IsFiniteSet({n})
        BY <1>2, <3>2, <4>0
      <4>2. (\A x \in {n} : got[x] \in Int /\ tail[x] = got[x]) /\ \A x \in Levels \ {n} : tail[x] = 0
        BY <3>2, <4>1
      <4>3. Sum(tail, Levels) = Sum(got, {n})
        <5> HIDE DEF tail
        <5> QED
          BY <1>1, <3>2, <4>2, SumWithin
      <4>4. Sum(got, {n}) = got[n] + Sum(got, {n} \ {n})
        BY <4>1, SumPick
      <4>5. {n} \ {n} = {} /\ Sum(got, {}) = 0
        BY SumEmpty
      <4>6. Sum(got, {n} \ {n}) = 0
        BY <4>5
      <4> HIDE DEF Sum
      <4> QED
        BY <3>2, <4>1, <4>3, <4>4, <4>6
    <3> QED
      BY <3>1, <3>2
  <2>7. Sum(need, full) \in Nat
    <3>1. \A x \in full : need[x] \in Nat
      BY <2>1, <2>3
    <3>2. IsFiniteSet(full)
      BY <1>1, <2>3, FS_Subset
    <3> QED
      BY <3>1, <3>2, SumNat
  <2> HIDE DEF Sum
  <2>8. Sum(got, Levels) <= v
    <3>1. CASE n \in Levels
      BY <1>2, <2>1, <2>2, <2>4, <2>5, <2>6, <2>7, <3>1
    <3>2. CASE n \notin Levels
      BY <2>1, <2>2, <2>4, <2>5, <2>6, <2>7, <3>2
    <3> QED
      BY <3>1, <3>2
  <2>9. ASSUME v > 0, last = BoxCount
        PROVE  got[L] > 0
    <3>1. CASE L \in full
      BY <1>1, <2>1, <3>1
    <3>2. CASE L \notin full
      <4>1. n = L
        BY <1>1, <2>1, <3>2
      <4>2. C(L) = v
        BY ComesIs DEF C
      <4> QED
        BY <1>1, <2>1, <2>9, <4>1, <4>2
    <3> QED
      BY <3>1, <3>2
  <2>10. ASSUME v > 0, last = BoxCount
         PROVE  Sum(got, Levels) > 0
    <3>1. Sum(got, Levels) = got[L] + Sum(got, Levels \ {L})
      BY <1>1, <1>2, SumPick DEF Sum
    <3>2. Sum(got, Levels \ {L}) \in Nat
      BY <1>1, <1>2, SumNat DEF Sum
    <3> QED
      BY <1>1, <1>2, <2>9, <2>10, <3>1, <3>2
  <2>11. got[L] = Poured(se, v, last, se.level)
    BY <1>1 DEF got
  <2> QED
    BY <1>2, <1>3, <1>5, <2>8, <2>9, <2>10, <2>11
<1> QED
  BY <1>4, <1>5

LEMMA RowIs == ASSUME NEW u \in Users, NEW a \in Nat, NEW t \in Reqs
               PROVE  Row(u, a, t) \in RowType /\ Row(u, a, t).amt = a /\ Row(u, a, t).txn = t
                      /\ Row(u, a, t).user = u
BY DEF Row, RowType

LEMMA SessRows ==
  ASSUME NEW se \in SessType, NEW l \in Levels
  PROVE  se.box[l].rows \in Seq(RowType) /\ se.box[l].prog \in Nat /\ se.box[l].status \in BoxStatuses
         /\ se.box[l] \in BoxType
<1>1. se.box[l] \in BoxType
  BY DEF SessType
<1> QED
  BY <1>1 DEF BoxType, RowType

(* A poured session keeps its boxes in order.                              *)
LEMMA PourOK ==
  ASSUME TypeOK, NEW se \in SessType, SessOK(se), NEW u \in Users, NEW v \in Nat, NEW t \in Reqs,
         NEW last \in 0 .. BoxCount
  PROVE  SessOK(Pour(se, u, v, t, last))
<1> DEFINE to == Pour(se, u, v, t, last)
           full == Filled(se, v, last)
           got(l) == Poured(se, v, last, l)
           L == se.level
           n == Cut(se, v, last)
<1>1. /\ to \in SessType
      /\ full = {} => to.level = se.level
      /\ full # {} => /\ Max(full) \in full /\ \A l \in full : l <= Max(full)
                      /\ to.level = IF Max(full) < BoxCount THEN Max(full) + 1 ELSE BoxCount
      /\ \A l \in Levels :
           /\ to.box[l].status = IF l \in full THEN "OPENED"
                                 ELSE IF l - 1 \in full THEN "ACTIVE" ELSE se.box[l].status
           /\ to.box[l].prog = se.box[l].prog + got(l)
           /\ to.box[l].rows = IF got(l) > 0 THEN Append(se.box[l].rows, Row(u, got(l), t))
                               ELSE se.box[l].rows
  BY PourTyped
<1>2. /\ L \in Levels /\ L \in Nat /\ L >= 1 /\ L <= BoxCount /\ BoxCount \in Nat
      /\ se.box \in [Levels -> BoxType]
  BY LevelsAre DEF SessType, Levels
<1>3. \A l \in Levels : got(l) \in Nat
  BY <1>2, PouredNat
<1>4. ASSUME NEW l \in Levels
      PROVE  Contributed(to.box[l].rows) = Contributed(se.box[l].rows) + got(l)
             /\ Contributed(se.box[l].rows) \in Nat
  <2>1. se.box[l].rows \in Seq(RowType) /\ got(l) \in Nat
    BY <1>3, SessRows
  <2>2. Row(u, got(l), t) \in RowType /\ Row(u, got(l), t).amt = got(l)
    BY <2>1, RowIs
  <2>3. Contributed(se.box[l].rows) \in Nat
    BY <2>1, ContributedNat
  <2>4. to.box[l].rows = IF got(l) > 0 THEN Append(se.box[l].rows, Row(u, got(l), t))
                         ELSE se.box[l].rows
    BY <1>1
  <2> HIDE DEF got, to
  <2>5. CASE got(l) > 0
    BY <2>1, <2>2, <2>3, <2>4, <2>5, ContributedAppend
  <2>6. CASE ~(got(l) > 0)
    BY <2>1, <2>3, <2>4, <2>6
  <2> QED
    BY <2>5, <2>6
<1>5. CASE se.box[L].status # "ACTIVE"
  <2>1. full = {} /\ \A l \in Levels : got(l) = 0
    BY <1>5, AcceptedIs
  <2>2. to.level = L
    BY <1>1, <2>1
  <2>3. \A l \in Levels : to.box[l].status = se.box[l].status /\ to.box[l].prog = se.box[l].prog
                          /\ to.box[l].rows = se.box[l].rows
    <3> SUFFICES ASSUME NEW l \in Levels
                 PROVE  to.box[l].status = se.box[l].status /\ to.box[l].prog = se.box[l].prog
                        /\ to.box[l].rows = se.box[l].rows
      OBVIOUS
    <3>1. se.box[l].prog \in Nat
      BY SessRows
    <3> HIDE DEF got, full, to
    <3> QED
      BY <1>1, <2>1, <3>1
  <2> HIDE DEF to
  <2>4. ASSUME NEW l \in Levels PROVE BoxOK(to, l)
    <3>1. to.box[l].status = se.box[l].status /\ to.box[l].prog = se.box[l].prog
          /\ to.box[l].rows = se.box[l].rows /\ to.box[L].status = se.box[L].status
      BY <1>2, <2>3
    <3>2. BoxOK(se, l)
      BY DEF SessOK
    <3> QED
      BY <2>2, <3>1, <3>2 DEF BoxOK
  <2> QED
    BY <2>4 DEF SessOK, to
<1>6. CASE se.box[L].status = "ACTIVE"
  <2>1. /\ n \in L .. BoxCount + 1 /\ full = L .. n - 1
        /\ \A l \in Levels :
             /\ Need(se, l) \in Nat /\ (l >= L => Need(se, l) > 0)
             /\ l \in full => got(l) = Need(se, l)
             /\ l \notin full /\ l # n => got(l) = 0
             /\ l \notin full => got(l) = 0 \/ got(l) < Need(se, l)
    BY <1>6, CutIs
  <2>2. to.level = IF n <= BoxCount THEN n ELSE BoxCount
    <3>1. CASE full = {}
      <4>1. n = L
        BY <1>2, <2>1, <3>1
      <4> QED
        BY <1>1, <1>2, <3>1, <4>1
    <3>2. CASE full # {}
      <4>1. n = Max(full) + 1 /\ Max(full) \in Nat
        <5>1. n = Max(full) + 1
          BY <3>2 DEF Cut
        <5>2. Max(full) \in L .. n - 1
          BY <1>1, <2>1, <3>2
        <5> QED
          BY <1>2, <2>1, <5>1, <5>2
      <4> HIDE DEF n, full, to
      <4> QED
        BY <1>1, <1>2, <3>2, <4>1
    <3> QED
      BY <3>1, <3>2
  <2> SUFFICES ASSUME NEW l \in Levels PROVE BoxOK(to, l)
    BY DEF SessOK
  <2> DEFINE b == se.box[l]
             c == to.box[l]
             g == got(l)
             in == Contributed(b.rows)
             on == Contributed(c.rows)
  <2>3. /\ l \in Nat /\ l >= 1 /\ l <= BoxCount
        /\ b.prog \in Nat /\ Threshold[l] \in Nat /\ Threshold[l] > 0 /\ g \in Nat
        /\ Need(se, l) = Threshold[l] - b.prog /\ in \in Nat /\ on = in + g
        /\ b.rows \in Seq(RowType)
    <3>1. /\ l \in Nat /\ l >= 1 /\ l <= BoxCount /\ Threshold[l] \in Nat /\ Threshold[l] > 0
      BY <1>2, LevelsAre DEF Levels
    <3>2. b.prog \in Nat /\ b.rows \in Seq(RowType)
      BY SessRows
    <3>3. Need(se, l) = Threshold[l] - b.prog
      BY <1>2, NeedIs
    <3>4. g \in Nat /\ in \in Nat /\ on = in + g
      BY <1>3, <1>4
    <3> QED
      BY <3>1, <3>2, <3>3, <3>4
  <2>4. /\ c.status = IF l \in full THEN "OPENED"
                      ELSE IF l - 1 \in full THEN "ACTIVE" ELSE b.status
        /\ c.prog = b.prog + g
        /\ g = 0 => c.rows = b.rows
    BY <1>1, <2>3
  <2>5. BoxOK(se, l) /\ BoxOK(se, L)
    BY <1>2 DEF SessOK
  <2>6. /\ b.prog <= Threshold[l]
        /\ b.status = "OPENED" <=> b.prog = Threshold[l]
        /\ in <= b.prog
        /\ b.status = "ABSENT" => b.prog = 0
        /\ l < L => b.status = "OPENED"
        /\ l > L => b.prog = 0 /\ b.rows = <<>> /\ b.status # "OPENED" /\ b.status # "ACTIVE"
    BY <1>6, <2>5 DEF BoxOK
  <2>7. /\ l \in full => L <= l /\ l < n /\ g = Threshold[l] - b.prog /\ b.prog < Threshold[l]
        /\ l \notin full => (l < L \/ l >= n) /\ (l # n => g = 0) /\ (g = 0 \/ b.prog + g < Threshold[l])
        /\ l - 1 \in full <=> L < l /\ l <= n
    <3>1. /\ n \in L .. BoxCount + 1 /\ full = L .. n - 1
          /\ l >= L => Need(se, l) > 0
          /\ l \in full => g = Need(se, l)
          /\ l \notin full /\ l # n => g = 0
          /\ l \notin full => g = 0 \/ g < Need(se, l)
      BY <2>1
    <3> HIDE DEF n, full, L, g, b
    <3>2. l \in full <=> L <= l /\ l < n
      BY <1>2, <2>3, <3>1 DEF L
    <3>3. l - 1 \in full <=> L < l /\ l <= n
      BY <1>2, <2>3, <3>1 DEF L
    <3>4. l \in full => g = Threshold[l] - b.prog /\ b.prog < Threshold[l]
      BY <2>3, <3>1, <3>2
    <3>5. l \notin full => (l < L \/ l >= n) /\ (l # n => g = 0) /\ (g = 0 \/ b.prog + g < Threshold[l])
      BY <1>2, <2>3, <3>1, <3>2 DEF L
    <3> QED
      BY <3>2, <3>3, <3>4, <3>5
  <2>8. n \in Nat /\ n >= L /\ n <= BoxCount + 1
    BY <1>2, <2>1
  <2> DEFINE newest == to.level
  <2> HIDE DEF b, c, g, in, on, full, n, L, newest
  <2>9. c.prog <= Threshold[l] /\ on <= c.prog /\ (c.status = "OPENED" <=> c.prog = Threshold[l])
    <3>1. CASE l \in full
      BY <2>3, <2>4, <2>6, <2>7, <3>1
    <3>2. CASE l \notin full /\ l - 1 \in full
      <4>1. b.prog = 0 /\ (g = 0 \/ g < Threshold[l]) /\ c.status = "ACTIVE" /\ c.prog = b.prog + g
        BY <2>3, <2>4, <2>6, <2>7, <3>2
      <4>2. c.prog = g /\ g < Threshold[l] /\ in <= 0
        BY <2>3, <2>6, <4>1
      <4> QED
        BY <2>3, <4>1, <4>2
    <3>3. CASE l \notin full /\ l - 1 \notin full /\ g = 0
      BY <2>3, <2>4, <2>6, <2>7, <3>3
    <3>4. CASE l \notin full /\ l - 1 \notin full /\ g # 0
      BY <2>3, <2>4, <2>6, <2>7, <3>4
    <3> QED
      BY <3>1, <3>2, <3>3, <3>4
  <2>10. c.status = "ABSENT" => c.prog = 0
    <3> SUFFICES ASSUME c.status = "ABSENT" PROVE c.prog = 0
      OBVIOUS
    <3>1. l \notin full /\ l - 1 \notin full /\ b.status = "ABSENT"
      BY <2>4
    <3>2. l # n \/ l = L
      BY <1>2, <2>3, <2>7, <2>8, <3>1 DEF L
    <3>3. l # L
      BY <1>6, <3>1 DEF b, L
    <3> QED
      BY <2>3, <2>4, <2>6, <2>7, <3>1, <3>2, <3>3
  <2>11. l < newest => c.status = "OPENED"
    <3> SUFFICES ASSUME l < newest PROVE c.status = "OPENED"
      OBVIOUS
    <3>1. l < n
      BY <1>2, <2>2, <2>3, <2>8 DEF newest
    <3>2. CASE l \in full
      BY <2>4, <3>2
    <3>3. CASE l \notin full
      BY <1>2, <2>3, <2>4, <2>6, <2>7, <2>8, <3>1, <3>3 DEF L
    <3> QED
      BY <3>2, <3>3
  <2>12. l > newest => c.prog = 0 /\ c.rows = <<>> /\ c.status # "OPENED" /\ c.status # "ACTIVE"
    <3> SUFFICES ASSUME l > newest
                 PROVE  c.prog = 0 /\ c.rows = <<>> /\ c.status # "OPENED" /\ c.status # "ACTIVE"
      OBVIOUS
    <3>1. l > n /\ l > L
      BY <1>2, <2>2, <2>3, <2>8 DEF newest, L
    <3>2. l \notin full /\ l - 1 \notin full /\ g = 0
      BY <1>2, <2>3, <2>7, <2>8, <3>1 DEF L
    <3> QED
      BY <2>3, <2>4, <2>6, <3>1, <3>2
  <2> QED
    BY <2>9, <2>10, <2>11, <2>12 DEF BoxOK, b, c, on, newest
<1> QED
  BY <1>5, <1>6

-----------------------------------------------------------------------------
(* The boxes of a ladder, and where a listener is among them.              *)
Mine(p) == sess[job[p].sess].box[job[p].level]
Work(p) ==
    /\ pc[p] \in Working => job[p].level = sess[job[p].sess].level
    /\ pc[p] = "fill" => \A l \in job[p].full : l < job[p].level
    /\ pc[p] \in Working => \A l \in job[p].full : l <= job[p].level
    /\ pc[p] = "count" => /\ job[p].took \in Nat
                          /\ Contributed(Mine(p).rows) + job[p].took <= Mine(p).prog
                          /\ Mine(p).status = IF job[p].level \in job[p].full THEN "OPENED" ELSE "ACTIVE"
    /\ pc[p] \in {"next", "level"} => Mine(p).status = "OPENED"
    /\ pc[p] = "level" => sess[job[p].sess].box[job[p].level + 1].status = "ACTIVE"
BoxInv == (\A s \in Sessions : SessOK(sess[s])) /\ \A r \in Reqs : Work(r)

(* A session that a step leaves alone, but for its status.                 *)
SameBoxes(s) ==
    /\ sess'[s].level = sess[s].level
    /\ \A l \in Levels : sess'[s].box[l] = sess[s].box[l]

LEMMA SameSessOK ==
  ASSUME TypeOK, NEW s \in Sessions, SessOK(sess[s]), SameBoxes(s)
  PROVE  SessOK(sess'[s])
<1> DEFINE a == sess[s]
           c == sess'[s]
<1>1. c.level = a.level /\ a.level \in Levels /\ (\A l \in Levels : c.box[l] = a.box[l])
      /\ \A l \in Levels : BoxOK(a, l)
  BY LevelsAre, SessionsAre DEF SameBoxes, SessOK, SessType
<1> HIDE DEF a, c
<1>2. ASSUME NEW l \in Levels PROVE BoxOK(c, l)
  <2>1. BoxOK(a, l) /\ c.box[l] = a.box[l] /\ c.level = a.level /\ c.box[c.level] = a.box[a.level]
    BY <1>1
  <2> QED
    BY <2>1 DEF BoxOK
<1>3. \A l \in Levels : BoxOK(c, l)
  BY <1>2
<1> QED
  BY <1>3 DEF SessOK, c

(* Only one process holds the treasure lock.                               *)
LEMMA OneHolder ==
  ASSUME ControlInv, NEW p \in Procs, NEW q \in Procs, Holds(p), Holds(q)
  PROVE  p = q
BY Zenon DEF ControlInv, Hand

LEMMA OthersWork ==
  ASSUME ControlInv, BoxInv, NEW p \in Procs, Frame(p), NEW q \in Reqs, q # p,
         pc[q] \in Working => SameBoxes(job[q].sess)
  PROVE  Work(q)'
<1>1. q \in Procs /\ pc'[q] = pc[q] /\ job'[q] = job[q] /\ Work(q)
  BY ProcsAre DEF Frame, BoxInv
<1>2. CASE pc[q] \in Working
  <2>1. job[q].level \in Levels /\ job[q].sess \in Sessions /\ Hand(q)
    BY <1>2, WorkerIs DEF Late
  <2>2. sess'[job[q].sess].level = sess[job[q].sess].level
        /\ \A l \in Levels : sess'[job[q].sess].box[l] = sess[job[q].sess].box[l]
    BY <1>2 DEF SameBoxes
  <2>3. pc[q] = "level" => job[q].level + 1 \in Levels
    BY <2>1, LevelsAre DEF Hand, Levels
  <2>4. sess'[job[q].sess].box[job[q].level] = sess[job[q].sess].box[job[q].level]
        /\ (pc[q] = "level" => sess'[job[q].sess].box[job[q].level + 1] = sess[job[q].sess].box[job[q].level + 1])
    BY <2>1, <2>2, <2>3
  <2> QED
    BY <1>1, <2>2, <2>4 DEF Work, Mine
<1>3. CASE pc[q] \notin Working
  BY <1>1, <1>3 DEF Work, Working
<1> QED
  BY <1>2, <1>3

LEMMA NotWorking ==
  ASSUME NEW p, pc'[p] \notin Working
  PROVE  Work(p)'
BY DEF Work, Working

(* A step that leaves all boxes alone.                                     *)
LEMMA QuietBoxes ==
  ASSUME ControlInv, BoxInv, NEW p \in Procs, Frame(p),
         DOMAIN sess' = DOMAIN sess, \A s \in Sessions : SameBoxes(s),
         p \in Reqs => Work(p)'
  PROVE  BoxInv'
<1>1. \A s \in Sessions : SessOK(sess'[s])
  BY SameSessOK DEF ControlInv, Typed, BoxInv
<1>2. ASSUME NEW q \in Reqs, q # p PROVE Work(q)'
  <2>1. pc[q] \in Working => job[q].sess \in Sessions
    BY <1>2, WorkerIs DEF Late
  <2> QED
    BY <1>2, <2>1, OthersWork
<1> QED
  BY <1>1, <1>2 DEF BoxInv, Sessions

LEMMA SameSess ==
  ASSUME NEW s \in Sessions, sess' = sess
  PROVE  SameBoxes(s)
BY DEF SameBoxes

LEMMA FinishSame ==
  ASSUME TypeOK, NEW ss, NEW st \in {"ACTIVE", "COMPLETED", "CANCELLED", "ARCHIVED"},
         sess' = Finish(ss, st)
  PROVE  DOMAIN sess' = DOMAIN sess /\ \A s \in Sessions : SameBoxes(s)
BY FinishIs DEF SameBoxes

(* One box of the listener's ladder is written.                            *)
LEMMA WorkBoxes ==
  ASSUME ControlInv, BoxInv, NEW r \in Reqs, Frame(r), pc[r] \in Working,
         DOMAIN sess' = DOMAIN sess,
         \A x \in Sessions : x # job[r].sess => sess'[x] = sess[x],
         SessOK(sess'[job[r].sess]), Work(r)'
  PROVE  BoxInv'
<1>1. r \in Procs /\ TypeOK
  BY ProcsAre DEF ControlInv, Typed
<1>2. \A s \in Sessions : SessOK(sess'[s])
  BY DEF BoxInv
<1>3. ASSUME NEW q \in Reqs, q # r PROVE Work(q)'
  <2>1. pc[q] \notin Working
    BY <1>1, <1>3, OneHolder, ProcsAre DEF Holds
  <2>2. pc'[q] = pc[q]
    BY <1>3, ProcsAre DEF Frame
  <2> QED
    BY <2>1, <2>2, NotWorking
<1> QED
  BY <1>2, <1>3 DEF BoxInv, Sessions

LEMMA FillBoxes ==
  ASSUME ControlInv, BoxInv, NEW r \in Reqs, Fill(r)
  PROVE  /\ BoxInv'
         /\ FillNeed(r) \in Nat /\ FillTook(r) \in Nat /\ FillTook(r) <= job[r].left
         /\ sess[job[r].sess].box[job[r].level].status = "OPENED" => FillTook(r) = 0
         /\ FillFull(r) \/ FillTook(r) = job[r].left
<1> DEFINE s == job[r].sess
           l == job[r].level
           b == sess[s].box[l]
           took == FillTook(r)
<1>1. /\ pc[r] = "fill"
      /\ s \in Sessions /\ l \in Levels /\ job[r] \in JobType
      /\ job'[r].sess = s /\ job'[r].level = l
      /\ job'[r].took = took
      /\ job'[r].full = (IF FillFull(r) THEN job[r].full \cup {l} ELSE job[r].full)
      /\ FillNeed(r) \in Int /\ took \in Int
      /\ FilledBox(r) \in BoxType /\ SetBox(r, l, FilledBox(r))
      /\ FilledBox(r).prog = MyBox(r).prog + took
      /\ FilledBox(r).rows = MyBox(r).rows
      /\ FilledBox(r).status = IF FillFull(r) THEN "OPENED" ELSE "ACTIVE"
  BY FillIs
<1>2. /\ Typed /\ TypeOK /\ r \in Procs /\ Work(r) /\ SessOK(sess[s]) /\ job[r].left \in Nat /\ Frame(r)
      /\ job[r].full \subseteq Levels /\ Go(r, "count") /\ pc[r] \in Working
  BY <1>1, FillIs, FillControl, WorkerIs DEF Late, Working, BoxInv
<1>3. l = sess[s].level /\ \A x \in job[r].full : x < l
  BY <1>1, <1>2 DEF Work
<1>4. /\ MyBox(r).prog = b.prog /\ MyBox(r).rows = b.rows /\ b.prog \in Nat /\ b.rows \in Seq(RowType)
      /\ Threshold[l] \in Nat
  BY <1>1, <1>2, MineIs, LevelsAre
<1>5. Contributed(b.rows) \in Nat
  BY <1>4, ContributedNat
<1>6. BoxOK(sess[s], l)
  BY <1>1, <1>2, SMTT(30) DEF SessOK
<1>7. b.prog <= Threshold[l] /\ (b.status = "OPENED" <=> b.prog = Threshold[l])
      /\ Contributed(b.rows) <= b.prog
  BY <1>6 DEF BoxOK
<1>8. FillNeed(r) = Threshold[l] - b.prog
  BY <1>4 DEF FillNeed
<1>9. /\ FillNeed(r) \in Nat /\ took \in Nat /\ took <= job[r].left
      /\ b.status = "OPENED" => took = 0 /\ FillFull(r)
      /\ FillFull(r) \/ took = job[r].left
      /\ FillFull(r) => b.prog + took = Threshold[l]
      /\ ~FillFull(r) => b.prog + took < Threshold[l]
  <2> DEFINE need == FillNeed(r)
             left == job[r].left
             max == Threshold[l]
             prog == b.prog
  <2>1. took = (IF left >= need THEN need ELSE left) /\ (FillFull(r) <=> left >= need)
    BY DEF FillTook, FillFull
  <2>2. need = max - prog /\ left \in Nat /\ max \in Nat /\ prog \in Nat /\ prog <= max
        /\ (b.status = "OPENED" <=> prog = max)
    BY <1>2, <1>4, <1>7, <1>8, Zenon
  <2> HIDE DEF took, need, left, max, prog
  <2>3. /\ need \in Nat /\ took \in Nat /\ took <= left
        /\ b.status = "OPENED" => took = 0 /\ FillFull(r)
        /\ FillFull(r) \/ took = left
        /\ FillFull(r) => prog + took = max
        /\ ~FillFull(r) => prog + took < max
    BY <2>1, <2>2
  <2> QED
    BY <2>3 DEF took, need, left, max, prog
<1>10. /\ DOMAIN sess' = DOMAIN sess
       /\ \A x \in Sessions : x # s => sess'[x] = sess[x]
       /\ sess'[s].level = sess[s].level
       /\ sess'[s].box[l] = FilledBox(r)
       /\ \A m \in Levels : m # l => sess'[s].box[m] = sess[s].box[m]
  BY <1>1, <1>2, SetBoxIs, SMTT(30)
<1> DEFINE c == sess'[s].box[l]
<1>11. c.prog = b.prog + took /\ c.rows = b.rows /\ c.status = IF FillFull(r) THEN "OPENED" ELSE "ACTIVE"
  BY <1>1, <1>4, <1>10
<1>12. SessOK(sess'[s])
  <2> SUFFICES ASSUME NEW m \in Levels PROVE BoxOK(sess'[s], m)
    BY DEF SessOK
  <2>1. BoxOK(sess[s], m) /\ m \in Nat /\ l \in Nat
    BY <1>1, <1>2, LevelsAre, SMTT(30) DEF SessOK
  <2>2. CASE m = l
    <3>1. ~(m < sess'[s].level) /\ ~(m > sess'[s].level)
      BY <1>3, <1>10, <2>1, <2>2
    <3>2. c.prog <= Threshold[l] /\ (c.status = "OPENED" <=> c.prog = Threshold[l])
          /\ Contributed(c.rows) <= c.prog /\ c.status # "ABSENT"
      <4> HIDE DEF b, c, took
      <4> QED
        BY <1>4, <1>5, <1>7, <1>9, <1>11, SMTT(30)
    <3> QED
      BY <2>2, <3>1, <3>2 DEF BoxOK
  <2>3. CASE m # l
    <3>1. sess'[s].box[m] = sess[s].box[m] /\ sess'[s].level = sess[s].level
      BY <1>10, <2>3, SMTT(30)
    <3>2. sess[s].box[sess[s].level].status = "OPENED" => sess'[s].box[sess'[s].level].status = "OPENED"
      BY <1>3, <1>9, <1>10, <1>11, ZenonT(40)
    <3> QED
      BY <2>1, <3>1, <3>2 DEF BoxOK
  <2> QED
    BY <2>2, <2>3
<1>13. Work(r)'
  <2>1. pc'[r] = "count"
    BY <1>2, Goes DEF PCs
  <2>2. l \in job'[r].full <=> FillFull(r)
    BY <1>1, <1>2, <1>3, LevelsAre
  <2>3. \A x \in job'[r].full : x <= l
    BY <1>1, <1>2, <1>3, LevelsAre
  <2>4. Mine(r)' = c
    BY <1>1 DEF Mine
  <2>5. Contributed(c.rows) + took <= c.prog
    <3> HIDE DEF b, c, took
    <3> QED
      BY <1>4, <1>5, <1>7, <1>9, <1>11
  <2>6. c.status = IF l \in job'[r].full THEN "OPENED" ELSE "ACTIVE"
    BY <1>11, <2>2
  <2> HIDE DEF c
  <2> QED
    BY <1>1, <1>3, <1>9, <1>10, <2>1, <2>3, <2>4, <2>5, <2>6 DEF Work, Working
<1>14. BoxInv'
  BY <1>1, <1>2, <1>10, <1>12, <1>13, WorkBoxes
<1> QED
  BY <1>9, <1>14

LEMMA CountBoxes ==
  ASSUME ControlInv, BoxInv, NEW r \in Reqs, Count(r)
  PROVE  /\ BoxInv'
         /\ MyBox(r) = sess[job[r].sess].box[job[r].level]
         /\ job[r].took \in Nat /\ Contributed(MyBox(r).rows) + job[r].took <= MyBox(r).prog
<1> DEFINE s == job[r].sess
           l == job[r].level
           b == sess[s].box[l]
<1>1. /\ pc[r] = "count" /\ job' = job
      /\ \/ l \in job[r].full /\ Go(r, "next")
         \/ l \notin job[r].full /\ Go(r, "refund")
  BY CountIs
<1>2. /\ Typed /\ TypeOK /\ r \in Procs /\ Work(r) /\ s \in Sessions /\ SessOK(sess[s]) /\ Frame(r)
      /\ pc[r] \in Working /\ l \in Levels /\ job[r].took \in Int
  BY <1>1, CountControl, WorkerIs DEF Late, Working, BoxInv
<1>3. /\ l = sess[s].level /\ (\A x \in job[r].full : x <= l) /\ job[r].took \in Nat
      /\ Contributed(b.rows) + job[r].took <= b.prog
      /\ b.status = IF l \in job[r].full THEN "OPENED" ELSE "ACTIVE"
  BY <1>1, <1>2 DEF Work, Mine, Working
<1>4. MyBox(r) = b /\ b.rows \in Seq(RowType)
  <2>1. b.status # "ABSENT"
    BY <1>3
  <2>2. MyBox(r) = b
    BY <2>1, SMTT(30) DEF MyBox
  <2> QED
    BY <1>2, <2>2, MineIs
<1>5. ASSUME sess'[s].level = sess[s].level, sess'[s].box[l].status = b.status
      PROVE  Work(r)'
  <2>1. pc'[r] \in {"next", "refund"} /\ (pc'[r] = "next" => l \in job[r].full)
    BY <1>1, <1>2, Goes DEF PCs
  <2>2. Mine(r)'.status = b.status
    BY <1>1, <1>5 DEF Mine
  <2> QED
    BY <1>1, <1>3, <1>5, <2>1, <2>2 DEF Work, Working
<1>6. CASE sess' = sess
  <2>1. Work(r)'
    BY <1>5, <1>6
  <2> QED
    BY <1>2, <1>3, <1>4, <1>6, <2>1, QuietBoxes, SameSess
<1>7. CASE /\ SetBox(r, l, CountedBox(r)) /\ CountedBox(r) \in BoxType
           /\ CountedBox(r).prog = MyBox(r).prog /\ CountedBox(r).status = MyBox(r).status
           /\ CountedBox(r).rows = Append(MyBox(r).rows, Row(Send(r).from, job[r].took, Txn(r)))
           /\ Row(Send(r).from, job[r].took, Txn(r)) \in RowType
  <2>1. /\ DOMAIN sess' = DOMAIN sess
        /\ \A x \in Sessions : x # s => sess'[x] = sess[x]
        /\ sess'[s].level = sess[s].level
        /\ sess'[s].box[l] = CountedBox(r)
        /\ \A m \in Levels : m # l => sess'[s].box[m] = sess[s].box[m]
    BY <1>2, <1>7, SetBoxIs
  <2> DEFINE c == sess'[s].box[l]
             e == Row(Send(r).from, job[r].took, Txn(r))
  <2>2. c.prog = b.prog /\ c.status = b.status /\ c.rows = Append(b.rows, e) /\ e \in RowType
    BY <1>4, <1>7, <2>1, Zenon
  <2>3. e.amt = job[r].took
    BY DEF Row
  <2>4. Contributed(c.rows) <= c.prog
    <3> HIDE DEF c, e, b
    <3>1. Contributed(c.rows) = Contributed(b.rows) + e.amt
      BY <1>4, <2>2, ContributedAppend
    <3> QED
      BY <1>3, <2>2, <2>3, <3>1
  <2>5. SessOK(sess'[s])
    <3> SUFFICES ASSUME NEW m \in Levels PROVE BoxOK(sess'[s], m)
      BY DEF SessOK
    <3>1. BoxOK(sess[s], m) /\ m \in Nat /\ l \in Nat
      BY <1>2, LevelsAre DEF SessOK
    <3>2. CASE m = l
      <4>1. ~(m < sess'[s].level) /\ ~(m > sess'[s].level)
        <5>1. sess'[s].level = m
          BY <1>3, <2>1, <3>2, ZenonT(40)
        <5> QED
          BY <3>1, <5>1, SMTT(30)
      <4> QED
        BY <2>2, <2>4, <3>1, <3>2, <4>1, Zenon DEF BoxOK
    <3>3. CASE m # l
      <4>1. sess'[s].box[m] = sess[s].box[m] /\ sess'[s].level = sess[s].level
            /\ sess'[s].box[sess'[s].level].status = sess[s].box[sess[s].level].status
        BY <1>3, <2>1, <2>2, <3>3, Zenon
      <4> QED
        BY <3>1, <4>1 DEF BoxOK
    <3> QED
      BY <3>2, <3>3
  <2>6. Work(r)'
    BY <1>5, <2>1, <2>2, Zenon
  <2> QED
    BY <1>2, <1>3, <1>4, <2>1, <2>5, <2>6, WorkBoxes, Zenon
<1> QED
  BY <1>6, <1>7, CountIs

LEMMA CompleteBoxes ==
  ASSUME ControlInv, BoxInv, NEW r \in Reqs, Complete(r)
  PROVE  BoxInv'
<1>1. r \in Procs /\ TypeOK /\ Frame(r) /\ pc'[r] = "refund"
  BY CompleteControl, ProcsAre DEF ControlInv, Typed
<1>2. sess' = Finish({job[r].sess}, "COMPLETED")
  BY DEF Complete
<1>3. DOMAIN sess' = DOMAIN sess /\ \A s \in Sessions : SameBoxes(s)
  BY <1>1, <1>2, FinishSame
<1>4. Work(r)'
  BY <1>1, NotWorking DEF Working
<1> QED
  BY <1>1, <1>3, <1>4, QuietBoxes

LEMMA OpenNextBoxes ==
  ASSUME ControlInv, BoxInv, NEW r \in Reqs, OpenNext(r)
  PROVE  BoxInv'
<1> DEFINE s == job[r].sess
           l == job[r].level
           b == sess[s].box[l + 1]
<1>1. /\ pc[r] = "next" /\ job' = job /\ l < BoxCount /\ l + 1 \in Levels /\ Go(r, "level")
      /\ SetBox(r, l + 1, OpenedBox(r)) /\ OpenedBox(r) \in BoxType
      /\ OpenedBox(r).prog = b.prog /\ OpenedBox(r).rows = b.rows /\ OpenedBox(r).status = "ACTIVE"
  BY OpenNextIs
<1>2. /\ Typed /\ TypeOK /\ r \in Procs /\ Work(r) /\ s \in Sessions /\ SessOK(sess[s]) /\ Frame(r)
      /\ pc[r] \in Working /\ l \in Levels /\ l \in Nat
  BY <1>1, OpenNextControl, WorkerIs, LevelsAre DEF Late, Working, BoxInv
<1>3. l = sess[s].level /\ (\A x \in job[r].full : x <= l) /\ sess[s].box[l].status = "OPENED"
  BY <1>1, <1>2 DEF Work, Mine, Working
<1>4. /\ DOMAIN sess' = DOMAIN sess
      /\ \A x \in Sessions : x # s => sess'[x] = sess[x]
      /\ sess'[s].level = sess[s].level
      /\ sess'[s].box[l + 1] = OpenedBox(r)
      /\ \A m \in Levels : m # l + 1 => sess'[s].box[m] = sess[s].box[m]
  BY <1>1, <1>2, SetBoxIs
<1>5. sess'[s].box[l] = sess[s].box[l]
  BY <1>2, <1>4
<1>6. SessOK(sess'[s])
  <2> SUFFICES ASSUME NEW m \in Levels PROVE BoxOK(sess'[s], m)
    BY DEF SessOK
  <2>1. BoxOK(sess[s], m) /\ m \in Nat
    BY <1>2, LevelsAre DEF SessOK
  <2>2. CASE m = l + 1
    <3> DEFINE c == sess'[s].box[l + 1]
    <3>1. c.prog = b.prog /\ c.rows = b.rows /\ c.status = "ACTIVE"
      BY <1>1, <1>4
    <3>2. BoxOK(sess[s], l + 1) /\ Threshold[l + 1] \in Nat /\ Threshold[l + 1] > 0 /\ l + 1 > sess[s].level
          /\ ~(l + 1 < sess[s].level)
      BY <1>1, <1>2, <1>3, <2>1, <2>2, LevelsAre
    <3>3. b.prog = 0 /\ b.rows = <<>> /\ Contributed(b.rows) = 0
      BY <3>2, ContributedNone DEF BoxOK
    <3>4. sess'[s].box[sess'[s].level].status = "OPENED"
      BY <1>3, <1>4, <1>5
    <3> HIDE DEF b, c
    <3>5. c.prog = 0 /\ c.rows = <<>> /\ Contributed(c.rows) = 0
      BY <3>1, <3>3
    <3> QED
      BY <1>3, <1>4, <2>2, <3>1, <3>2, <3>4, <3>5, Zenon DEF BoxOK, c
  <2>3. CASE m # l + 1
    <3>1. sess'[s].box[m] = sess[s].box[m] /\ sess'[s].level = sess[s].level
          /\ sess'[s].box[sess'[s].level] = sess[s].box[sess[s].level]
      BY <1>3, <1>4, <1>5, <2>3, SMTT(30)
    <3> QED
      BY <2>1, <3>1 DEF BoxOK
  <2> QED
    BY <2>2, <2>3
<1>7. Work(r)'
  <2>1. pc'[r] = "level"
    BY <1>1, <1>2, Goes DEF PCs
  <2>2. Mine(r)'.status = "OPENED" /\ sess'[s].box[l + 1].status = "ACTIVE"
    BY <1>1, <1>3, <1>4, <1>5, Zenon DEF Mine
  <2> QED
    BY <1>1, <1>3, <1>4, <2>1, <2>2, Zenon DEF Work, Working
<1> QED
  BY <1>2, <1>4, <1>6, <1>7, WorkBoxes

LEMMA AdvanceBoxes ==
  ASSUME ControlInv, BoxInv, NEW r \in Reqs, Advance(r)
  PROVE  BoxInv'
<1> DEFINE s == job[r].sess
           l == job[r].level
<1>1. /\ Frame(r)
      /\ pc[r] = "level" /\ pc'[r] = (IF job[r].left > 0 THEN "fill" ELSE "refund")
      /\ l + 1 \in Levels
      /\ job'[r].sess = s /\ job'[r].level = l + 1 /\ job'[r].full = job[r].full
      /\ DOMAIN sess' = DOMAIN sess
      /\ \A x \in Sessions : x # s => sess'[x] = sess[x]
      /\ \A x \in Sessions : sess'[x].box = sess[x].box
      /\ sess'[s].level = l + 1
  BY AdvanceControl
<1>2. /\ Typed /\ TypeOK /\ r \in Procs /\ Work(r) /\ s \in Sessions /\ SessOK(sess[s])
      /\ pc[r] \in Working /\ l \in Levels /\ l \in Nat /\ job[r].full \subseteq Levels
  BY <1>1, WorkerIs, LevelsAre DEF Late, Working, BoxInv
<1>3. l = sess[s].level /\ (\A x \in job[r].full : x <= l) /\ sess[s].box[l].status = "OPENED"
  BY <1>1, <1>2 DEF Work, Mine, Working
<1>4. SessOK(sess'[s])
  <2> SUFFICES ASSUME NEW m \in Levels PROVE BoxOK(sess'[s], m)
    BY DEF SessOK
  <2>1. BoxOK(sess[s], m) /\ m \in Nat /\ sess'[s].box = sess[s].box
    BY <1>1, <1>2, LevelsAre, SMTT(30) DEF SessOK
  <2>2. CASE m < l
    BY <1>1, <1>2, <1>3, <2>1, <2>2 DEF BoxOK
  <2>3. CASE m = l
    <3>1. sess[s].box[m].status = "OPENED" /\ ~(m > sess'[s].level)
      BY <1>1, <1>2, <1>3, <2>1, <2>3
    <3> QED
      BY <2>1, <3>1 DEF BoxOK
  <2>4. CASE m = l + 1
    <3>1. ~(m < sess'[s].level) /\ ~(m > sess'[s].level)
      BY <1>1, <1>2, <2>1, <2>4
    <3> QED
      BY <2>1, <3>1 DEF BoxOK
  <2>5. CASE m > l + 1
    <3>1. m > sess[s].level /\ m # sess[s].level + 1 /\ m > sess'[s].level
      BY <1>1, <1>2, <1>3, <2>1, <2>5
    <3>2. ~(m < sess'[s].level) /\ sess[s].box[m].status # "ACTIVE"
      BY <1>1, <1>2, <2>1, <2>5, <3>1 DEF BoxOK
    <3> QED
      BY <2>1, <3>1, <3>2 DEF BoxOK
  <2> QED
    BY <1>2, <2>1, <2>2, <2>3, <2>4, <2>5
<1>5. Work(r)'
  <2>1. \A x \in job[r].full : x < l + 1 /\ x <= l + 1
    BY <1>2, <1>3, LevelsAre
  <2> QED
    BY <1>1, <2>1 DEF Work, Working
<1> QED
  BY <1>1, <1>2, <1>4, <1>5, WorkBoxes

LEMMA BareOK ==
  ASSUME TypeOK
  PROVE  /\ SessOK(Bare) /\ SessOK(Laid(Bare)) /\ Bare.level = 1 /\ Bare.status = "ACTIVE" /\ Bare.day = day
         /\ \A l \in Levels : Bare.box[l] = NoBox /\ Laid(Bare).box[l] = Fresh(l)
         /\ Laid(Bare).level = 1 /\ Laid(Bare).status = "ACTIVE" /\ Laid(Bare).day = day
         /\ \A l \in Levels : NoBox.rows = <<>> /\ Fresh(l).rows = <<>> /\ Fresh(l).prog = 0
                              /\ Fresh(l).status = IF l = 1 THEN "ACTIVE" ELSE "PENDING"
<1>1. Bare.level = 1 /\ Bare.status = "ACTIVE" /\ Bare.day = day
      /\ \A l \in Levels : Bare.box[l] = NoBox
  BY DEF Bare
<1>2. /\ Laid(Bare).level = 1 /\ Laid(Bare).status = "ACTIVE" /\ Laid(Bare).day = day
      /\ \A l \in Levels : Laid(Bare).box[l] = Fresh(l)
  BY <1>1, FreshIs
<1>3. NoBox.rows = <<>> /\ NoBox.prog = 0 /\ NoBox.status = "ABSENT"
  BY DEF NoBox
<1>4. \A l \in Levels : Fresh(l).rows = <<>> /\ Fresh(l).prog = 0
                        /\ Fresh(l).status = IF l = 1 THEN "ACTIVE" ELSE "PENDING"
  BY DEF Fresh, NoBox
<1>5. ASSUME NEW l \in Levels
      PROVE  BoxOK(Bare, l) /\ BoxOK(Laid(Bare), l)
  <2>1. l \in Nat /\ l >= 1 /\ Threshold[l] \in Nat /\ Threshold[l] > 0
    BY LevelsAre DEF Levels
  <2>2. BoxOK(Bare, l)
    BY <1>1, <1>3, <2>1, ContributedNone DEF BoxOK
  <2>3. BoxOK(Laid(Bare), l)
    BY <1>2, <1>4, <2>1, ContributedNone DEF BoxOK
  <2> QED
    BY <2>2, <2>3
<1> QED
  BY <1>1, <1>2, <1>3, <1>4, <1>5 DEF SessOK

(* A session whose first box was not created yet is at its start.          *)
LEMMA FirstBox ==
  ASSUME TypeOK, NEW s \in Sessions, SessOK(sess[s]), sess[s].box[1] = NoBox
  PROVE  sess[s].level = 1
<1>1. sess[s].level \in Levels /\ 1 \in Levels /\ BoxOK(sess[s], 1) /\ sess[s].level \in Nat
      /\ sess[s].level >= 1
  BY SessionsAre, LevelsAre DEF SessOK, SessType, Levels
<1>2. sess[s].box[1].status # "OPENED"
  BY DEF NoBox
<1> QED
  BY <1>1, <1>2 DEF BoxOK

LEMMA MakeBoxes ==
  ASSUME ControlInv, BoxInv, NEW p \in Procs, Make(p)
  PROVE  BoxInv'
<1>1. /\ TypeOK /\ Frame(p) /\ pc'[p] = "boxes" /\ Sessions = 1 .. Len(sess) /\ Len(sess) \in Nat
      /\ DOMAIN sess' = 1 .. Len(sess) + 1
      /\ sess'[Len(sess) + 1] = Bare /\ \A s \in Sessions : sess'[s] = sess[s]
  BY MakeIs, SessionsAre DEF ControlInv, Typed
<1>2. \A s \in Sessions \cup {Len(sess) + 1} : SessOK(sess'[s])
  BY <1>1, BareOK DEF BoxInv
<1>3. ASSUME NEW q \in Reqs PROVE Work(q)'
  <2>1. CASE q = p
    BY <1>1, <2>1, NotWorking DEF Working
  <2>2. CASE q # p
    <3>1. pc[q] \in Working => job[q].sess \in Sessions
      BY WorkerIs DEF Late
    <3>2. \A s \in Sessions : SameBoxes(s)
      BY <1>1 DEF SameBoxes
    <3> QED
      BY <1>1, <2>2, <3>1, <3>2, OthersWork
  <2> QED
    BY <2>1, <2>2
<1>4. DOMAIN sess' = Sessions \cup {Len(sess) + 1}
  BY <1>1
<1> QED
  BY <1>2, <1>3, <1>4 DEF BoxInv, Sessions

LEMMA BoxesBoxes ==
  ASSUME ControlInv, BoxInv, NEW p \in Procs, Boxes(p)
  PROVE  BoxInv'
<1> DEFINE s == job[p].sess
<1>1. /\ TypeOK /\ Typed /\ Frame(p) /\ pc[p] = "boxes" /\ s \in Sessions /\ DOMAIN sess' = DOMAIN sess
      /\ SessOK(sess[s]) /\ Hand(p)
  BY BoxesIs DEF ControlInv, Typed, BoxInv
<1>2. CASE sess' = sess /\ End(p)
  <2>1. pc'[p] = "done"
    BY <1>1, <1>2, EndIs
  <2>2. Work(p)'
    BY <2>1, NotWorking DEF Working
  <2> QED
    BY <1>1, <1>2, <2>2, QuietBoxes, SameSess
<1>3. CASE /\ sess[s].box[1] = NoBox
           /\ \A x \in Sessions : /\ x # s => sess'[x] = sess[x]
                                  /\ sess'[x].level = sess[x].level
           /\ \A l \in Levels : sess'[s].box[l] = Fresh(l)
           /\ \/ p \in Reqs /\ Go(p, "fill") /\ pc'[p] = "fill" /\ lock' = lock /\ job' = job
              \/ p \notin Reqs /\ End(p)
  <2>1. sess[s].level = 1 /\ sess'[s].level = 1 /\ 1 \in Levels
    BY <1>1, <1>3, FirstBox, LevelsAre DEF Levels
  <2>2. SessOK(sess'[s])
    <3> SUFFICES ASSUME NEW l \in Levels PROVE BoxOK(sess'[s], l)
      BY DEF SessOK
    <3>1. BoxOK(Laid(Bare), l) /\ Laid(Bare).level = 1 /\ Laid(Bare).box[l] = Fresh(l)
          /\ Laid(Bare).box[1] = Fresh(1)
      BY <1>1, <2>1, BareOK DEF SessOK
    <3>2. sess'[s].box[l] = Fresh(l) /\ sess'[s].box[1] = Fresh(1)
      BY <1>3, <2>1
    <3> QED
      BY <2>1, <3>1, <3>2 DEF BoxOK
  <2>3. \A x \in Sessions : SessOK(sess'[x])
    BY <1>3, <2>2 DEF BoxInv
  <2>4. ASSUME NEW q \in Reqs, q # p PROVE Work(q)'
    <3>1. q \in Procs /\ pc'[q] = pc[q] /\ job'[q] = job[q] /\ Work(q)
      BY <1>1, <2>4, ProcsAre DEF Frame, BoxInv
    <3>2. CASE pc[q] \notin Working
      BY <3>1, <3>2, NotWorking
    <3>3. CASE pc[q] \in Working /\ job[q].sess # s
      <4>1. job[q].sess \in Sessions
        BY <3>3, WorkerIs DEF Late
      <4>2. SameBoxes(job[q].sess)
        BY <1>3, <3>3, <4>1 DEF SameBoxes
      <4> QED
        BY <1>1, <2>4, <4>2, OthersWork
    <3>4. CASE pc[q] \in Working /\ job[q].sess = s
      <4>1. job[q].level = 1 /\ sess[s].box[1].status = "ABSENT"
        BY <1>3, <2>1, <3>1, <3>4 DEF Work, NoBox
      <4>2. pc[q] = "fill"
        BY <3>1, <3>4, <4>1 DEF Work, Mine, Working
      <4> QED
        BY <2>1, <3>1, <3>4, <4>1, <4>2 DEF Work, Working
    <3> QED
      BY <3>2, <3>3, <3>4
  <2>5. p \in Reqs => Work(p)'
    <3> SUFFICES ASSUME p \in Reqs PROVE Work(p)'
      OBVIOUS
    <3>1. pc'[p] = "fill" /\ job' = job
      BY <1>3
    <3>2. job[p] = [Blank EXCEPT !.sess = job[p].sess, !.level = 1, !.left = Send(p).amt]
      BY <1>1 DEF Hand
    <3>3. job[p].full = {} /\ job[p].level = 1
      BY <3>2 DEF Blank
    <3> QED
      BY <2>1, <3>1, <3>3 DEF Work, Working
  <2> QED
    BY <1>1, <2>3, <2>4, <2>5 DEF BoxInv, Sessions
<1> QED
  BY <1>2, <1>3, BoxesIs

(* The session that a send finds or lays is in order before it pours.      *)
LEMMA BaseOK ==
  ASSUME ControlInv, BoxInv, NEW r \in Reqs, pc[r] = "settle"
  PROVE  \A s \in DOMAIN Base(r) : SessOK(Base(r)[s])
<1>1. TypeOK /\ Sessions = 1 .. Len(sess) /\ Len(sess) \in Nat
  BY SessionsAre DEF ControlInv, Typed
<1>2. /\ DOMAIN Base(r) = 1 .. Len(Base(r))
      /\ Len(Base(r)) = IF job[r].sess = -1 THEN Len(sess) + 1 ELSE Len(sess)
      /\ \A x \in Sessions : Base(r)[x].level = sess[x].level /\ Base(r)[x].box = sess[x].box
      /\ job[r].sess = -1 => Base(r)[Len(sess) + 1] = Laid(Bare)
  BY BaseIs
<1> SUFFICES ASSUME NEW s \in DOMAIN Base(r) PROVE SessOK(Base(r)[s])
  OBVIOUS
<1>3. CASE s \in Sessions
  <2>1. SessOK(sess[s]) /\ Base(r)[s].level = sess[s].level /\ Base(r)[s].box = sess[s].box
    BY <1>2, <1>3 DEF BoxInv
  <2> QED
    BY <2>1 DEF SessOK, BoxOK
<1>4. CASE s \notin Sessions
  <2>1. s = Len(sess) + 1 /\ Base(r)[s] = Laid(Bare)
    BY <1>1, <1>2, <1>4
  <2> QED
    BY <1>1, <2>1, BareOK
<1> QED
  BY <1>3, <1>4

LEMMA SettleBoxes ==
  ASSUME ControlInv, BoxInv, NEW r \in Reqs, SettleSend(r)
  PROVE  BoxInv'
<1>1. /\ pc[r] = "settle" /\ Frame(r) /\ TypeOK /\ Typed /\ r \in Procs /\ Hand(r)
      /\ Go(r, "tell") \/ Go(r, "done")
      /\ PutNowhere(r) \/ PutFails(r) \/ \E last \in 0 .. BoxCount : \E q : PutInto(r, last, q)
  BY SettleCases, SettleControl, ProcsAre DEF ControlInv, Typed
<1>2. Work(r)'
  <2>1. pc'[r] \in {"tell", "done"}
    BY <1>1, Goes DEF PCs
  <2> QED
    BY <2>1, NotWorking DEF Working
<1>3. \A s \in DOMAIN Base(r) : SessOK(Base(r)[s])
  BY <1>1, BaseOK
<1>4. \A s \in DOMAIN sess' : SessOK(sess'[s])
  <2>1. CASE PutNowhere(r)
    BY <1>3, <2>1 DEF PutNowhere
  <2>2. CASE PutFails(r)
    BY <2>2 DEF PutFails, BoxInv, Sessions
  <2>3. CASE \E last \in 0 .. BoxCount : \E q : PutInto(r, last, q)
    <3>0. PICK last \in 0 .. BoxCount : \E q : PutInto(r, last, q)
      BY <2>3
    <3>1. PICK q : PutInto(r, last, q)
      BY <3>0
    <3> DEFINE s == Into(r)
               se == Base(r)[s]
               to == Pour(se, Send(r).from, Amt(r), r, last)
    <3>2. s \in DOMAIN Base(r) /\ se \in SessType /\ sess' = [Base(r) EXCEPT ![s] = to]
      BY <1>1, <3>1, BaseIs DEF PutInto
    <3>3. Send(r).from \in Users /\ Amt(r) \in Nat
      BY <1>1, SendIs DEF Amt
    <3>4. SessOK(to)
      BY <1>1, <1>3, <3>2, <3>3, PourOK
    <3> HIDE DEF s, to
    <3> QED
      BY <1>3, <3>2, <3>4
  <2> QED
    BY <1>1, <2>1, <2>2, <2>3
<1>5. ASSUME NEW q \in Reqs, q # r PROVE Work(q)'
  <2>1. CASE Audio
    <3>1. pc[q] \notin Working
      BY <1>1, <1>5, <2>1, OneHolder, ProcsAre DEF Holds
    <3>2. pc'[q] = pc[q]
      BY <1>1, <1>5, ProcsAre DEF Frame
    <3> QED
      BY <3>1, <3>2, NotWorking
  <2>2. CASE ~Audio
    <3>1. job[r].sess = 0
      BY <1>1, <2>2 DEF Hand
    <3>2. Into(r) = 0 /\ \A x \in Sessions : Base(r)[x].level = sess[x].level /\ Base(r)[x].box = sess[x].box
      BY <1>1, <3>1, BaseIs
    <3>3. \A x \in Sessions : SameBoxes(x)
      BY <1>1, <3>2 DEF PutNowhere, PutFails, PutInto, SameBoxes
    <3>4. pc[q] \in Working => job[q].sess \in Sessions
      BY WorkerIs DEF Late
    <3> QED
      BY <1>1, <1>5, <3>3, <3>4, OthersWork
  <2> QED
    BY <2>1, <2>2
<1> QED
  BY <1>2, <1>4, <1>5 DEF BoxInv, Sessions

LEMMA FeedBoxes ==
  ASSUME ControlInv, BoxInv, NEW r \in Reqs, Feed(r)
  PROVE  BoxInv'
<1>1. /\ Frame(r) /\ TypeOK /\ Typed /\ r \in Procs /\ sess' = sess
  BY FeedControl, ProcsAre, Zenon DEF ControlInv, Typed, Feed
<1>2. Work(r)'
  <2>1. CASE End(r)
    BY <1>1, <2>1, EndIs, NotWorking DEF Working
  <2>2. CASE Go(r, "make")
    BY <1>1, <2>2, Goes, NotWorking DEF Working, PCs
  <2>3. ASSUME NEW s \in Active, Go(r, "fill"),
               Hold(r, [Blank EXCEPT !.sess = s, !.level = sess[s].level, !.left = Send(r).amt])
        PROVE  Work(r)'
    <3>1. s \in Sessions /\ pc'[r] = "fill"
      BY <1>1, <2>3, Goes DEF Active, PCs
    <3>2. job'[r] = [Blank EXCEPT !.sess = s, !.level = sess[s].level, !.left = Send(r).amt]
      BY <1>1, <2>3 DEF Hold, Typed
    <3>3. job'[r].sess = s /\ job'[r].level = sess[s].level /\ job'[r].full = {}
      BY <3>2 DEF Blank
    <3> QED
      BY <1>1, <3>1, <3>3 DEF Work, Working
  <2> QED
    BY <2>1, <2>2, <2>3, Zenon DEF Feed
<1> QED
  BY <1>1, <1>2, QuietBoxes, SameSess

(* A step of a process that leaves the ladders alone.                      *)
LEMMA IdleBoxes ==
  ASSUME ControlInv, BoxInv, NEW p \in Procs, Frame(p), sess' = sess, pc'[p] \notin Working
  PROVE  BoxInv'
<1>1. Work(p)'
  BY NotWorking
<1> QED
  BY <1>1, QuietBoxes, SameSess

LEMMA QuietSteps ==
  ASSUME ControlInv, NEW r \in Reqs,
         Check(r) \/ Lock(r) \/ OpenSend(r) \/ Tell(r) \/ RefundRest(r) \/ Grant(r)
  PROVE  Frame(r) /\ sess' = sess /\ pc'[r] \in {"done", "lock", "open", "tell", "settle", "feed", "grant"}
<1>1. r \in Procs /\ Typed /\ TypeOK
  BY ProcsAre DEF ControlInv, Typed
<1>2. Frame(r)
  BY CheckControl, LockControl, OpenSendControl, TellControl, RefundRestControl, GrantControl
<1>3. sess' = sess
  BY Zenon DEF Check, Lock, OpenSend, Tell, RefundRest, Grant
<1>4. \/ End(r) \/ Go(r, "lock") \/ Go(r, "open") \/ Go(r, "tell") \/ Go(r, "settle") \/ Go(r, "feed")
      \/ Go(r, "grant")
  BY Zenon DEF Check, Lock, OpenSend, Tell, RefundRest, Grant
<1> QED
  BY <1>1, <1>2, <1>3, <1>4, EndIs, Goes DEF PCs

LEMMA ManagerBoxes ==
  ASSUME ControlInv, BoxInv, NEW p \in Mgrs,
         Start(p) \/ Status(p) \/ Find(p) \/ Close(p) \/ Archive(p)
  PROVE  BoxInv'
<1>1. p \in Procs /\ p \notin Reqs /\ TypeOK /\ Frame(p)
  BY ProcsAre, StartControl, StatusControl, FindControl, CloseControl, ArchiveControl DEF ControlInv, Typed
<1>2. \/ sess' = sess
      \/ \E ss : \E st \in {"ACTIVE", "COMPLETED", "CANCELLED", "ARCHIVED"} : sess' = Finish(ss, st)
  <2>1. CASE Start(p)
    <3>1. ASSUME NEW ss, sess' = Finish(ss, "COMPLETED")
          PROVE  \E x : \E st \in {"ACTIVE", "COMPLETED", "CANCELLED", "ARCHIVED"} : sess' = Finish(x, st)
      BY <3>1
    <3> QED
      BY <2>1, <3>1, StartControl
  <2>2. CASE Status(p) \/ Find(p)
    BY <2>2 DEF Status, Find
  <2>3. CASE Close(p) \/ Archive(p)
    BY <2>3, CloseControl, ArchiveControl
  <2> QED
    BY <2>1, <2>2, <2>3
<1>3. DOMAIN sess' = DOMAIN sess /\ \A s \in Sessions : SameBoxes(s)
  <2>1. CASE sess' = sess
    BY <2>1, SameSess
  <2>2. ASSUME NEW ss, NEW st \in {"ACTIVE", "COMPLETED", "CANCELLED", "ARCHIVED"}, sess' = Finish(ss, st)
        PROVE  DOMAIN sess' = DOMAIN sess /\ \A s \in Sessions : SameBoxes(s)
    BY <1>1, <2>2, FinishSame
  <2> QED
    BY <1>2, <2>1, <2>2
<1> QED
  BY <1>1, <1>3, QuietBoxes

LEMMA StillBoxes ==
  ASSUME BoxInv, scene' = scene, sess' = sess, pc' = pc, job' = job
  PROVE  BoxInv'
<1>1. ASSUME NEW r \in Reqs PROVE Work(r)'
  <2>1. Work(r)
    BY DEF BoxInv
  <2> QED
    BY <2>1 DEF Work, Mine
<1> QED
  BY <1>1 DEF BoxInv, Sessions

LEMMA NextBoxes == ControlInv /\ BoxInv /\ [Next]_vars => BoxInv'
<1> SUFFICES ASSUME ControlInv, BoxInv, [Next]_vars PROVE BoxInv'
  OBVIOUS
<1>1. ASSUME NEW p \in Procs, Step(p) \/ Crash(p) PROVE BoxInv'
  <2>1. CASE p \in Reqs /\ (Check(p) \/ Lock(p) \/ OpenSend(p) \/ Tell(p) \/ RefundRest(p) \/ Grant(p))
    <3>1. Frame(p) /\ sess' = sess /\ pc'[p] \in {"done", "lock", "open", "tell", "settle", "feed", "grant"}
      BY <2>1, QuietSteps
    <3> QED
      BY <3>1, IdleBoxes DEF Working
  <2>2. CASE p \in Reqs /\ (SettleSend(p) \/ Feed(p) \/ Fill(p) \/ Count(p) \/ Complete(p) \/ OpenNext(p) \/ Advance(p))
    BY <2>2, SettleBoxes, FeedBoxes, FillBoxes, CountBoxes, CompleteBoxes, OpenNextBoxes, AdvanceBoxes
  <2>3. CASE p \in Mgrs /\ (Start(p) \/ Status(p) \/ Find(p) \/ Close(p) \/ Archive(p))
    BY <2>3, ManagerBoxes
  <2>4. CASE Make(p) \/ Boxes(p)
    BY <2>4, MakeBoxes, BoxesBoxes
  <2>5. CASE Crash(p)
    <3>1. Frame(p) /\ sess' = sess /\ pc'[p] = "dead"
      BY <2>5, CrashControl DEF Crash
    <3> QED
      BY <3>1, IdleBoxes DEF Working
  <2> QED
    BY <1>1, <2>1, <2>2, <2>3, <2>4, <2>5 DEF Step
<1>2. CASE Midnight \/ (\E k \in LockKeys : Expire(k)) \/ UNCHANGED vars
  BY <1>2, StillBoxes DEF Midnight, Expire, vars
<1> QED
  BY <1>1, <1>2 DEF Next

LEMMA InitBoxes == Init => BoxInv
<1> SUFFICES ASSUME Init PROVE BoxInv
  OBVIOUS
<1>1. Sessions = {}
  BY DEF Init, Sessions
<1>2. \A r \in Reqs : pc[r] = "idle"
  BY ProcsAre DEF Init
<1> QED
  BY <1>1, <1>2 DEF BoxInv, Work, Working

(* The ladder opens in order.                                              *)
LEMMA InOrder == ControlInv /\ BoxInv => LadderInOrder
<1> SUFFICES ASSUME ControlInv, BoxInv, NEW s \in Sessions, NEW l \in Levels, NEW m \in Levels,
                    l < m, sess[s].box[l].status # "OPENED"
             PROVE  sess[s].box[m].prog = 0 /\ sess[s].box[m].status \in {"ABSENT", "PENDING"}
  BY DEF LadderInOrder
<1>1. TypeOK /\ SessOK(sess[s])
  BY DEF ControlInv, Typed, BoxInv
<1>2. l \in Nat /\ m \in Nat /\ sess[s].level \in Nat /\ sess[s].level \in Levels
  BY <1>1, LevelsAre, SessionsAre DEF SessType
<1>3. BoxOK(sess[s], l) /\ BoxOK(sess[s], m) /\ BoxOK(sess[s], sess[s].level)
  BY <1>1, <1>2 DEF SessOK
<1>4. l >= sess[s].level /\ m > sess[s].level
  BY <1>2, <1>3 DEF BoxOK
<1>5. sess[s].box[m].prog = 0 /\ sess[s].box[m].status # "OPENED"
      /\ (sess[s].box[m].status = "ACTIVE" => m = sess[s].level + 1 /\ sess[s].box[sess[s].level].status = "OPENED")
  BY <1>3, <1>4 DEF BoxOK
<1>6. sess[s].box[m].status # "ACTIVE"
  <2> SUFFICES ASSUME sess[s].box[m].status = "ACTIVE" PROVE FALSE
    OBVIOUS
  <2>1. l = sess[s].level
    BY <1>2, <1>4, <1>5
  <2> QED
    BY <1>5, <2>1
<1>7. sess[s].box[m].status \in BoxStatuses
  BY <1>1, BoxIs
<1> QED
  BY <1>5, <1>6, <1>7 DEF BoxStatuses

-----------------------------------------------------------------------------
(* What the rows of a box account for.                                     *)
BoxCounted(s, l) ==
    LET b == sess[s].box[l] IN
    \/ Contributed(b.rows) = b.prog
    \/ \E r \in Reqs : /\ At(r, "count") /\ job[r].sess = s /\ job[r].level = l
                       /\ Contributed(b.rows) + job[r].took = b.prog
CountInv == Exact => \A s \in Sessions, l \in Levels : BoxCounted(s, l)

(* The dead do not move.                                                   *)
LEMMA Alive ==
  ASSUME NEW p, Step(p) \/ Crash(p)
  PROVE  pc[p] # "dead"
<1>1. CASE Check(p) \/ Lock(p) \/ OpenSend(p) \/ SettleSend(p) \/ Tell(p) \/ Feed(p) \/ Fill(p) \/ Count(p)
  BY <1>1, Zenon DEF Check, Lock, OpenSend, SettleSend, Tell, Feed, Fill, Count, At
<1>2. CASE Complete(p) \/ OpenNext(p) \/ Advance(p) \/ RefundRest(p) \/ Grant(p)
  BY <1>2, Zenon DEF Complete, OpenNext, Advance, RefundRest, Grant, At
<1>3. CASE Start(p) \/ Status(p) \/ Find(p) \/ Close(p) \/ Archive(p) \/ Make(p) \/ Boxes(p) \/ Crash(p)
  BY <1>3 DEF Start, Status, Find, Close, Archive, Make, Boxes, Crash, At
<1> QED
  BY <1>1, <1>2, <1>3 DEF Step

LEMMA DeadStays ==
  ASSUME ControlInv, [Next]_vars, NEW q \in Procs, pc[q] = "dead"
  PROVE  pc'[q] = "dead" /\ job'[q] = job[q] /\ scene' = scene
<1>1. ASSUME NEW p \in Procs, Step(p) \/ Crash(p)
      PROVE  pc'[q] = "dead" /\ job'[q] = job[q] /\ scene' = scene
  <2>1. Frame(p) /\ p # q
    BY <1>1, StepControl, Alive
  <2> QED
    BY <2>1 DEF Frame
<1>2. CASE Midnight \/ (\E k \in LockKeys : Expire(k)) \/ UNCHANGED vars
  BY <1>2 DEF Midnight, Expire, vars
<1> QED
  BY <1>1, <1>2 DEF Next

LEMMA SceneStays == ASSUME ControlInv, [Next]_vars PROVE scene' = scene
<1>1. ASSUME NEW p \in Procs, Step(p) \/ Crash(p) PROVE scene' = scene
  BY <1>1, StepControl DEF Frame
<1>2. CASE Midnight \/ (\E k \in LockKeys : Expire(k)) \/ UNCHANGED vars
  BY <1>2 DEF Midnight, Expire, vars
<1> QED
  BY <1>1, <1>2 DEF Next

LEMMA ExactStays ==
  ASSUME ControlInv, [Next]_vars, Exact'
  PROVE  Exact
<1>1. scene' = scene
  BY SceneStays
<1>2. ASSUME NEW r \in Reqs PROVE Send(r).from # Send(r).to /\ ~(pc[r] = "dead" /\ job[r].took > 0)
  <2>1. Send(r).from # Send(r).to
    BY <1>1 DEF Exact, Send
  <2>2. pc[r] = "dead" => pc'[r] = "dead" /\ job'[r] = job[r]
    BY DeadStays, ProcsAre
  <2> QED
    BY <2>1, <2>2 DEF Exact, At
<1> QED
  BY <1>2 DEF Exact, At

LEMMA NobodyCounts ==
  ASSUME ControlInv, NEW p \in Procs, Holds(p), pc[p] # "count", NEW r \in Reqs
  PROVE  pc[r] # "count"
BY OneHolder, ProcsAre DEF Holds, Working

LEMMA QuietCount ==
  ASSUME CountInv, NEW p \in Procs, Frame(p), pc[p] # "count", Exact' => Exact,
         \A s \in DOMAIN sess', l \in Levels :
            \/ /\ s \in Sessions /\ sess'[s].box[l].prog = sess[s].box[l].prog
               /\ sess'[s].box[l].rows = sess[s].box[l].rows
            \/ Contributed(sess'[s].box[l].rows) = sess'[s].box[l].prog
  PROVE  CountInv'
<1> SUFFICES ASSUME Exact', NEW s \in DOMAIN sess', NEW l \in Levels PROVE BoxCounted(s, l)'
  BY DEF CountInv, Sessions
<1>1. CASE Contributed(sess'[s].box[l].rows) = sess'[s].box[l].prog
  BY <1>1 DEF BoxCounted
<1>2. CASE /\ s \in Sessions /\ sess'[s].box[l].prog = sess[s].box[l].prog
           /\ sess'[s].box[l].rows = sess[s].box[l].rows
  <2>1. BoxCounted(s, l)
    BY <1>2 DEF CountInv
  <2>2. ASSUME NEW r \in Reqs, At(r, "count") PROVE At(r, "count")' /\ job'[r] = job[r]
    BY <2>2, ProcsAre DEF Frame, At
  <2> QED
    BY <1>2, <2>1, <2>2 DEF BoxCounted
<1> QED
  BY <1>1, <1>2

(* A step that leaves all boxes alone.                                     *)
LEMMA QuietSessCount ==
  ASSUME CountInv, NEW p \in Procs, Frame(p), pc[p] # "count", Exact' => Exact,
         DOMAIN sess' = DOMAIN sess, \A s \in Sessions : SameBoxes(s)
  PROVE  CountInv'
<1>1. \A s \in DOMAIN sess', l \in Levels :
         /\ s \in Sessions /\ sess'[s].box[l].prog = sess[s].box[l].prog
         /\ sess'[s].box[l].rows = sess[s].box[l].rows
  BY DEF SameBoxes, Sessions
<1> QED
  BY <1>1, QuietCount

LEMMA FillCount ==
  ASSUME ControlInv, BoxInv, CountInv, NEW r \in Reqs, Fill(r), Exact' => Exact
  PROVE  CountInv'
<1> DEFINE s == job[r].sess
           l == job[r].level
<1>1. /\ pc[r] = "fill" /\ s \in Sessions /\ l \in Levels
      /\ job'[r].sess = s /\ job'[r].level = l /\ job'[r].took = FillTook(r)
      /\ FilledBox(r) \in BoxType /\ SetBox(r, l, FilledBox(r))
      /\ FilledBox(r).prog = MyBox(r).prog + FillTook(r)
      /\ FilledBox(r).rows = MyBox(r).rows
  BY FillIs
<1>2. /\ Typed /\ TypeOK /\ r \in Procs /\ Frame(r) /\ Go(r, "count") /\ Holds(r)
  BY <1>1, FillIs, FillControl, ProcsAre DEF ControlInv, Typed, Holds, Working
<1>3. \A q \in Reqs : pc[q] # "count"
  BY <1>1, <1>2, NobodyCounts
<1>4. /\ MyBox(r).prog = sess[s].box[l].prog /\ MyBox(r).rows = sess[s].box[l].rows
  BY <1>1, <1>2, MineIs
<1>5. /\ DOMAIN sess' = DOMAIN sess
      /\ \A x \in Sessions : x # s => sess'[x] = sess[x]
      /\ sess'[s].box[l] = FilledBox(r)
      /\ \A m \in Levels : m # l => sess'[s].box[m] = sess[s].box[m]
  BY <1>1, <1>2, SetBoxIs
<1>6. pc'[r] = "count"
  BY <1>2, Goes DEF PCs
<1> SUFFICES ASSUME Exact', NEW x \in Sessions, NEW m \in Levels PROVE BoxCounted(x, m)'
  BY <1>5 DEF CountInv, Sessions
<1>7. Contributed(sess[x].box[m].rows) = sess[x].box[m].prog
  BY <1>3, SMTT(30) DEF CountInv, BoxCounted, At
<1>8. CASE x = s /\ m = l
  <2>1. sess'[s].box[l].prog = sess[s].box[l].prog + FillTook(r) /\ sess'[s].box[l].rows = sess[s].box[l].rows
    BY <1>1, <1>4, <1>5
  <2>2. Contributed(sess'[s].box[l].rows) + job'[r].took = sess'[s].box[l].prog
    BY <1>1, <1>7, <1>8, <2>1
  <2> QED
    BY <1>1, <1>6, <1>8, <2>2, SMTT(30) DEF BoxCounted, At
<1>9. CASE ~(x = s /\ m = l)
  <2>1. sess'[x].box[m] = sess[x].box[m]
    BY <1>5, <1>9
  <2> QED
    BY <1>7, <2>1 DEF BoxCounted
<1> QED
  BY <1>8, <1>9

LEMMA CountCount ==
  ASSUME ControlInv, BoxInv, CountInv, NEW r \in Reqs, Count(r), Exact' => Exact
  PROVE  CountInv'
<1> DEFINE s == job[r].sess
           l == job[r].level
           b == sess[s].box[l]
           took == job[r].took
<1>1. /\ pc[r] = "count" /\ scene' = scene
      /\ \/ ~CountsRow(r) /\ sess' = sess
         \/ /\ CountsRow(r) /\ SetBox(r, l, CountedBox(r))
            /\ CountedBox(r) \in BoxType
            /\ CountedBox(r).prog = MyBox(r).prog
            /\ CountedBox(r).rows = Append(MyBox(r).rows, Row(Send(r).from, took, Txn(r)))
            /\ Row(Send(r).from, took, Txn(r)) \in RowType
  BY CountIs
<1>2. /\ Typed /\ TypeOK /\ r \in Procs /\ s \in Sessions /\ l \in Levels
      /\ MyBox(r) = b /\ took \in Nat /\ Contributed(b.rows) + took <= b.prog
  BY <1>1, CountBoxes, WorkerIs DEF Late, Working
<1>3. b.rows \in Seq(RowType) /\ b.prog \in Nat /\ Contributed(b.rows) \in Nat
  BY <1>2, BoxIs, ContributedNat DEF RowType
<1>4. ASSUME NEW q \in Reqs, pc[q] = "count" PROVE q = r
  BY <1>1, <1>2, <1>4, OneHolder, ProcsAre, Zenon DEF Holds, Working
<1> SUFFICES ASSUME Exact', NEW x \in DOMAIN sess', NEW m \in Levels PROVE BoxCounted(x, m)'
  BY DEF CountInv, Sessions
<1>5. Exact /\ Send(r).from # Send(r).to
  BY DEF Exact
<1>6. x \in Sessions => BoxCounted(x, m)
  BY <1>5 DEF CountInv
<1>7. Contributed(b.rows) + took = b.prog
  <2>1. BoxCounted(s, l)
    BY <1>2, <1>5, SMTT(30) DEF CountInv
  <2>2. Contributed(b.rows) = b.prog \/ Contributed(b.rows) + took = b.prog
    BY <1>4, <2>1 DEF BoxCounted, At
  <2> HIDE DEF b, took
  <2> QED
    BY <1>2, <1>3, <2>2
<1>8. x \in Sessions /\ ~(x = s /\ m = l) => Contributed(sess[x].box[m].rows) = sess[x].box[m].prog
  BY <1>4, <1>6 DEF BoxCounted, At
<1>9. CASE ~CountsRow(r) /\ sess' = sess
  <2>1. took = 0
    BY <1>2, <1>5, <1>9 DEF CountsRow
  <2>2. Contributed(b.rows) = b.prog
    <3> HIDE DEF b, took
    <3> QED
      BY <1>3, <1>7, <2>1
  <2>3. Contributed(sess[x].box[m].rows) = sess[x].box[m].prog
    BY <1>8, <1>9, <2>2 DEF Sessions
  <2> QED
    BY <1>9, <2>3 DEF BoxCounted
<1>10. CASE /\ SetBox(r, l, CountedBox(r))
            /\ CountedBox(r) \in BoxType
            /\ CountedBox(r).prog = MyBox(r).prog
            /\ CountedBox(r).rows = Append(MyBox(r).rows, Row(Send(r).from, took, Txn(r)))
            /\ Row(Send(r).from, took, Txn(r)) \in RowType
  <2>1. /\ DOMAIN sess' = DOMAIN sess
        /\ \A y \in Sessions : y # s => sess'[y] = sess[y]
        /\ sess'[s].box[l] = CountedBox(r)
        /\ \A n \in Levels : n # l => sess'[s].box[n] = sess[s].box[n]
    <3>1. TypeOK /\ r \in Procs /\ job[r].sess \in Sessions /\ job[r].level \in Levels
          /\ CountedBox(r) \in BoxType /\ SetBox(r, job[r].level, CountedBox(r))
      BY <1>2, <1>10, Zenon
    <3> QED
      BY <3>1, SetBoxIs
  <2> DEFINE e == Row(Send(r).from, took, Txn(r))
             c == sess'[s].box[l]
  <2>2. c.prog = b.prog /\ c.rows = Append(b.rows, e) /\ e \in RowType
    BY <1>2, <1>10, <2>1, Zenon
  <2>3. e.amt = took
    BY DEF Row
  <2>4. Contributed(c.rows) = c.prog
    <3> HIDE DEF b, c, e, took
    <3>1. Contributed(c.rows) = Contributed(b.rows) + e.amt
      BY <1>3, <2>2, ContributedAppend
    <3> QED
      BY <1>7, <2>2, <2>3, <3>1
  <2>5. x \in Sessions
    BY <2>1 DEF Sessions
  <2>6. CASE x = s /\ m = l
    BY <2>4, <2>6 DEF BoxCounted
  <2>7. CASE ~(x = s /\ m = l)
    <3>1. sess'[x].box[m] = sess[x].box[m]
      BY <2>1, <2>5, <2>7
    <3> QED
      BY <1>8, <2>5, <2>7, <3>1 DEF BoxCounted
  <2> QED
    BY <2>6, <2>7
<1> QED
  BY <1>1, <1>9, <1>10

(* The rows and the progress that a send pours.                            *)
LEMMA PouredRows ==
  ASSUME TypeOK, NEW se \in SessType, NEW u \in Users, NEW v \in Nat, NEW t \in Reqs,
         NEW last \in 0 .. BoxCount, NEW l \in Levels
  PROVE  LET c == Pour(se, u, v, t, last).box[l]
             b == se.box[l]
             got == Poured(se, v, last, l)
         IN /\ got \in Nat /\ b.prog \in Nat /\ b.rows \in Seq(RowType)
            /\ c.prog = b.prog + got
            /\ c.rows = (IF got > 0 THEN Append(b.rows, Row(u, got, t)) ELSE b.rows)
            /\ Row(u, got, t) \in RowType /\ Row(u, got, t).amt = got /\ Row(u, got, t).txn = t
            /\ Contributed(b.rows) \in Nat /\ Contributed(c.rows) = Contributed(b.rows) + got
<1> DEFINE c == Pour(se, u, v, t, last).box[l]
           b == se.box[l]
           got == Poured(se, v, last, l)
           e == Row(u, got, t)
<1>1. se.level \in Levels /\ se.box \in [Levels -> BoxType]
  BY DEF SessType
<1>2. got \in Nat /\ b.prog \in Nat /\ b.rows \in Seq(RowType)
  BY <1>1, PouredNat, SessRows
<1>3. c.prog = b.prog + got /\ c.rows = (IF got > 0 THEN Append(b.rows, e) ELSE b.rows)
  BY PourTyped
<1>4. e \in RowType /\ e.amt = got /\ e.txn = t
  BY <1>2, RowIs
<1>5. Contributed(b.rows) \in Nat
  BY <1>2, ContributedNat
<1> HIDE DEF c, b, got, e
<1>6. CASE got > 0
  <2>1. Contributed(Append(b.rows, e)) = Contributed(b.rows) + e.amt
    BY <1>2, <1>4, ContributedAppend
  <2>2. Contributed(c.rows) = Contributed(b.rows) + got
    BY <1>3, <1>4, <1>6, <2>1
  <2> QED
    BY <1>2, <1>3, <1>4, <1>5, <2>2 DEF c, b, got, e
<1>7. CASE ~(got > 0)
  <2>1. Contributed(c.rows) = Contributed(b.rows) + got
    BY <1>2, <1>3, <1>5, <1>7
  <2> QED
    BY <1>2, <1>3, <1>4, <1>5, <2>1 DEF c, b, got, e
<1> QED
  BY <1>6, <1>7

LEMMA PouredCounts ==
  ASSUME TypeOK, NEW se \in SessType, NEW u \in Users, NEW v \in Nat, NEW t \in Reqs,
         NEW last \in 0 .. BoxCount, NEW l \in Levels
  PROVE  /\ Contributed(Pour(se, u, v, t, last).box[l].rows)
            = Contributed(se.box[l].rows) + Poured(se, v, last, l)
         /\ Pour(se, u, v, t, last).box[l].prog = se.box[l].prog + Poured(se, v, last, l)
BY PouredRows

LEMMA SettleCount ==
  ASSUME ControlInv, BoxInv, CountInv, NEW r \in Reqs, SettleSend(r), Exact' => Exact
  PROVE  CountInv'
<1>1. /\ pc[r] = "settle" /\ Frame(r) /\ TypeOK /\ Typed /\ r \in Procs /\ Hand(r)
      /\ PutNowhere(r) \/ PutFails(r) \/ \E last \in 0 .. BoxCount : \E q : PutInto(r, last, q)
      /\ Sessions = 1 .. Len(sess) /\ Len(sess) \in Nat
  BY SettleCases, SettleControl, ProcsAre, SessionsAre DEF ControlInv, Typed
<1>2. /\ DOMAIN Base(r) = 1 .. Len(Base(r))
      /\ Len(Base(r)) = IF job[r].sess = -1 THEN Len(sess) + 1 ELSE Len(sess)
      /\ \A x \in Sessions : Base(r)[x].box = sess[x].box
      /\ job[r].sess = -1 => Into(r) = Len(sess) + 1 /\ Base(r)[Into(r)] = Laid(Bare)
      /\ job[r].sess # -1 => Into(r) = job[r].sess
  BY <1>1, BaseIs
<1>3. ASSUME NEW s \in DOMAIN Base(r), NEW l \in Levels
      PROVE  \/ s \in Sessions /\ Base(r)[s].box[l] = sess[s].box[l]
             \/ s = Into(r) /\ Contributed(Base(r)[s].box[l].rows) = 0 /\ Base(r)[s].box[l].prog = 0
  <2>1. CASE s \in Sessions
    BY <1>2, <2>1
  <2>2. CASE s \notin Sessions
    <3>1. s = Into(r) /\ Base(r)[s] = Laid(Bare)
      BY <1>1, <1>2, <2>2
    <3>2. Laid(Bare).box[l] = Fresh(l) /\ Fresh(l).rows = <<>> /\ Fresh(l).prog = 0
      BY <1>1, BareOK
    <3> QED
      BY <3>1, <3>2, ContributedNone
  <2> QED
    BY <2>1, <2>2
<1>4. CASE PutNowhere(r)
  <2>1. \A s \in DOMAIN sess', l \in Levels :
           \/ s \in Sessions /\ sess'[s].box[l].prog = sess[s].box[l].prog /\ sess'[s].box[l].rows = sess[s].box[l].rows
           \/ Contributed(sess'[s].box[l].rows) = sess'[s].box[l].prog
    BY <1>3, <1>4 DEF PutNowhere
  <2> QED
    BY <1>1, <2>1, QuietCount
<1>5. CASE PutFails(r)
  <2>1. sess' = sess
    BY <1>5 DEF PutFails
  <2> QED
    BY <1>1, <2>1, QuietSessCount, SameSess
<1>6. CASE \E last \in 0 .. BoxCount : \E q : PutInto(r, last, q)
  <2>0. PICK last \in 0 .. BoxCount : \E q : PutInto(r, last, q)
    BY <1>6
  <2>1. PICK q : PutInto(r, last, q)
    BY <2>0
  <2> DEFINE s == Into(r)
             se == Base(r)[s]
             to == Pour(se, Send(r).from, Amt(r), r, last)
  <2>2. s \in DOMAIN Base(r) /\ se \in SessType /\ sess' = [Base(r) EXCEPT ![s] = to] /\ s # 0
    BY <1>1, <2>1, BaseIs DEF PutInto
  <2>3. Send(r).from \in Users /\ Amt(r) \in Nat
    BY <1>1, SendIs DEF Amt
  <2>4. Audio /\ Holds(r)
    <3>1. Audio
      BY <1>1, <1>2, <2>2 DEF Hand
    <3> QED
      BY <1>1, <3>1 DEF Holds
  <2>5. \A q2 \in Reqs : pc[q2] # "count"
    BY <1>1, <2>4, NobodyCounts
  <2>6. Exact => \A x \in Sessions, l \in Levels : Contributed(sess[x].box[l].rows) = sess[x].box[l].prog
    BY <2>5 DEF CountInv, BoxCounted, At
  <2> SUFFICES ASSUME Exact', NEW x \in DOMAIN sess', NEW l \in Levels
               PROVE  Contributed(sess'[x].box[l].rows) = sess'[x].box[l].prog
    BY DEF CountInv, Sessions, BoxCounted
  <2>7. x \in DOMAIN Base(r)
    BY <2>2
  <2>8. Contributed(Base(r)[x].box[l].rows) = Base(r)[x].box[l].prog
    BY <1>3, <2>6, <2>7
  <2>9. CASE x # s
    BY <2>2, <2>8, <2>9
  <2>10. CASE x = s
    <3>1. Contributed(to.box[l].rows) = Contributed(se.box[l].rows) + Poured(se, Amt(r), last, l)
          /\ to.box[l].prog = se.box[l].prog + Poured(se, Amt(r), last, l)
      <4>1. TypeOK /\ se \in SessType /\ Send(r).from \in Users /\ Amt(r) \in Nat /\ r \in Reqs
            /\ last \in 0 .. BoxCount /\ l \in Levels
        BY <1>1, <2>1, <2>2, <2>3
      <4> HIDE DEF se
      <4> QED
        BY <4>1, PouredCounts
    <3>2. sess'[x] = to
      BY <2>2, <2>10
    <3> QED
      BY <2>8, <2>10, <3>1, <3>2
  <2> QED
    BY <2>9, <2>10
<1> QED
  BY <1>1, <1>4, <1>5, <1>6

LEMMA CrashCount ==
  ASSUME ControlInv, BoxInv, CountInv, NEW p \in Procs, Crash(p), Exact' => Exact
  PROVE  CountInv'
<1>1. Frame(p) /\ sess' = sess /\ pc'[p] = "dead" /\ job' = job
  BY CrashControl DEF Crash
<1>2. CASE pc[p] # "count"
  BY <1>1, <1>2, QuietSessCount, SameSess
<1>3. CASE pc[p] = "count"
  <2>1. p \in Reqs
    BY <1>3, ProcsAre, Zenon DEF ControlInv, Hand
  <2>2. job[p].took \in Nat
    BY <1>3, <2>1 DEF BoxInv, Work
  <2> SUFFICES ASSUME Exact', NEW s \in Sessions, NEW l \in Levels PROVE BoxCounted(s, l)'
    BY <1>1 DEF CountInv, Sessions
  <2>3. job[p].took = 0
    <3>1. ~(job'[p].took > 0)
      BY <1>1, <2>1 DEF Exact, At
    <3> QED
      BY <1>1, <2>2, <3>1
  <2>4. BoxCounted(s, l) /\ TypeOK
    BY DEF CountInv, ControlInv, Typed
  <2>5. \A r \in Reqs : r # p /\ pc[r] = "count" => pc'[r] = "count"
    BY <1>1, ProcsAre DEF Frame
  <2>6. Contributed(sess[s].box[l].rows) \in Nat
    BY <2>4, BoxIs, ContributedNat DEF RowType
  <2>7. Contributed(sess[s].box[l].rows) + 0 = Contributed(sess[s].box[l].rows)
    BY <2>6
  <2> QED
    BY <1>1, <2>3, <2>4, <2>5, <2>7 DEF BoxCounted, At
<1> QED
  BY <1>2, <1>3

(* What managers do to the sessions, and where it takes them.              *)
LEMMA ManagerFinishes ==
  ASSUME ControlInv, NEW p \in Mgrs, Start(p) \/ Status(p) \/ Find(p) \/ Close(p) \/ Archive(p)
  PROVE  \/ sess' = sess
         \/ \E ss : \E st \in {"ACTIVE", "COMPLETED", "CANCELLED", "ARCHIVED"} : sess' = Finish(ss, st)
<1>1. CASE Start(p)
  <2>1. ASSUME NEW ss, sess' = Finish(ss, "COMPLETED")
        PROVE  \E x : \E st \in {"ACTIVE", "COMPLETED", "CANCELLED", "ARCHIVED"} : sess' = Finish(x, st)
    BY <2>1
  <2> QED
    BY <1>1, <2>1, StartControl
<1>2. CASE Status(p) \/ Find(p)
  BY <1>2 DEF Status, Find
<1>3. CASE Close(p) \/ Archive(p)
  BY <1>3, CloseControl, ArchiveControl
<1> QED
  BY <1>1, <1>2, <1>3

LEMMA ManagerStops ==
  ASSUME ControlInv, NEW p \in Mgrs, Frame(p), Start(p) \/ Status(p) \/ Find(p) \/ Close(p) \/ Archive(p)
  PROVE  pc'[p] \notin Late
<1>1. Hand(p)' /\ Typed'
  BY StepControl, ProcsAre DEF Step
<1> QED
  BY <1>1 DEF Hand, Late, Working

LEMMA NextCount == ControlInv /\ BoxInv /\ CountInv /\ [Next]_vars => CountInv'
<1> SUFFICES ASSUME ControlInv, BoxInv, CountInv, [Next]_vars PROVE CountInv'
  OBVIOUS
<1>0. (Exact' => Exact) /\ TypeOK
  BY ExactStays DEF ControlInv, Typed
<1>1. ASSUME NEW p \in Procs, Step(p) \/ Crash(p) PROVE CountInv'
  <2>0. Frame(p)
    BY <1>1, StepControl
  <2>1. CASE p \in Reqs /\ (Check(p) \/ Lock(p) \/ OpenSend(p) \/ Tell(p) \/ RefundRest(p) \/ Grant(p) \/ Feed(p))
    <3>1. sess' = sess
      BY <2>1, Zenon DEF Check, Lock, OpenSend, Tell, RefundRest, Grant, Feed
    <3>2. pc[p] # "count"
      BY <2>1, Zenon DEF Check, Lock, OpenSend, Tell, RefundRest, Grant, Feed, At
    <3> QED
      BY <1>0, <2>0, <3>1, <3>2, QuietSessCount, SameSess
  <2>2. CASE p \in Reqs /\ (SettleSend(p) \/ Fill(p) \/ Count(p))
    BY <1>0, <2>2, SettleCount, FillCount, CountCount
  <2>3. CASE p \in Reqs /\ Complete(p)
    <3>1. sess' = Finish({job[p].sess}, "COMPLETED") /\ pc[p] # "count"
      BY <2>3 DEF Complete, At
    <3> QED
      BY <1>0, <2>0, <3>1, FinishSame, QuietSessCount
  <2>4. CASE p \in Reqs /\ OpenNext(p)
    <3>1. /\ pc[p] = "next" /\ job[p].level + 1 \in Levels
          /\ SetBox(p, job[p].level + 1, OpenedBox(p)) /\ OpenedBox(p) \in BoxType
          /\ OpenedBox(p).prog = sess[job[p].sess].box[job[p].level + 1].prog
          /\ OpenedBox(p).rows = sess[job[p].sess].box[job[p].level + 1].rows
      BY <2>4, OpenNextIs
    <3>2. job[p].sess \in Sessions
      BY <2>4, <3>1, WorkerIs DEF Late, Working
    <3>3. /\ DOMAIN sess' = DOMAIN sess
          /\ \A x \in Sessions : x # job[p].sess => sess'[x] = sess[x]
          /\ sess'[job[p].sess].box[job[p].level + 1] = OpenedBox(p)
          /\ \A m \in Levels : m # job[p].level + 1 => sess'[job[p].sess].box[m] = sess[job[p].sess].box[m]
      BY <1>0, <3>1, <3>2, SetBoxIs
    <3>4. \A s \in DOMAIN sess', l \in Levels :
             /\ s \in Sessions /\ sess'[s].box[l].prog = sess[s].box[l].prog
             /\ sess'[s].box[l].rows = sess[s].box[l].rows
      BY <3>1, <3>3 DEF Sessions
    <3> QED
      BY <1>0, <2>0, <3>1, <3>4, QuietCount
  <2>5. CASE p \in Reqs /\ Advance(p)
    <3>1. /\ pc[p] = "level" /\ DOMAIN sess' = DOMAIN sess
          /\ \A x \in Sessions : sess'[x].box = sess[x].box
      BY <2>5, AdvanceControl
    <3> QED
      BY <1>0, <2>0, <3>1, QuietCount DEF Sessions
  <2>6. CASE p \in Mgrs /\ (Start(p) \/ Status(p) \/ Find(p) \/ Close(p) \/ Archive(p))
    <3>1. \/ sess' = sess
          \/ \E ss : \E st \in {"ACTIVE", "COMPLETED", "CANCELLED", "ARCHIVED"} : sess' = Finish(ss, st)
      BY <2>6, ManagerFinishes
    <3>2. pc[p] # "count"
      BY <2>6 DEF Start, Status, Find, Close, Archive, At
    <3>3. CASE sess' = sess
      BY <1>0, <2>0, <3>2, <3>3, QuietSessCount, SameSess
    <3>4. ASSUME NEW ss, NEW st \in {"ACTIVE", "COMPLETED", "CANCELLED", "ARCHIVED"}, sess' = Finish(ss, st)
          PROVE  CountInv'
      BY <1>0, <2>0, <3>2, <3>4, QuietSessCount, FinishSame
    <3> QED
      BY <3>1, <3>3, <3>4
  <2>7. CASE Make(p)
    <3>1. /\ pc[p] = "make" /\ DOMAIN sess' = 1 .. Len(sess) + 1 /\ Sessions = 1 .. Len(sess) /\ Len(sess) \in Nat
          /\ sess'[Len(sess) + 1] = Bare /\ \A s \in Sessions : sess'[s] = sess[s]
      BY <1>0, <2>7, MakeIs, SessionsAre
    <3>2. \A l \in Levels : Contributed(Bare.box[l].rows) = Bare.box[l].prog
      BY ContributedNone DEF Bare, NoBox
    <3>3. ASSUME NEW s \in DOMAIN sess', NEW l \in Levels
          PROVE  \/ /\ s \in Sessions /\ sess'[s].box[l].prog = sess[s].box[l].prog
                    /\ sess'[s].box[l].rows = sess[s].box[l].rows
                 \/ Contributed(sess'[s].box[l].rows) = sess'[s].box[l].prog
      <4>1. s \in Sessions \/ s = Len(sess) + 1
        BY <3>1
      <4> QED
        BY <3>1, <3>2, <4>1
    <3> QED
      BY <1>0, <2>0, <3>1, <3>3, QuietCount
  <2>8. CASE Boxes(p)
    <3>1. /\ pc[p] = "boxes" /\ DOMAIN sess' = DOMAIN sess
          /\ \/ sess' = sess
             \/ /\ \A s \in Sessions : s # job[p].sess => sess'[s] = sess[s]
                /\ \A l \in Levels : sess'[job[p].sess].box[l] = Fresh(l)
      BY <2>8, BoxesIs
    <3>2. \A l \in Levels : Contributed(Fresh(l).rows) = Fresh(l).prog
      BY <1>0, BareOK, ContributedNone
    <3>3. \A s \in DOMAIN sess', l \in Levels :
             \/ /\ s \in Sessions /\ sess'[s].box[l].prog = sess[s].box[l].prog
                /\ sess'[s].box[l].rows = sess[s].box[l].rows
             \/ Contributed(sess'[s].box[l].rows) = sess'[s].box[l].prog
      BY <3>1, <3>2 DEF Sessions
    <3> QED
      BY <1>0, <2>0, <3>1, <3>3, QuietCount
  <2>9. CASE Crash(p)
    BY <1>0, <2>9, CrashCount
  <2> QED
    BY <1>1, <2>1, <2>2, <2>3, <2>4, <2>5, <2>6, <2>7, <2>8, <2>9 DEF Step
<1>2. CASE Midnight \/ (\E k \in LockKeys : Expire(k)) \/ UNCHANGED vars
  <2>1. sess' = sess /\ pc' = pc /\ job' = job
    BY <1>2 DEF Midnight, Expire, vars
  <2> QED
    BY <1>0, <2>1 DEF CountInv, BoxCounted, At, Sessions
<1> QED
  BY <1>1, <1>2 DEF Next

LEMMA AlwaysBoxes == Spec => [](ControlInv /\ BoxInv /\ CountInv)
<1>1. Init => CountInv
  BY DEF Init, CountInv, Sessions
<1> QED
  BY <1>1, InitControl, NextControl, InitBoxes, NextBoxes, NextCount, PTL DEF Spec

(* In every state of a room the ladders' boxes open in order, take no more *)
(* than they hold, and their rows account for what they took.              *)
THEOREM BoxesHold == Spec => []BoxesOK
<1>1. ControlInv /\ BoxInv /\ CountInv => BoxesOK
  <2> SUFFICES ASSUME ControlInv, BoxInv, CountInv PROVE BoxesOK
    OBVIOUS
  <2>1. ASSUME NEW s \in Sessions, NEW l \in Levels
        PROVE  LET b == sess[s].box[l]
                   counted == Contributed(b.rows)
               IN /\ b.prog <= Threshold[l]
                  /\ b.status = "OPENED" <=> b.prog = Threshold[l]
                  /\ counted <= b.prog
                  /\ Exact => \/ counted = b.prog
                              \/ \E r \in Reqs : /\ At(r, "count") /\ job[r].sess = s /\ job[r].level = l
                                                 /\ counted + job[r].took = b.prog
    <3>1. BoxOK(sess[s], l)
      BY DEF BoxInv, SessOK
    <3>2. Exact => BoxCounted(s, l)
      BY DEF CountInv
    <3> QED
      BY <3>1, <3>2 DEF BoxOK, BoxCounted
  <2> QED
    BY <2>1, InOrder DEF BoxesOK, ProgressIsCounted, ControlInv, Typed
<1> QED
  BY <1>1, AlwaysBoxes, PTL

-----------------------------------------------------------------------------
(* A box is fixed when it is open and nobody is about to count coins in    *)
(* it; what was won stands on fixed boxes.                                 *)
Counting(s, l) ==
    \E r \in Reqs : At(r, "count") /\ job[r].sess = s /\ job[r].level = l /\ job[r].took > 0
Fixed(s, l) == sess[s].box[l].status = "OPENED" /\ ~Counting(s, l)
Rightful(e) ==
    /\ e.of[1] \in Sessions /\ e.of[2] \in Levels /\ Fixed(e.of[1], e.of[2])
    /\ e.user \in Places(sess[e.of[1]].box[e.of[2]].rows, e.of[3])
Deserved(x) ==
    /\ x.box[1] \in Sessions /\ x.box[2] \in Levels /\ Fixed(x.box[1], x.box[2])
    /\ x.user \in Places(sess[x.box[1]].box[x.box[2]].rows, x.rank)
FullOK(r) ==
    pc[r] \in Late => \A l \in job[r].full : \/ At(r, "count") /\ l = job[r].level
                                             \/ Fixed(job[r].sess, l)
PrizeInv ==
    /\ \A e \in ledger : e.why = "box" => Rightful(e)
    /\ \A x \in bag : Deserved(x)
    /\ \A r \in Reqs : FullOK(r)

(* A fixed box keeps its rows.                                             *)
Stays(s, l) ==
    /\ s \in DOMAIN sess' /\ sess'[s].box[l].status = "OPENED"
    /\ sess'[s].box[l].rows = sess[s].box[l].rows
Steady(p) ==
    \A s \in Sessions, l \in Levels : Fixed(s, l) => Stays(s, l) /\ ~Counting(s, l)'

LEMMA CountingStays ==
  ASSUME NEW p \in Procs, Frame(p), pc'[p] # "count", NEW s, NEW l, Counting(s, l)'
  PROVE  Counting(s, l)
BY ProcsAre DEF Frame, Counting, At

(* Steps after which p is not about to count.                              *)
LEMMA SteadyIf ==
  ASSUME NEW p \in Procs, Frame(p), pc'[p] # "count",
         \A s \in Sessions, l \in Levels : Fixed(s, l) => Stays(s, l)
  PROVE  Steady(p)
BY CountingStays DEF Steady, Fixed

LEMMA PrizesStay ==
  ASSUME PrizeInv, ControlInv, NEW p \in Procs, Frame(p), Steady(p),
         \A e \in ledger' : e \in ledger \/ e.why # "box" \/ Rightful(e)',
         \A x \in bag' : x \in bag \/ Deserved(x)',
         p \in Reqs => FullOK(p)'
  PROVE  PrizeInv'
<1>0. \A s \in Sessions, l \in Levels :
         Fixed(s, l) => Fixed(s, l)' /\ s \in Sessions' /\ sess'[s].box[l].rows = sess[s].box[l].rows
  BY DEF Steady, Stays, Fixed, Sessions
<1>1. ASSUME NEW e \in ledger', e.why = "box" PROVE Rightful(e)'
  <2>1. Rightful(e) => Rightful(e)'
    BY <1>0 DEF Rightful
  <2> QED
    BY <1>1, <2>1 DEF PrizeInv
<1>2. ASSUME NEW x \in bag' PROVE Deserved(x)'
  <2>1. Deserved(x) => Deserved(x)'
    BY <1>0 DEF Deserved
  <2> QED
    BY <1>2, <2>1 DEF PrizeInv
<1>3. ASSUME NEW r \in Reqs PROVE FullOK(r)'
  <2>1. CASE r # p
    <3>1. pc'[r] = pc[r] /\ job'[r] = job[r]
      BY <2>1, ProcsAre DEF Frame
    <3>2. pc[r] \in Late => job[r].sess \in Sessions /\ job[r].full \subseteq Levels
      BY WorkerIs
    <3>3. FullOK(r)
      BY DEF PrizeInv
    <3> QED
      BY <1>0, <3>1, <3>2, <3>3 DEF FullOK, At
  <2>2. CASE r = p
    BY <2>2
  <2> QED
    BY <2>1, <2>2
<1> QED
  BY <1>1, <1>2, <1>3 DEF PrizeInv

LEMMA SameStays ==
  ASSUME NEW p \in Procs, Frame(p), pc'[p] # "count", \A s \in Sessions : SameBoxes(s)
  PROVE  Steady(p)
<1>1. ASSUME NEW s \in Sessions, NEW l \in Levels, Fixed(s, l) PROVE Stays(s, l)
  BY <1>1 DEF Fixed, Stays, SameBoxes, Frame, Sessions
<1> QED
  BY <1>1, SteadyIf

(* Steps behind which the same boxes stand behind p as before, or none.    *)
LEMMA SameFull ==
  ASSUME ControlInv, PrizeInv, NEW r \in Reqs, Steady(r), pc[r] # "count",
         \/ pc'[r] \notin Late
         \/ pc[r] \in Late /\ job'[r].sess = job[r].sess /\ job'[r].full = job[r].full
         \/ job'[r].full = {}
  PROVE  FullOK(r)'
<1>1. CASE pc[r] \in Late /\ job'[r].sess = job[r].sess /\ job'[r].full = job[r].full
  <2>1. job[r].sess \in Sessions /\ job[r].full \subseteq Levels
    BY <1>1, WorkerIs
  <2>2. \A l \in job[r].full : Fixed(job[r].sess, l)
    BY <1>1 DEF PrizeInv, FullOK, At
  <2>3. \A l \in job[r].full : Fixed(job[r].sess, l)'
    BY <1>1, <2>1, <2>2 DEF Steady, Stays, Fixed
  <2> QED
    BY <1>1, <2>3 DEF FullOK
<1> QED
  BY <1>1 DEF FullOK

LEMMA SettlePrizes ==
  ASSUME ControlInv, BoxInv, PrizeInv, NEW r \in Reqs, SettleSend(r)
  PROVE  PrizeInv'
<1>1. /\ pc[r] = "settle" /\ Frame(r) /\ TypeOK /\ Typed /\ r \in Procs /\ Hand(r)
      /\ job'[r] = Blank /\ bag' = bag
      /\ PutNowhere(r) \/ PutFails(r) \/ \E last \in 0 .. BoxCount : \E q : PutInto(r, last, q)
      /\ Sessions \subseteq DOMAIN Base(r) /\ \A x \in Sessions : Base(r)[x].box = sess[x].box
      /\ EntriesOK(ledger) /\ EntriesOK(Settlement(r))
      /\ \A e \in Settlement(r) : e.why # "box"
  BY SettleCases, SettleControl, ProcsAre, BaseIs, SettlementOK, TypedIs DEF ControlInv, Typed
<1>2. pc'[r] \in {"tell", "done"}
  BY <1>1 DEF PutNowhere, PutFails, PutInto
<1>3. FullOK(r)'
  BY <1>2 DEF FullOK, Late, Working
<1>4. CASE PutNowhere(r)
  <2>1. \A s \in Sessions, l \in Levels : Fixed(s, l) => Stays(s, l)
    BY <1>1, <1>4 DEF PutNowhere, Fixed, Stays
  <2>2. Steady(r)
    BY <1>1, <1>2, <2>1, SteadyIf
  <2>3. \A e \in ledger' : e \in ledger \/ e.why # "box"
    BY <1>1, <1>4 DEF PutNowhere, Posted
  <2> QED
    BY <1>1, <1>3, <2>2, <2>3, PrizesStay
<1>5. CASE PutFails(r)
  <2>1. sess' = sess /\ ledger' = ledger
    BY <1>5 DEF PutFails, wallets
  <2>2. Steady(r)
    BY <1>1, <1>2, <2>1, SameSess, SameStays
  <2> QED
    BY <1>1, <1>3, <2>1, <2>2, PrizesStay
<1>6. ASSUME NEW last \in 0 .. BoxCount, NEW q, PutInto(r, last, q) PROVE PrizeInv'
  <2> DEFINE s == Into(r)
             se == Base(r)[s]
             to == Pour(se, Send(r).from, Amt(r), r, last)
             full == Filled(se, Amt(r), last)
             back == Entry("refund", Send(r).key, Send(r).from, GOLD, Amt(r) - Accepted(se, Amt(r), last))
  <2>1. /\ s # 0 /\ s \in DOMAIN Base(r) /\ se \in SessType /\ SessOK(se)
        /\ sess' = [Base(r) EXCEPT ![s] = to] /\ DOMAIN q = full
        /\ \A l \in full : q[l] \in Rankings(to.box[l].rows, FALSE)
        /\ ledger' = Posted(Settlement(r) \cup (Prizes(s, q) \cup {back}))
    BY <1>1, <1>6, BaseIs, BaseOK DEF PutInto
  <2>2. Send(r).from \in Users /\ Amt(r) \in Nat
    BY <1>1, SendIs DEF Amt
  <2>3. se.level \in Levels /\ se.box \in [Levels -> BoxType]
    BY <2>1 DEF SessType
  <2>4. full \subseteq Levels /\ full \subseteq Reach(se, last)
    BY <2>3, ReachIs
  <2>5. \A l \in Levels :
           /\ to.box[l].status = (IF l \in full THEN "OPENED" ELSE IF l - 1 \in full THEN "ACTIVE"
                                  ELSE se.box[l].status)
           /\ to.box[l].rows = IF Poured(se, Amt(r), last, l) > 0
                               THEN Append(se.box[l].rows, Row(Send(r).from, Poured(se, Amt(r), last, l), r))
                               ELSE se.box[l].rows
    <3> HIDE DEF se
    <3> QED
      BY <1>1, <2>1, <2>2, PourTyped
  <2>6. ASSUME NEW l \in Levels, se.box[l].status = "OPENED"
        PROVE  to.box[l].status = "OPENED" /\ to.box[l].rows = se.box[l].rows
    <3>1. l <= se.level
      BY <2>1, <2>3, <2>6, LevelsAre DEF SessOK, BoxOK
    <3>2. l \notin Reach(se, last)
      BY <2>3, <2>6, <3>1, ReachIs, LevelsAre, SMTT(30)
    <3>3. l - 1 \notin full
      BY <2>3, <2>4, <3>1, ReachIs, LevelsAre
    <3>4. Poured(se, Amt(r), last, l) = 0
      BY <2>2, <2>3, <3>2, PouredNat
    <3>5. l \notin full
      BY <2>4, <3>2
    <3> QED
      BY <2>5, <2>6, <3>3, <3>4, <3>5
  <2>7. \A x \in Sessions, l \in Levels : Fixed(x, l) => Stays(x, l)
    <3> SUFFICES ASSUME NEW x \in Sessions, NEW l \in Levels, Fixed(x, l) PROVE Stays(x, l)
      OBVIOUS
    <3>1. CASE x = s
      <4>1. sess'[x] = to /\ x \in DOMAIN sess' /\ se.box = sess[x].box
        BY <1>1, <2>1, <3>1
      <4> HIDE DEF se, to
      <4> QED
        BY <2>6, <4>1 DEF Fixed, Stays
    <3>2. CASE x # s
      BY <1>1, <2>1, <3>2 DEF Fixed, Stays
    <3> QED
      BY <3>1, <3>2
  <2>8. Steady(r)
    BY <1>1, <1>2, <2>7, SteadyIf
  <2>9. Holds(r)
    <3>1. Audio
      BY <1>1, <2>1, BaseIs DEF Hand
    <3> QED
      BY <1>1, <3>1 DEF Holds
  <2>10. \A x, l : ~Counting(x, l)'
    <3>1. \A x, l : ~Counting(x, l)
      BY <1>1, <2>9, NobodyCounts DEF Counting, At
    <3> QED
      BY <1>1, <1>2, <3>1, CountingStays
  <2>11. \A e \in ledger' : e \in ledger \/ e.why # "box" \/ Rightful(e)'
    <3> SUFFICES ASSUME NEW e \in ledger', e \notin ledger, e.why = "box" PROVE Rightful(e)'
      OBVIOUS
    <3>1. e \in Prizes(s, q)
      <4>1. e \in Settlement(r) \/ e \in Prizes(s, q) \/ e = back
        BY <2>1 DEF Posted
      <4>2. back.why = "refund"
        BY EntryIs
      <4> QED
        BY <1>1, <4>1, <4>2
    <3>2. PICK l \in full, n \in Ranks : n \in DOMAIN q[l] /\ e.of = <<s, l, n>> /\ e.user = q[l][n]
      BY <1>1, <2>1, <3>1, PrizesAre
    <3>3. e.of[1] = s /\ e.of[2] = l /\ e.of[3] = n /\ l \in Levels
      BY <2>4, <3>2
    <3>4. sess'[s] = to /\ s \in DOMAIN sess'
      BY <2>1
    <3>5. to.box[l].status = "OPENED"
      BY <2>5, <3>2, <3>3
    <3>6. e.user \in Places(to.box[l].rows, n)
      BY <2>1, <3>2 DEF Places
    <3> HIDE DEF to, s
    <3> QED
      BY <2>10, <3>3, <3>4, <3>5, <3>6 DEF Rightful, Fixed, Sessions
  <2> QED
    BY <1>1, <1>3, <2>8, <2>11, PrizesStay
<1> QED
  BY <1>1, <1>4, <1>5, <1>6

LEMMA FillPrizes ==
  ASSUME ControlInv, BoxInv, PrizeInv, NEW r \in Reqs, Fill(r)
  PROVE  PrizeInv'
<1> DEFINE s == job[r].sess
           l == job[r].level
<1>1. /\ pc[r] = "fill" /\ s \in Sessions /\ l \in Levels /\ ledger' = ledger /\ bag' = bag
      /\ job'[r].sess = s /\ job'[r].level = l /\ job'[r].took = FillTook(r)
      /\ job'[r].full = (IF FillFull(r) THEN job[r].full \cup {l} ELSE job[r].full)
      /\ FilledBox(r) \in BoxType /\ SetBox(r, l, FilledBox(r))
      /\ FilledBox(r).status = IF FillFull(r) THEN "OPENED" ELSE "ACTIVE"
      /\ FilledBox(r).rows = MyBox(r).rows
  BY FillIs
<1>2. /\ TypeOK /\ r \in Procs /\ Frame(r) /\ pc'[r] = "count" /\ job[r].full \subseteq Levels
  BY <1>1, FillIs, FillControl, WorkerIs, Goes DEF Late, Working, PCs
<1>3. MyBox(r).rows = sess[s].box[l].rows /\ MyBox(r).prog = sess[s].box[l].prog
  BY <1>1, <1>2, MineIs
<1>4. /\ DOMAIN sess' = DOMAIN sess
      /\ \A x \in Sessions : x # s => sess'[x] = sess[x]
      /\ sess'[s].box[l] = FilledBox(r)
      /\ \A m \in Levels : m # l => sess'[s].box[m] = sess[s].box[m]
  BY <1>1, <1>2, SetBoxIs
<1>5. sess[s].box[l].status = "OPENED" => FillFull(r) /\ FillTook(r) = 0
  <2> SUFFICES ASSUME sess[s].box[l].status = "OPENED" PROVE FillFull(r) /\ FillTook(r) = 0
    OBVIOUS
  <2>1. sess[s].box[l].prog = Threshold[l] /\ Threshold[l] \in Nat
    BY <1>1, LevelsAre DEF BoxInv, SessOK, BoxOK
  <2>2. FillNeed(r) = 0
    BY <1>3, <2>1 DEF FillNeed
  <2>3. job[r].left \in Nat
    BY <1>1, WorkerIs DEF Late, Working
  <2> QED
    BY <2>2, <2>3 DEF FillFull, FillTook
<1>6. Steady(r)
  <2> SUFFICES ASSUME NEW x \in Sessions, NEW m \in Levels, Fixed(x, m)
               PROVE  Stays(x, m) /\ ~Counting(x, m)'
    BY DEF Steady
  <2>1. Stays(x, m)
    <3>1. CASE x = s /\ m = l
      BY <1>1, <1>3, <1>4, <1>5, <3>1 DEF Fixed, Stays, Sessions
    <3>2. CASE ~(x = s /\ m = l)
      <4>1. sess'[x].box[m] = sess[x].box[m]
        BY <1>4, <3>2
      <4> QED
        BY <1>4, <4>1 DEF Fixed, Stays, Sessions
    <3> QED
      BY <3>1, <3>2
  <2>2. ASSUME NEW z \in Reqs, pc'[z] = "count", job'[z].sess = x, job'[z].level = m, job'[z].took > 0
        PROVE  FALSE
    <3>1. CASE z = r
      <4>1. x = s /\ m = l /\ FillTook(r) > 0
        BY <1>1, <2>2, <3>1
      <4> QED
        BY <1>5, <4>1 DEF Fixed
    <3>2. CASE z # r
      <4>1. pc[z] = "count" /\ job[z] = job'[z]
        BY <1>2, <2>2, <3>2, ProcsAre DEF Frame
      <4> QED
        BY <2>2, <4>1 DEF Fixed, Counting, At
    <3> QED
      BY <3>1, <3>2
  <2> QED
    BY <2>1, <2>2 DEF Counting, At
<1>7. FullOK(r)'
  <2> SUFFICES ASSUME NEW m \in job'[r].full, m # l PROVE Fixed(s, m)'
    BY <1>1, <1>2 DEF FullOK, At
  <2>1. m \in job[r].full /\ m \in Levels
    BY <1>1, <1>2
  <2>2. Fixed(s, m)
    BY <1>1, <2>1 DEF PrizeInv, FullOK, At, Late, Working
  <2> QED
    BY <1>1, <1>6, <2>1, <2>2 DEF Steady, Stays, Fixed
<1> QED
  BY <1>1, <1>2, <1>6, <1>7, PrizesStay

LEMMA CountPrizes ==
  ASSUME ControlInv, BoxInv, PrizeInv, NEW r \in Reqs, Count(r)
  PROVE  PrizeInv'
<1> DEFINE s == job[r].sess
           l == job[r].level
<1>1. /\ pc[r] = "count" /\ ledger' = ledger /\ bag' = bag /\ job' = job
      /\ \/ l \in job[r].full /\ Go(r, "next")
         \/ l \notin job[r].full /\ Go(r, "refund")
      /\ \/ ~CountsRow(r) /\ sess' = sess
         \/ /\ CountsRow(r) /\ SetBox(r, l, CountedBox(r))
            /\ CountedBox(r) \in BoxType /\ CountedBox(r).status = MyBox(r).status
  BY CountIs
<1>2. /\ TypeOK /\ r \in Procs /\ s \in Sessions /\ l \in Levels /\ Frame(r)
      /\ MyBox(r) = sess[s].box[l] /\ job[r].full \subseteq Levels
  BY <1>1, CountBoxes, CountControl, WorkerIs DEF Late, Working, Typed
<1>3. pc'[r] \in {"next", "refund"}
  BY <1>1, <1>2, Goes DEF PCs
<1>4. CountsRow(r) => job[r].took > 0
  BY DEF CountsRow
<1>5. CountsRow(r) => /\ DOMAIN sess' = DOMAIN sess
                      /\ \A x \in Sessions : x # s => sess'[x] = sess[x]
                      /\ sess'[s].box[l] = CountedBox(r)
                      /\ \A m \in Levels : m # l => sess'[s].box[m] = sess[s].box[m]
  BY <1>1, <1>2, SetBoxIs
<1>6. Steady(r)
  <2> SUFFICES ASSUME NEW x \in Sessions, NEW m \in Levels, Fixed(x, m) PROVE Stays(x, m)
    BY <1>2, <1>3, SteadyIf
  <2>1. CASE ~CountsRow(r)
    BY <1>1, <2>1 DEF Fixed, Stays, Sessions
  <2>2. CASE CountsRow(r)
    <3>1. ~(x = s /\ m = l)
      BY <1>1, <1>4, <2>2 DEF Fixed, Counting, At
    <3>2. sess'[x].box[m] = sess[x].box[m] /\ x \in DOMAIN sess'
      BY <1>5, <2>2, <3>1 DEF Sessions
    <3> QED
      BY <3>2 DEF Fixed, Stays
  <2> QED
    BY <2>1, <2>2
<1>7. FullOK(r)'
  <2> SUFFICES ASSUME NEW m \in job[r].full PROVE Fixed(s, m)'
    BY <1>1 DEF FullOK
  <2>1. CASE m # l
    <3>1. Fixed(s, m) /\ m \in Levels
      BY <1>1, <1>2, <2>1 DEF PrizeInv, FullOK, Late, Working
    <3> QED
      BY <1>1, <1>2, <1>6, <3>1 DEF Steady, Stays, Fixed
  <2>2. CASE m = l
    <3>1. MyBox(r).status = "OPENED"
      BY <1>1, <1>2, <2>2 DEF BoxInv, Work, Mine
    <3>2. sess'[s].box[l].status = "OPENED"
      BY <1>1, <1>2, <1>5, <3>1
    <3>3. \A z \in Reqs : pc'[z] # "count"
      <4> SUFFICES ASSUME NEW z \in Reqs, pc'[z] = "count" PROVE FALSE
        OBVIOUS
      <4>1. z # r /\ pc[z] = "count"
        BY <1>2, <1>3, ProcsAre DEF Frame
      <4> QED
        BY <1>1, <1>2, <4>1, OneHolder, ProcsAre DEF Holds, Working
    <3> QED
      BY <1>1, <2>2, <3>2, <3>3 DEF Fixed, Counting, At
  <2> QED
    BY <2>1, <2>2
<1> QED
  BY <1>1, <1>2, <1>6, <1>7, PrizesStay

LEMMA NoBoxOpen ==
  ASSUME BoxInv, TypeOK, NEW s \in Sessions, sess[s].box[1] = NoBox, NEW l \in Levels
  PROVE  sess[s].box[l].status # "OPENED"
<1>1. SessOK(sess[s]) /\ sess[s].level = 1
  BY FirstBox DEF BoxInv
<1>2. l = 1 \/ l > 1
  BY LevelsAre DEF Levels
<1> QED
  BY <1>1, <1>2 DEF SessOK, BoxOK, NoBox

(* The other steps of a listener.                                          *)
LEMMA WorkerPrizes ==
  ASSUME ControlInv, BoxInv, PrizeInv, NEW r \in Reqs, Complete(r) \/ OpenNext(r) \/ Advance(r)
  PROVE  PrizeInv'
<1>1. TypeOK /\ r \in Procs
  BY ProcsAre DEF ControlInv, Typed
<1>2. CASE Complete(r)
  <2>1. /\ pc[r] = "next" /\ pc'[r] = "refund" /\ Frame(r) /\ ledger' = ledger /\ bag' = bag
        /\ job'[r].sess = job[r].sess /\ job'[r].full = job[r].full
        /\ sess' = Finish({job[r].sess}, "COMPLETED")
    BY <1>2, CompleteControl, Zenon DEF Complete, At, wallets
  <2>2. Steady(r)
    BY <1>1, <2>1, FinishSame, SameStays
  <2>3. FullOK(r)'
    BY <2>1, <2>2, SameFull DEF Late, Working
  <2> QED
    BY <1>1, <2>1, <2>2, <2>3, PrizesStay
<1>3. CASE Advance(r)
  <2>1. /\ pc[r] = "level" /\ pc'[r] \in {"fill", "refund"} /\ Frame(r) /\ ledger' = ledger /\ bag' = bag
        /\ job'[r].sess = job[r].sess /\ job'[r].full = job[r].full
        /\ DOMAIN sess' = DOMAIN sess /\ \A x \in Sessions : sess'[x].box = sess[x].box
    BY <1>3, AdvanceControl
  <2>2. Steady(r)
    <3>1. \A s \in Sessions, l \in Levels : Fixed(s, l) => Stays(s, l)
      BY <2>1 DEF Fixed, Stays, Sessions
    <3> QED
      BY <1>1, <2>1, <3>1, SteadyIf
  <2>3. FullOK(r)'
    BY <2>1, <2>2, SameFull DEF Late, Working
  <2> QED
    BY <1>1, <2>1, <2>2, <2>3, PrizesStay
<1>4. CASE OpenNext(r)
  <2> DEFINE s == job[r].sess
             l == job[r].level + 1
  <2>1. /\ pc[r] = "next" /\ Go(r, "level") /\ ledger' = ledger /\ bag' = bag /\ job' = job
        /\ l \in Levels /\ SetBox(r, l, OpenedBox(r)) /\ OpenedBox(r) \in BoxType
    BY <1>4, OpenNextIs
  <2>2. Frame(r) /\ s \in Sessions /\ pc'[r] = "level" /\ Work(r) /\ SessOK(sess[s]) /\ job[r].level \in Levels
    BY <1>1, <1>4, <2>1, OpenNextControl, WorkerIs, Goes DEF PCs, Late, Working, BoxInv
  <2>3. /\ DOMAIN sess' = DOMAIN sess
        /\ \A x \in Sessions : x # s => sess'[x] = sess[x]
        /\ \A m \in Levels : m # l => sess'[s].box[m] = sess[s].box[m]
    BY <1>1, <2>1, <2>2, SetBoxIs, SMTT(30)
  <2>4. sess[s].box[l].status # "OPENED"
    <3>1. l > sess[s].level
      BY <2>1, <2>2, LevelsAre DEF Work, Working
    <3> QED
      BY <2>1, <2>2, <3>1 DEF SessOK, BoxOK
  <2>5. \A x \in Sessions, m \in Levels : Fixed(x, m) => Stays(x, m)
    BY <2>3, <2>4 DEF Fixed, Stays, Sessions
  <2>6. Steady(r)
    BY <1>1, <2>2, <2>5, SteadyIf
  <2>7. FullOK(r)'
    BY <2>1, <2>6, SameFull DEF Late, Working
  <2> QED
    BY <1>1, <2>1, <2>2, <2>6, <2>7, PrizesStay
<1> QED
  BY <1>2, <1>3, <1>4

(* Outside the lock: the refund and the grants.                            *)
LEMMA LatePrizes ==
  ASSUME ControlInv, BoxInv, PrizeInv, NEW r \in Reqs, RefundRest(r) \/ Grant(r)
  PROVE  PrizeInv'
<1>1. TypeOK /\ r \in Procs
  BY ProcsAre DEF ControlInv, Typed
<1>2. CASE RefundRest(r)
  <2>1. /\ pc[r] = "refund" /\ bag' = bag /\ job' = job /\ sess' = sess /\ Go(r, "grant") /\ Frame(r)
        /\ ledger' = Posted({Entry("rest", <<job[r].sess, Txn(r)>>, Send(r).from, GOLD, job[r].back)})
    BY <1>2, RefundRestControl DEF RefundRest, At
  <2>2. pc'[r] = "grant"
    BY <1>1, <2>1, Goes DEF PCs
  <2>3. Steady(r)
    BY <1>1, <2>1, <2>2, SameSess, SameStays
  <2>4. \A e \in ledger' : e \in ledger \/ e.why # "box"
    BY <2>1, EntryIs DEF Posted
  <2>5. FullOK(r)'
    BY <2>1, <2>3, SameFull DEF Late
  <2> QED
    BY <1>1, <2>1, <2>3, <2>4, <2>5, PrizesStay
<1>3. CASE Grant(r)
  <2>1. /\ pc[r] = "grant" /\ End(r) /\ ledger' = ledger /\ sess' = sess /\ Frame(r)
        /\ \A x \in bag' : x \notin bag =>
              \E l \in job[r].full : /\ x.box = <<job[r].sess, l>>
                                     /\ x.user \in Places(sess[job[r].sess].box[l].rows, x.rank)
    BY <1>3, GrantIs, GrantControl
  <2>2. pc'[r] = "done"
    BY <1>1, <2>1, EndIs DEF ControlInv
  <2>3. Steady(r)
    BY <1>1, <2>1, <2>2, SameSess, SameStays
  <2>4. job[r].sess \in Sessions /\ job[r].full \subseteq Levels
    BY <2>1, WorkerIs DEF Late
  <2>5. \A x \in bag' : x \in bag \/ Deserved(x)'
    <3> SUFFICES ASSUME NEW x \in bag', x \notin bag PROVE Deserved(x)'
      OBVIOUS
    <3>1. PICK l \in job[r].full : /\ x.box = <<job[r].sess, l>>
                                   /\ x.user \in Places(sess[job[r].sess].box[l].rows, x.rank)
      BY <2>1
    <3>2. PICK t \in Sessions : t = job[r].sess
      BY <2>4
    <3>3. x.box[1] = t /\ x.box[2] = l /\ l \in Levels /\ x.user \in Places(sess[t].box[l].rows, x.rank)
      BY <2>4, <3>1, <3>2
    <3>4. Fixed(t, l)
      BY <2>1, <3>1, <3>2 DEF PrizeInv, FullOK, At, Late
    <3>5. Fixed(t, l)'
      BY <2>1, <2>3, <3>3, <3>4 DEF Steady, Fixed, Stays
    <3> QED
      BY <2>1, <3>3, <3>5 DEF Deserved, Sessions
  <2>6. FullOK(r)'
    BY <2>2 DEF FullOK, Late, Working
  <2> QED
    BY <1>1, <2>1, <2>3, <2>5, <2>6, PrizesStay
<1> QED
  BY <1>2, <1>3

(* A ladder is created, and its boxes.                                     *)
LEMMA MakePrizes ==
  ASSUME ControlInv, BoxInv, PrizeInv, NEW p \in Procs, Make(p) \/ Boxes(p)
  PROVE  PrizeInv'
<1>1. TypeOK
  BY DEF ControlInv, Typed
<1>2. CASE Make(p)
  <2>1. /\ pc'[p] = "boxes" /\ ledger' = ledger /\ bag' = bag /\ Frame(p)
        /\ DOMAIN sess' = 1 .. Len(sess) + 1 /\ Sessions = 1 .. Len(sess) /\ Len(sess) \in Nat
        /\ \A s \in Sessions : sess'[s] = sess[s]
    BY <1>1, <1>2, MakeIs, SessionsAre
  <2>2. \A s \in Sessions, l \in Levels : Fixed(s, l) => Stays(s, l)
    BY <2>1 DEF Fixed, Stays
  <2>3. Steady(p)
    BY <2>1, <2>2, SteadyIf
  <2>4. FullOK(p)'
    BY <2>1 DEF FullOK, Late, Working
  <2> QED
    BY <2>1, <2>3, <2>4, PrizesStay
<1>3. CASE Boxes(p)
  <2> DEFINE t == job[p].sess
  <2>1. /\ pc[p] = "boxes" /\ t \in Sessions /\ Frame(p) /\ ledger' = ledger /\ bag' = bag
        /\ DOMAIN sess' = DOMAIN sess
        /\ \/ sess' = sess /\ End(p)
           \/ /\ sess[t].box[1] = NoBox
              /\ \A s \in Sessions : s # t => sess'[s] = sess[s]
              /\ \/ p \in Reqs /\ pc'[p] = "fill" /\ job' = job
                 \/ End(p)
    BY <1>3, BoxesIs
  <2>2. pc'[p] = "done" \/ (p \in Reqs /\ pc'[p] = "fill" /\ job' = job)
    BY <2>1, EndIs DEF ControlInv
  <2>3. \A s \in Sessions, l \in Levels : Fixed(s, l) => Stays(s, l)
    <3>1. CASE sess' = sess
      BY <3>1 DEF Fixed, Stays, Sessions
    <3>2. CASE /\ sess[t].box[1] = NoBox
               /\ \A s \in Sessions : s # t => sess'[s] = sess[s]
      BY <1>1, <2>1, <3>2, NoBoxOpen DEF Fixed, Stays, Sessions
    <3> QED
      BY <2>1, <3>1, <3>2
  <2>4. Steady(p)
    BY <2>1, <2>2, <2>3, SteadyIf
  <2>5. p \in Reqs => FullOK(p)'
    <3>1. p \in Reqs => job[p].full = {}
      BY <2>1, ZenonT(40) DEF ControlInv, Hand, Blank
    <3> QED
      BY <2>2, <3>1 DEF FullOK, Late, Working
  <2> QED
    BY <2>1, <2>4, <2>5, PrizesStay
<1> QED
  BY <1>2, <1>3

LEMMA FeedPrizes ==
  ASSUME ControlInv, BoxInv, PrizeInv, NEW r \in Reqs, Feed(r)
  PROVE  PrizeInv'
<1>1. /\ TypeOK /\ Typed /\ r \in Procs /\ pc[r] = "feed" /\ ledger' = ledger /\ bag' = bag
      /\ sess' = sess /\ Frame(r)
  BY FeedControl, ProcsAre, Zenon DEF ControlInv, Typed, Feed, At, wallets
<1>2. pc'[r] \in {"done", "make", "fill"} /\ job'[r].full = {}
  <2>1. CASE End(r)
    BY <1>1, <2>1, EndIs DEF Blank
  <2>2. CASE ~End(r)
    <3>1. PICK w \in {"make", "fill"} : Go(r, w)
      BY <2>2, Zenon DEF Feed
    <3>2. \E x, l, a : Hold(r, [Blank EXCEPT !.sess = x, !.level = l, !.left = a])
                       \/ Hold(r, [Blank EXCEPT !.level = l, !.left = a])
      BY <2>2, Zenon DEF Feed
    <3>3. job'[r].full = {}
      <4>1. job \in [Procs -> JobType]
        BY <1>1 DEF Typed
      <4> QED
        BY <1>1, <3>2, <4>1 DEF Hold, Blank
    <3> QED
      BY <1>1, <3>1, <3>3, Goes DEF PCs
  <2> QED
    BY <2>1, <2>2
<1>3. Steady(r)
  BY <1>1, <1>2, SameSess, SameStays
<1>4. FullOK(r)'
  BY <1>2 DEF FullOK
<1> QED
  BY <1>1, <1>3, <1>4, PrizesStay

(* The first steps of a send, the managers, and deaths.                    *)
LEMMA RestPrizes ==
  ASSUME ControlInv, BoxInv, PrizeInv, NEW p \in Procs, Frame(p), ledger' = ledger, bag' = bag,
         pc'[p] \notin Late, \A s \in Sessions : SameBoxes(s)
  PROVE  PrizeInv'
<1>1. Steady(p)
  BY SameStays DEF Late, Working
<1>2. FullOK(p)'
  BY DEF FullOK
<1> QED
  BY <1>1, <1>2, PrizesStay

LEMMA NextPrizes == ControlInv /\ BoxInv /\ PrizeInv /\ [Next]_vars => PrizeInv'
<1> SUFFICES ASSUME ControlInv, BoxInv, PrizeInv, [Next]_vars PROVE PrizeInv'
  OBVIOUS
<1>0. TypeOK /\ Typed
  BY DEF ControlInv, Typed
<1>1. ASSUME NEW p \in Procs, Step(p) \/ Crash(p) PROVE PrizeInv'
  <2>0. Frame(p)
    BY <1>1, StepControl
  <2>1. CASE p \in Reqs /\ (Check(p) \/ Lock(p) \/ OpenSend(p) \/ Tell(p))
    <3>0. End(p) \/ Go(p, "lock") \/ Go(p, "open") \/ Go(p, "tell") \/ Go(p, "settle") \/ Go(p, "feed")
      BY <2>1, Zenon DEF Check, Lock, OpenSend, Tell
    <3>1. sess' = sess /\ pc'[p] \notin Late
      BY <1>0, <2>1, <3>0, QuietSteps, Goes, EndIs DEF Late, Working, PCs
    <3>2. ledger' = ledger /\ bag' = bag
      BY <2>1, Zenon DEF Check, Lock, OpenSend, Tell, wallets
    <3> QED
      BY <2>0, <3>1, <3>2, SameSess, RestPrizes
  <2>2. CASE p \in Reqs /\ (SettleSend(p) \/ Feed(p) \/ Fill(p) \/ Count(p))
    BY <2>2, SettlePrizes, FeedPrizes, FillPrizes, CountPrizes
  <2>3. CASE p \in Reqs /\ (Complete(p) \/ OpenNext(p) \/ Advance(p) \/ RefundRest(p) \/ Grant(p))
    BY <2>3, WorkerPrizes, LatePrizes
  <2>4. CASE Make(p) \/ Boxes(p)
    BY <2>4, MakePrizes
  <2>5. CASE p \in Mgrs /\ (Start(p) \/ Status(p) \/ Find(p) \/ Close(p) \/ Archive(p))
    <3>1. pc'[p] \notin Late
      BY <2>0, <2>5, ManagerStops
    <3>2. \/ sess' = sess
          \/ \E ss : \E st \in {"ACTIVE", "COMPLETED", "CANCELLED", "ARCHIVED"} : sess' = Finish(ss, st)
      BY <2>5, ManagerFinishes
    <3>3. ledger' = ledger /\ bag' = bag
      BY <2>5 DEF Start, Status, Find, Close, Archive, wallets
    <3>4. \A s \in Sessions : SameBoxes(s)
      BY <1>0, <3>2, SameSess, FinishSame
    <3> QED
      BY <2>0, <3>1, <3>3, <3>4, RestPrizes
  <2>6. CASE Crash(p)
    <3>1. sess' = sess /\ ledger' = ledger /\ bag' = bag /\ pc'[p] \notin Late
      BY <2>6, CrashControl DEF Crash, wallets, Late, Working
    <3> QED
      BY <2>0, <3>1, SameSess, RestPrizes
  <2> QED
    BY <1>1, <2>1, <2>2, <2>3, <2>4, <2>5, <2>6 DEF Step
<1>2. CASE Midnight \/ (\E k \in LockKeys : Expire(k)) \/ UNCHANGED vars
  <2>1. sess' = sess /\ pc' = pc /\ job' = job /\ ledger' = ledger /\ bag' = bag
    BY <1>2 DEF Midnight, Expire, vars, wallets
  <2> QED
    BY <2>1 DEF PrizeInv, Rightful, Deserved, FullOK, Fixed, Counting, At, Sessions
<1> QED
  BY <1>1, <1>2 DEF Next

(* In every state of a room each prize stands with the one who holds its   *)
(* rank in the rows that its box ended with.                               *)
THEOREM PrizesHold == Spec => []PrizesFollowRows
<1>1. Init => PrizeInv
  BY ProcsAre DEF Init, PrizeInv, FullOK, Late, Working
<1>2. PrizeInv => PrizesFollowRows
  BY DEF PrizeInv, PrizesFollowRows, Rightful, Deserved
<1> QED
  BY <1>1, <1>2, InitControl, NextControl, InitBoxes, NextBoxes, NextPrizes, PTL DEF Spec

-----------------------------------------------------------------------------
(* The days of the ladders of a locked room.                               *)
DaysOK ==
    /\ \A s, x \in Sessions : s < x => sess[s].day < sess[x].day
    /\ \A s \in Sessions : /\ sess[s].status \in {"ACTIVE", "COMPLETED"}
                           /\ sess[s].status = "ACTIVE" => s = Len(sess)
                           /\ sess[s].status = "COMPLETED" /\ sess[s].day = day => Full(s)
AllPast == \A s \in Sessions : sess[s].day < day
DayHand(p) ==
    /\ pc[p] = "make" => Active = {} /\ AllPast
    /\ pc[p] = "settle" =>
         /\ job[p].sess = -1 => Active \subseteq {job[p].old} /\ AllPast
         /\ job[p].old # 0 => sess[job[p].old].day < day
         /\ job[p].sess > 0 => job[p].sess \in Active
         /\ job[p].sess # -1 => job[p].old = 0
    /\ pc[p] \in {"boxes"} \cup Working => job[p].sess \in Active
    /\ pc[p] = "boxes" => sess[job[p].sess].box[1] = NoBox
DayInv == Locked => DaysOK /\ \A p \in Procs : DayHand(p)

LEMMA LockedHolds ==
  ASSUME ControlInv, Locked, NEW p \in Procs, pc[p] \in {"make", "boxes"} \cup Working
  PROVE  Holds(p)
<1>1. Hand(p) /\ (p \in Mgrs => scene.op[p] \in {"none", "start"})
  BY DEF ControlInv, Locked
<1>2. CASE p \in Mgrs
  BY <1>1, <1>2, ProcsAre DEF Hand, Holds, Working
<1>3. CASE p \notin Mgrs
  BY <1>3 DEF Holds
<1> QED
  BY <1>2, <1>3

(* While p works under the lock, or nobody does, the others' facts stay.   *)
LEMMA OthersDay ==
  ASSUME ControlInv, Locked, NEW p \in Procs, Frame(p), NEW q \in Procs, q # p, DayHand(q),
         day' = day, sess' = sess \/ ~Holds(q)
  PROVE  DayHand(q)'
<1>1. pc'[q] = pc[q] /\ job'[q] = job[q]
  BY DEF Frame
<1>2. CASE sess' = sess
  BY <1>1, <1>2 DEF DayHand, Active, AllPast, Sessions
<1>3. CASE ~Holds(q)
  <2>1. pc[q] \notin {"make", "boxes"} \cup Working
    BY <1>3, LockedHolds
  <2>2. CASE pc[q] # "settle"
    BY <1>1, <2>1, <2>2 DEF DayHand
  <2>3. CASE pc[q] = "settle"
    <3>1. ~Audio
      BY <1>3, <2>3 DEF Holds
    <3>2. job[q].sess = 0
      BY <2>3, <3>1, Zenon DEF ControlInv, Hand
    <3>3. job[q].old = 0
      BY <2>3, <3>2 DEF DayHand
    <3> QED
      BY <1>1, <2>3, <3>2, <3>3 DEF DayHand, Working
  <2> QED
    BY <2>2, <2>3
<1> QED
  BY <1>2, <1>3

LEMMA LockedStays ==
  ASSUME ControlInv, NEW p \in Procs, Frame(p)
  PROVE  Locked' = Locked
BY DEF Frame, Locked

LEMMA DayStep ==
  ASSUME ControlInv, DayInv, NEW p \in Procs, Frame(p), day' = day,
         Locked => /\ sess' = sess \/ \A q \in Procs : q # p => ~Holds(q)
                   /\ DaysOK' /\ DayHand(p)'
  PROVE  DayInv'
<1> SUFFICES ASSUME Locked' PROVE DaysOK' /\ \A q \in Procs : DayHand(q)'
  BY DEF DayInv
<1>1. Locked /\ DaysOK /\ \A q \in Procs : DayHand(q)
  BY LockedStays DEF DayInv
<1>2. ASSUME NEW q \in Procs, q # p PROVE DayHand(q)'
  BY <1>1, <1>2, OthersDay
<1> QED
  BY <1>1, <1>2

LEMMA SameDays ==
  ASSUME DaysOK, sess' = sess, day' = day
  PROVE  DaysOK'
BY DEF DaysOK, Full, Sessions

(* Steps that leave the sessions alone and have nothing of them in hand.   *)
LEMMA IdleDay ==
  ASSUME ControlInv, DayInv, NEW p \in Procs, Frame(p), sess' = sess, day' = day,
         pc'[p] \notin {"make", "settle", "boxes"} \cup Working
  PROVE  DayInv'
<1>1. DayHand(p)'
  BY DEF DayHand
<1> QED
  BY <1>1, DayStep, SameDays DEF DayInv

LEMMA HolderAlone ==
  ASSUME ControlInv, NEW p \in Procs, Holds(p)
  PROVE  \A q \in Procs : q # p => ~Holds(q)
BY OneHolder

(* No ladder of today, finished or active: all are past.                   *)
LEMMA AllArePast ==
  ASSUME TypeOK, DaysOK, ~CompletedToday, \A s \in Active : sess[s].day # day
  PROVE  AllPast
<1> SUFFICES ASSUME NEW s \in Sessions PROVE sess[s].day < day
  BY DEF AllPast
<1>1. sess[s].day \in 1 .. day /\ day \in Nat
  BY SessionsAre, GiftsAssumption DEF SessType, TypeOK, SceneType
<1>2. sess[s].day # day
  BY DEF DaysOK, CompletedToday, Active
<1> QED
  BY <1>1, <1>2

LEMMA OneActive ==
  ASSUME DaysOK, NEW s \in Active
  PROVE  Active = {s} /\ s = Len(sess) /\ s \in Sessions /\ sess[s].status = "ACTIVE"
BY DEF DaysOK, Active

LEMMA OpenSendDay ==
  ASSUME ControlInv, DayInv, NEW r \in Reqs, OpenSend(r)
  PROVE  DayInv'
<1>1. /\ TypeOK /\ Typed /\ r \in Procs /\ Frame(r) /\ sess' = sess /\ day' = day
  BY OpenSendControl, ProcsAre, Zenon DEF ControlInv, Typed, OpenSend
<1>2. CASE End(r) \/ Go(r, "tell")
  <2>1. pc'[r] \in {"done", "tell"}
    BY <1>1, <1>2, EndIs, Goes DEF PCs
  <2> QED
    BY <1>1, <2>1, IdleDay DEF Working
<1>3. ASSUME NEW s \in IF Audio /\ Active # {} THEN Active ELSE {0},
             LET today == s # 0 /\ sess[s].day = day
                 new == Audio /\ ~today /\ ~CompletedToday
             IN Hold(r, [Blank EXCEPT !.sess = IF today THEN s ELSE IF new THEN -1 ELSE 0,
                                      !.old = IF today THEN 0 ELSE s]),
             Go(r, "settle")
      PROVE  DayInv'
  <2> DEFINE today == s # 0 /\ sess[s].day = day
             new == Audio /\ ~today /\ ~CompletedToday
  <2>1. /\ job'[r].sess = (IF today THEN s ELSE IF new THEN -1 ELSE 0)
        /\ job'[r].old = (IF today THEN 0 ELSE s)
    BY <1>1, <1>3 DEF Hold, Blank, Typed
  <2>2. pc'[r] = "settle"
    BY <1>1, <1>3, Goes DEF PCs
  <2>3. Active' = Active
    BY <1>1 DEF Active, Sessions
  <2> SUFFICES ASSUME Locked PROVE DayHand(r)'
    BY <1>1, DayStep, SameDays DEF DayInv
  <2>4. DaysOK
    BY DEF DayInv
  <2>5. /\ Sessions \subseteq Nat /\ 0 \notin Sessions /\ Active \subseteq Sessions
        /\ \A x \in Sessions : sess[x].day \in Nat /\ sess[x].day <= day
        /\ day \in Nat
    <3>1. day \in Nat /\ \A x \in Sessions : sess[x] \in SessType
      BY <1>1, SessionsAre, GiftsAssumption DEF TypeOK, SceneType
    <3> QED
      BY <1>1, <3>1, SessionsAre DEF Active, SessType
  <2>6. s # 0 => s \in Active /\ Active = {s} /\ s = Len(sess)
    BY <1>3, <2>4, OneActive
  <2>7. Audio /\ s = 0 => Active = {}
    BY <1>3, <2>5
  <2>8. CASE today
    <3>1. job'[r].sess = s /\ job'[r].old = 0 /\ s \in Active /\ s \in Nat /\ s > 0
      BY <2>1, <2>5, <2>6, <2>8
    <3> HIDE DEF today, new
    <3> QED
      BY <2>2, <2>3, <3>1 DEF DayHand, Working
  <2>9. CASE ~today /\ new
    <3>1. job'[r].sess = -1 /\ job'[r].old = s
      BY <2>1, <2>9
    <3>2. Active \subseteq {s}
      BY <2>6, <2>7, <2>9
    <3>3. s # 0 => sess[s].day < day
      BY <2>5, <2>6, <2>9
    <3>4. AllPast
      <4>1. \A x \in Active : sess[x].day # day
        BY <2>5, <2>9, <3>2
      <4> QED
        BY <1>1, <2>4, <2>9, <4>1, AllArePast
    <3>5. AllPast'
      BY <1>1, <3>4 DEF AllPast, Sessions
    <3> HIDE DEF today, new
    <3> QED
      BY <1>1, <2>2, <2>3, <3>1, <3>2, <3>3, <3>5 DEF DayHand, Working
  <2>10. CASE ~today /\ ~new
    <3>1. job'[r].sess = 0 /\ job'[r].old = s
      BY <2>1, <2>10
    <3>2. s = 0
      <4> SUFFICES ASSUME s # 0 PROVE FALSE
        OBVIOUS
      <4>1. Audio /\ s \in Active /\ s \in Sessions /\ s = Len(sess)
        BY <1>3, <2>5, <2>6
      <4>2. PICK x \in Sessions : sess[x].status = "COMPLETED" /\ sess[x].day = day
        BY <2>10, <4>1 DEF CompletedToday
      <4>3. sess[s].status = "ACTIVE"
        BY <4>1 DEF Active
      <4>4. x < s
        <5>1. x # s /\ Sessions = 1 .. Len(sess) /\ Len(sess) \in Nat
          BY <1>1, <4>2, <4>3, SessionsAre
        <5> QED
          BY <4>1, <4>2, <5>1
      <4>5. sess[x].day < sess[s].day
        BY <2>4, <4>1, <4>4 DEF DaysOK
      <4> QED
        BY <2>5, <4>1, <4>2, <4>5
    <3> HIDE DEF today, new
    <3> QED
      BY <2>2, <3>1, <3>2 DEF DayHand, Working
  <2> QED
    BY <2>8, <2>9, <2>10
<1> QED
  BY <1>2, <1>3, Zenon DEF OpenSend

LEMMA FewerActive ==
  ASSUME DaysOK, day' = day, DOMAIN sess' = DOMAIN sess, Len(sess') = Len(sess),
         \A x \in Sessions : /\ sess'[x].day = sess[x].day
                             /\ sess'[x].status \in {sess[x].status, "COMPLETED"}
                             /\ sess'[x].status = "COMPLETED" /\ sess[x].day = day =>
                                  sess'[x].box[BoxCount].status = "OPENED"
  PROVE  DaysOK'
<1>1. \A x \in Sessions : /\ sess'[x].status \in {"ACTIVE", "COMPLETED"}
                          /\ sess'[x].status = "ACTIVE" => sess[x].status = "ACTIVE"
  BY DEF DaysOK
<1>2. Sessions' = Sessions
  BY DEF Sessions
<1>3. \A s, x \in Sessions : s < x => sess'[s].day < sess'[x].day
  BY DEF DaysOK
<1>4. ASSUME NEW s \in Sessions
      PROVE  /\ sess'[s].status \in {"ACTIVE", "COMPLETED"}
             /\ sess'[s].status = "ACTIVE" => s = Len(sess')
             /\ sess'[s].status = "COMPLETED" /\ sess'[s].day = day' => Full(s)'
  BY <1>1 DEF DaysOK, Full
<1> QED
  BY <1>2, <1>3, <1>4 DEF DaysOK

LEMMA LastLevel == BoxCount \in Levels
BY LevelsAre DEF Levels

(* Writes to boxes of the ladder in hand.                                  *)
LEMMA BoxDays ==
  ASSUME TypeOK, DaysOK, NEW t \in Active, day' = day, DOMAIN sess' = DOMAIN sess, Len(sess') = Len(sess),
         \A x \in Sessions : /\ sess'[x].day = sess[x].day /\ sess'[x].status = sess[x].status
                             /\ x # t => sess'[x].box = sess[x].box
  PROVE  DaysOK' /\ Active' = Active
<1>1. Active' = Active
  BY DEF Active, Sessions
<1>2. sess[t].status = "ACTIVE"
  BY DEF Active
<1>3. ASSUME NEW x \in Sessions
      PROVE  /\ sess'[x].day = sess[x].day
             /\ sess'[x].status \in {sess[x].status, "COMPLETED"}
             /\ sess'[x].status = "COMPLETED" /\ sess[x].day = day =>
                  sess'[x].box[BoxCount].status = "OPENED"
  BY <1>2 DEF DaysOK, Full
<1> QED
  BY <1>1, <1>3, FewerActive

LEMMA FeedDay ==
  ASSUME ControlInv, DayInv, NEW r \in Reqs, Feed(r)
  PROVE  DayInv'
<1>1. /\ TypeOK /\ Typed /\ r \in Procs /\ Frame(r) /\ sess' = sess /\ day' = day
  BY FeedControl, ProcsAre, Zenon DEF ControlInv, Typed, Feed
<1>2. Active' = Active
  BY <1>1 DEF Active, Sessions
<1>3. CASE End(r)
  <2>1. pc'[r] = "done"
    BY <1>1, <1>3, EndIs
  <2> QED
    BY <1>1, <2>1, IdleDay DEF Working
<1>4. CASE /\ ~CompletedToday /\ Active = {} /\ Go(r, "make")
  <2>1. pc'[r] = "make"
    BY <1>1, <1>4, Goes DEF PCs
  <2>2. Locked => AllPast'
    <3>1. Locked => AllPast
      BY <1>1, <1>4, AllArePast DEF DayInv
    <3> QED
      BY <1>1, <3>1 DEF AllPast, Sessions
  <2>3. Locked => DayHand(r)'
    BY <1>2, <1>4, <2>1, <2>2 DEF DayHand, Working
  <2> QED
    BY <1>1, <2>3, DayStep, SameDays DEF DayInv
<1>5. ASSUME NEW s \in Active, Go(r, "fill"),
             Hold(r, [Blank EXCEPT !.sess = s, !.level = sess[s].level, !.left = Send(r).amt])
      PROVE  DayInv'
  <2>1. pc'[r] = "fill" /\ job'[r].sess = s
    BY <1>1, <1>5, Goes DEF PCs, Hold, Blank, Typed
  <2>2. DayHand(r)'
    BY <1>2, <2>1 DEF DayHand, Working
  <2> QED
    BY <1>1, <2>2, DayStep, SameDays DEF DayInv
<1> QED
  BY <1>3, <1>4, <1>5, Zenon DEF Feed

(* What a listener writes.                                                 *)
LEMMA WorkerDay ==
  ASSUME ControlInv, BoxInv, DayInv, NEW r \in Reqs, pc[r] \in Working, Frame(r), day' = day,
         pc'[r] \in Late, pc'[r] \in Working => job'[r].sess = job[r].sess,
         DOMAIN sess' = DOMAIN sess, Len(sess') = Len(sess),
         \A x \in Sessions : /\ sess'[x].day = sess[x].day /\ sess'[x].status = sess[x].status
                             /\ x # job[r].sess => sess'[x].box = sess[x].box
  PROVE  DayInv'
<1>1. TypeOK /\ r \in Procs /\ Holds(r)
  BY ProcsAre DEF ControlInv, Typed, Holds
<1> SUFFICES ASSUME Locked PROVE DaysOK' /\ DayHand(r)'
  BY <1>1, HolderAlone, DayStep
<1>2. DaysOK /\ job[r].sess \in Active
  BY <1>1 DEF DayInv, DayHand
<1>3. DaysOK' /\ Active' = Active
  BY <1>1, <1>2, BoxDays
<1>4. DayHand(r)'
  BY <1>2, <1>3 DEF DayHand, Late, Working
<1> QED
  BY <1>3, <1>4

LEMMA WriteBoxDay ==
  ASSUME ControlInv, BoxInv, DayInv, NEW r \in Reqs, Fill(r) \/ Count(r) \/ OpenNext(r) \/ Advance(r)
  PROVE  DayInv'
<1>1. TypeOK /\ r \in Procs
  BY ProcsAre DEF ControlInv, Typed
<1>2. ASSUME NEW l \in Levels, NEW b \in BoxType, SetBox(r, l, b), job[r].sess \in Sessions
      PROVE  /\ DOMAIN sess' = DOMAIN sess /\ Len(sess') = Len(sess)
             /\ \A x \in Sessions : /\ sess'[x].day = sess[x].day /\ sess'[x].status = sess[x].status
                                    /\ x # job[r].sess => sess'[x].box = sess[x].box
  BY <1>1, <1>2, SetBoxIs
<1>3. pc[r] \in Working => job[r].sess \in Sessions /\ job[r].level \in Levels
  BY WorkerIs DEF Late
<1>4. CASE Fill(r)
  <2>1. /\ pc[r] = "fill" /\ Go(r, "count") /\ day' = day /\ job'[r].sess = job[r].sess /\ Frame(r)
        /\ job[r].level \in Levels /\ FilledBox(r) \in BoxType /\ SetBox(r, job[r].level, FilledBox(r))
    BY <1>4, FillIs, FillControl
  <2>2. pc'[r] = "count"
    BY <1>1, <2>1, Goes DEF PCs
  <2>3. /\ DOMAIN sess' = DOMAIN sess /\ Len(sess') = Len(sess)
        /\ \A x \in Sessions : /\ sess'[x].day = sess[x].day /\ sess'[x].status = sess[x].status
                               /\ x # job[r].sess => sess'[x].box = sess[x].box
    BY <1>2, <1>3, <2>1 DEF Working
  <2> QED
    BY <2>1, <2>2, <2>3, WorkerDay DEF Working, Late
<1>5. CASE Count(r)
  <2>1. /\ pc[r] = "count" /\ day' = day /\ job' = job /\ Frame(r)
        /\ Go(r, "next") \/ Go(r, "refund")
        /\ sess' = sess \/ (SetBox(r, job[r].level, CountedBox(r)) /\ CountedBox(r) \in BoxType)
    BY <1>5, CountIs, CountControl
  <2>2. pc'[r] \in {"next", "refund"}
    BY <1>1, <2>1, Goes DEF PCs
  <2>3. /\ DOMAIN sess' = DOMAIN sess /\ Len(sess') = Len(sess)
        /\ \A x \in Sessions : /\ sess'[x].day = sess[x].day /\ sess'[x].status = sess[x].status
                               /\ x # job[r].sess => sess'[x].box = sess[x].box
    BY <1>2, <1>3, <2>1 DEF Working
  <2> QED
    BY <2>1, <2>2, <2>3, WorkerDay DEF Working, Late
<1>6. CASE OpenNext(r)
  <2>1. /\ pc[r] = "next" /\ Go(r, "level") /\ day' = day /\ job' = job /\ Frame(r)
        /\ job[r].level + 1 \in Levels /\ OpenedBox(r) \in BoxType
        /\ SetBox(r, job[r].level + 1, OpenedBox(r))
    BY <1>6, OpenNextIs, OpenNextControl
  <2>2. pc'[r] = "level"
    BY <1>1, <2>1, Goes DEF PCs
  <2>3. /\ DOMAIN sess' = DOMAIN sess /\ Len(sess') = Len(sess)
        /\ \A x \in Sessions : /\ sess'[x].day = sess[x].day /\ sess'[x].status = sess[x].status
                               /\ x # job[r].sess => sess'[x].box = sess[x].box
    BY <1>2, <1>3, <2>1 DEF Working
  <2> QED
    BY <2>1, <2>2, <2>3, WorkerDay DEF Working, Late
<1>7. CASE Advance(r)
  <2>1. /\ pc[r] = "level" /\ pc'[r] \in {"fill", "refund"} /\ day' = day /\ Frame(r)
        /\ job'[r].sess = job[r].sess /\ DOMAIN sess' = DOMAIN sess /\ Len(sess') = Len(sess)
        /\ \A x \in Sessions : /\ sess'[x].day = sess[x].day /\ sess'[x].status = sess[x].status
                               /\ sess'[x].box = sess[x].box
    BY <1>7, AdvanceControl
  <2> QED
    BY <2>1, WorkerDay DEF Working, Late
<1> QED
  BY <1>4, <1>5, <1>6, <1>7

LEMMA CompleteDay ==
  ASSUME ControlInv, BoxInv, DayInv, NEW r \in Reqs, Complete(r)
  PROVE  DayInv'
<1>1. /\ pc[r] = "next" /\ pc'[r] = "refund" /\ Frame(r) /\ day' = day
      /\ sess' = Finish({job[r].sess}, "COMPLETED") /\ job[r].level = BoxCount
      /\ TypeOK /\ r \in Procs /\ job[r].sess \in Sessions
  BY CompleteControl, WorkerIs, ProcsAre, Zenon DEF Complete, At, Late, Working
<1>2. Holds(r)
  BY <1>1 DEF Holds, Working
<1> SUFFICES ASSUME Locked PROVE DaysOK' /\ DayHand(r)'
  BY <1>1, <1>2, HolderAlone, DayStep
<1>3. /\ DOMAIN sess' = DOMAIN sess /\ Len(sess') = Len(sess)
      /\ \A x \in Sessions : /\ sess'[x].day = sess[x].day /\ sess'[x].box = sess[x].box
                             /\ sess'[x].status = IF x = job[r].sess THEN "COMPLETED" ELSE sess[x].status
  BY <1>1, FinishIs
<1>4. sess[job[r].sess].box[BoxCount].status = "OPENED"
  BY <1>1 DEF BoxInv, Work, Mine
<1>5. DaysOK
  BY DEF DayInv
<1>6. ASSUME NEW x \in Sessions
      PROVE  /\ sess'[x].day = sess[x].day
             /\ sess'[x].status \in {sess[x].status, "COMPLETED"}
             /\ sess'[x].status = "COMPLETED" /\ sess[x].day = day =>
                  sess'[x].box[BoxCount].status = "OPENED"
  BY <1>3, <1>4, <1>5 DEF DaysOK, Full
<1>7. DaysOK'
  BY <1>1, <1>3, <1>5, <1>6, FewerActive
<1>8. DayHand(r)'
  BY <1>1 DEF DayHand, Working
<1> QED
  BY <1>7, <1>8

LEMMA MakeDay ==
  ASSUME ControlInv, BoxInv, DayInv, NEW p \in Procs, Make(p) \/ Boxes(p)
  PROVE  DayInv'
<1>1. TypeOK /\ Sessions = 1 .. Len(sess) /\ Len(sess) \in Nat /\ 1 \in Levels
  BY SessionsAre, LevelsAre DEF ControlInv, Typed, Levels
<1>2. CASE Make(p)
  <2> DEFINE n == Len(sess) + 1
  <2>1. /\ pc[p] = "make" /\ pc'[p] = "boxes" /\ Frame(p) /\ day' = day /\ job'[p].sess = n
        /\ Len(sess') = n /\ DOMAIN sess' = 1 .. n
        /\ sess'[n] = Bare /\ \A s \in Sessions : sess'[s] = sess[s]
    BY <1>2, MakeIs
  <2> SUFFICES ASSUME Locked PROVE DaysOK' /\ DayHand(p)'
    BY <2>1, LockedHolds, HolderAlone, DayStep
  <2>2. DaysOK /\ Active = {} /\ AllPast
    BY <2>1 DEF DayInv, DayHand
  <2>3. /\ Bare.day = day /\ Bare.status = "ACTIVE" /\ Bare.box[1] = NoBox
    BY <1>1, BareOK
  <2>4. n \in Nat /\ n \in DOMAIN sess' /\ \A s \in DOMAIN sess' : s = n \/ (s \in Sessions /\ s < n)
    BY <1>1, <2>1
  <2>5. \A s \in Sessions : sess[s].status = "COMPLETED"
    BY <2>2 DEF DaysOK, Active
  <2>6. \A s, x \in DOMAIN sess' : s < x => sess'[s].day < sess'[x].day
    <3> SUFFICES ASSUME NEW s \in DOMAIN sess', NEW x \in DOMAIN sess', s < x
                 PROVE  sess'[s].day < sess'[x].day
      OBVIOUS
    <3>1. s \in Sessions
      BY <1>1, <2>1, <2>4
    <3>2. CASE x \in Sessions
      BY <2>1, <2>2, <3>1, <3>2 DEF DaysOK
    <3>3. CASE x = n
      BY <2>1, <2>2, <2>3, <3>1, <3>3 DEF AllPast
    <3> QED
      BY <2>4, <3>2, <3>3
  <2>7. ASSUME NEW s \in DOMAIN sess'
        PROVE  /\ sess'[s].status \in {"ACTIVE", "COMPLETED"}
               /\ sess'[s].status = "ACTIVE" => s = n
               /\ ~(sess'[s].status = "COMPLETED" /\ sess'[s].day = day)
    <3>1. CASE s = n
      BY <2>1, <2>3, <3>1
    <3>2. CASE s \in Sessions
      <4>1. sess[s].day < day
        BY <2>2, <3>2 DEF AllPast
      <4>2. sess[s].day \in Nat /\ day \in Nat
        BY <1>1, <3>2, SessionsAre, GiftsAssumption DEF TypeOK, SceneType, SessType
      <4> QED
        BY <2>1, <2>5, <3>2, <4>1, <4>2
    <3> QED
      BY <2>4, <3>1, <3>2
  <2>8. DaysOK'
    BY <2>1, <2>6, <2>7 DEF DaysOK, Sessions
  <2>9. DayHand(p)'
    BY <2>1, <2>3, <2>4 DEF DayHand, Working, Active, Sessions
  <2> QED
    BY <2>8, <2>9
<1>3. CASE Boxes(p)
  <2> DEFINE t == job[p].sess
  <2>1. /\ pc[p] = "boxes" /\ Frame(p) /\ day' = day /\ DOMAIN sess' = DOMAIN sess /\ Len(sess') = Len(sess)
        /\ \/ sess[t].box[1] # NoBox
           \/ /\ \A s \in Sessions : /\ s # t => sess'[s] = sess[s]
                                     /\ sess'[s].day = sess[s].day
                                     /\ sess'[s].status = sess[s].status
              /\ \/ pc'[p] = "fill" /\ job' = job
                 \/ End(p)
    BY <1>3, BoxesIs
  <2> SUFFICES ASSUME Locked PROVE DaysOK' /\ DayHand(p)'
    BY <2>1, LockedHolds, HolderAlone, DayStep
  <2>2. DaysOK /\ t \in Active /\ sess[t].box[1] = NoBox
    BY <2>1 DEF DayInv, DayHand
  <2>3. DaysOK' /\ Active' = Active
    BY <1>1, <2>1, <2>2, BoxDays
  <2>4. (pc'[p] = "fill" /\ job' = job) \/ pc'[p] = "done"
    BY <2>1, <2>2, EndIs DEF ControlInv
  <2>5. DayHand(p)'
    BY <2>2, <2>3, <2>4 DEF DayHand, Working
  <2> QED
    BY <2>3, <2>5
<1> QED
  BY <1>2, <1>3

LEMMA StartDay ==
  ASSUME ControlInv, DayInv, NEW p \in Mgrs, Start(p)
  PROVE  DayInv'
<1>1. /\ Frame(p) /\ TypeOK /\ Typed /\ day' = day /\ p \in Procs
      /\ \/ End(p) /\ sess' = sess
         \/ /\ lock["room"] = None
            /\ \E s \in (IF Active = {} THEN {0} ELSE Active) :
                 \/ End(p) /\ sess' = Finish({x \in {s} \ {0} : sess[x].day # day}, "COMPLETED")
                 \/ /\ ~CompletedToday /\ ~(s # 0 /\ sess[s].day = day)
                    /\ sess' = Finish({s} \ {0}, "COMPLETED")
                    /\ pc'[p] = "make"
  BY StartControl, ProcsAre DEF ControlInv, Typed
<1>2. CASE End(p) /\ sess' = sess
  <2>1. pc'[p] = "done"
    BY <1>1, <1>2, EndIs
  <2> QED
    BY <1>1, <1>2, <2>1, IdleDay DEF Working
<1>3. ASSUME lock["room"] = None, NEW s \in (IF Active = {} THEN {0} ELSE Active), NEW ss,
             sess' = Finish(ss, "COMPLETED"), \A x \in ss : x = s /\ s # 0 /\ sess[s].day # day,
             \/ pc'[p] = "done"
             \/ pc'[p] = "make" /\ ~CompletedToday /\ ~(s # 0 /\ sess[s].day = day) /\ ss = {s} \ {0}
      PROVE  DayInv'
  <2>1. \A q \in Procs : ~Holds(q)
    BY <1>3, ProcsAre, Zenon DEF ControlInv, Hand
  <2> SUFFICES ASSUME Locked PROVE DaysOK' /\ DayHand(p)'
    BY <1>1, <2>1, DayStep
  <2>2. DaysOK
    BY DEF DayInv
  <2>3. /\ DOMAIN sess' = DOMAIN sess /\ Len(sess') = Len(sess)
        /\ \A x \in Sessions : /\ sess'[x].day = sess[x].day /\ sess'[x].box = sess[x].box
                               /\ sess'[x].status = IF x \in ss THEN "COMPLETED" ELSE sess[x].status
    BY <1>1, <1>3, FinishIs
  <2>4. ASSUME NEW x \in Sessions
        PROVE  /\ sess'[x].day = sess[x].day
               /\ sess'[x].status \in {sess[x].status, "COMPLETED"}
               /\ sess'[x].status = "COMPLETED" /\ sess[x].day = day =>
                    sess'[x].box[BoxCount].status = "OPENED"
    BY <1>3, <2>2, <2>3 DEF DaysOK, Full
  <2>5. DaysOK'
    BY <1>1, <2>2, <2>3, <2>4, FewerActive
  <2>6. CASE pc'[p] = "done"
    BY <2>5, <2>6 DEF DayHand, Working
  <2>7. CASE pc'[p] = "make" /\ ~CompletedToday /\ ~(s # 0 /\ sess[s].day = day) /\ ss = {s} \ {0}
    <3>0. 0 \notin Sessions /\ Active \subseteq Sessions
      BY <1>1, SessionsAre DEF Active
    <3>1. \A x \in Active : x = s /\ x # 0
      BY <1>3, <2>2, <3>0, OneActive
    <3>2. AllPast
      BY <1>1, <2>2, <2>7, <3>1, AllArePast
    <3>3. AllPast'
      BY <1>1, <2>3, <3>2 DEF AllPast, Sessions
    <3>4. Active' = {}
      <4> SUFFICES ASSUME NEW x \in Sessions, sess'[x].status = "ACTIVE" PROVE FALSE
        BY <2>3 DEF Active, Sessions
      <4>1. x \notin ss /\ x \in Active
        BY <2>3 DEF Active
      <4> QED
        BY <2>7, <3>1, <4>1
    <3>5. DayHand(p)'
      BY <2>7, <3>3, <3>4 DEF DayHand, Working
    <3> QED
      BY <2>5, <3>5
  <2> QED
    BY <1>3, <2>6, <2>7
<1>4. ASSUME lock["room"] = None, NEW s \in (IF Active = {} THEN {0} ELSE Active),
             End(p), sess' = Finish({x \in {s} \ {0} : sess[x].day # day}, "COMPLETED")
      PROVE  DayInv'
  <2>1. pc'[p] = "done"
    BY <1>1, <1>4, EndIs
  <2>2. \A x \in {x \in {s} \ {0} : sess[x].day # day} : x = s /\ s # 0 /\ sess[s].day # day
    OBVIOUS
  <2> QED
    BY <1>3, <1>4, <2>1, <2>2
<1>5. ASSUME lock["room"] = None, NEW s \in (IF Active = {} THEN {0} ELSE Active),
             ~CompletedToday, ~(s # 0 /\ sess[s].day = day),
             sess' = Finish({s} \ {0}, "COMPLETED"), pc'[p] = "make"
      PROVE  DayInv'
  <2>1. \A x \in {s} \ {0} : x = s /\ s # 0 /\ sess[s].day # day
    BY <1>5
  <2> QED
    BY <1>3, <1>5, <2>1
<1> QED
  BY <1>1, <1>2, <1>4, <1>5

LEMMA SettleDay ==
  ASSUME ControlInv, BoxInv, DayInv, NEW r \in Reqs, SettleSend(r)
  PROVE  DayInv'
<1>1. /\ pc[r] = "settle" /\ Frame(r) /\ TypeOK /\ Typed /\ r \in Procs /\ Hand(r) /\ day' = day
      /\ PutNowhere(r) \/ PutFails(r) \/ \E last \in 0 .. BoxCount : \E q : PutInto(r, last, q)
      /\ Len(sess) \in Nat /\ Sessions = 1 .. Len(sess)
      /\ DOMAIN Base(r) = 1 .. Len(Base(r))
      /\ Len(Base(r)) = IF job[r].sess = -1 THEN Len(sess) + 1 ELSE Len(sess)
      /\ \A x \in Sessions : /\ Base(r)[x].day = sess[x].day /\ Base(r)[x].box = sess[x].box
                             /\ Base(r)[x].status = IF x = job[r].old THEN "COMPLETED" ELSE sess[x].status
      /\ job[r].sess = -1 => Into(r) = Len(sess) + 1 /\ Base(r)[Into(r)] = Laid(Bare)
      /\ job[r].sess # -1 => Into(r) = job[r].sess /\ DOMAIN Base(r) = Sessions
      /\ Into(r) # 0 => Into(r) \in DOMAIN Base(r) /\ Base(r)[Into(r)] \in SessType
      /\ Base(r) \in Seq(SessType)
  BY SettleCases, SettleControl, ProcsAre, SessionsAre, BaseIs DEF ControlInv, Typed
<1>2. pc'[r] \in {"tell", "done"}
  BY <1>1 DEF PutNowhere, PutFails, PutInto
<1>3. DayHand(r)'
  BY <1>2 DEF DayHand, Working
<1>4. CASE PutFails(r)
  <2>1. sess' = sess
    BY <1>4 DEF PutFails
  <2> QED
    BY <1>1, <1>2, <2>1, IdleDay DEF Working
<1>5. CASE PutNowhere(r)
  <2>0. 0 \notin Sessions /\ job[r].sess = 0
    BY <1>1, <1>5 DEF PutNowhere
  <2>1. Locked => job[r].old = 0 /\ DaysOK
    BY <1>1, <2>0 DEF DayInv, DayHand
  <2>2. Locked => sess' = sess
    <3> SUFFICES ASSUME Locked PROVE sess' = sess
      OBVIOUS
    <3>1. sess' = Finish({job[r].old} \ {0}, "COMPLETED")
      BY <1>5, <2>0 DEF PutNowhere, Base, Kept
    <3>2. {job[r].old} \ {0} = {}
      BY <2>1
    <3>3. sess' = [s \in Sessions |-> sess[s]]
      BY <3>1, <3>2 DEF Finish
    <3>4. sess = [s \in 1 .. Len(sess) |-> sess[s]]
      BY <1>1 DEF TypeOK
    <3> QED
      BY <1>1, <3>3, <3>4, Zenon
  <2>3. Locked => DaysOK'
    BY <1>1, <2>1, <2>2, SameDays
  <2> QED
    BY <1>1, <1>3, <2>2, <2>3, DayStep
<1>6. ASSUME NEW last \in 0 .. BoxCount, NEW q, PutInto(r, last, q) PROVE DayInv'
  <2> DEFINE s == Into(r)
             se == Base(r)[s]
             to == Pour(se, Send(r).from, Amt(r), r, last)
             full == Filled(se, Amt(r), last)
  <2>1. s # 0 /\ s \in DOMAIN Base(r) /\ se \in SessType /\ sess' = [Base(r) EXCEPT ![s] = to]
    BY <1>1, <1>6 DEF PutInto
  <2>2. Send(r).from \in Users /\ Amt(r) \in Nat
    BY <1>1, SendIs DEF Amt
  <2>3. Holds(r)
    <3>1. Audio
      BY <1>1, <2>1 DEF Hand
    <3> QED
      BY <1>1, <3>1 DEF Holds
  <2> SUFFICES ASSUME Locked PROVE DaysOK'
    BY <1>1, <1>3, <2>3, HolderAlone, DayStep
  <2>4. DaysOK /\ DayHand(r)
    BY <1>1 DEF DayInv
  <2>5. /\ to.day = se.day
        /\ to.status = IF BoxCount \in full THEN "COMPLETED" ELSE se.status
        /\ BoxCount \in full => to.box[BoxCount].status = "OPENED"
    <3> HIDE DEF se
    <3> QED
      BY <1>1, <2>1, <2>2, PourTyped, LastLevel
  <2>6. /\ DOMAIN sess' = DOMAIN Base(r) /\ Len(sess') = Len(Base(r)) /\ sess'[s] = to
        /\ \A x \in DOMAIN Base(r) : x # s => sess'[x] = Base(r)[x]
    <3>1. to \in SessType
      <4> HIDE DEF se
      <4> QED
        BY <1>1, <2>1, <2>2, PourTyped
    <3> HIDE DEF to
    <3> QED
      BY <1>1, <2>1, <3>1
  <2>7. job[r].old # 0 => sess[job[r].old].day < day
    BY <1>1, <2>4 DEF DayHand
  <2>8. CASE job[r].sess # -1
    <3>1. /\ job[r].sess \in Active /\ job[r].old = 0 /\ s = job[r].sess /\ 0 \notin Sessions
          /\ s \in Sessions /\ sess[s].status = "ACTIVE"
      <4>1. s = job[r].sess /\ DOMAIN Base(r) = Sessions
        BY <1>1, <2>8
      <4>2. job[r].sess > 0
        BY <1>1, <2>1, <4>1
      <4> QED
        BY <1>1, <2>1, <2>4, <2>8, <4>1, <4>2 DEF DayHand, Active
    <3>2. se.day = sess[s].day /\ se.status = "ACTIVE"
      BY <1>1, <3>1
    <3>3. ASSUME NEW x \in Sessions
          PROVE  /\ sess'[x].day = sess[x].day
                 /\ sess'[x].status \in {sess[x].status, "COMPLETED"}
                 /\ sess'[x].status = "COMPLETED" /\ sess[x].day = day =>
                      sess'[x].box[BoxCount].status = "OPENED"
      <4>1. CASE x = s
        <5>1. sess'[x] = to
          BY <2>6, <4>1
        <5> HIDE DEF se, to, full
        <5> QED
          BY <2>5, <3>1, <3>2, <4>1, <5>1
      <4>2. CASE x # s
        <5>1. /\ sess'[x].day = sess[x].day /\ sess'[x].status = sess[x].status
              /\ sess'[x].box = sess[x].box
          BY <1>1, <2>6, <2>8, <3>1, <4>2
        <5> QED
          BY <2>4, <5>1 DEF DaysOK, Full
      <4> QED
        BY <4>1, <4>2
    <3>4. DOMAIN sess' = DOMAIN sess /\ Len(sess') = Len(sess)
      BY <1>1, <2>6, <2>8 DEF Sessions
    <3> HIDE DEF se, to, full, s
    <3> QED
      BY <1>1, <2>4, <3>3, <3>4, FewerActive, Zenon
  <2>9. CASE job[r].sess = -1
    <3>1. /\ s = Len(sess) + 1 /\ se = Laid(Bare) /\ DOMAIN sess' = 1 .. Len(sess) + 1
          /\ Len(sess') = Len(sess) + 1
          /\ Active \subseteq {job[r].old} /\ AllPast
      BY <1>1, <2>4, <2>6, <2>9 DEF DayHand
    <3>2. se.day = day /\ se.status = "ACTIVE"
      BY <1>1, <3>1, BareOK
    <3>3. ASSUME NEW x \in Sessions
          PROVE  /\ sess'[x].day = sess[x].day /\ sess'[x].status = "COMPLETED"
                 /\ sess[x].day < day /\ sess[x].day \in Nat /\ day \in Nat
      <4>1. x # s /\ x \in DOMAIN Base(r)
        BY <1>1, <2>9, <3>1
      <4>2. /\ sess'[x].day = sess[x].day
            /\ sess'[x].status = IF x = job[r].old THEN "COMPLETED" ELSE sess[x].status
        BY <1>1, <2>6, <4>1
      <4>3. sess[x].status = "COMPLETED" \/ x = job[r].old
        BY <2>4, <3>1 DEF DaysOK, Active
      <4>4. sess[x].day < day /\ sess[x].day \in Nat /\ day \in Nat
        <5>1. sess[x].day < day
          BY <3>1 DEF AllPast
        <5>2. sess[x] \in SessType
          BY <1>1, SessionsAre
        <5>3. day \in Nat
          BY <1>1, GiftsAssumption DEF TypeOK, SceneType
        <5> QED
          BY <5>1, <5>2, <5>3 DEF SessType
      <4> QED
        BY <4>2, <4>3, <4>4
    <3>4. /\ sess'[s].day = day
          /\ sess'[s].status \in {"ACTIVE", "COMPLETED"}
          /\ sess'[s].status = "COMPLETED" => sess'[s].box[BoxCount].status = "OPENED"
      <4> HIDE DEF se, to, full
      <4> QED
        BY <2>5, <2>6, <3>2
    <3>5. \A x \in DOMAIN sess' : x = s \/ (x \in Sessions /\ x < s)
      BY <1>1, <3>1
    <3>6. \A x, y \in DOMAIN sess' : x < y => sess'[x].day < sess'[y].day
      <4> SUFFICES ASSUME NEW x \in DOMAIN sess', NEW y \in DOMAIN sess', x < y
                   PROVE  sess'[x].day < sess'[y].day
        OBVIOUS
      <4>1. x \in Sessions
        BY <1>1, <3>1, <3>5
      <4>2. CASE y = s
        BY <3>3, <3>4, <4>1, <4>2
      <4>3. CASE y \in Sessions
        BY <2>4, <3>3, <4>1, <4>3 DEF DaysOK
      <4> QED
        BY <3>5, <4>2, <4>3
    <3>7. ASSUME NEW x \in DOMAIN sess'
          PROVE  /\ sess'[x].status \in {"ACTIVE", "COMPLETED"}
                 /\ sess'[x].status = "ACTIVE" => x = Len(sess')
                 /\ sess'[x].status = "COMPLETED" /\ sess'[x].day = day' =>
                      sess'[x].box[BoxCount].status = "OPENED"
      BY <1>1, <3>1, <3>3, <3>4, <3>5
    <3> QED
      BY <3>6, <3>7 DEF DaysOK, Full, Sessions
  <2> QED
    BY <2>8, <2>9, SMTT(30)
<1> QED
  BY <1>1, <1>4, <1>5, <1>6

LEMMA MidnightDay ==
  ASSUME ControlInv, DayInv, Midnight
  PROVE  DayInv'
<1>1. /\ day' = day + 1 /\ day \in Nat /\ sess' = sess /\ pc' = pc /\ job' = job /\ scene' = scene
      /\ \A s \in Sessions : sess[s].day \in Nat /\ sess[s].day <= day
  <2>1. TypeOK
    BY DEF ControlInv, Typed
  <2>2. day \in Nat /\ \A s \in Sessions : sess[s] \in SessType
    BY <2>1, SessionsAre, GiftsAssumption DEF TypeOK, SceneType
  <2> QED
    BY <2>2 DEF Midnight, SessType
<1> SUFFICES ASSUME Locked PROVE DaysOK' /\ \A p \in Procs : DayHand(p)'
  BY <1>1 DEF DayInv, Locked
<1>2. DaysOK /\ \A p \in Procs : DayHand(p)
  BY DEF DayInv
<1>3. DaysOK'
  BY <1>1, <1>2 DEF DaysOK, Full, Sessions
<1>4. Active' = Active /\ (AllPast => AllPast')
  BY <1>1 DEF Active, AllPast, Sessions
<1>5. ASSUME NEW p \in Procs PROVE DayHand(p)'
  <2>1. DayHand(p)
    BY <1>2
  <2>2. pc[p] = "settle" => job[p].old \in {0} \cup Sessions
    BY Zenon DEF ControlInv, Hand
  <2>3. pc[p] = "settle" /\ job[p].old # 0 => sess[job[p].old].day < day'
    BY <1>1, <2>1, <2>2 DEF DayHand
  <2> QED
    BY <1>1, <1>4, <2>1, <2>3 DEF DayHand
<1> QED
  BY <1>3, <1>5

LEMMA NextDay == ControlInv /\ BoxInv /\ DayInv /\ [Next]_vars => DayInv'
<1> SUFFICES ASSUME ControlInv, BoxInv, DayInv, [Next]_vars PROVE DayInv'
  OBVIOUS
<1>0. TypeOK /\ Typed
  BY DEF ControlInv, Typed
<1>1. ASSUME NEW p \in Procs, Step(p) \/ Crash(p) PROVE DayInv'
  <2>0. Frame(p)
    BY <1>1, StepControl
  <2>1. CASE p \in Reqs /\ (Check(p) \/ Lock(p) \/ Tell(p) \/ RefundRest(p) \/ Grant(p))
    <3>0. \/ End(p) \/ Go(p, "lock") \/ Go(p, "open") \/ Go(p, "feed") \/ Go(p, "grant")
      BY <2>1 DEF Check, Lock, Tell, RefundRest, Grant
    <3>1. sess' = sess /\ pc'[p] \in {"done", "lock", "open", "feed", "grant"}
      BY <1>0, <2>1, <3>0, QuietSteps, Goes, EndIs DEF PCs
    <3>2. day' = day
      BY <2>1 DEF Check, Lock, Tell, RefundRest, Grant
    <3> QED
      BY <2>0, <3>1, <3>2, IdleDay DEF Working
  <2>2. CASE p \in Reqs /\ (OpenSend(p) \/ SettleSend(p) \/ Feed(p))
    BY <2>2, OpenSendDay, SettleDay, FeedDay
  <2>3. CASE p \in Reqs /\ (Fill(p) \/ Count(p) \/ Complete(p) \/ OpenNext(p) \/ Advance(p))
    BY <2>3, WriteBoxDay, CompleteDay
  <2>4. CASE Make(p) \/ Boxes(p)
    BY <2>4, MakeDay
  <2>5. CASE p \in Mgrs /\ Start(p)
    BY <2>5, StartDay
  <2>6. CASE p \in Mgrs /\ (Status(p) \/ Find(p) \/ Close(p) \/ Archive(p))
    <3>1. ~Locked
      <4>1. scene.op[p] \notin {"none", "start"}
        BY <2>6, Zenon DEF ControlInv, Hand, Status, Find, Close, Archive, At
      <4> QED
        BY <2>6, <4>1 DEF Locked
    <3> QED
      BY <2>0, <3>1, LockedStays DEF DayInv
  <2>7. CASE Crash(p)
    <3>1. sess' = sess /\ day' = day /\ pc'[p] = "dead"
      BY <2>7, CrashControl DEF Crash
    <3> QED
      BY <2>0, <3>1, IdleDay DEF Working
  <2> QED
    BY <1>1, <2>1, <2>2, <2>3, <2>4, <2>5, <2>6, <2>7 DEF Step
<1>2. CASE Midnight
  BY <1>2, MidnightDay
<1>3. CASE (\E k \in LockKeys : Expire(k)) \/ UNCHANGED vars
  <2>1. sess' = sess /\ pc' = pc /\ job' = job /\ day' = day /\ scene' = scene
    BY <1>3 DEF Expire, vars
  <2> QED
    BY <2>1 DEF DayInv, Locked, DaysOK, DayHand, AllPast, Active, Full, Sessions
<1> QED
  BY <1>1, <1>2, <1>3 DEF Next

LEMMA InitDay == Init => DayInv
BY DEF Init, DayInv, DaysOK, DayHand, Working, Sessions

(* In a room that only sends, starts and midnights touch, no two ladders   *)
(* have the same day.                                                      *)
THEOREM LaddersHold == Spec => []OneLadderADay
<1>1. ControlInv /\ DayInv => OneLadderADay
  <2> SUFFICES ASSUME ControlInv, DayInv, Locked, NEW s \in Sessions, NEW x \in Sessions, s # x
               PROVE  sess[s].day # sess[x].day
    BY DEF OneLadderADay
  <2>1. sess[s] \in SessType /\ sess[x] \in SessType /\ s \in Nat /\ x \in Nat
    BY SessionsAre DEF ControlInv, Typed
  <2>2. sess[s].day \in Int /\ sess[x].day \in Int
    BY <2>1 DEF SessType
  <2>3. s < x \/ x < s
    BY <2>1
  <2> QED
    BY <2>2, <2>3 DEF DayInv, DaysOK
<1> QED
  BY <1>1, InitControl, NextControl, InitBoxes, NextBoxes, InitDay, NextDay, PTL DEF Spec

-----------------------------------------------------------------------------
(* What has landed, and what came back.                                    *)
RefundOf(k) == {e \in ledger : e.why = "refund" /\ e.of = k}
RestOf(s, t) == {e \in ledger : e.why = "rest" /\ e.of = <<s, t>>}

LEMMA SumNone == SumAmt({}) = 0
<1> DEFINE f == [e \in {} |-> e.amt]
<1>1. DOMAIN f = {}
  OBVIOUS
<1> HIDE DEF f
<1>2. SumFunction(f) = SumFunctionOnSet(f, {})
  BY <1>1, SumOfAll
<1> QED
  BY <1>2, SumEmpty DEF SumAmt, f

LEMMA SumOne == ASSUME NEW x, x.amt \in Int PROVE SumAmt({x}) = x.amt
<1> DEFINE f == [e \in {x} |-> e.amt]
<1>1. DOMAIN f = {} \cup {x} /\ f[x] = x.amt
  OBVIOUS
<1> HIDE DEF f
<1>2. SumFunction(f) = SumFunctionOnSet(f, {} \cup {x})
  BY <1>1, SumOfAll
<1>3. SumFunctionOnSet(f, {} \cup {x}) = f[x] + SumFunctionOnSet(f, {})
  <2>1. IsFiniteSet({}) /\ \A y \in {} \cup {x} : f[y] \in Int
    BY <1>1, FS_EmptySet
  <2> QED
    BY <2>1, SumAdd
<1>4. SumFunctionOnSet(f, {}) = 0
  BY SumEmpty
<1>5. SumFunction(f) = x.amt
  BY <1>1, <1>2, <1>3, <1>4
<1> QED
  BY <1>5 DEF SumAmt, f

LEMMA BackIs == ASSUME NEW k, NEW s PROVE Back(k, s) = SumAmt(RefundOf(k) \cup RestOf(s, gift[k]))
<1>1. {e \in ledger : \/ e.why = "refund" /\ e.of = k
                      \/ e.why = "rest" /\ e.of = <<s, gift[k]>>} = RefundOf(k) \cup RestOf(s, gift[k])
  BY DEF RefundOf, RestOf
<1> QED
  BY <1>1 DEF Back

LEMMA RowsOfNat ==
  ASSUME NEW rows \in Seq(RowType), NEW t
  PROVE  RowsOf(rows, t) \in Nat
<1> DEFINE f == [i \in DOMAIN rows |-> IF rows[i].txn = t THEN rows[i].amt ELSE 0]
<1>1. IsFiniteSet(DOMAIN rows) /\ DOMAIN f = DOMAIN rows /\ \A i \in DOMAIN rows : f[i] \in Nat
  BY RowsAre
<1> HIDE DEF f
<1>2. SumFunctionOnSet(f, DOMAIN rows) \in Nat
  BY <1>1, SumNat
<1>3. SumFunction(f) = SumFunctionOnSet(f, DOMAIN rows)
  BY <1>1, SumOfAll
<1> QED
  BY <1>2, <1>3 DEF RowsOf, f

LEMMA RowsOfNone ==
  ASSUME NEW rows \in Seq(RowType), NEW t, \A i \in DOMAIN rows : rows[i].txn # t
  PROVE  RowsOf(rows, t) = 0
<1> DEFINE f == [i \in DOMAIN rows |-> IF rows[i].txn = t THEN rows[i].amt ELSE 0]
<1>1. IsFiniteSet(DOMAIN rows) /\ DOMAIN f = DOMAIN rows /\ \A i \in DOMAIN rows : f[i] = 0
  BY RowsAre
<1> HIDE DEF f
<1>2. SumFunctionOnSet(f, DOMAIN rows) = 0
  BY <1>1, SumZero
<1>3. SumFunction(f) = SumFunctionOnSet(f, DOMAIN rows)
  BY <1>1, SumOfAll
<1> QED
  BY <1>2, <1>3 DEF RowsOf, f

LEMMA RowsOfAppend ==
  ASSUME NEW rows \in Seq(RowType), NEW e \in RowType, NEW t
  PROVE  RowsOf(Append(rows, e), t) = RowsOf(rows, t) + (IF e.txn = t THEN e.amt ELSE 0)
<1> DEFINE more == Append(rows, e)
           f == [i \in DOMAIN rows |-> IF rows[i].txn = t THEN rows[i].amt ELSE 0]
           g == [i \in DOMAIN more |-> IF more[i].txn = t THEN more[i].amt ELSE 0]
<1>1. Len(rows) \in Nat /\ DOMAIN rows = 1 .. Len(rows) /\ DOMAIN more = 1 .. Len(rows) + 1
      /\ more[Len(rows) + 1] = e /\ \A i \in 1 .. Len(rows) : more[i] = rows[i]
  OBVIOUS
<1>2. e.amt \in Nat /\ \A i \in 1 .. Len(rows) : rows[i].amt \in Nat
  BY <1>1, RowsAre DEF RowType
<1> HIDE DEF more
<1>3. DOMAIN f = 1 .. Len(rows) /\ DOMAIN g = 1 .. Len(rows) + 1
      /\ \A i \in 1 .. Len(rows) : f[i] \in Int /\ g[i] = f[i]
  BY <1>1, <1>2
<1>4. g[Len(rows) + 1] = (IF e.txn = t THEN e.amt ELSE 0) /\ g[Len(rows) + 1] \in Int
  BY <1>1, <1>2
<1> HIDE DEF f, g
<1>5. SumFunction(g) = SumFunction(f) + g[Len(rows) + 1]
  BY <1>3, <1>4, SumAppend
<1>6. SumFunction(g) = SumFunction(f) + (IF e.txn = t THEN e.amt ELSE 0)
  BY <1>4, <1>5
<1> QED
  BY <1>6 DEF RowsOf, f, g, more

(* The rows of a box are as before, or one more, which is not t's.         *)
RowsFrom(old, new, t) == new = old \/ \E e \in RowType : e.txn # t /\ new = Append(old, e)

LEMMA RowsFromSame ==
  ASSUME NEW old \in Seq(RowType), NEW new, NEW t, RowsFrom(old, new, t)
  PROVE  RowsOf(new, t) = RowsOf(old, t)
<1>1. ASSUME NEW e \in RowType, e.txn # t, new = Append(old, e) PROVE RowsOf(new, t) = RowsOf(old, t)
  <2>1. RowsOf(Append(old, e), t) = RowsOf(old, t) + 0
    BY <1>1, RowsOfAppend
  <2> QED
    BY <1>1, <2>1, RowsOfNat
<1> QED
  BY <1>1 DEF RowsFrom

LEMMA LandedNat == ASSUME TypeOK, NEW s \in Sessions, NEW t PROVE LandedIn(t, s) \in Nat
<1> DEFINE f == [l \in Levels |-> RowsOf(sess[s].box[l].rows, t)]
<1>1. DOMAIN f = Levels /\ \A l \in Levels : f[l] \in Nat
  BY BoxIs, RowsOfNat DEF RowType
<1> HIDE DEF f
<1>2. SumFunctionOnSet(f, Levels) \in Nat
  BY <1>1, LevelsAre, SumNat
<1>3. SumFunction(f) = SumFunctionOnSet(f, Levels)
  BY <1>1, SumOfAll
<1> QED
  BY <1>2, <1>3 DEF LandedIn, f

LEMMA LandedNone ==
  ASSUME TypeOK, NEW s \in Sessions, NEW t,
         \A l \in Levels : \A i \in DOMAIN sess[s].box[l].rows : sess[s].box[l].rows[i].txn # t
  PROVE  LandedIn(t, s) = 0
<1> DEFINE f == [l \in Levels |-> RowsOf(sess[s].box[l].rows, t)]
<1>1. DOMAIN f = Levels /\ \A l \in Levels : f[l] = 0
  BY BoxIs, RowsOfNone DEF RowType
<1> HIDE DEF f
<1>2. SumFunctionOnSet(f, Levels) = 0
  BY <1>1, LevelsAre, SumZero
<1>3. SumFunction(f) = SumFunctionOnSet(f, Levels)
  BY <1>1, SumOfAll
<1> QED
  BY <1>2, <1>3 DEF LandedIn, f

(* A row more in one box, and what a transaction pours into all of them.   *)
LEMMA LandedMore ==
  ASSUME TypeOK, TypeOK', NEW s \in Sessions, s \in DOMAIN sess', NEW t, NEW l \in Levels,
         NEW e \in RowType, e.txn = t,
         sess'[s].box[l].rows = Append(sess[s].box[l].rows, e),
         \A m \in Levels : m # l => sess'[s].box[m].rows = sess[s].box[m].rows
  PROVE  LandedIn(t, s)' = LandedIn(t, s) + e.amt
<1> DEFINE f == [m \in Levels |-> RowsOf(sess[s].box[m].rows, t)]
           g == [m \in Levels |-> RowsOf(sess'[s].box[m].rows, t)]
<1>1. \A m \in Levels : sess[s].box[m].rows \in Seq(RowType)
  BY BoxIs DEF RowType
<1>2. RowsOf(Append(sess[s].box[l].rows, e), t) = RowsOf(sess[s].box[l].rows, t) + e.amt
  BY <1>1, RowsOfAppend
<1>3. e.amt \in Nat
  BY DEF RowType
<1>4. \A m \in Levels : f[m] \in Int
  BY <1>1, RowsOfNat
<1>5. \A m \in Levels : m # l => g[m] = f[m]
  OBVIOUS
<1>6. g[l] = f[l] + e.amt
  BY <1>2
<1>7. DOMAIN f = Levels /\ DOMAIN g = Levels /\ LandedIn(t, s) = SumFunction(f)
      /\ LandedIn(t, s)' = SumFunction(g)
  BY DEF LandedIn
<1> HIDE DEF f, g
<1>8. \A m \in Levels : f[m] \in Int /\ g[m] \in Int
  BY <1>3, <1>4, <1>5, <1>6
<1>9. SumFunctionOnSet(g, Levels) = SumFunctionOnSet(f, Levels) - f[l] + g[l]
  BY <1>5, <1>8, LevelsAre, SumChange
<1>10. SumFunctionOnSet(f, Levels) \in Int
  BY <1>8, LevelsAre, SumInt
<1>11. SumFunction(f) = SumFunctionOnSet(f, Levels) /\ SumFunction(g) = SumFunctionOnSet(g, Levels)
  BY <1>7, SumOfAll
<1> QED
  BY <1>3, <1>6, <1>7, <1>8, <1>9, <1>10, <1>11

LEMMA NotCounted ==
  ASSUME TypeOK, NEW t, ~Counted(t)
  PROVE  \A s \in Sessions : LandedIn(t, s) = 0
BY LandedNone DEF Counted

-----------------------------------------------------------------------------
(* The rows of a box only grow, by the row of a transaction or a listener. *)
OldRows(s, l) == IF s \in Sessions THEN sess[s].box[l].rows ELSE <<>>
Author(p) == IF pc[p] = "settle" THEN p ELSE Txn(p)
Grows(s, l, t) ==
    \/ sess'[s].box[l].rows = OldRows(s, l)
    \/ \E e \in RowType : e.txn = t /\ sess'[s].box[l].rows = Append(OldRows(s, l), e)

LEMMA SameGrow ==
  ASSUME DOMAIN sess' = DOMAIN sess, \A s \in Sessions : SameBoxes(s)
  PROVE  \A s \in DOMAIN sess', l \in Levels : sess'[s].box[l].rows = OldRows(s, l)
BY DEF SameBoxes, OldRows, Sessions

LEMMA BoxGrow ==
  ASSUME TypeOK, NEW p \in Procs, job[p].sess \in Sessions, NEW l \in Levels, NEW b \in BoxType,
         SetBox(p, l, b), NEW t,
         \/ b.rows = sess[job[p].sess].box[l].rows
         \/ \E e \in RowType : e.txn = t /\ b.rows = Append(sess[job[p].sess].box[l].rows, e)
  PROVE  \A s \in DOMAIN sess', m \in Levels : Grows(s, m, t)
<1>1. /\ DOMAIN sess' = DOMAIN sess
      /\ \A x \in Sessions : x # job[p].sess => sess'[x] = sess[x]
      /\ sess'[job[p].sess].box[l] = b
      /\ \A m \in Levels : m # l => sess'[job[p].sess].box[m] = sess[job[p].sess].box[m]
  <2>1. PICK c : c = job[p].sess
    OBVIOUS
  <2>2. /\ DOMAIN sess' = DOMAIN sess /\ \A x \in Sessions : x # c => sess'[x] = sess[x]
        /\ sess'[c].box[l] = b /\ \A m \in Levels : m # l => sess'[c].box[m] = sess[c].box[m]
    <3>1. /\ TypeOK /\ p \in Procs /\ c = job[p].sess /\ c \in Sessions /\ l \in Levels
          /\ b \in BoxType /\ SetBox(p, l, b)
      BY <2>1
    <3> QED
      BY ONLY <3>1, SetBoxSets
  <2> QED
    BY <2>1, <2>2
<1> SUFFICES ASSUME NEW s \in Sessions, NEW m \in Levels PROVE Grows(s, m, t)
  BY <1>1 DEF Sessions
<1>2. CASE s = job[p].sess /\ m = l
  BY <1>1, <1>2, Zenon DEF Grows, OldRows
<1>3. CASE ~(s = job[p].sess /\ m = l)
  <2>1. sess'[s].box[m] = sess[s].box[m]
    BY <1>1, <1>3, Zenon
  <2> QED
    BY <2>1, Zenon DEF Grows, OldRows
<1> QED
  BY <1>2, <1>3, Zenon

LEMMA SettleGrow ==
  ASSUME ControlInv, NEW r \in Reqs, SettleSend(r)
  PROVE  \A s \in DOMAIN sess', l \in Levels : Grows(s, l, r)
<1>1. /\ pc[r] = "settle" /\ TypeOK /\ r \in Procs /\ Sessions = 1 .. Len(sess) /\ Len(sess) \in Nat
      /\ PutNowhere(r) \/ PutFails(r) \/ \E last \in 0 .. BoxCount : \E q : PutInto(r, last, q)
      /\ Base(r) \in Seq(SessType) /\ DOMAIN Base(r) = 1 .. Len(Base(r))
      /\ Len(Base(r)) = IF job[r].sess = -1 THEN Len(sess) + 1 ELSE Len(sess)
      /\ \A x \in Sessions : Base(r)[x].box = sess[x].box
      /\ job[r].sess = -1 => Into(r) = Len(sess) + 1 /\ Base(r)[Into(r)] = Laid(Bare)
  BY SettleCases, ProcsAre, SessionsAre, BaseIs DEF ControlInv, Typed
<1>2. ASSUME NEW s \in DOMAIN Base(r), NEW l \in Levels
      PROVE  Base(r)[s].box[l].rows = OldRows(s, l)
  <2>1. CASE s \in Sessions
    BY <1>1, <2>1 DEF OldRows
  <2>2. CASE s \notin Sessions
    <3>1. Base(r)[s] = Laid(Bare)
      BY <1>1, <2>2
    <3>2. Laid(Bare).box[l] = Fresh(l) /\ Fresh(l).rows = <<>>
      BY <1>1, BareOK
    <3> QED
      BY <2>2, <3>1, <3>2 DEF OldRows
  <2> QED
    BY <2>1, <2>2
<1>3. CASE PutNowhere(r)
  BY <1>2, <1>3 DEF PutNowhere, Grows
<1>4. CASE PutFails(r)
  BY <1>4 DEF PutFails, Grows, OldRows, Sessions
<1>5. ASSUME NEW last \in 0 .. BoxCount, NEW q, PutInto(r, last, q)
      PROVE  \A s \in DOMAIN sess', l \in Levels : Grows(s, l, r)
  <2> DEFINE s == Into(r)
             se == Base(r)[s]
             to == Pour(se, Send(r).from, Amt(r), r, last)
  <2>1. s \in DOMAIN Base(r) /\ se \in SessType /\ sess' = [Base(r) EXCEPT ![s] = to]
    BY <1>1, <1>5, BaseIs DEF PutInto
  <2>2. Send(r).from \in Users /\ Amt(r) \in Nat
    BY <1>1, SendIs DEF Amt
  <2>3. ASSUME NEW l \in Levels
        PROVE  \/ to.box[l].rows = se.box[l].rows
               \/ \E e \in RowType : e.txn = r /\ to.box[l].rows = Append(se.box[l].rows, e)
    <3>1. /\ to.box[l].rows = (IF Poured(se, Amt(r), last, l) > 0
                               THEN Append(se.box[l].rows, Row(Send(r).from, Poured(se, Amt(r), last, l), r))
                               ELSE se.box[l].rows)
          /\ Poured(se, Amt(r), last, l) \in Nat
      <4>1. se.level \in Levels /\ se.box \in [Levels -> BoxType]
        BY <2>1 DEF SessType
      <4> HIDE DEF se
      <4>2. Poured(se, Amt(r), last, l) \in Nat
        BY <2>2, <4>1, PouredNat
      <4>3. to.box[l].rows = (IF Poured(se, Amt(r), last, l) > 0
                              THEN Append(se.box[l].rows, Row(Send(r).from, Poured(se, Amt(r), last, l), r))
                              ELSE se.box[l].rows)
        BY <1>1, <2>1, <2>2, PourTyped
      <4> QED
        BY <4>2, <4>3
    <3>2. /\ Row(Send(r).from, Poured(se, Amt(r), last, l), r) \in RowType
          /\ Row(Send(r).from, Poured(se, Amt(r), last, l), r).txn = r
      BY <2>2, <3>1, RowIs
    <3> HIDE DEF se, to
    <3> QED
      BY <3>1, <3>2
  <2> SUFFICES ASSUME NEW x \in DOMAIN sess', NEW l \in Levels PROVE Grows(x, l, r)
    OBVIOUS
  <2>4. x \in DOMAIN Base(r)
    BY <2>1
  <2>5. CASE x = s
    <3>1. sess'[x] = to
      BY <2>1, <2>5
    <3>2. se.box[l].rows = OldRows(x, l)
      BY <1>2, <2>1, <2>5
    <3> HIDE DEF se, to
    <3> QED
      BY <2>3, <3>1, <3>2 DEF Grows
  <2>6. CASE x # s
    BY <1>2, <2>1, <2>4, <2>6 DEF Grows
  <2> QED
    BY <2>5, <2>6, SMTT(30)
<1> QED
  BY <1>1, <1>3, <1>4, <1>5

LEMMA CreateGrow ==
  ASSUME ControlInv, BoxInv, NEW p \in Procs, Make(p) \/ Boxes(p)
  PROVE  \A s \in DOMAIN sess', l \in Levels : sess'[s].box[l].rows = OldRows(s, l)
<1>1. TypeOK /\ Sessions = 1 .. Len(sess) /\ Len(sess) \in Nat
  BY SessionsAre DEF ControlInv, Typed
<1>2. CASE Make(p)
  <2>1. /\ DOMAIN sess' = 1 .. Len(sess) + 1
        /\ sess'[Len(sess) + 1] = Bare /\ \A s \in Sessions : sess'[s] = sess[s]
    BY <1>2, MakeIs
  <2>2. \A l \in Levels : Bare.box[l].rows = <<>>
    BY <1>1, BareOK
  <2>3. \A s \in DOMAIN sess' : s \in Sessions \/ (s = Len(sess) + 1 /\ s \notin Sessions)
    BY <1>1, <2>1
  <2> QED
    BY <2>1, <2>2, <2>3 DEF OldRows
<1>3. CASE Boxes(p)
  <2> DEFINE t == job[p].sess
  <2>1. /\ t \in Sessions /\ DOMAIN sess' = DOMAIN sess
        /\ \/ sess' = sess
           \/ /\ sess[t].box[1] = NoBox
              /\ \A s \in Sessions : s # t => sess'[s] = sess[s]
              /\ \A l \in Levels : sess'[t].box[l] = Fresh(l)
    BY <1>3, BoxesIs
  <2>2. CASE sess' = sess
    BY <2>2 DEF OldRows, Sessions
  <2>3. CASE /\ sess[t].box[1] = NoBox
             /\ \A s \in Sessions : s # t => sess'[s] = sess[s]
             /\ \A l \in Levels : sess'[t].box[l] = Fresh(l)
    <3>1. SessOK(sess[t]) /\ sess[t].level = 1
      BY <1>1, <2>1, <2>3, FirstBox, SMTT(30) DEF BoxInv
    <3>2. ASSUME NEW l \in Levels PROVE sess[t].box[l].rows = <<>> /\ Fresh(l).rows = <<>>
      <4>1. l = 1 \/ l > 1
        BY LevelsAre DEF Levels
      <4> QED
        BY <1>1, <2>3, <3>1, <4>1, BareOK DEF SessOK, BoxOK, NoBox
    <3> QED
      BY <2>1, <2>3, <3>2 DEF OldRows, Sessions
  <2> QED
    BY <2>1, <2>2, <2>3
<1> QED
  BY <1>2, <1>3

LEMMA RowsStep ==
  ASSUME ControlInv, BoxInv, NEW p \in Procs, Step(p) \/ Crash(p)
  PROVE  /\ \A s \in DOMAIN sess', l \in Levels : Grows(s, l, Author(p))
         /\ ~(p \in Reqs /\ (SettleSend(p) \/ Count(p))) =>
              \A s \in DOMAIN sess', l \in Levels : sess'[s].box[l].rows = OldRows(s, l)
<1>0. TypeOK /\ (p \in Reqs /\ pc[p] \in Working => job[p].sess \in Sessions /\ job[p].level \in Levels)
  BY WorkerIs DEF Late, ControlInv, Typed
<1>1. CASE p \in Reqs /\ SettleSend(p)
  <2>1. pc[p] = "settle"
    BY <1>1, Zenon DEF SettleSend, At
  <2> QED
    BY <1>1, <2>1, SettleGrow DEF Author
<1>2. CASE p \in Reqs /\ Count(p)
  <2>1. /\ pc[p] = "count"
        /\ \/ sess' = sess
           \/ /\ SetBox(p, job[p].level, CountedBox(p)) /\ CountedBox(p) \in BoxType
              /\ CountedBox(p).rows = Append(MyBox(p).rows, Row(Send(p).from, job[p].took, Txn(p)))
              /\ Row(Send(p).from, job[p].took, Txn(p)) \in RowType
        /\ MyBox(p) = sess[job[p].sess].box[job[p].level]
    BY <1>2, CountIs, CountBoxes
  <2>2. Author(p) = Txn(p) /\ Row(Send(p).from, job[p].took, Txn(p)).txn = Txn(p)
    BY <2>1, Zenon DEF Author, Row
  <2>3. CASE sess' = sess
    BY <2>1, <2>3, SameSess, SameGrow DEF Grows
  <2>4. CASE /\ SetBox(p, job[p].level, CountedBox(p)) /\ CountedBox(p) \in BoxType
             /\ CountedBox(p).rows = Append(MyBox(p).rows, Row(Send(p).from, job[p].took, Txn(p)))
             /\ Row(Send(p).from, job[p].took, Txn(p)) \in RowType
    <3>1. job[p].sess \in Sessions /\ job[p].level \in Levels
      BY <1>0, <1>2, <2>1, Zenon DEF Working
    <3>2. \E e \in RowType : e.txn = Author(p) /\ CountedBox(p).rows = Append(sess[job[p].sess].box[job[p].level].rows, e)
      BY <2>1, <2>2, <2>4, Zenon
    <3>3. \A s \in DOMAIN sess', m \in Levels : Grows(s, m, Author(p))
      BY <1>0, <2>4, <3>1, <3>2, BoxGrow, Zenon
    <3> QED
      BY <1>2, <2>1, <3>3, Zenon
  <2> QED
    BY <2>1, <2>3, <2>4, Zenon
<1>3. CASE p \in Reqs /\ (Fill(p) \/ OpenNext(p))
  <2>1. PICK l \in Levels, b \in BoxType :
           SetBox(p, l, b) /\ b.rows = sess[job[p].sess].box[l].rows /\ pc[p] \in {"fill", "next"}
    <3>1. CASE Fill(p)
      <4>1. /\ SetBox(p, job[p].level, FilledBox(p)) /\ FilledBox(p) \in BoxType /\ pc[p] = "fill"
            /\ FilledBox(p).rows = MyBox(p).rows /\ job[p].sess \in Sessions /\ job[p].level \in Levels
        BY <1>3, <3>1, FillIs
      <4>2. MyBox(p).rows = sess[job[p].sess].box[job[p].level].rows
        BY <1>0, <4>1, MineIs
      <4> QED
        BY <4>1, <4>2
    <3>2. CASE OpenNext(p)
      BY <1>3, <3>2, OpenNextIs
    <3> QED
      BY <1>3, <3>1, <3>2
  <2>2. /\ DOMAIN sess' = DOMAIN sess
        /\ \A x \in Sessions : x # job[p].sess => sess'[x] = sess[x]
        /\ sess'[job[p].sess].box[l] = b
        /\ \A m \in Levels : m # l => sess'[job[p].sess].box[m] = sess[job[p].sess].box[m]
    BY <1>0, <1>3, <2>1, SetBoxIs DEF Working
  <2>3. \A s \in DOMAIN sess', m \in Levels : sess'[s].box[m].rows = OldRows(s, m)
    BY <2>1, <2>2 DEF OldRows, Sessions
  <2> QED
    BY <2>3 DEF Grows
<1>4. CASE p \in Reqs /\ Advance(p)
  <2>1. DOMAIN sess' = DOMAIN sess /\ \A x \in Sessions : sess'[x].box = sess[x].box
    BY <1>4, AdvanceControl
  <2> QED
    BY <2>1 DEF Grows, OldRows, Sessions
<1>5. CASE Make(p) \/ Boxes(p)
  BY <1>5, CreateGrow DEF Grows
<1>6. CASE \/ p \in Reqs /\ (Check(p) \/ Lock(p) \/ OpenSend(p) \/ Tell(p) \/ Feed(p) \/ Complete(p)
                             \/ RefundRest(p) \/ Grant(p))
           \/ p \in Mgrs /\ (Start(p) \/ Status(p) \/ Find(p) \/ Close(p) \/ Archive(p))
           \/ Crash(p)
  <2>1. \/ sess' = sess
        \/ \E ss : \E st \in {"ACTIVE", "COMPLETED", "CANCELLED", "ARCHIVED"} : sess' = Finish(ss, st)
    <3>1. CASE p \in Mgrs /\ (Start(p) \/ Status(p) \/ Find(p) \/ Close(p) \/ Archive(p))
      BY <3>1, ManagerFinishes
    <3>2. CASE p \in Reqs /\ Complete(p)
      BY <3>2 DEF Complete
    <3>3. CASE \/ p \in Reqs /\ (Check(p) \/ Lock(p) \/ OpenSend(p) \/ Tell(p) \/ Feed(p)
                                 \/ RefundRest(p) \/ Grant(p))
               \/ Crash(p)
      BY <3>3, Zenon DEF Check, Lock, OpenSend, Tell, Feed, RefundRest, Grant, Crash
    <3> QED
      BY <1>6, <3>1, <3>2, <3>3
  <2>2. DOMAIN sess' = DOMAIN sess /\ \A s \in Sessions : SameBoxes(s)
    BY <1>0, <2>1, SameSess, FinishSame
  <2> QED
    BY <2>2, SameGrow DEF Grows
<1> QED
  BY <1>1, <1>2, <1>3, <1>4, <1>5, <1>6 DEF Step

-----------------------------------------------------------------------------
(* The entries that give coins back, and the authors of the rows: each     *)
(* belongs to a gift that is written.                                      *)
WrittenBy(t) == t \in Reqs /\ gift[Send(t).key] = t
EntryOK(e) ==
    /\ e.why = "refund" => e.of \in Keys /\ gift[e.of] # None
    /\ e.why = "rest" => e.of[1] \in Sessions /\ WrittenBy(e.of[2])
EntryInv ==
    /\ \A e, x \in ledger : e.why \in {"refund", "rest"} /\ e.why = x.why /\ e.of = x.of => e = x
    /\ \A e \in ledger : EntryOK(e)
    /\ \A s \in Sessions, l \in Levels : \A i \in DOMAIN sess[s].box[l].rows :
         WrittenBy(sess[s].box[l].rows[i].txn)

LEMMA PostedNew ==
  ASSUME NEW es, ledger' = Posted(es), NEW e \in ledger', e \notin ledger
  PROVE  /\ e \in es /\ e.amt # 0 /\ \A x \in ledger : ~(x.why = e.why /\ x.of = e.of)
         /\ \A x \in ledger' : x.why = e.why /\ x.of = e.of => x \in es
BY DEF Posted

LEMMA WrittenStays ==
  ASSUME ControlInv, NEW p \in Procs, Frame(p), NEW t, WrittenBy(t)
  PROVE  WrittenBy(t)' /\ Send(t)' = Send(t)
<1>1. Send(t).key \in Keys /\ t # None /\ Send(t)' = Send(t)
  BY SendIs, GiftsAssumption DEF WrittenBy, ControlInv, Typed, Frame, Send
<1> QED
  BY <1>1 DEF Frame, WrittenBy

LEMMA EntriesStay ==
  ASSUME ControlInv, EntryInv, BoxInv, NEW p \in Procs, Step(p) \/ Crash(p), Frame(p), ControlInv',
         NEW t, p \in Reqs /\ (SettleSend(p) \/ Count(p)) => t = Author(p) /\ WrittenBy(t)',
         \A e \in ledger' : e \notin ledger /\ e.why \in {"refund", "rest"} =>
            /\ EntryOK(e)'
            /\ \A x \in ledger' : x.why = e.why /\ x.of = e.of => x = e
  PROVE  EntryInv'
<1>1. ASSUME NEW e \in ledger', NEW x \in ledger',
             e.why \in {"refund", "rest"}, e.why = x.why, e.of = x.of
      PROVE  e = x
  <2>1. CASE e \in ledger /\ x \in ledger
    BY <1>1, <2>1 DEF EntryInv
  <2>2. CASE e \notin ledger
    BY <1>1, <2>2
  <2>3. CASE x \notin ledger
    BY <1>1, <2>3
  <2> QED
    BY <2>1, <2>2, <2>3
<1>2. ASSUME NEW e \in ledger' PROVE EntryOK(e)'
  <2>1. CASE e \in ledger
    <3>1. EntryOK(e)
      BY <2>1 DEF EntryInv
    <3>2. e.why = "refund" => gift'[e.of] # None
      BY <3>1 DEF EntryOK, Frame
    <3>3. e.why = "rest" => e.of[1] \in Sessions' /\ WrittenBy(e.of[2])'
      BY <3>1, WrittenStays DEF EntryOK, Frame, Sessions
    <3> QED
      BY <3>1, <3>2, <3>3 DEF EntryOK
  <2>2. CASE e \notin ledger
    BY <1>2, <2>2 DEF EntryOK
  <2> QED
    BY <2>1, <2>2
<1>3. ASSUME NEW s \in DOMAIN sess', NEW l \in Levels, NEW i \in DOMAIN sess'[s].box[l].rows
      PROVE  WrittenBy(sess[s].box[l].rows[i].txn)'
  <2>1. Grows(s, l, Author(p)) /\ (~(p \in Reqs /\ (SettleSend(p) \/ Count(p)))
                                    => sess'[s].box[l].rows = OldRows(s, l))
    BY <1>3, RowsStep
  <2>2. OldRows(s, l) \in Seq(RowType)
        /\ \A j \in DOMAIN OldRows(s, l) : WrittenBy(OldRows(s, l)[j].txn)
    <3>1. CASE s \in Sessions
      BY <3>1, BoxIs DEF OldRows, EntryInv, RowType, ControlInv, Typed
    <3>2. CASE s \notin Sessions
      BY <3>2 DEF OldRows
    <3> QED
      BY <3>1, <3>2
  <2>3. ASSUME NEW y, y = sess'[s].box[l].rows[i].txn
        PROVE  WrittenBy(y)'
    <3>1. CASE sess'[s].box[l].rows = OldRows(s, l)
      <4>1. WrittenBy(y)
        BY <1>3, <2>2, <2>3, <3>1
      <4> QED
        BY <4>1, WrittenStays
    <3>2. CASE sess'[s].box[l].rows # OldRows(s, l)
      <4>1. t = Author(p) /\ WrittenBy(t)'
        BY <2>1, <3>2
      <4>2. PICK e \in RowType : e.txn = t /\ sess'[s].box[l].rows = Append(OldRows(s, l), e)
        BY <2>1, <3>2, <4>1 DEF Grows
      <4>3. CASE y = t
        BY <4>1, <4>3
      <4>4. CASE y # t
        <5>1. i \in DOMAIN OldRows(s, l) /\ y = OldRows(s, l)[i].txn
          BY <1>3, <2>2, <2>3, <4>2, <4>4
        <5>2. WrittenBy(y)
          BY <2>2, <5>1
        <5> QED
          BY <5>2, WrittenStays
      <4> QED
        BY <4>3, <4>4
    <3> QED
      BY <3>1, <3>2
  <2> QED
    BY <2>3
<1> QED
  BY <1>1, <1>2, <1>3 DEF EntryInv, Sessions

(* What the commit of a send leaves in the ledger.                         *)
LEMMA SettleEntries ==
  ASSUME ControlInv, NEW r \in Reqs, SettleSend(r), NEW e \in ledger', e \notin ledger,
         e.why \in {"refund", "rest"}
  PROVE  /\ pc'[r] = "tell" /\ gift' = [gift EXCEPT ![Send(r).key] = r]
         /\ e.why = "refund" /\ e.of = Send(r).key
         /\ \A x \in ledger' : x.why = e.why /\ x.of = e.of => x = e
         /\ \E last \in 0 .. BoxCount : \E q : PutInto(r, last, q)
<1>1. /\ TypeOK /\ \A x \in Settlement(r) : x.why \in {"debit", "earnings", "cashback"}
      /\ PutNowhere(r) \/ PutFails(r) \/ \E last \in 0 .. BoxCount : \E q : PutInto(r, last, q)
  BY SettleCases, SettlementOK DEF ControlInv, Typed
<1>2. CASE PutNowhere(r)
  <2>1. e \in Settlement(r) \cup {}
    BY <1>2, PostedNew DEF PutNowhere
  <2> QED
    BY <1>1, <2>1
<1>3. CASE PutFails(r)
  BY <1>3 DEF PutFails, wallets
<1>4. ASSUME NEW last \in 0 .. BoxCount, NEW q, PutInto(r, last, q)
      PROVE  /\ pc'[r] = "tell" /\ gift' = [gift EXCEPT ![Send(r).key] = r]
             /\ e.why = "refund" /\ e.of = Send(r).key
             /\ \A x \in ledger' : x.why = e.why /\ x.of = e.of => x = e
  <2> DEFINE s == Into(r)
             back == Entry("refund", Send(r).key, Send(r).from, GOLD,
                           Amt(r) - Accepted(Base(r)[s], Amt(r), last))
             es == Settlement(r) \cup (Prizes(s, q) \cup {back})
  <2>1. ledger' = Posted(es) /\ pc'[r] = "tell" /\ gift' = [gift EXCEPT ![Send(r).key] = r]
    BY <1>4 DEF PutInto
  <2>2. back.why = "refund" /\ back.of = Send(r).key
    BY EntryIs
  <2>3. \A x \in es : x.why \in {"refund", "rest"} => x = back
    <3>1. \A x \in Prizes(s, q) : x.why = "box"
      BY <1>1, PrizesAre
    <3> HIDE DEF back, s
    <3> QED
      BY <1>1, <3>1
  <2> HIDE DEF es, back
  <2>4. e \in es /\ \A x \in ledger' : x.why = e.why /\ x.of = e.of => x \in es
    BY <2>1, PostedNew
  <2>5. e = back
    BY <2>3, <2>4
  <2> QED
    BY <2>1, <2>2, <2>3, <2>4, <2>5
<1> QED
  BY <1>1, <1>2, <1>3, <1>4

LEMMA NextEntries == ControlInv /\ BoxInv /\ EntryInv /\ [Next]_vars => EntryInv'
<1> SUFFICES ASSUME ControlInv, BoxInv, EntryInv, [Next]_vars PROVE EntryInv'
  OBVIOUS
<1>0. TypeOK /\ ControlInv'
  BY NextControl DEF ControlInv, Typed
<1>1. ASSUME NEW p \in Procs, Step(p) \/ Crash(p) PROVE EntryInv'
  <2>0. Frame(p)
    BY <1>1, StepControl
  <2>1. CASE p \in Reqs /\ SettleSend(p)
    <3>1. Send(p).key \in Keys /\ gift \in [Keys -> Reqs \cup {None}] /\ p # None /\ scene' = scene
          /\ pc[p] = "settle"
      BY <1>0, <2>0, <2>1, SendIs, GiftsAssumption, SettleCases DEF TypeOK, Frame
    <3>2. ASSUME NEW e \in ledger', e \notin ledger, e.why \in {"refund", "rest"}
          PROVE  EntryOK(e)' /\ \A x \in ledger' : x.why = e.why /\ x.of = e.of => x = e
      BY <2>1, <3>1, <3>2, SettleEntries DEF EntryOK
    <3>3. CASE sess' = sess /\ ledger' = ledger /\ gift' = gift
      <4>1. Sessions' = Sessions /\ \A t : WrittenBy(t)' <=> WrittenBy(t)
        BY <3>1, <3>3 DEF Sessions, WrittenBy, Send
      <4>2. \A e : EntryOK(e)' <=> EntryOK(e)
        BY <3>3, <4>1 DEF EntryOK
      <4> QED
        BY <3>3, <4>1, <4>2 DEF EntryInv, Sessions
    <3>4. CASE gift' = [gift EXCEPT ![Send(p).key] = p]
      <4>1. p = Author(p) /\ WrittenBy(p)'
        <5>1. Author(p) = p
          BY <3>1 DEF Author
        <5>2. Send(p)' = Send(p)
          BY <3>1 DEF Send
        <5>3. gift'[Send(p).key] = p
          BY <3>1, <3>4
        <5> QED
          BY <2>1, <5>1, <5>2, <5>3 DEF WrittenBy
      <4> QED
        BY <1>0, <1>1, <2>0, <3>2, <4>1, EntriesStay
    <3>5. (sess' = sess /\ ledger' = ledger /\ gift' = gift) \/ gift' = [gift EXCEPT ![Send(p).key] = p]
      BY <2>1, SettleCases DEF PutNowhere, PutFails, PutInto, wallets
    <3> QED
      BY <3>3, <3>4, <3>5
  <2>2. CASE p \in Reqs /\ RefundRest(p)
    <3> DEFINE rest == Entry("rest", <<job[p].sess, Txn(p)>>, Send(p).from, GOLD, job[p].back)
    <3>1. pc[p] = "refund" /\ ledger' = Posted({rest})
      BY <2>2 DEF RefundRest, At
    <3>2. job[p].sess \in Sessions /\ WrittenBy(Txn(p)) /\ Sessions \subseteq Sessions'
      BY <2>0, <2>2, <3>1, WorkerIs DEF Late, WrittenBy, Txn, Frame, Sessions
    <3>3. rest.why = "rest" /\ rest.of[1] \in Sessions /\ WrittenBy(rest.of[2])
      BY <3>2, EntryIs
    <3> HIDE DEF rest
    <3>4. ASSUME NEW e \in ledger', e \notin ledger, e.why \in {"refund", "rest"}
          PROVE  EntryOK(e)' /\ \A x \in ledger' : x.why = e.why /\ x.of = e.of => x = e
      <4>1. e = rest /\ \A x \in ledger' : x.why = e.why /\ x.of = e.of => x = rest
        BY <3>1, <3>4, PostedNew
      <4>2. e.why = "rest" /\ e.of[1] \in Sessions' /\ WrittenBy(e.of[2])
        BY <3>2, <3>3, <4>1
      <4>3. WrittenBy(e.of[2])'
        BY <2>0, <4>2, WrittenStays
      <4> QED
        BY <4>1, <4>2, <4>3 DEF EntryOK
    <3>5. ~(p \in Reqs /\ (SettleSend(p) \/ Count(p)))
      BY <3>1 DEF SettleSend, Count, At
    <3> QED
      BY <1>0, <1>1, <2>0, <3>4, <3>5, EntriesStay
  <2>3. CASE ~(p \in Reqs /\ (SettleSend(p) \/ RefundRest(p)))
    <3>1. ledger' = ledger
      BY <1>1, <2>3, Zenon DEF Step, Check, Lock, OpenSend, Tell, Feed, Fill, Count, Complete, OpenNext, Advance,
         Grant, Start, Status, Find, Close, Archive, Make, Boxes, Crash, wallets
    <3>2. PICK t : t = Author(p)
      OBVIOUS
    <3>3. ASSUME p \in Reqs, Count(p) PROVE WrittenBy(t)'
      <4>1. pc[p] = "count" /\ Author(p) = Txn(p) /\ WrittenBy(Txn(p))
        <5>1. pc[p] = "count"
          BY <3>3, CountIs
        <5> QED
          BY <3>3, <5>1, WorkerIs DEF Late, Working, Author, WrittenBy, Txn
      <4> QED
        BY <2>0, <3>2, <4>1, WrittenStays
    <3> QED
      BY <1>0, <1>1, <2>0, <2>3, <3>1, <3>2, <3>3, EntriesStay
  <2> QED
    BY <1>1, <2>1, <2>2, <2>3
<1>2. CASE Midnight \/ (\E k \in LockKeys : Expire(k)) \/ UNCHANGED vars
  <2>1. scene' = scene /\ sess' = sess /\ gift' = gift /\ ledger' = ledger
    BY <1>2 DEF Midnight, Expire, vars, wallets
  <2>2. Sessions' = Sessions /\ \A t : WrittenBy(t)' <=> WrittenBy(t)
    BY <2>1 DEF Sessions, WrittenBy, Send
  <2>3. \A e : EntryOK(e)' <=> EntryOK(e)
    BY <2>1, <2>2 DEF EntryOK
  <2> QED
    BY <2>1, <2>2, <2>3 DEF EntryInv, Sessions
<1> QED
  BY <1>1, <1>2 DEF Next

LEMMA InitEntries == Init => EntryInv
BY DEF Init, EntryInv, Sessions

-----------------------------------------------------------------------------
(* What a step keeps in a locked room: a session that is no longer active  *)
(* stays as it is, and what made the room whole has not yet been lost.     *)
LEMMA WriterSess ==
  ASSUME ControlInv, DayInv, Locked, NEW r \in Reqs, Fill(r) \/ Count(r) \/ OpenNext(r)
  PROVE  \A c \in Sessions : c # job[r].sess => sess'[c] = sess[c]
<1>1. r \in Procs /\ TypeOK
  BY ProcsAre DEF ControlInv, Typed
<1>2. CASE Fill(r)
  <2>1. /\ job[r].sess \in Sessions /\ job[r].level \in Levels /\ FilledBox(r) \in BoxType
        /\ SetBox(r, job[r].level, FilledBox(r))
    BY <1>2, FillIs
  <2> QED
    BY <1>1, <2>1, SetBoxSets
<1>3. CASE Count(r)
  <2>1. pc[r] = "count"
    BY <1>3, CountIs
  <2>2. job[r].sess \in Sessions /\ job[r].level \in Levels
    BY <2>1, WorkerIs DEF Late, Working
  <2> QED
    BY <1>1, <1>3, <2>2, CountIs, SetBoxIs
<1>4. CASE OpenNext(r)
  <2>1. pc[r] = "next"
    BY <1>4, OpenNextIs
  <2>2. job[r].sess \in Sessions
    BY <2>1, WorkerIs DEF Late, Working
  <2> QED
    BY <1>1, <1>4, <2>2, OpenNextIs, SetBoxIs
<1> QED
  BY <1>2, <1>3, <1>4

LEMMA IdleStays ==
  ASSUME ControlInv, BoxInv, DayInv, Locked, NEW p \in Procs, Step(p) \/ Crash(p),
         NEW c \in Sessions, sess[c].status # "ACTIVE"
  PROVE  sess'[c].box = sess[c].box /\ sess'[c].status = "COMPLETED" /\ sess[c].status = "COMPLETED"
<1>0. /\ TypeOK /\ sess[c].status = "COMPLETED" /\ c \notin Active /\ DayHand(p) /\ DaysOK
      /\ Sessions = 1 .. Len(sess) /\ Len(sess) \in Nat
  BY SessionsAre DEF DayInv, DaysOK, Active, ControlInv, Typed
<1>1. CASE /\ p \in Reqs
           /\ Check(p) \/ Lock(p) \/ OpenSend(p) \/ Tell(p) \/ Feed(p) \/ RefundRest(p) \/ Grant(p)
  BY <1>0, <1>1, Zenon DEF Check, Lock, OpenSend, Tell, Feed, RefundRest, Grant
<1>2. CASE p \in Reqs /\ SettleSend(p)
  <2>1. /\ pc[p] = "settle"
        /\ PutNowhere(p) \/ PutFails(p) \/ \E last \in 0 .. BoxCount : \E q : PutInto(p, last, q)
    BY <1>2, SettleCases
  <2>2. /\ Base(p)[c].box = sess[c].box /\ Base(p)[c].status = "COMPLETED" /\ c \in DOMAIN Base(p)
        /\ job[p].sess = -1 => Into(p) = Len(sess) + 1
        /\ job[p].sess # -1 => Into(p) = job[p].sess
    BY <1>0, <1>2, <2>1, BaseIs
  <2>3. job[p].sess \in {-1, 0} \cup Sessions /\ (job[p].sess > 0 => job[p].sess \in Active)
    BY <1>0, <1>2, <2>1, Zenon DEF DayHand, ControlInv, Hand
  <2>4. c # Into(p)
    BY <1>0, <2>2, <2>3
  <2>5. CASE PutInto(p, 0, 0) \/ \E last \in 0 .. BoxCount : \E q : PutInto(p, last, q)
    BY <1>0, <2>2, <2>4, <2>5 DEF PutInto
  <2> QED
    BY <1>0, <2>1, <2>2, <2>5 DEF PutNowhere, PutFails
<1>3. CASE p \in Reqs /\ (Fill(p) \/ Count(p) \/ OpenNext(p))
  <2>1. pc[p] \in Working
    BY <1>3 DEF Fill, Count, OpenNext, At, Working
  <2>2. c # job[p].sess
    BY <1>0, <2>1 DEF DayHand
  <2> QED
    BY <1>0, <1>3, <2>2, WriterSess
<1>4. CASE p \in Reqs /\ Complete(p)
  <2>1. sess' = Finish({job[p].sess}, "COMPLETED")
    BY <1>4 DEF Complete
  <2> QED
    BY <1>0, <2>1, FinishIs
<1>5. CASE p \in Reqs /\ Advance(p)
  BY <1>0, <1>5, AdvanceControl
<1>6. CASE Make(p)
  BY <1>0, <1>6, MakeIs
<1>7. CASE Boxes(p)
  <2>1. c # job[p].sess
    BY <1>0, <1>7, BoxesIs DEF DayHand
  <2> QED
    BY <1>0, <1>7, <2>1, BoxesIs
<1>8. CASE p \in Mgrs /\ Start(p)
  <2>1. sess' = sess \/ \E ss : sess' = Finish(ss, "COMPLETED")
    BY <1>8, StartControl
  <2>2. ASSUME NEW ss, sess' = Finish(ss, "COMPLETED")
        PROVE  sess'[c].box = sess[c].box /\ sess'[c].status = "COMPLETED"
    BY <1>0, <2>2, FinishIs
  <2> QED
    BY <1>0, <2>1, <2>2
<1>9. CASE p \in Mgrs /\ (Status(p) \/ Find(p) \/ Close(p) \/ Archive(p))
  <2>1. scene.op[p] \notin {"none", "start"}
    BY <1>9, Zenon DEF ControlInv, Hand, Status, Find, Close, Archive, At
  <2> QED
    BY <1>9, <2>1 DEF Locked
<1>10. CASE Crash(p)
  BY <1>0, <1>10 DEF Crash
<1> QED
  BY <1>1, <1>2, <1>3, <1>4, <1>5, <1>6, <1>7, <1>8, <1>9, <1>10 DEF Step

(* A ladder that was filled to its last box stays so.                      *)
Sealed(c) == c \in Sessions /\ sess[c].status = "COMPLETED" /\ Full(c)
LEMMA FilledStays ==
  ASSUME ControlInv, BoxInv, DayInv, Locked, NEW p \in Procs, Step(p) \/ Crash(p), NEW c, Sealed(c)
  PROVE  Sealed(c)'
<1>1. c \in Sessions /\ sess[c].status # "ACTIVE" /\ sess[c].box[BoxCount].status = "OPENED"
  BY DEF Sealed, Full
<1>2. sess'[c].box = sess[c].box /\ sess'[c].status = "COMPLETED"
  BY <1>1, IdleStays
<1>3. c \in DOMAIN sess'
  BY <1>1, StepControl DEF Frame, Sessions
<1> QED
  BY <1>1, <1>2, <1>3 DEF Sealed, Full, Sessions

LEMMA WholeStays ==
  ASSUME ControlInv, [Next]_vars, Whole'
  PROVE  Whole
<1>1. scene' = scene
  BY SceneStays
<1>2. \A q \in Procs : pc[q] = "dead" => pc'[q] = "dead" /\ job'[q] = job[q]
  BY DeadStays
<1> QED
  BY <1>1, <1>2 DEF Whole, Audio

(* Nobody dies at work in an audio room that stays whole.                  *)
LEMMA WholeDeath ==
  ASSUME ControlInv, Audio, NEW p \in Procs, Crash(p), Whole'
  PROVE  pc[p] \notin Behind
<1>1. scene' = scene /\ pc'[p] = "dead" /\ job' = job
  BY CrashControl, Goes DEF Crash, ControlInv, Typed, PCs
<1>2. p \in Reqs /\ job[p].level = 0
  BY <1>1 DEF Whole, Audio
<1>3. Hand(p) /\ 0 \notin Levels
  BY LevelsAre DEF ControlInv, Levels
<1> QED
  BY <1>2, <1>3 DEF Hand

-----------------------------------------------------------------------------
(* In such a room the active ladder has an open box, or somebody who holds *)
(* the lock is about to see to it.                                         *)
Attending == {"boxes", "count", "next", "level"}
Ready(s) ==
    \/ sess[s].box[sess[s].level].status = "ACTIVE"
    \/ \E q \in Procs : pc[q] \in Attending /\ job[q].sess = s
ReadyInv == Locked /\ Whole /\ Audio => \A s \in Active : Ready(s)

LEMMA ReadyKept ==
  ASSUME TypeOK, NEW p \in Procs, Frame(p), NEW s \in Sessions, Ready(s), SameBoxes(s),
         ~(pc[p] \in Attending /\ job[p].sess = s)
  PROVE  Ready(s)'
<1>1. sess[s].level \in Levels
  BY SessionsAre DEF SessType
<1>2. CASE sess[s].box[sess[s].level].status = "ACTIVE"
  BY <1>1, <1>2 DEF SameBoxes, Ready
<1>3. CASE \E q \in Procs : pc[q] \in Attending /\ job[q].sess = s
  <2>1. PICK q \in Procs : pc[q] \in Attending /\ job[q].sess = s
    BY <1>3
  <2>2. pc'[q] = pc[q] /\ job'[q] = job[q]
    BY <2>1 DEF Frame
  <2> QED
    BY <2>1, <2>2 DEF Ready
<1> QED
  BY <1>2, <1>3 DEF Ready

(* A worker alone attends to its session.                                  *)
LEMMA AloneAtWork ==
  ASSUME ControlInv, Locked, NEW p \in Procs, Holds(p), NEW s,
         \E q \in Procs : pc[q] \in Attending /\ job[q].sess = s
  PROVE  pc[p] \in Attending /\ job[p].sess = s
<1>1. PICK q \in Procs : pc[q] \in Attending /\ job[q].sess = s
  OBVIOUS
<1>2. Holds(q)
  BY <1>1, LockedHolds DEF Attending, Working
<1> QED
  BY <1>1, <1>2, OneHolder

(* A send of such a room pours into an active ladder with an open box.     *)
LEMMA IntoOpen ==
  ASSUME ControlInv, DayInv, ReadyInv, Locked, Whole, Audio, NEW r \in Reqs, pc[r] = "settle",
         NEW n, n = Into(r), n # 0, NEW se, se = Base(r)[n]
  PROVE  /\ se \in SessType /\ se.level \in Levels /\ se.status = "ACTIVE"
         /\ se.box[se.level].status = "ACTIVE"
<1>1. /\ TypeOK /\ r \in Procs /\ DayHand(r) /\ Holds(r) /\ Hand(r)
  BY ProcsAre DEF ControlInv, Typed, Holds, DayInv
<1>2. /\ job[r].sess \in {-1, 0} \cup Sessions /\ (job[r].sess > 0 => job[r].sess \in Active)
      /\ (job[r].sess # -1 => job[r].old = 0) /\ 0 \notin Sessions /\ Sessions \subseteq Nat
  BY <1>1, SessionsAre DEF DayHand, Hand
<1>3. CASE job[r].sess = -1
  <2>1. se = Laid(Bare) /\ 1 \in Levels
    BY <1>1, <1>3, BaseIs, LevelsAre DEF Levels
  <2>2. /\ Laid(Bare).level = 1 /\ Laid(Bare).status = "ACTIVE" /\ Laid(Bare).box[1] = Fresh(1)
        /\ Fresh(1).status = "ACTIVE" /\ Laid(Bare) \in SessType
    BY <1>1, <2>1, BareOK, FreshIs
  <2> QED
    BY <2>1, <2>2
<1>4. CASE job[r].sess # -1
  <2>1. n = job[r].sess /\ n \in Active /\ n \in Sessions /\ job[r].old = 0
    BY <1>1, <1>2, <1>4, BaseIs
  <2>2. se.level = sess[n].level /\ se.box = sess[n].box /\ se.status = "ACTIVE" /\ se \in SessType
    BY <1>1, <1>2, <2>1, BaseIs DEF Active
  <2>3. sess[n].box[sess[n].level].status = "ACTIVE"
    <3>1. Ready(n)
      BY <2>1 DEF ReadyInv
    <3> QED
      BY <1>1, <3>1, AloneAtWork DEF Ready, Attending
  <2>4. sess[n].level \in Levels
    BY <1>1, <2>1, SessionsAre DEF SessType
  <2> QED
    BY <2>2, <2>3, <2>4
<1> QED
  BY <1>3, <1>4

LEMMA SettleReady ==
  ASSUME ControlInv, BoxInv, DayInv, ReadyInv, Locked, Whole, Audio, NEW r \in Reqs, SettleSend(r),
         NEW s \in DOMAIN sess', sess'[s].status = "ACTIVE"
  PROVE  Ready(s)'
<1>1. /\ TypeOK /\ r \in Procs /\ pc[r] = "settle" /\ DayHand(r) /\ Frame(r) /\ Holds(r) /\ Hand(r)
      /\ PutNowhere(r) \/ PutFails(r) \/ \E last \in 0 .. BoxCount : \E q : PutInto(r, last, q)
      /\ Sessions = 1 .. Len(sess) /\ Len(sess) \in Nat
  BY SettleCases, SettleControl, ProcsAre, SessionsAre DEF ControlInv, Typed, Holds, DayInv
<1>2. /\ Base(r) \in Seq(SessType) /\ DOMAIN Base(r) = 1 .. Len(Base(r))
      /\ Len(Base(r)) = IF job[r].sess = -1 THEN Len(sess) + 1 ELSE Len(sess)
      /\ \A x \in Sessions : /\ Base(r)[x].level = sess[x].level
                             /\ Base(r)[x].box = sess[x].box
                             /\ Base(r)[x].status = IF x = job[r].old THEN "COMPLETED" ELSE sess[x].status
      /\ job[r].sess = -1 => Into(r) = Len(sess) + 1 /\ Base(r)[Into(r)] = Laid(Bare)
      /\ job[r].sess # -1 => Into(r) = job[r].sess
      /\ Into(r) # 0 => Into(r) \in DOMAIN Base(r) /\ Base(r)[Into(r)] \in SessType
  BY <1>1, BaseIs
<1>3. /\ job[r].sess \in {-1, 0} \cup Sessions /\ (job[r].sess > 0 => job[r].sess \in Active)
  BY <1>1 DEF DayHand, Hand
<1>4. ASSUME NEW x \in Sessions, sess'[x].box = sess[x].box, sess'[x].level = sess[x].level,
             sess[x].status = "ACTIVE"
      PROVE  Ready(x)'
  <2>1. Ready(x) /\ SameBoxes(x)
    BY <1>4 DEF ReadyInv, Active, SameBoxes
  <2> QED
    BY <1>1, <2>1, ReadyKept DEF Attending
<1>5. CASE PutNowhere(r)
  <2>1. sess' = Base(r) /\ s \in Sessions
    BY <1>1, <1>2, <1>3, <1>5 DEF PutNowhere
  <2>2. sess'[s].box = sess[s].box /\ sess'[s].level = sess[s].level /\ sess[s].status = "ACTIVE"
    BY <1>2, <2>1
  <2> QED
    BY <1>4, <2>1, <2>2
<1>6. CASE PutFails(r)
  <2>1. sess' = sess /\ s \in Sessions
    BY <1>6 DEF PutFails, Sessions
  <2> QED
    BY <1>4, <2>1
<1>7. ASSUME NEW last \in 0 .. BoxCount, NEW q, PutInto(r, last, q)
      PROVE  Ready(s)'
  <2> DEFINE n == Into(r)
             se == Base(r)[n]
             to == Pour(se, Send(r).from, Amt(r), r, last)
             full == Filled(se, Amt(r), last)
  <2>1. n \in DOMAIN Base(r) /\ se \in SessType /\ sess' = [Base(r) EXCEPT ![n] = to] /\ n # 0
    BY <1>2, <1>7 DEF PutInto
  <2>2. CASE s # n
    <3>1. sess'[s] = Base(r)[s] /\ s \in Sessions
      BY <1>1, <1>2, <2>1, <2>2
    <3>2. sess'[s].box = sess[s].box /\ sess'[s].level = sess[s].level /\ sess[s].status = "ACTIVE"
      BY <1>2, <3>1
    <3> QED
      BY <1>4, <3>1, <3>2
  <2>3. CASE s = n
    <3>1. sess'[s] = to
      BY <2>1, <2>3
    <3>2. se.box[se.level].status = "ACTIVE" /\ se.level \in Levels
      BY <1>1, <2>1, IntoOpen
    <3>3. Send(r).from \in Users /\ Amt(r) \in Nat
      BY <1>1, SendIs DEF Amt
    <3> HIDE DEF se
    <3>4. /\ to.status = (IF BoxCount \in full THEN "COMPLETED" ELSE se.status)
          /\ full = {} => to.level = se.level
          /\ full # {} => /\ Max(full) \in full /\ \A l \in full : l <= Max(full)
                          /\ to.level = IF Max(full) < BoxCount THEN Max(full) + 1 ELSE BoxCount
          /\ \A l \in Levels : to.box[l].status = IF l \in full THEN "OPENED"
                                                  ELSE IF l - 1 \in full THEN "ACTIVE" ELSE se.box[l].status
      BY <1>1, <2>1, <3>3, PourTyped
    <3>5. full \subseteq Levels
      BY <3>2, ReachIs
    <3>6. to.status = "ACTIVE"
      BY <3>1
    <3> HIDE DEF to, full
    <3>7. BoxCount \notin full
      BY <3>4, <3>6
    <3>8. to.box[to.level].status = "ACTIVE"
      <4>1. CASE full = {}
        BY <3>2, <3>4, <4>1
      <4>2. CASE full # {}
        <5>1. Max(full) \in Levels /\ Max(full) # BoxCount
          BY <3>4, <3>5, <3>7, <4>2
        <5>2. Max(full) < BoxCount /\ Max(full) + 1 \in Levels /\ Max(full) \in Nat
          BY <5>1, LevelsAre DEF Levels
        <5>3. to.level = Max(full) + 1 /\ Max(full) + 1 \notin full /\ (Max(full) + 1) - 1 = Max(full)
          BY <3>4, <4>2, <5>2
        <5>4. (Max(full) + 1) - 1 \in full
          BY <3>4, <4>2, <5>3
        <5> QED
          BY <3>4, <5>2, <5>3, <5>4
      <4> QED
        BY <4>1, <4>2
    <3> QED
      BY <3>1, <3>8 DEF Ready
  <2> QED
    BY <2>2, <2>3
<1> QED
  BY <1>1, <1>5, <1>6, <1>7

LEMMA ReadyStep ==
  ASSUME ControlInv, BoxInv, DayInv, ReadyInv, Locked, Whole, Audio, Whole',
         NEW p \in Procs, Step(p) \/ Crash(p),
         NEW s \in DOMAIN sess', sess'[s].status = "ACTIVE"
  PROVE  Ready(s)'
<1>0. /\ TypeOK /\ Frame(p) /\ Sessions = 1 .. Len(sess) /\ Len(sess) \in Nat
      /\ DaysOK /\ DayHand(p) /\ (p \in Reqs => Work(p))
  BY StepControl, SessionsAre DEF ControlInv, Typed, DayInv, BoxInv
<1>1. ASSUME s \in Sessions
      PROVE  /\ s \in Active /\ Ready(s)
             /\ SameBoxes(s) /\ ~(pc[p] \in Attending /\ job[p].sess = s) => Ready(s)'
  <2>1. s \in Active /\ Ready(s)
    BY <1>1, IdleStays DEF Active, ReadyInv
  <2> QED
    BY <1>0, <1>1, <2>1, ReadyKept
<1>2. CASE /\ sess' = sess \/ (DOMAIN sess' = DOMAIN sess /\ \A x \in Sessions : SameBoxes(x))
           /\ pc[p] \notin Attending
  <2>1. s \in Sessions /\ SameBoxes(s)
    BY <1>2, SameSess DEF Sessions
  <2> QED
    BY <1>1, <1>2, <2>1
<1>3. CASE p \in Reqs /\ (Check(p) \/ Lock(p) \/ OpenSend(p) \/ Tell(p) \/ Feed(p) \/ RefundRest(p) \/ Grant(p))
  <2>1. pc[p] \in {"idle", "lock", "open", "tell", "feed", "refund", "grant"} /\ sess' = sess
    BY <1>3, Zenon DEF Check, Lock, OpenSend, Tell, Feed, RefundRest, Grant, At
  <2> QED
    BY <1>2, <2>1 DEF Attending
<1>4. CASE p \in Reqs /\ SettleSend(p)
  BY <1>4, SettleReady
<1>5. CASE p \in Reqs /\ (Fill(p) \/ OpenNext(p))
  <2>1. /\ pc'[p] \in {"count", "level"} /\ job'[p].sess = job[p].sess /\ DOMAIN sess' = DOMAIN sess
    <3>1. CASE Fill(p)
      <4>1. pc'[p] = "count" /\ job'[p].sess = job[p].sess
        BY <1>0, <1>5, <3>1, FillIs, Goes DEF PCs
      <4>2. DOMAIN sess' = DOMAIN sess
        BY <1>0, <1>5, <3>1, FillIs, SetBoxIs
      <4> QED
        BY <4>1, <4>2
    <3>2. CASE OpenNext(p)
      <4>1. pc'[p] = "level" /\ job'[p].sess = job[p].sess /\ pc[p] = "next"
        BY <1>0, <1>5, <3>2, OpenNextIs, Goes DEF PCs
      <4>2. DOMAIN sess' = DOMAIN sess
        BY <1>0, <1>5, <3>2, <4>1, OpenNextIs, WorkerIs, SetBoxIs DEF Late, Working
      <4> QED
        BY <4>1, <4>2
    <3> QED
      BY <1>5, <3>1, <3>2
  <2>2. CASE s = job[p].sess
    BY <2>1, <2>2 DEF Ready, Attending
  <2>3. CASE s # job[p].sess
    <3>1. s \in Sessions /\ sess'[s] = sess[s]
      BY <1>5, <2>1, <2>3, WriterSess DEF Sessions
    <3> QED
      BY <1>1, <2>3, <3>1 DEF SameBoxes
  <2> QED
    BY <2>2, <2>3
<1>6. CASE p \in Reqs /\ Count(p)
  <2> DEFINE c == job[p].sess
             l == job[p].level
  <2>1. /\ pc[p] = "count" /\ job' = job /\ c \in Sessions /\ l \in Levels
        /\ \/ l \in job[p].full /\ pc'[p] = "next"
           \/ l \notin job[p].full /\ pc'[p] = "refund"
    <3>1. /\ pc[p] = "count" /\ job' = job
          /\ \/ l \in job[p].full /\ Go(p, "next")
             \/ l \notin job[p].full /\ Go(p, "refund")
      BY <1>6, CountIs
    <3>2. c \in Sessions /\ l \in Levels
      BY <1>6, <3>1, WorkerIs DEF Late, Working
    <3> QED
      BY <1>0, <3>1, <3>2, Goes DEF PCs
  <2>2. \/ sess' = sess
        \/ SetBox(p, l, CountedBox(p)) /\ CountedBox(p) \in BoxType /\ CountedBox(p).status = Mine(p).status
    BY <1>6, CountIs, CountBoxes DEF Mine
  <2>3. /\ DOMAIN sess' = DOMAIN sess /\ \A x \in Sessions : x # c => sess'[x] = sess[x]
        /\ sess'[c].level = sess[c].level /\ sess'[c].box[l].status = sess[c].box[l].status
    <3>1. CASE sess' = sess
      BY <3>1
    <3>2. CASE SetBox(p, l, CountedBox(p)) /\ CountedBox(p) \in BoxType /\ CountedBox(p).status = Mine(p).status
      <4>1. /\ DOMAIN sess' = DOMAIN sess /\ \A x \in Sessions : x # c => sess'[x] = sess[x]
            /\ sess'[c].level = sess[c].level /\ sess'[c].box[l] = CountedBox(p)
        BY <1>0, <2>1, <3>2, SetBoxIs
      <4> QED
        BY <3>2, <4>1 DEF Mine
    <3> QED
      BY <2>2, <3>1, <3>2
  <2>4. CASE s # c
    <3>1. s \in Sessions /\ sess'[s] = sess[s]
      BY <2>3, <2>4 DEF Sessions
    <3> QED
      BY <1>1, <2>4, <3>1 DEF SameBoxes
  <2>5. CASE s = c /\ pc'[p] = "next"
    BY <2>1, <2>5 DEF Ready, Attending
  <2>6. CASE s = c /\ l \notin job[p].full
    <3>1. l = sess[c].level /\ sess[c].box[l].status = "ACTIVE"
      BY <1>0, <1>6, <2>1, <2>6 DEF Work, Mine, Working
    <3> QED
      BY <2>3, <2>6, <3>1 DEF Ready
  <2> QED
    BY <2>1, <2>4, <2>5, <2>6
<1>7. CASE p \in Reqs /\ Complete(p)
  <2>1. sess' = Finish({job[p].sess}, "COMPLETED")
    BY <1>7 DEF Complete
  <2>2. DOMAIN sess' = DOMAIN sess /\ \A x \in Sessions : SameBoxes(x)
    BY <1>0, <2>1, FinishSame
  <2>3. s \in Sessions /\ s # job[p].sess
    BY <1>0, <2>1, <2>2, FinishIs DEF Sessions
  <2> QED
    BY <1>1, <2>2, <2>3
<1>8. CASE p \in Reqs /\ Advance(p)
  <2> DEFINE c == job[p].sess
             l == job[p].level
  <2>1. /\ pc[p] = "level" /\ DOMAIN sess' = DOMAIN sess
        /\ \A x \in Sessions : (x # c => sess'[x] = sess[x]) /\ sess'[x].box = sess[x].box
        /\ sess'[c].level = l + 1
    BY <1>8, AdvanceControl
  <2>2. CASE s # c
    <3>1. s \in Sessions /\ sess'[s] = sess[s]
      BY <2>1, <2>2 DEF Sessions
    <3> QED
      BY <1>1, <2>2, <3>1 DEF SameBoxes
  <2>3. CASE s = c
    <3>1. sess[c].box[l + 1].status = "ACTIVE" /\ c \in Sessions
      BY <1>0, <1>8, <2>1, <2>3 DEF Work, Sessions
    <3> QED
      BY <2>1, <2>3, <3>1 DEF Ready
  <2> QED
    BY <2>2, <2>3
<1>9. CASE Make(p)
  <2>1. /\ pc[p] = "make" /\ pc'[p] = "boxes" /\ job'[p].sess = Len(sess) + 1
        /\ DOMAIN sess' = 1 .. Len(sess) + 1 /\ \A x \in Sessions : sess'[x] = sess[x]
    BY <1>9, MakeIs
  <2>2. CASE s = Len(sess) + 1
    BY <2>1, <2>2 DEF Ready, Attending
  <2>3. CASE s # Len(sess) + 1
    <3>1. s \in Sessions
      BY <1>0, <2>1, <2>3
    <3> QED
      BY <1>1, <2>1, <3>1 DEF SameBoxes, Attending
  <2> QED
    BY <2>2, <2>3
<1>10. CASE Boxes(p)
  <2> DEFINE c == job[p].sess
  <2>1. /\ pc[p] = "boxes" /\ c \in Sessions /\ sess[c].box[1] = NoBox /\ DOMAIN sess' = DOMAIN sess
        /\ \A x \in Sessions : (x # c => sess'[x] = sess[x]) /\ sess'[x].level = sess[x].level
        /\ \A l \in Levels : sess'[c].box[l] = Fresh(l)
    <3>1. pc[p] = "boxes" /\ c \in Sessions
      BY <1>10, BoxesIs
    <3>2. sess[c].box[1] = NoBox
      BY <1>0, <3>1 DEF DayHand
    <3> QED
      BY <1>10, <3>1, <3>2, BoxesIs
  <2>2. CASE s # c
    <3>1. s \in Sessions /\ sess'[s] = sess[s]
      BY <2>1, <2>2 DEF Sessions
    <3> QED
      BY <1>1, <2>2, <3>1 DEF SameBoxes
  <2>3. CASE s = c
    <3>1. sess[c].level = 1 /\ 1 \in Levels
      BY <1>0, <2>1, FirstBox, LevelsAre DEF BoxInv, Levels
    <3>2. sess'[c].level = 1 /\ sess'[c].box[1].status = "ACTIVE"
      BY <1>0, <2>1, <3>1, BareOK
    <3> QED
      BY <2>3, <3>2 DEF Ready
  <2> QED
    BY <2>2, <2>3
<1>11. CASE p \in Mgrs /\ Start(p)
  <2>1. pc[p] = "idle"
    BY <1>11 DEF Start, At
  <2>2. \/ sess' = sess
        \/ \E ss : \E st \in {"ACTIVE", "COMPLETED", "CANCELLED", "ARCHIVED"} : sess' = Finish(ss, st)
    BY <1>11, ManagerFinishes
  <2>3. sess' = sess \/ (DOMAIN sess' = DOMAIN sess /\ \A x \in Sessions : SameBoxes(x))
    BY <1>0, <2>2, FinishSame
  <2> QED
    BY <1>2, <2>1, <2>3 DEF Attending
<1>12. CASE p \in Mgrs /\ (Status(p) \/ Find(p) \/ Close(p) \/ Archive(p))
  <2>1. scene.op[p] \notin {"none", "start"}
    BY <1>12, Zenon DEF ControlInv, Hand, Status, Find, Close, Archive, At
  <2> QED
    BY <1>12, <2>1 DEF Locked
<1>13. CASE Crash(p)
  <2>1. pc[p] \notin Attending /\ sess' = sess
    BY <1>13, WholeDeath DEF Attending, Behind, Working, Crash
  <2> QED
    BY <1>2, <2>1
<1> QED
  BY <1>3, <1>4, <1>5, <1>6, <1>7, <1>8, <1>9, <1>10, <1>11, <1>12, <1>13 DEF Step

LEMMA NextReady == ControlInv /\ BoxInv /\ DayInv /\ ReadyInv /\ [Next]_vars => ReadyInv'
<1> SUFFICES ASSUME ControlInv, BoxInv, DayInv, ReadyInv, [Next]_vars, Locked', Whole', Audio',
                    NEW s \in Active'
             PROVE  Ready(s)'
  BY DEF ReadyInv
<1>1. scene' = scene /\ Whole
  BY SceneStays, WholeStays
<1>2. Locked /\ Audio
  BY <1>1 DEF Locked, Audio
<1>3. s \in DOMAIN sess' /\ sess'[s].status = "ACTIVE"
  BY DEF Active, Sessions
<1>4. ASSUME NEW p \in Procs, Step(p) \/ Crash(p) PROVE Ready(s)'
  BY <1>1, <1>2, <1>3, <1>4, ReadyStep
<1>5. CASE Midnight \/ (\E k \in LockKeys : Expire(k)) \/ UNCHANGED vars
  <2>1. sess' = sess /\ pc' = pc /\ job' = job
    BY <1>5 DEF Midnight, Expire, vars
  <2>2. s \in Active
    BY <1>3, <2>1 DEF Active, Sessions
  <2> QED
    BY <1>1, <1>2, <2>1, <2>2 DEF ReadyInv, Ready
<1> QED
  BY <1>4, <1>5 DEF Next

LEMMA InitReady == Init => ReadyInv
BY DEF Init, ReadyInv, Active, Sessions

(* A send that finds the day's ladder complete has an elder to show.       *)
SkipInv ==
    Locked /\ Audio =>
      \A r \in Reqs : pc[r] = "settle" /\ job[r].sess = 0 => \E c \in Sessions : Sealed(c)

LEMMA SkipStep ==
  ASSUME ControlInv, BoxInv, DayInv, SkipInv, Locked, Audio, NEW p \in Procs, Step(p) \/ Crash(p),
         NEW r \in Reqs, pc'[r] = "settle", job'[r].sess = 0
  PROVE  \E c \in DOMAIN sess' : Sealed(c)'
<1>0. TypeOK /\ Typed /\ Frame(p) /\ r \in Procs
  BY StepControl, ProcsAre DEF ControlInv, Typed
<1>1. ASSUME NEW c, Sealed(c) PROVE \E x \in DOMAIN sess' : Sealed(x)'
  <2>1. Sealed(c)'
    BY <1>1, FilledStays
  <2>2. c \in DOMAIN sess'
    BY <2>1 DEF Sealed, Sessions
  <2> QED
    BY <2>1, <2>2
<1>2. CASE p # r
  <2>1. pc[r] = "settle" /\ job[r].sess = 0
    BY <1>0, <1>2 DEF Frame
  <2> QED
    BY <1>1, <2>1 DEF SkipInv
<1>3. CASE p = r
  <2>1. OpenSend(r)
    <3>1. ASSUME SettleSend(r) PROVE FALSE
      BY <1>0, <3>1, SettleCases, Goes, SMTT(30) DEF PCs
    <3>2. ASSUME Fill(r) \/ Count(r) \/ OpenNext(r) \/ Complete(r) \/ Advance(r) PROVE FALSE
      BY <1>0, <3>2, Goes DEF PCs, Fill, Count, OpenNext, Complete, Advance
    <3>3. ASSUME Make(r) \/ Boxes(r) \/ Feed(r) PROVE FALSE
      BY <1>0, <3>3, Goes, EndIs, ZenonT(40) DEF PCs, Make, Boxes, Feed
    <3>4. ASSUME Check(r) \/ Lock(r) \/ Tell(r) \/ RefundRest(r) \/ Grant(r) PROVE FALSE
      BY <1>0, <3>4, Goes, EndIs DEF PCs, Check, Lock, Tell, RefundRest, Grant
    <3>5. ASSUME Crash(r) PROVE FALSE
      BY <1>0, <3>5, CrashControl
    <3> QED
      BY <1>0, <1>3, <3>1, <3>2, <3>3, <3>4, <3>5, ProcsAre DEF Step
  <2>2. PICK s \in IF Audio /\ Active # {} THEN Active ELSE {0} :
           Hold(r, [Blank EXCEPT !.sess = IF s # 0 /\ sess[s].day = day THEN s
                                          ELSE IF Audio /\ ~(s # 0 /\ sess[s].day = day) /\ ~CompletedToday
                                               THEN -1 ELSE 0,
                                 !.old = IF s # 0 /\ sess[s].day = day THEN 0 ELSE s])
    <3>1. ~End(r) /\ ~Go(r, "tell")
      BY <1>0, Goes, EndIs DEF PCs
    <3> QED
      BY <2>1, <3>1, Zenon DEF OpenSend
  <2>3. job'[r].sess = (IF s # 0 /\ sess[s].day = day THEN s
                        ELSE IF Audio /\ ~(s # 0 /\ sess[s].day = day) /\ ~CompletedToday
                             THEN -1 ELSE 0)
    BY <1>0, <2>2 DEF Hold, Blank, Typed
  <2>4. CompletedToday
    BY <2>3
  <2>5. \E c \in Sessions : Sealed(c)
    BY <2>4 DEF CompletedToday, Sealed, DayInv, DaysOK
  <2> QED
    BY <1>1, <2>5
<1> QED
  BY <1>2, <1>3

LEMMA NextSkip == ControlInv /\ BoxInv /\ DayInv /\ SkipInv /\ [Next]_vars => SkipInv'
<1> SUFFICES ASSUME ControlInv, BoxInv, DayInv, SkipInv, [Next]_vars, Locked', Audio',
                    NEW r \in Reqs, pc'[r] = "settle", job'[r].sess = 0
             PROVE  \E c \in DOMAIN sess' : Sealed(c)'
  BY DEF SkipInv, Sessions
<1>1. Locked /\ Audio
  BY SceneStays DEF Locked, Audio
<1>2. ASSUME NEW p \in Procs, Step(p) \/ Crash(p) PROVE \E c \in DOMAIN sess' : Sealed(c)'
  BY <1>1, <1>2, SkipStep
<1>3. CASE Midnight \/ (\E k \in LockKeys : Expire(k)) \/ UNCHANGED vars
  <2>1. sess' = sess /\ pc' = pc /\ job' = job
    BY <1>3 DEF Midnight, Expire, vars
  <2>2. \E c \in Sessions : Sealed(c)
    BY <1>1, <2>1 DEF SkipInv
  <2> QED
    BY <2>1, <2>2 DEF Sealed, Full, Sessions
<1> QED
  BY <1>2, <1>3 DEF Next

LEMMA InitSkip == Init => SkipInv
BY ProcsAre DEF Init, SkipInv

-----------------------------------------------------------------------------
(* Where the coins of gift t are.  A mate of t is a request of its key;    *)
(* one that is on a ladder still has coins in hand.                        *)
Mate(r, t) == Send(r).key = Send(t).key
OnLadder == {"boxes"} \cup Working
InHand(r) == job[r].left + (IF pc[r] = "count" THEN job[r].took ELSE 0)
HandIn(r, t, s) ==
    /\ pc[r] \in OnLadder => LandedIn(t, s) + InHand(r) <= Send(t).amt
    /\ pc[r] = "refund" /\ job[r].back > 0 =>
         sess[s].status # "ACTIVE" /\ LandedIn(t, s) + job[r].back <= Send(t).amt
HandOK(r, t) == \A s \in Sessions : job[r].sess = s => HandIn(r, t, s)
Returned(t, s) == SumAmt(RefundOf(Send(t).key) \cup RestOf(s, t))
Home(t, s) == LandedIn(t, s) + Returned(t, s)

(* Settled by its transaction: it is home, and nobody will hear of it.     *)
Settled(t) ==
    /\ Counted(t) /\ \A r \in Reqs : Mate(r, t) => pc[r] \notin Behind
    /\ \A s \in Sessions : RestOf(s, t) = {} /\ Home(t, s) <= Send(t).amt
    /\ \E s \in Sessions : Home(t, s) = Send(t).amt

(* Left to the listeners, who bring home no more than there is.            *)
Heard(t) ==
    /\ RefundOf(Send(t).key) = {}
    /\ \A s \in Sessions : /\ Home(t, s) <= Send(t).amt
                           /\ RestOf(s, t) # {} => sess[s].status # "ACTIVE"
    /\ \A r \in Reqs : Mate(r, t) => HandOK(r, t)

(* It met a filled ladder, c: its coins can only land behind it.           *)
MissedAt(t, c) ==
    /\ Sealed(c) /\ \A s \in Sessions : s <= c => LandedIn(t, s) = 0 /\ RestOf(s, t) = {}
    /\ \A r \in Reqs : Mate(r, t) /\ pc[r] \in OnLadder \cup {"refund"} => job[r].sess > c
Missed(t) == \E c \in Sessions : MissedAt(t, c)
Once(t) == (Audio /\ Settled(t)) \/ (Heard(t) /\ (Audio => Missed(t)))
LandInv == Locked /\ Whole => \A t \in Reqs : WrittenBy(t) => Once(t)

(* The coins of a gift that a step does not count stay where they are.     *)
LEMMA LandedSame ==
  ASSUME TypeOK, NEW t, NEW s \in DOMAIN sess',
         \A l \in Levels : RowsFrom(OldRows(s, l), sess'[s].box[l].rows, t)
  PROVE  LandedIn(t, s)' = IF s \in Sessions THEN LandedIn(t, s) ELSE 0
<1> DEFINE f == [l \in Levels |-> RowsOf(sess[s].box[l].rows, t)]
           g == [l \in Levels |-> RowsOf(sess'[s].box[l].rows, t)]
<1>1. LandedIn(t, s) = SumFunction(f) /\ LandedIn(t, s)' = SumFunction(g)
  BY DEF LandedIn
<1>2. CASE s \in Sessions
  <2>1. \A l \in Levels : g[l] = f[l]
    BY <1>2, BoxIs, RowsFromSame, ZenonT(40) DEF OldRows, RowType
  <2>2. g = f
    BY <2>1
  <2> HIDE DEF f, g
  <2> QED
    BY <1>1, <1>2, <2>2
<1>3. CASE s \notin Sessions
  <2>1. ASSUME NEW l \in Levels PROVE g[l] = 0
    <3>1. <<>> \in Seq(RowType) /\ OldRows(s, l) = <<>> /\ \A i \in DOMAIN <<>> : <<>>[i].txn # t
      BY <1>3 DEF OldRows
    <3>2. RowsOf(<<>>, t) = 0
      <4>1. PICK none : none = <<>>
        OBVIOUS
      <4>2. none \in Seq(RowType) /\ \A i \in DOMAIN none : none[i].txn # t
        BY <3>1, <4>1
      <4>3. RowsOf(none, t) = 0
        BY <4>2, RowsOfNone
      <4> QED
        BY <4>1, <4>3
    <3>3. RowsOf(sess'[s].box[l].rows, t) = RowsOf(<<>>, t)
      BY <3>1, RowsFromSame
    <3> QED
      BY <3>2, <3>3
  <2>2. DOMAIN g = Levels
    OBVIOUS
  <2> HIDE DEF g
  <2>3. SumFunctionOnSet(g, Levels) = 0
    BY <2>1, <2>2, LevelsAre, SumZero
  <2>4. SumFunction(g) = SumFunctionOnSet(g, Levels)
    BY <2>2, SumOfAll
  <2> QED
    BY <1>1, <1>3, <2>3, <2>4
<1> QED
  BY <1>2, <1>3

LEMMA LandedKept ==
  ASSUME ControlInv, BoxInv, NEW p \in Procs, Step(p) \/ Crash(p), NEW t,
         p \in Reqs /\ (SettleSend(p) \/ Count(p)) => Author(p) # t
  PROVE  \A s \in DOMAIN sess' : LandedIn(t, s)' = IF s \in Sessions THEN LandedIn(t, s) ELSE 0
<1> SUFFICES ASSUME NEW s \in DOMAIN sess'
             PROVE  LandedIn(t, s)' = IF s \in Sessions THEN LandedIn(t, s) ELSE 0
  OBVIOUS
<1>1. ASSUME NEW l \in Levels PROVE RowsFrom(OldRows(s, l), sess'[s].box[l].rows, t)
  <2>1. Grows(s, l, Author(p)) /\ (~(p \in Reqs /\ (SettleSend(p) \/ Count(p)))
                                    => sess'[s].box[l].rows = OldRows(s, l))
    BY RowsStep
  <2> QED
    BY <2>1 DEF RowsFrom, Grows
<1> QED
  BY <1>1, LandedSame DEF ControlInv, Typed

(* What gives coins back is written by the transaction of the key, or by a *)
(* listener of it.                                                         *)
LEMMA EntryKept ==
  ASSUME ControlInv, NEW p \in Procs, Step(p) \/ Crash(p), NEW t \in Reqs,
         p \in Reqs /\ (SettleSend(p) \/ RefundRest(p)) => ~Mate(p, t)
  PROVE  RefundOf(Send(t).key)' = RefundOf(Send(t).key) /\ \A s : RestOf(s, t)' = RestOf(s, t)
<1> DEFINE New(e) == e \in ledger' /\ e \notin ledger /\ e.why \in {"refund", "rest"}
<1>0. TypeOK /\ Send(t)' = Send(t) /\ ledger \subseteq ledger'
  <2>1. Frame(p)
    BY StepControl
  <2>2. ledger' = ledger \/ \E es : ledger' = Posted(es)
    BY ZenonT(40) DEF Step, Check, Lock, OpenSend, SettleSend, Tell, Feed, Fill, Count, Complete, OpenNext, Advance,
       RefundRest, Grant, Start, Status, Find, Close, Archive, Make, Boxes, Crash, wallets
  <2> QED
    BY <2>1, <2>2 DEF ControlInv, Typed, Frame, Send, Posted
<1>1. ASSUME NEW e, New(e) PROVE ~(e.why = "refund" /\ e.of = Send(t).key) /\ ~(e.why = "rest" /\ e.of[2] = t)
  <2>1. CASE p \in Reqs /\ SettleSend(p)
    BY <1>1, <2>1, SettleEntries DEF Mate
  <2>2. CASE p \in Reqs /\ RefundRest(p)
    <3> DEFINE rest == Entry("rest", <<job[p].sess, Txn(p)>>, Send(p).from, GOLD, job[p].back)
    <3>1. e \in {rest}
      BY <1>1, <2>2, PostedNew DEF RefundRest
    <3>2. e.why = "rest" /\ e.of[2] = Txn(p)
      BY <3>1, EntryIs
    <3>3. Send(Txn(p)).key = Send(p).key
      BY <2>2, WorkerIs DEF Late, RefundRest, At
    <3> QED
      BY <2>2, <3>2, <3>3 DEF Mate
  <2>3. CASE ~(p \in Reqs /\ (SettleSend(p) \/ RefundRest(p)))
    <3>1. ledger' = ledger
      BY <2>3, Zenon DEF Step, Check, Lock, OpenSend, Tell, Feed, Fill, Count, Complete, OpenNext, Advance,
         Grant, Start, Status, Find, Close, Archive, Make, Boxes, Crash, wallets
    <3> QED
      BY <1>1, <3>1
  <2> QED
    BY <2>1, <2>2, <2>3
<1>2. \A k : k = Send(t).key => {e \in ledger' : e.why = "refund" /\ e.of = k} = {e \in ledger : e.why = "refund" /\ e.of = k}
  BY <1>0, <1>1
<1>3. \A s : {e \in ledger' : e.why = "rest" /\ e.of = <<s, t>>} = {e \in ledger : e.why = "rest" /\ e.of = <<s, t>>}
  BY <1>0, <1>1
<1>4. RefundOf(Send(t).key)' = {e \in ledger' : e.why = "refund" /\ e.of = Send(t).key}
  BY <1>0 DEF RefundOf
<1>5. RefundOf(Send(t).key) = {e \in ledger : e.why = "refund" /\ e.of = Send(t).key}
  BY DEF RefundOf
<1>6. \A s : RestOf(s, t)' = RestOf(s, t)
  BY <1>3 DEF RestOf
<1> QED
  BY <1>2, <1>4, <1>5, <1>6

-----------------------------------------------------------------------------
(* What a step brings its process to have in hand, if it is on a ladder or *)
(* about to refund behind it.                                              *)
Joins(p) == Feed(p) /\ pc'[p] = "fill" /\ job'[p].sess \in Active /\ ~Counted(Txn(p)) /\ sess' = sess
Lays(p) == Make(p) /\ pc'[p] = "boxes" /\ job'[p].sess = Len(sess) + 1
Works(p) == pc[p] \in OnLadder /\ pc'[p] \in OnLadder /\ ~Count(p) /\ InHand(p)' = InHand(p)
Counts(p) ==
    /\ Count(p) /\ pc[p] = "count" /\ pc'[p] # "count" /\ job' = job
    /\ pc'[p] = "next" \/ job'[p].back = 0
Leaves(p) ==
    /\ pc[p] \in OnLadder /\ ~Count(p) /\ pc'[p] = "refund"
    /\ \/ job'[p].back = 0
       \/ job'[p].back = InHand(p) /\ sess'[job[p].sess].status = "COMPLETED"

LEMMA Moves ==
  ASSUME ControlInv, BoxInv, DayInv, Locked, NEW p \in Reqs, Step(p) \/ Crash(p),
         pc'[p] \in OnLadder \cup {"refund"}
  PROVE  \/ Joins(p) /\ InHand(p)' = Send(p).amt
         \/ Lays(p) /\ InHand(p)' = Send(p).amt
         \/ job'[p].sess = job[p].sess /\ (Works(p) \/ Counts(p) \/ Leaves(p))
<1>0. TypeOK /\ Typed /\ p \in Procs /\ p \notin Mgrs /\ Frame(p) /\ Hand(p) /\ job[p] \in JobType
  BY StepControl, ProcsAre, JobIs DEF ControlInv, Typed
<1>1. CASE Check(p) \/ Lock(p) \/ OpenSend(p) \/ SettleSend(p) \/ Tell(p) \/ RefundRest(p) \/ Grant(p) \/ Crash(p)
  <2>1. \/ End(p) \/ Go(p, "lock") \/ Go(p, "open") \/ Go(p, "tell") \/ Go(p, "settle") \/ Go(p, "feed")
        \/ Go(p, "grant") \/ Go(p, "done") \/ Go(p, "dead")
    <3>1. CASE SettleSend(p)
      BY <3>1, SettleCases
    <3> QED
      BY <1>1, <3>1, Zenon DEF Check, Lock, OpenSend, Tell, RefundRest, Grant, Crash
  <2> QED
    BY <1>0, <2>1, EndIs, Goes DEF PCs, OnLadder, Working
<1>2. CASE Feed(p)
  <2>1. ~End(p)
    BY <1>0, EndIs DEF OnLadder, Working
  <2>2. pc'[p] # "make"
    BY DEF OnLadder, Working
  <2>3. PICK s \in Active : /\ Go(p, "fill") /\ sess' = sess /\ ~Counted(Txn(p))
                            /\ Hold(p, [Blank EXCEPT !.sess = s, !.level = sess[s].level,
                                                     !.left = Send(p).amt])
    BY <1>0, <1>2, <2>1, <2>2, Goes, Zenon DEF Feed, PCs
  <2>4. job'[p].sess = s /\ job'[p].left = Send(p).amt
    BY <1>0, <2>3 DEF Hold, Blank, Typed
  <2>5. pc'[p] = "fill"
    BY <1>0, <2>3, Goes DEF PCs
  <2> QED
    BY <1>0, <1>2, <2>3, <2>4, <2>5, SendIs DEF Joins, InHand
<1>3. CASE Make(p)
  <2>1. pc[p] = "make" /\ pc'[p] = "boxes" /\ job'[p].sess = Len(sess) + 1
        /\ job'[p] = [job[p] EXCEPT !.sess = Len(sess) + 1]
    BY <1>0, <1>3, MakeIs
  <2>2. job[p].left = Send(p).amt
    BY <1>0, <2>1 DEF Hand, Blank
  <2>3. job'[p].left = Send(p).amt
    BY <1>0, <2>1, <2>2 DEF JobType
  <2> QED
    BY <1>0, <1>3, <2>1, <2>3, SendIs DEF Lays, InHand
<1>4. CASE Boxes(p)
  <2>1. ~End(p)
    BY <1>0, EndIs DEF OnLadder, Working
  <2>2. pc[p] = "boxes" /\ pc'[p] = "fill" /\ job' = job
    BY <1>0, <1>4, <2>1, BoxesIs
  <2> QED
    BY <1>4, <2>2 DEF Works, InHand, OnLadder, Working, Count, At
<1>5. CASE Fill(p)
  <2>1. /\ pc[p] = "fill" /\ pc'[p] = "count" /\ job'[p].sess = job[p].sess
        /\ job'[p].took = FillTook(p) /\ job'[p].left = job[p].left - FillTook(p)
        /\ FillTook(p) \in Int /\ job[p].left \in Nat
    BY <1>0, <1>5, FillIs, Goes DEF PCs, JobType
  <2>2. InHand(p)' = job'[p].left + job'[p].took /\ InHand(p) = job[p].left
    BY <2>1 DEF InHand
  <2>3. InHand(p)' = InHand(p)
    BY <2>1, <2>2
  <2> QED
    BY <1>5, <2>1, <2>3 DEF Works, OnLadder, Working, Count, At
<1>6. CASE Count(p)
  <2>1. pc[p] = "count" /\ job' = job /\ (Go(p, "next") \/ Go(p, "refund"))
    BY <1>6, CountIs
  <2>2. job[p].back = 0
    BY <1>0, <2>1 DEF Hand, Working
  <2> QED
    BY <1>0, <1>6, <2>1, <2>2, Goes DEF Counts, PCs
<1>7. CASE Complete(p)
  <2>1. /\ pc[p] = "next" /\ pc'[p] = "refund" /\ job'[p].sess = job[p].sess /\ job'[p].back = job[p].left
        /\ sess' = Finish({job[p].sess}, "COMPLETED")
    BY <1>7, CompleteControl, Zenon DEF Complete, At
  <2>2. job[p].sess \in Sessions
    BY <2>1, WorkerIs DEF Late, Working
  <2>3. sess'[job[p].sess].status = "COMPLETED"
    BY <1>0, <2>1, <2>2, FinishIs
  <2>4. InHand(p) = job[p].left
    BY <1>0, <2>1 DEF InHand, JobType
  <2> QED
    BY <2>1, <2>3, <2>4 DEF Leaves, OnLadder, Working, Count, At
<1>8. CASE OpenNext(p)
  <2>1. pc[p] = "next" /\ pc'[p] = "level" /\ job' = job
    BY <1>0, <1>8, OpenNextIs, Goes DEF PCs
  <2> QED
    BY <2>1 DEF Works, InHand, OnLadder, Working, Count, At
<1>9. CASE Advance(p)
  <2>1. /\ pc[p] = "level" /\ pc'[p] \in {"fill", "refund"} /\ job'[p].sess = job[p].sess
        /\ job'[p].back = 0 /\ job'[p].left = job[p].left
    BY <1>9, AdvanceControl
  <2>2. CASE pc'[p] = "fill"
    <3>1. InHand(p)' = InHand(p)
      BY <2>1, <2>2 DEF InHand
    <3> QED
      BY <2>1, <2>2, <3>1 DEF Works, OnLadder, Working, Count, At
  <2>3. CASE pc'[p] = "refund"
    BY <2>1, <2>3 DEF Leaves, OnLadder, Working, Count, At
  <2> QED
    BY <2>1, <2>2, <2>3
<1> QED
  BY <1>0, <1>1, <1>2, <1>3, <1>4, <1>5, <1>6, <1>7, <1>8, <1>9 DEF Step

(* What a listener's row lands.                                            *)
LEMMA CountLands ==
  ASSUME ControlInv, BoxInv, DayInv, Locked, NEW p \in Reqs, Count(p),
         NEW t, t = Txn(p), NEW c, c = job[p].sess
  PROVE  /\ c \in Active /\ c \in Sessions /\ DOMAIN sess' = DOMAIN sess
         /\ job[p].took \in Nat /\ job[p].left \in Nat /\ pc[p] = "count" /\ Holds(p)
         /\ \A s \in Sessions : s # c => LandedIn(t, s)' = LandedIn(t, s)
         /\ LandedIn(t, c)' \in {LandedIn(t, c), LandedIn(t, c) + job[p].took}
<1> DEFINE l == job[p].level
           e == Row(Send(p).from, job[p].took, Txn(p))
<1>1. pc[p] = "count" /\ job' = job
  BY CountIs
<1>2. /\ TypeOK /\ p \in Procs /\ c \in Sessions /\ l \in Levels /\ job[p].left \in Nat /\ Holds(p)
      /\ job[p].took \in Nat /\ Txn(p) \in Reqs
  BY <1>1, WorkerIs, CountBoxes DEF Late, Working, Holds
<1>3. c \in Active
  BY <1>1, <1>2 DEF DayInv, DayHand, Working
<1>4. TypeOK'
  BY <1>2, StepControl DEF Step, Typed
<1>5. \/ sess' = sess
      \/ /\ SetBox(p, l, CountedBox(p)) /\ CountedBox(p) \in BoxType
         /\ CountedBox(p).rows = Append(sess[c].box[l].rows, e) /\ e \in RowType
  BY CountIs, CountBoxes
<1>6. CASE sess' = sess
  BY <1>1, <1>2, <1>3, <1>6 DEF LandedIn
<1>7. CASE /\ SetBox(p, l, CountedBox(p)) /\ CountedBox(p) \in BoxType
           /\ CountedBox(p).rows = Append(sess[c].box[l].rows, e) /\ e \in RowType
  <2>1. /\ DOMAIN sess' = DOMAIN sess /\ \A x \in Sessions : x # c => sess'[x] = sess[x]
        /\ sess'[c].box[l] = CountedBox(p) /\ \A m \in Levels : m # l => sess'[c].box[m] = sess[c].box[m]
    <3>1. PICK m \in Levels : m = l
      BY <1>2
    <3>2. PICK b \in BoxType : b = CountedBox(p)
      BY <1>7
    <3>3. /\ TypeOK /\ p \in Procs /\ c = job[p].sess /\ c \in Sessions /\ b \in BoxType
          /\ SetBox(p, m, b) /\ m \in Levels
      BY <1>2, <1>7, <3>1, <3>2
    <3>4. /\ DOMAIN sess' = DOMAIN sess /\ \A x \in Sessions : x # c => sess'[x] = sess[x]
          /\ sess'[c].box[m] = b /\ \A n \in Levels : n # m => sess'[c].box[n] = sess[c].box[n]
      BY ONLY <3>3, SetBoxSets
    <3> QED
      BY <3>1, <3>2, <3>4
  <2>2. \A s \in Sessions : s # c => LandedIn(t, s)' = LandedIn(t, s)
    BY <2>1 DEF LandedIn
  <2>3. e.txn = t /\ e.amt = job[p].took
    BY DEF Row
  <2> HIDE DEF l, e
  <2>4. LandedIn(t, c)' = LandedIn(t, c) + e.amt
    <3>1. /\ c \in DOMAIN sess' /\ l \in Levels /\ e \in RowType /\ e.txn = t
          /\ sess'[c].box[l].rows = Append(sess[c].box[l].rows, e)
          /\ \A m \in Levels : m # l => sess'[c].box[m].rows = sess[c].box[m].rows
      BY <1>2, <1>7, <2>1, <2>3 DEF Sessions
    <3>2. TypeOK /\ TypeOK' /\ c \in Sessions
      BY <1>2, <1>4
    <3>3. \A d : d = c => LandedIn(t, d)' = LandedIn(t, d) + e.amt
      BY <3>1, <3>2, LandedMore, Zenon
    <3> QED
      BY <3>3
  <2> QED
    BY <1>1, <1>2, <1>3, <2>1, <2>2, <2>3, <2>4
<1> QED
  BY <1>5, <1>6, <1>7, Zenon

(* The row that a step counts is its author's; a mate's author is t.       *)
LEMMA TxnIs ==
  ASSUME ControlInv, NEW p \in Reqs, NEW t, WrittenBy(t), pc[p] # "settle" \/ Mate(p, t)
  PROVE  /\ Mate(p, t) => /\ Txn(p) = t /\ Send(p) = Send(t) /\ pc[p] # "settle"
         /\ pc[p] = "count" => (Author(p) = t <=> Mate(p, t))
<1>1. TypeOK /\ Hand(p) /\ p \in Procs /\ t \in Reqs
  BY ProcsAre DEF ControlInv, Typed, WrittenBy
<1>2. ASSUME Mate(p, t) PROVE Txn(p) = t /\ Send(p) = Send(t) /\ pc[p] # "settle"
  <2>1. Txn(p) = t /\ Send(p) = Send(t)
    BY <1>1, <1>2, SceneIs DEF Mate, Txn, WrittenBy
  <2>2. gift[Send(p).key] # None
    BY <1>1, <2>1, ProcsAre DEF Txn
  <2> QED
    BY <1>1, <2>1, <2>2 DEF Hand
<1>3. ASSUME pc[p] = "count", Author(p) = t PROVE Mate(p, t)
  <2>1. Txn(p) = t
    BY <1>3 DEF Author
  <2>2. Send(Txn(p)).key = Send(p).key
    BY <1>3, WorkerIs DEF Late, Working
  <2> QED
    BY <2>1, <2>2 DEF Mate
<1> QED
  BY <1>2, <1>3 DEF Author

(* Where the coins of t land in any step but the commit of its own send.   *)
LandsBy(p, t, s) ==
    \/ LandedIn(t, s)' = IF s \in Sessions THEN LandedIn(t, s) ELSE 0
    \/ /\ p \in Reqs /\ Count(p) /\ Mate(p, t) /\ s = job[p].sess
       /\ LandedIn(t, s)' = LandedIn(t, s) + job[p].took

LEMMA LandsStep ==
  ASSUME ControlInv, BoxInv, DayInv, Locked, NEW p \in Procs, Step(p) \/ Crash(p),
         NEW t, WrittenBy(t)
  PROVE  \A s \in DOMAIN sess' : LandsBy(p, t, s)
<1>1. CASE p \in Reqs /\ Count(p) /\ Mate(p, t)
  <2>1. t = Txn(p)
    BY <1>1, TxnIs
  <2>2. PICK c : c = job[p].sess
    OBVIOUS
  <2>3. /\ DOMAIN sess' = Sessions
        /\ \A s \in Sessions : s # c => LandedIn(t, s)' = LandedIn(t, s)
        /\ LandedIn(t, c)' \in {LandedIn(t, c), LandedIn(t, c) + job[p].took}
    BY <1>1, <2>1, <2>2, CountLands DEF Sessions
  <2> QED
    BY <1>1, <2>2, <2>3 DEF LandsBy
<1>2. CASE ~(p \in Reqs /\ Count(p) /\ Mate(p, t))
  <2>1. ASSUME p \in Reqs, Count(p) PROVE Author(p) # t
    <3>1. pc[p] = "count"
      BY <2>1, CountIs
    <3> QED
      BY <1>2, <2>1, <3>1, TxnIs
  <2>2. ASSUME p \in Reqs, SettleSend(p) PROVE Author(p) # t
    <3>1. pc[p] = "settle"
      BY <2>2, SettleCases
    <3>2. ~Mate(p, t)
      BY <2>2, <3>1, TxnIs
    <3> QED
      BY <3>1, <3>2 DEF Author, Mate
  <2>3. \A s \in DOMAIN sess' : LandedIn(t, s)' = IF s \in Sessions THEN LandedIn(t, s) ELSE 0
    BY <2>1, <2>2, LandedKept
  <2> QED
    BY <2>3 DEF LandsBy
<1> QED
  BY <1>1, <1>2

(* What the others have in hand.                                           *)
LEMMA OthersHand ==
  ASSUME ControlInv, BoxInv, DayInv, Locked, NEW p \in Procs, Step(p) \/ Crash(p),
         NEW t, WrittenBy(t), NEW q \in Reqs, q # p, HandOK(q, t)
  PROVE  HandOK(q, t)'
<1>0. TypeOK /\ q \in Procs /\ Hand(q) /\ Frame(p) /\ Send(t)' = Send(t) /\ pc'[q] = pc[q] /\ job'[q] = job[q]
  <2>1. Frame(p)
    BY StepControl
  <2> QED
    BY <2>1, ProcsAre, WrittenStays DEF ControlInv, Typed, Frame
<1> SUFFICES ASSUME NEW s \in DOMAIN sess', job[q].sess = s, pc[q] \in OnLadder \cup {"refund"}
             PROVE  HandIn(q, t, s)'
  BY <1>0 DEF HandOK, HandIn, Sessions
<1>1. s \in Sessions /\ HandIn(q, t, s)
  BY <1>0 DEF HandOK, Hand, OnLadder, Late
<1>2. LandsBy(p, t, s)
  BY LandsStep
<1>3. CASE LandedIn(t, s)' = LandedIn(t, s)
  <2>1. InHand(q)' = InHand(q)
    BY <1>0 DEF InHand
  <2>2. sess[s].status # "ACTIVE" => sess'[s].status # "ACTIVE"
    BY <1>1, IdleStays
  <2> QED
    BY <1>0, <1>1, <1>3, <2>1, <2>2 DEF HandIn
<1>4. CASE p \in Reqs /\ Count(p) /\ s = job[p].sess
  <2>1. s \in Active /\ Holds(p) /\ pc[p] = "count"
    BY <1>4, CountLands
  <2>2. ASSUME pc[q] \in OnLadder PROVE FALSE
    <3>1. Holds(q)
      BY <1>0, <2>2, LockedHolds DEF OnLadder
    <3> QED
      BY <1>0, <2>1, <3>1, OneHolder
  <2>3. pc[q] = "refund" /\ ~(job[q].back > 0)
    BY <1>1, <2>1, <2>2 DEF HandIn, Active
  <2> QED
    BY <1>0, <2>2, <2>3 DEF HandIn
<1> QED
  BY <1>1, <1>2, <1>3, <1>4 DEF LandsBy

(* What a mate brings itself to have in hand.                              *)
LEMMA OwnHand ==
  ASSUME ControlInv, BoxInv, DayInv, Locked, NEW p \in Reqs, Step(p) \/ Crash(p),
         NEW t, WrittenBy(t), Mate(p, t), HandOK(p, t)
  PROVE  HandOK(p, t)'
<1>0. TypeOK /\ p \in Procs /\ Hand(p) /\ Frame(p) /\ Send(t)' = Send(t) /\ Txn(p) = t /\ Send(p).amt = Send(t).amt
      /\ Sessions = 1 .. Len(sess) /\ Len(sess) \in Nat /\ Send(t).amt \in Nat /\ job[p] \in JobType
  <2>1. Frame(p) /\ p \in Procs
    BY ProcsAre, StepControl
  <2> QED
    BY <2>1, WrittenStays, TxnIs, SendIs, SessionsAre, JobIs DEF ControlInv, Typed, WrittenBy
<1> SUFFICES ASSUME NEW s \in DOMAIN sess', job'[p].sess = s, pc'[p] \in OnLadder \cup {"refund"}
             PROVE  HandIn(p, t, s)'
  BY DEF HandOK, HandIn, Sessions
<1>1. LandsBy(p, t, s)
  BY <1>0, LandsStep
<1>2. \/ Joins(p) /\ InHand(p)' = Send(p).amt
      \/ Lays(p) /\ InHand(p)' = Send(p).amt
      \/ job'[p].sess = job[p].sess /\ (Works(p) \/ Counts(p) \/ Leaves(p))
  BY Moves
<1>3. CASE Joins(p) /\ InHand(p)' = Send(p).amt
  <2>1. s \in Sessions /\ LandedIn(t, s) = 0 /\ pc'[p] = "fill" /\ ~Count(p)
    BY <1>0, <1>3, NotCounted, Zenon DEF Joins, Active, Count, Feed, At
  <2>2. LandedIn(t, s)' = 0
    BY <1>1, <2>1 DEF LandsBy
  <2> QED
    BY <1>0, <1>3, <2>1, <2>2 DEF HandIn
<1>4. CASE Lays(p) /\ InHand(p)' = Send(p).amt
  <2>1. s \notin Sessions /\ pc'[p] = "boxes" /\ ~Count(p)
    BY <1>0, <1>4 DEF Lays, Count, Make, At
  <2>2. LandedIn(t, s)' = 0
    BY <1>1, <2>1 DEF LandsBy
  <2> QED
    BY <1>0, <1>4, <2>1, <2>2 DEF HandIn
<1>5. ASSUME job'[p].sess = job[p].sess, pc[p] \in OnLadder
      PROVE  s \in Sessions /\ LandedIn(t, s) + InHand(p) <= Send(t).amt /\ LandedIn(t, s) \in Nat
  <2>1. s \in Sessions
    BY <1>0, <1>5 DEF Hand, OnLadder, Late
  <2>2. HandIn(p, t, s)
    BY <1>5, <2>1 DEF HandOK
  <2> QED
    BY <1>0, <1>5, <2>1, <2>2, LandedNat DEF HandIn
<1>6. CASE job'[p].sess = job[p].sess /\ Works(p)
  <2>1. LandedIn(t, s)' = LandedIn(t, s) /\ InHand(p)' = InHand(p)
    BY <1>1, <1>5, <1>6 DEF LandsBy, Works
  <2>2. pc'[p] # "refund"
    BY <1>6 DEF Works, OnLadder, Working
  <2> QED
    BY <1>0, <1>5, <1>6, <2>1, <2>2 DEF HandIn, Works
<1>7. CASE Counts(p)
  <2>1. InHand(p) = job[p].left + job[p].took /\ pc[p] \in OnLadder /\ pc'[p] # "count" /\ job' = job
    BY <1>7 DEF Counts, InHand, OnLadder, Working
  <2>2. InHand(p)' = job[p].left /\ job[p].left \in Nat /\ job[p].took \in Nat
    <3>1. job[p].left \in Nat
      BY <1>0 DEF JobType
    <3>2. job[p].took \in Nat
      BY <1>7, CountBoxes DEF Counts
    <3> QED
      BY <2>1, <3>1, <3>2 DEF InHand
  <2>3. /\ LandedIn(t, s) + job[p].left + job[p].took <= Send(t).amt /\ LandedIn(t, s) \in Nat
        /\ LandedIn(t, s)' = LandedIn(t, s) \/ LandedIn(t, s)' = LandedIn(t, s) + job[p].took
    BY <1>1, <1>5, <2>1, <2>2 DEF LandsBy
  <2>4. LandedIn(t, s)' + InHand(p)' <= Send(t).amt
    BY <1>0, <2>2, <2>3
  <2>5. pc'[p] = "refund" => ~(job'[p].back > 0)
    BY <1>7 DEF Counts
  <2> QED
    BY <1>0, <2>4, <2>5 DEF HandIn
<1>8. CASE job'[p].sess = job[p].sess /\ Leaves(p)
  <2>1. LandedIn(t, s)' = LandedIn(t, s) /\ pc'[p] = "refund" /\ LandedIn(t, s) + InHand(p) <= Send(t).amt
    BY <1>1, <1>5, <1>8 DEF LandsBy, Leaves
  <2>2. \/ ~(job'[p].back > 0)
        \/ job'[p].back = InHand(p) /\ sess'[s].status = "COMPLETED"
    BY <1>8 DEF Leaves
  <2>3. pc'[p] \notin OnLadder
    BY <2>1 DEF OnLadder, Working
  <2> QED
    BY <1>0, <2>1, <2>2, <2>3 DEF HandIn
<1> QED
  BY <1>2, <1>3, <1>4, <1>6, <1>7, <1>8

LEMMA RestStep ==
  ASSUME ControlInv, NEW p \in Reqs, RefundRest(p), NEW t, t = Txn(p), NEW c, c = job[p].sess, NEW k
  PROVE  /\ RefundOf(k)' = RefundOf(k) /\ \A s : s # c => RestOf(s, t)' = RestOf(s, t)
         /\ \/ RestOf(c, t)' = RestOf(c, t)
            \/ /\ job[p].back > 0 /\ RestOf(c, t) = {}
               /\ \E e : e.amt = job[p].back /\ RestOf(c, t)' = {e}
<1> DEFINE rest == Entry("rest", <<c, t>>, Send(p).from, GOLD, job[p].back)
<1>1. ledger' = Posted({rest}) /\ ledger \subseteq ledger'
  BY DEF RefundRest, Posted
<1>2. rest.why = "rest" /\ rest.of = <<c, t>> /\ rest.amt = job[p].back /\ job[p].back \in Nat
  BY EntryIs, WorkerIs DEF Late, RefundRest, At
<1> HIDE DEF rest
<1>3. \A e \in ledger' : e \in ledger \/ e = rest
  BY <1>1, PostedNew
<1>4. RefundOf(k)' = RefundOf(k)
  BY <1>1, <1>2, <1>3 DEF RefundOf
<1>5. \A s : s # c => {e \in ledger' : e.why = "rest" /\ e.of = <<s, t>>} = {e \in ledger : e.why = "rest" /\ e.of = <<s, t>>}
  BY <1>1, <1>2, <1>3
<1>6. CASE rest \in ledger' /\ rest \notin ledger
  <2>1. rest.amt # 0 /\ \A x \in ledger : ~(x.why = "rest" /\ x.of = <<c, t>>)
    BY <1>1, <1>2, <1>6, PostedNew
  <2>2. job[p].back > 0 /\ RestOf(c, t) = {}
    BY <1>2, <2>1 DEF RestOf
  <2>3. RestOf(c, t)' = {rest}
    BY <1>1, <1>2, <1>3, <1>6, <2>1 DEF RestOf
  <2> QED
    BY <1>2, <1>4, <1>5, <2>2, <2>3 DEF RestOf
<1>7. CASE ~(rest \in ledger' /\ rest \notin ledger)
  <2>1. ledger' = ledger
    BY <1>1, <1>3, <1>7
  <2> QED
    BY <1>4, <1>5, <2>1 DEF RestOf
<1> QED
  BY <1>6, <1>7

LEMMA CountedStays ==
  ASSUME ControlInv, BoxInv, NEW p \in Procs, Step(p) \/ Crash(p), NEW t, Counted(t)
  PROVE  Counted(t)'
<1>1. PICK s \in Sessions, l \in Levels : \E i \in DOMAIN sess[s].box[l].rows : sess[s].box[l].rows[i].txn = t
  BY DEF Counted
<1>2. PICK i \in DOMAIN sess[s].box[l].rows : sess[s].box[l].rows[i].txn = t
  BY <1>1
<1>3. s \in DOMAIN sess' /\ sess[s].box[l].rows \in Seq(RowType)
  BY StepControl, BoxIs DEF Frame, Sessions, ControlInv, Typed, RowType
<1>4. Grows(s, l, Author(p)) /\ OldRows(s, l) = sess[s].box[l].rows
  BY <1>3, RowsStep DEF OldRows
<1>5. i \in DOMAIN sess'[s].box[l].rows /\ sess'[s].box[l].rows[i].txn = t
  <2>1. CASE sess'[s].box[l].rows = sess[s].box[l].rows
    BY <1>2, <2>1
  <2>2. ASSUME NEW e \in RowType, sess'[s].box[l].rows = Append(sess[s].box[l].rows, e)
        PROVE  i \in DOMAIN sess'[s].box[l].rows /\ sess'[s].box[l].rows[i].txn = t
    BY <1>2, <1>3, <2>2
  <2> QED
    BY <1>4, <2>1, <2>2, Zenon DEF Grows
<1> QED
  BY <1>3, <1>5 DEF Counted, Sessions

(* Nobody begins to work on a gift that is counted.                        *)
LEMMA Begins ==
  ASSUME ControlInv, NEW p \in Reqs, Step(p) \/ Crash(p), pc[p] \notin Behind, pc'[p] \in Behind
  PROVE  ~Counted(Txn(p))
<1>0. TypeOK /\ Typed /\ p \in Procs /\ p \notin Mgrs
  BY ProcsAre DEF ControlInv, Typed
<1>1. CASE Check(p) \/ Lock(p) \/ OpenSend(p) \/ SettleSend(p) \/ Tell(p) \/ Crash(p)
  <2>1. \/ End(p) \/ Go(p, "lock") \/ Go(p, "open") \/ Go(p, "tell") \/ Go(p, "settle") \/ Go(p, "feed")
        \/ Go(p, "done") \/ Go(p, "dead")
    <3>1. CASE SettleSend(p)
      BY <3>1, SettleCases
    <3> QED
      BY <1>1, <3>1, Zenon DEF Check, Lock, OpenSend, Tell, Crash
  <2> QED
    BY <1>0, <2>1, EndIs, Goes DEF PCs, Behind, Working
<1>2. CASE Feed(p)
  <2>1. ~End(p)
    BY <1>0, EndIs DEF Behind, Working
  <2> QED
    BY <1>2, <2>1, Zenon DEF Feed
<1>3. CASE Fill(p) \/ Count(p) \/ Complete(p) \/ OpenNext(p) \/ Advance(p) \/ RefundRest(p) \/ Grant(p)
           \/ Make(p) \/ Boxes(p)
  BY <1>3, Zenon DEF Fill, Count, Complete, OpenNext, Advance, RefundRest, Grant, Make, Boxes, At, Behind, Working
<1> QED
  BY <1>0, <1>1, <1>2, <1>3 DEF Step

(* A key has one refund at most.                                           *)
LEMMA RefundInt == ASSUME TypeOK, EntryInv, NEW k PROVE SumAmt(RefundOf(k)) \in Int
<1>1. CASE RefundOf(k) = {}
  BY <1>1, SumNone
<1>2. CASE RefundOf(k) # {}
  <2>1. PICK e : e \in RefundOf(k)
    BY <1>2
  <2>2. RefundOf(k) = {e}
    BY <2>1 DEF RefundOf, EntryInv
  <2>3. e.amt \in Int
    BY <2>1 DEF RefundOf, TypeOK
  <2> QED
    BY <2>2, <2>3, SumOne
<1> QED
  BY <1>1, <1>2

LEMMA SettledStays ==
  ASSUME ControlInv, BoxInv, DayInv, EntryInv, Locked, NEW p \in Procs, Step(p) \/ Crash(p),
         NEW t, WrittenBy(t), Settled(t)
  PROVE  Settled(t)'
<1>0. TypeOK /\ TypeOK' /\ Frame(p) /\ t \in Reqs /\ Send(t)' = Send(t) /\ Send(t).amt \in Nat /\ Sessions \subseteq DOMAIN sess'
  <2>1. Frame(p) /\ Typed'
    BY StepControl
  <2> QED
    BY <2>1, WrittenStays, SendIs DEF ControlInv, Typed, WrittenBy, Frame, Sessions
<1>1. ASSUME p \in Reqs, Mate(p, t) PROVE ~SettleSend(p) /\ ~RefundRest(p) /\ ~Count(p)
  <2>1. pc[p] \notin Behind /\ pc[p] # "settle"
    BY <1>1, TxnIs DEF Settled
  <2> QED
    BY <2>1, Zenon DEF SettleSend, RefundRest, Count, At, Behind, Working
<1>2. RefundOf(Send(t).key)' = RefundOf(Send(t).key) /\ \A s : RestOf(s, t)' = RestOf(s, t)
  BY <1>0, <1>1, EntryKept
<1>3. \A s \in DOMAIN sess' : LandedIn(t, s)' = IF s \in Sessions THEN LandedIn(t, s) ELSE 0
  BY <1>1, LandsStep DEF LandsBy
<1>4. \A s : RestOf(s, t) = {}
  <2> SUFFICES ASSUME NEW s, s \notin Sessions PROVE RestOf(s, t) = {}
    BY DEF Settled
  <2> QED
    BY DEF RestOf, EntryInv, EntryOK
<1>5. \A s : Returned(t, s)' = Returned(t, s) /\ Returned(t, s) = SumAmt(RefundOf(Send(t).key))
  <2> SUFFICES ASSUME NEW s
               PROVE  Returned(t, s)' = Returned(t, s) /\ Returned(t, s) = SumAmt(RefundOf(Send(t).key))
    OBVIOUS
  <2>1. RefundOf(Send(t).key)' \cup RestOf(s, t)' = RefundOf(Send(t).key) \cup RestOf(s, t)
        /\ RefundOf(Send(t).key) \cup RestOf(s, t) = RefundOf(Send(t).key)
    BY <1>2, <1>4
  <2> QED
    BY <2>1 DEF Returned, SumAmt
<1>6. PICK y \in Sessions : Home(t, y) = Send(t).amt
  BY DEF Settled
<1>7. /\ LandedIn(t, y) \in Nat /\ Home(t, y)' = Home(t, y)
      /\ LandedIn(t, y) + SumAmt(RefundOf(Send(t).key)) = Send(t).amt
  BY <1>0, <1>3, <1>5, <1>6, LandedNat DEF Home
<1>8. ASSUME NEW s \in DOMAIN sess' PROVE Home(t, s)' <= Send(t).amt
  <2>1. CASE s \in Sessions
    <3>1. Home(t, s)' = Home(t, s)
      BY <1>3, <1>5, <2>1 DEF Home
    <3> QED
      BY <2>1, <3>1 DEF Settled
  <2>2. CASE s \notin Sessions
    <3>1. Home(t, s)' = 0 + SumAmt(RefundOf(Send(t).key))
      BY <1>3, <1>5, <2>2 DEF Home
    <3>2. SumAmt(RefundOf(Send(t).key)) \in Int
      BY <1>0, RefundInt
    <3> QED
      BY <1>0, <1>7, <3>1, <3>2
  <2> QED
    BY <2>1, <2>2
<1>9. ASSUME NEW r \in Reqs, Mate(r, t)' PROVE pc'[r] \notin Behind
  <2>1. Mate(r, t) /\ pc[r] \notin Behind
    BY <1>0, <1>9 DEF Mate, Send, Frame, Settled
  <2>2. CASE r # p
    BY <1>0, <2>1, <2>2, ProcsAre DEF Frame
  <2>3. CASE r = p
    <3>1. Counted(Txn(p))
      BY <1>9, <2>1, <2>3, TxnIs DEF Settled
    <3> QED
      BY <2>1, <2>3, <3>1, Begins
  <2> QED
    BY <2>2, <2>3
<1>10. Counted(t)'
  BY CountedStays DEF Settled
<1>11. \A s \in DOMAIN sess' : RestOf(s, t)' = {}
  BY <1>2, <1>4
<1>12. y \in DOMAIN sess' /\ Home(t, y)' = Send(t)'.amt
  BY <1>0, <1>6, <1>7
<1> QED
  BY <1>0, <1>8, <1>9, <1>10, <1>11, <1>12 DEF Settled, Sessions

(* The coins that listeners bring home.                                    *)
LEMMA HeardStays ==
  ASSUME ControlInv, BoxInv, DayInv, EntryInv, Locked, NEW p \in Procs, Step(p) \/ Crash(p),
         NEW t, WrittenBy(t), Heard(t)
  PROVE  Heard(t)'
<1>0. TypeOK /\ Frame(p) /\ t \in Reqs /\ Send(t)' = Send(t) /\ Send(t).amt \in Nat /\ Sessions \subseteq DOMAIN sess'
  <2>1. Frame(p)
    BY StepControl
  <2> QED
    BY <2>1, WrittenStays, SendIs DEF ControlInv, Typed, WrittenBy, Frame, Sessions
<1>1. ASSUME p \in Reqs, Mate(p, t) PROVE ~SettleSend(p)
  BY <1>1, TxnIs, SettleCases
<1>2. RefundOf(Send(t).key)' = {}
  <2>1. CASE p \in Reqs /\ RefundRest(p) /\ Mate(p, t)
    <3>1. t = Txn(p)
      BY <2>1, TxnIs
    <3>2. \A k : k = Send(t).key => RefundOf(k)' = RefundOf(k)
      BY <2>1, <3>1, RestStep
    <3> QED
      BY <1>0, <3>2 DEF Heard
  <2>2. CASE ~(p \in Reqs /\ RefundRest(p) /\ Mate(p, t))
    BY <1>0, <1>1, <2>2, EntryKept DEF Heard
  <2> QED
    BY <2>1, <2>2
<1>3. ASSUME NEW s
      PROVE  \/ RestOf(s, t)' = RestOf(s, t)
             \/ /\ p \in Reqs /\ RefundRest(p) /\ Mate(p, t) /\ s = job[p].sess /\ job[p].back > 0
                /\ RestOf(s, t) = {} /\ \E e : e.amt = job[p].back /\ RestOf(s, t)' = {e}
  <2>1. CASE p \in Reqs /\ RefundRest(p) /\ Mate(p, t)
    <3>1. t = Txn(p)
      BY <2>1, TxnIs
    <3>2. PICK c : c = job[p].sess
      OBVIOUS
    <3> QED
      BY <2>1, <3>1, <3>2, RestStep
  <2>2. CASE ~(p \in Reqs /\ RefundRest(p) /\ Mate(p, t))
    BY <1>0, <1>1, <2>2, EntryKept
  <2> QED
    BY <2>1, <2>2
<1>4. \A s \in DOMAIN sess' : LandsBy(p, t, s)
  BY LandsStep
<1>5. \A s : (s \notin Sessions => RestOf(s, t) = {}) /\ Returned(t, s) = SumAmt(RestOf(s, t))
      /\ Returned(t, s)' = SumAmt(RestOf(s, t)')
  <2> SUFFICES ASSUME NEW s
               PROVE  /\ s \notin Sessions => RestOf(s, t) = {}
                      /\ Returned(t, s) = SumAmt(RestOf(s, t))
                      /\ Returned(t, s)' = SumAmt(RestOf(s, t)')
    OBVIOUS
  <2>1. s \notin Sessions => RestOf(s, t) = {}
    BY DEF RestOf, EntryInv, EntryOK
  <2>2. RefundOf(Send(t).key) \cup RestOf(s, t) = RestOf(s, t)
        /\ RefundOf(Send(t).key)' \cup RestOf(s, t)' = RestOf(s, t)'
    BY <1>2 DEF Heard
  <2> QED
    BY <2>1, <2>2 DEF Returned, SumAmt
<1>6. ASSUME NEW s \in DOMAIN sess'
      PROVE  Home(t, s)' <= Send(t).amt /\ (RestOf(s, t)' # {} => sess'[s].status # "ACTIVE")
  <2>1. CASE p \in Reqs /\ Count(p) /\ Mate(p, t) /\ s = job[p].sess
    <3>1. /\ s \in Active /\ s \in Sessions /\ job[p].took \in Nat /\ job[p].left \in Nat /\ pc[p] = "count"
      BY <2>1, CountLands
    <3>2. LandedIn(t, s) + (job[p].left + job[p].took) <= Send(t).amt
      BY <2>1, <3>1 DEF Heard, HandOK, HandIn, OnLadder, Working, InHand
    <3>3. LandedIn(t, s)' = LandedIn(t, s) \/ LandedIn(t, s)' = LandedIn(t, s) + job[p].took
      BY <1>4, <3>1 DEF LandsBy
    <3>4. RestOf(s, t) = {} /\ RestOf(s, t)' = {}
      <4>1. RestOf(s, t) = {}
        BY <3>1 DEF Heard, Active
      <4>2. ~RefundRest(p)
        BY <3>1 DEF RefundRest, At
      <4> QED
        BY <1>3, <4>1, <4>2
    <3>5. Home(t, s)' = LandedIn(t, s)' + 0
      BY <1>5, <3>4, SumNone DEF Home
    <3>6. LandedIn(t, s) \in Nat
      BY <1>0, <3>1, LandedNat
    <3> QED
      BY <1>0, <3>1, <3>2, <3>3, <3>4, <3>5, <3>6
  <2>2. CASE ~(p \in Reqs /\ Count(p) /\ Mate(p, t) /\ s = job[p].sess)
    <3>1. LandedIn(t, s)' = IF s \in Sessions THEN LandedIn(t, s) ELSE 0
      BY <1>4, <2>2 DEF LandsBy
    <3>2. CASE RestOf(s, t)' = RestOf(s, t) /\ s \in Sessions
      <4>1. Home(t, s)' = Home(t, s)
        BY <1>5, <3>1, <3>2 DEF Home
      <4>2. sess[s].status # "ACTIVE" => sess'[s].status # "ACTIVE"
        BY <3>2, IdleStays
      <4> QED
        BY <3>2, <4>1, <4>2 DEF Heard
    <3>3. CASE RestOf(s, t)' = RestOf(s, t) /\ s \notin Sessions
      <4>1. RestOf(s, t)' = {}
        BY <1>5, <3>3
      <4>2. Home(t, s)' = 0 + 0
        BY <1>5, <3>1, <3>3, <4>1, SumNone DEF Home
      <4> QED
        BY <1>0, <4>1, <4>2
    <3>4. CASE /\ p \in Reqs /\ RefundRest(p) /\ Mate(p, t) /\ s = job[p].sess /\ job[p].back > 0
               /\ RestOf(s, t) = {} /\ \E e : e.amt = job[p].back /\ RestOf(s, t)' = {e}
      <4>1. pc[p] = "refund" /\ sess' = sess
        BY <3>4 DEF RefundRest, At
      <4>2. s \in Sessions /\ job[p].back \in Nat
        BY <3>4, <4>1, WorkerIs DEF Late
      <4>3. sess[s].status # "ACTIVE" /\ LandedIn(t, s) + job[p].back <= Send(t).amt
        BY <3>4, <4>1, <4>2 DEF Heard, HandOK, HandIn
      <4>4. PICK e : e.amt = job[p].back /\ RestOf(s, t)' = {e}
        BY <3>4
      <4>5. Returned(t, s)' = job[p].back
        BY <1>5, <4>2, <4>4, SumOne
      <4>6. Home(t, s)' = LandedIn(t, s) + job[p].back
        BY <3>1, <4>2, <4>5 DEF Home
      <4> QED
        BY <4>1, <4>3, <4>6
    <3> QED
      BY <1>3, <3>2, <3>3, <3>4
  <2> QED
    BY <2>1, <2>2
<1>7. ASSUME NEW r \in Reqs, Mate(r, t)' PROVE HandOK(r, t)'
  <2>1. Mate(r, t) /\ HandOK(r, t)
    BY <1>0, <1>7 DEF Mate, Send, Frame, Heard
  <2> QED
    BY <2>1, OthersHand, OwnHand
<1> QED
  BY <1>0, <1>2, <1>6, <1>7 DEF Heard, Sessions

(* A gift that met a filled ladder stays behind it.                        *)
LEMMA MissedStays ==
  ASSUME ControlInv, BoxInv, DayInv, EntryInv, Locked, NEW p \in Procs, Step(p) \/ Crash(p),
         NEW t, WrittenBy(t), NEW c \in Sessions, MissedAt(t, c)
  PROVE  MissedAt(t, c)'
<1>0. /\ TypeOK /\ Frame(p) /\ t \in Reqs /\ Send(t)' = Send(t) /\ Sessions \subseteq DOMAIN sess'
      /\ Sessions = 1 .. Len(sess) /\ Len(sess) \in Nat /\ DOMAIN sess' \subseteq Nat \ {0}
  <2>1. Frame(p) /\ TypeOK'
    BY StepControl DEF Typed
  <2>2. DOMAIN sess' \subseteq Nat \ {0}
    BY <2>1 DEF TypeOK
  <2> QED
    BY <2>1, <2>2, WrittenStays, SessionsAre DEF ControlInv, Typed, WrittenBy, Frame, Sessions
<1>1. ASSUME p \in Reqs, Mate(p, t) PROVE ~SettleSend(p)
  BY <1>1, TxnIs, SettleCases
<1>2. Sealed(c)'
  BY FilledStays DEF MissedAt
<1>3. ASSUME NEW s \in DOMAIN sess', s <= c PROVE LandedIn(t, s)' = 0 /\ RestOf(s, t)' = {}
  <2>1. s \in Sessions /\ LandedIn(t, s) = 0 /\ RestOf(s, t) = {}
    BY <1>0, <1>3 DEF MissedAt
  <2>2. ASSUME p \in Reqs, Mate(p, t), pc[p] \in OnLadder \cup {"refund"} PROVE s # job[p].sess
    <3>1. job[p].sess > c
      BY <2>2 DEF MissedAt
    <3> QED
      BY <1>0, <1>3, <3>1
  <2>3. LandedIn(t, s)' = LandedIn(t, s)
    <3>1. LandsBy(p, t, s)
      BY LandsStep
    <3> QED
      BY <2>1, <2>2, <3>1 DEF LandsBy, Count, At, OnLadder, Working
  <2>4. RestOf(s, t)' = RestOf(s, t)
    <3>1. CASE p \in Reqs /\ RefundRest(p) /\ Mate(p, t)
      <4>1. t = Txn(p)
        BY <3>1, TxnIs
      <4>2. PICK x : x = job[p].sess
        OBVIOUS
      <4>3. s # x
        BY <2>2, <3>1, <4>2 DEF RefundRest, At
      <4> QED
        BY <3>1, <4>1, <4>2, <4>3, RestStep
    <3>2. CASE ~(p \in Reqs /\ RefundRest(p) /\ Mate(p, t))
      BY <1>0, <1>1, <3>2, EntryKept
    <3> QED
      BY <3>1, <3>2
  <2> QED
    BY <2>1, <2>3, <2>4
<1>4. ASSUME NEW r \in Reqs, Mate(r, t)', pc'[r] \in OnLadder \cup {"refund"} PROVE job'[r].sess > c
  <2>1. Mate(r, t)
    BY <1>0, <1>4 DEF Mate, Send, Frame
  <2>2. CASE r # p
    BY <1>0, <1>4, <2>1, <2>2, ProcsAre DEF Frame, MissedAt
  <2>3. CASE r = p
    <3>1. CASE Joins(p)
      <4>1. job'[p].sess = Len(sess) /\ job'[p].sess # c
        BY <3>1 DEF Joins, Active, DayInv, DaysOK, MissedAt, Sealed
      <4> QED
        BY <1>0, <2>3, <4>1
    <3>2. CASE Lays(p)
      BY <1>0, <2>3, <3>2 DEF Lays
    <3>3. CASE job'[p].sess = job[p].sess /\ (Works(p) \/ Counts(p) \/ Leaves(p))
      BY <1>4, <2>1, <2>3, <3>3 DEF Works, Counts, Leaves, MissedAt, OnLadder, Working
    <3> QED
      BY <1>4, <2>3, <3>1, <3>2, <3>3, Moves
  <2> QED
    BY <2>2, <2>3
<1> QED
  BY <1>2, <1>3, <1>4 DEF MissedAt, Sessions

LEMMA OnceStays ==
  ASSUME ControlInv, BoxInv, DayInv, EntryInv, Locked, NEW p \in Procs, Step(p) \/ Crash(p),
         NEW t, WrittenBy(t), Once(t)
  PROVE  Once(t)'
<1>1. (Audio' <=> Audio) /\ Sessions \subseteq DOMAIN sess'
  BY StepControl DEF Frame, Audio, Sessions
<1>2. Audio /\ Missed(t) => Missed(t)'
  <2> SUFFICES ASSUME NEW c \in Sessions, MissedAt(t, c) PROVE Missed(t)'
    BY DEF Missed
  <2>1. MissedAt(t, c)' /\ c \in DOMAIN sess'
    BY <1>1, MissedStays
  <2> QED
    BY <2>1 DEF Missed, Sessions
<1> QED
  BY <1>1, <1>2, SettledStays, HeardStays DEF Once

(* The commit of a send finds nothing of its gift, and nobody behind it.   *)
LEMMA SettleFinds ==
  ASSUME ControlInv, EntryInv, NEW r \in Reqs, pc[r] = "settle"
  PROVE  /\ \A s \in Sessions, l \in Levels :
              \A i \in DOMAIN sess[s].box[l].rows : sess[s].box[l].rows[i].txn # r
         /\ \A s \in Sessions : LandedIn(r, s) = 0
         /\ RefundOf(Send(r).key) = {} /\ \A s : RestOf(s, r) = {}
         /\ \A q \in Reqs : Mate(q, r) => pc[q] \notin Behind
<1>1. TypeOK /\ r # None /\ gift[Send(r).key] = None /\ Send(r).key \in Keys
  <2>1. r \in Procs /\ TypeOK
    BY ProcsAre DEF ControlInv, Typed
  <2> QED
    BY <2>1, SendIs, ProcsAre, Zenon DEF ControlInv, Hand
<1>2. ~WrittenBy(r)
  BY <1>1 DEF WrittenBy
<1>3. \A s \in Sessions, l \in Levels :
        \A i \in DOMAIN sess[s].box[l].rows : sess[s].box[l].rows[i].txn # r
  BY <1>2 DEF EntryInv
<1>4. \A s \in Sessions : LandedIn(r, s) = 0
  BY <1>1, <1>3, LandedNone
<1>5. RefundOf(Send(r).key) = {}
  BY <1>1 DEF RefundOf, EntryInv, EntryOK
<1>6. \A s : RestOf(s, r) = {}
  <2> SUFFICES ASSUME NEW s, NEW e \in ledger, e.why = "rest", e.of = <<s, r>> PROVE FALSE
    BY DEF RestOf
  <2>1. WrittenBy(e.of[2]) /\ e.of[2] = r
    BY DEF EntryInv, EntryOK
  <2> QED
    BY <1>2, <2>1
<1>7. \A q \in Reqs : Mate(q, r) => pc[q] \notin Behind
  BY <1>1, ProcsAre, Zenon DEF ControlInv, Hand, Mate
<1> QED
  BY <1>3, <1>4, <1>5, <1>6, <1>7

(* What it refunds.                                                        *)
LEMMA SettleBack ==
  ASSUME ControlInv, NEW r \in Reqs, NEW last \in 0 .. BoxCount, NEW q, PutInto(r, last, q),
         NEW k, k = Send(r).key, RefundOf(k) = {}, \A s : RestOf(s, r) = {},
         NEW back, back = Amt(r) - Accepted(Base(r)[Into(r)], Amt(r), last), back \in Int
  PROVE  SumAmt(RefundOf(k))' = back /\ \A s : RestOf(s, r)' = {}
<1> DEFINE s == Into(r)
           x == Entry("refund", k, Send(r).from, GOLD, back)
           es == Settlement(r) \cup (Prizes(s, q) \cup {x})
<1>1. ledger' = Posted(es) /\ TypeOK
  BY DEF PutInto, ControlInv, Typed
<1>2. x.why = "refund" /\ x.of = k /\ x.amt = back
  BY EntryIs
<1>3. x \in es /\ \A e \in es : e.why \in {"refund", "rest"} => e = x
  <2>1. \A e \in Prizes(s, q) : e.why = "box"
    BY <1>1, PrizesAre
  <2>2. \A e \in Settlement(r) : e.why \in {"debit", "earnings", "cashback"}
    BY <1>1, SettlementOK
  <2> HIDE DEF x, s
  <2> QED
    BY <2>1, <2>2
<1> HIDE DEF x, es
<1>4. \A e \in ledger' : e.why \in {"refund", "rest"} => e \in ledger \/ (e = x /\ x.amt # 0)
  BY <1>1, <1>3, PostedNew
<1>5. \A y : RestOf(y, r)' = {}
  BY <1>2, <1>4 DEF RestOf
<1>6. RefundOf(k)' = IF back = 0 THEN {} ELSE {x}
  <2>1. \A e : e \in RefundOf(k)' => e = x /\ back # 0
    BY <1>2, <1>4 DEF RefundOf
  <2>2. back # 0 => x \in RefundOf(k)'
    <3>1. back # 0 => x \in ledger'
      BY <1>1, <1>2, <1>3 DEF Posted, RefundOf
    <3> QED
      BY <1>2, <3>1 DEF RefundOf
  <2> QED
    BY <2>1, <2>2
<1>7. SumAmt(RefundOf(k))' = SumAmt(RefundOf(k)')
  BY DEF SumAmt
<1>8. SumAmt(RefundOf(k)') = back
  <2>1. CASE back = 0
    BY <1>6, <2>1, SumNone
  <2>2. CASE back # 0
    BY <1>2, <1>6, <2>2, SumOne
  <2> QED
    BY <2>1, <2>2
<1> QED
  BY <1>5, <1>7, <1>8

LEMMA SettleNowhere ==
  ASSUME ControlInv, BoxInv, DayInv, EntryInv, SkipInv, Locked, NEW r \in Reqs, SettleSend(r),
         PutNowhere(r)
  PROVE  Once(r)'
<1>0. /\ TypeOK /\ r \in Procs /\ pc[r] = "settle" /\ Frame(r) /\ Send(r)' = Send(r) /\ Send(r).amt \in Nat
      /\ Hand(r) /\ pc'[r] = "tell" /\ (Audio' <=> Audio) /\ Len(sess) \in Nat /\ Step(r)
  BY SettleCases, SettleControl, ProcsAre, SendIs, SessionsAre
     DEF ControlInv, Typed, PutNowhere, Frame, Send, Audio, Step
<1>1. job[r].sess = 0 /\ sess' = Base(r) /\ DOMAIN sess' = Sessions
  <2>1. job[r].sess # -1
    BY <1>0, BaseIs DEF PutNowhere
  <2> QED
    BY <1>0, <2>1, BaseIs DEF PutNowhere
<1>2. \A s \in Sessions : LandedIn(r, s)' = 0
  <2>1. \A s \in Sessions : sess'[s].box = sess[s].box
    BY <1>0, <1>1, BaseIs
  <2>2. \A s \in Sessions : LandedIn(r, s)' = LandedIn(r, s)
    BY <2>1 DEF LandedIn
  <2> QED
    BY <1>0, <2>2, SettleFinds
<1>3. RefundOf(Send(r).key)' = {} /\ \A s : RestOf(s, r)' = {}
  <2>1. \A e \in ledger' : e.why \in {"refund", "rest"} => e \in ledger
    <3> SUFFICES ASSUME NEW e \in ledger', e \notin ledger, e.why \in {"refund", "rest"} PROVE FALSE
      OBVIOUS
    <3>1. \E last \in 0 .. BoxCount : \E q : PutInto(r, last, q)
      BY SettleEntries
    <3> QED
      BY <3>1 DEF PutInto, PutNowhere
  <2>2. RefundOf(Send(r).key) = {} /\ \A s : RestOf(s, r) = {}
    BY <1>0, SettleFinds
  <2>3. \A k : k = Send(r).key => RefundOf(k)' = {}
    BY <2>1, <2>2 DEF RefundOf
  <2> QED
    BY <1>0, <2>1, <2>2, <2>3 DEF RestOf
<1>4. \A q \in Reqs : Mate(q, r)' => pc'[q] \notin Behind
  <2> SUFFICES ASSUME NEW q \in Reqs, Mate(q, r)' PROVE pc'[q] \notin Behind
    OBVIOUS
  <2>1. Mate(q, r)
    BY <1>0 DEF Mate, Frame, Send
  <2>2. q # r => pc'[q] = pc[q]
    BY <1>0, ProcsAre DEF Frame
  <2> QED
    BY <1>0, <2>1, <2>2, SettleFinds DEF Behind, Working
<1>5. Heard(r)'
  <2>1. \A s : Returned(r, s)' = 0
    <3>1. \A s : RefundOf(Send(r).key)' \cup RestOf(s, r)' = {}
      BY <1>3
    <3>2. \A s : Returned(r, s)' = SumAmt(RefundOf(Send(r).key)' \cup RestOf(s, r)')
      BY DEF Returned, SumAmt
    <3> QED
      BY <3>1, <3>2, SumNone
  <2>2. \A s \in DOMAIN sess' : Home(r, s)' = 0
    BY <1>1, <1>2, <2>1 DEF Home
  <2>3. \A q \in Reqs : Mate(q, r)' => HandOK(q, r)'
    BY <1>4 DEF HandOK, HandIn, Behind, OnLadder
  <2> QED
    BY <1>0, <1>3, <2>2, <2>3 DEF Heard, Sessions
<1>6. Audio => Missed(r)'
  <2> SUFFICES ASSUME Audio PROVE Missed(r)'
    OBVIOUS
  <2>1. PICK c \in Sessions : Sealed(c)
    BY <1>0, <1>1 DEF SkipInv
  <2>2. Sealed(c)' /\ c \in DOMAIN sess'
    BY <1>0, <1>1, <2>1, FilledStays
  <2>3. MissedAt(r, c)'
    BY <1>1, <1>2, <1>3, <1>4, <2>2 DEF MissedAt, Sessions, Behind, OnLadder
  <2> QED
    BY <2>2, <2>3 DEF Missed, Sessions
<1> QED
  BY <1>0, <1>5, <1>6 DEF Once

(* What a gift's transaction pours into a session that has none of it.     *)
LEMMA PourLands ==
  ASSUME TypeOK, NEW se \in SessType, NEW u \in Users, NEW v \in Nat, NEW t \in Reqs,
         NEW last \in 0 .. BoxCount,
         \A l \in Levels : \A i \in DOMAIN se.box[l].rows : se.box[l].rows[i].txn # t
  PROVE  SumFunction([l \in Levels |-> RowsOf(Pour(se, u, v, t, last).box[l].rows, t)])
         = Accepted(se, v, last)
<1> DEFINE to == Pour(se, u, v, t, last)
           f == [l \in Levels |-> RowsOf(to.box[l].rows, t)]
           g == [l \in Levels |-> Poured(se, v, last, l)]
<1>1. ASSUME NEW l \in Levels PROVE RowsOf(to.box[l].rows, t) = Poured(se, v, last, l)
  <2> DEFINE got == Poured(se, v, last, l)
             rows == se.box[l].rows
             e == Row(u, got, t)
  <2>1. /\ got \in Nat /\ rows \in Seq(RowType) /\ e \in RowType /\ e.amt = got /\ e.txn = t
        /\ to.box[l].rows = (IF got > 0 THEN Append(rows, e) ELSE rows)
    BY PouredRows
  <2>2. \A i \in DOMAIN rows : rows[i].txn # t
    OBVIOUS
  <2> HIDE DEF to, got, rows, e
  <2>3. RowsOf(rows, t) = 0
    BY <2>1, <2>2, RowsOfNone
  <2>4. RowsOf(Append(rows, e), t) = RowsOf(rows, t) + got
    BY <2>1, RowsOfAppend
  <2>5. RowsOf(to.box[l].rows, t) = got
    BY <2>1, <2>3, <2>4
  <2> QED
    BY <2>5 DEF got
<1>2. f = g
  BY <1>1
<1>3. Accepted(se, v, last) = SumFunction(g)
  BY DEF Accepted
<1> HIDE DEF g
<1> QED
  BY <1>2, <1>3

(* A poured box, with nothing named.                                       *)
LEMMA PouredRow ==
  ASSUME TypeOK, NEW se \in SessType, NEW u \in Users, NEW v \in Nat, NEW t \in Reqs,
         NEW last \in 0 .. BoxCount, NEW to, to = Pour(se, u, v, t, last), NEW l \in Levels,
         NEW got, got = Poured(se, v, last, l)
  PROVE  /\ se.box[l].rows \in Seq(RowType)
         /\ \E e \in RowType :
              e.txn = t /\ to.box[l].rows = (IF got > 0 THEN Append(se.box[l].rows, e) ELSE se.box[l].rows)
<1> DEFINE put == Poured(se, v, last, l)
           rows == se.box[l].rows
           e == Row(u, put, t)
           made == Pour(se, u, v, t, last)
<1>1. /\ put \in Nat /\ rows \in Seq(RowType) /\ e \in RowType /\ e.amt = put /\ e.txn = t
      /\ made.box[l].rows = (IF put > 0 THEN Append(rows, e) ELSE rows)
  <2>1. TypeOK /\ se \in SessType /\ u \in Users /\ v \in Nat /\ t \in Reqs /\ last \in 0 .. BoxCount /\ l \in Levels
    OBVIOUS
  <2> QED
    BY ONLY <2>1, PouredRows
<1>2. made = to /\ put = got
  OBVIOUS
<1> HIDE DEF put, rows, e, made
<1>3. /\ rows \in Seq(RowType)
      /\ \E x \in RowType : x.txn = t /\ to.box[l].rows = (IF got > 0 THEN Append(rows, x) ELSE rows)
  BY <1>1, <1>2
<1> QED
  BY <1>3 DEF rows

(* In an audio room the transaction counts its gift whole: a box has a row *)
(* of it, and what no box took it refunds.                                 *)
LEMMA SettleInto ==
  ASSUME ControlInv, BoxInv, DayInv, EntryInv, ReadyInv, Locked, Whole, NEW r \in Reqs, SettleSend(r),
         NEW last \in 0 .. BoxCount, NEW q, PutInto(r, last, q)
  PROVE  Once(r)'
<1>0. /\ TypeOK /\ r \in Procs /\ pc[r] = "settle" /\ Frame(r) /\ Send(r)' = Send(r)
      /\ Send(r).amt \in Nat /\ Send(r).amt > 0 /\ Send(r).from \in Users /\ Amt(r) = Send(r).amt
      /\ Hand(r) /\ pc'[r] = "tell" /\ (Audio' <=> Audio) /\ Len(sess) \in Nat /\ Sessions = 1 .. Len(sess)
  BY SettleCases, SettleControl, ProcsAre, SendIs, SessionsAre
     DEF ControlInv, Typed, PutInto, Frame, Send, Audio, Amt
<1>1. PICK n : n = Into(r)
  OBVIOUS
<1>2. PICK se : se = Base(r)[n]
  OBVIOUS
<1>3. PICK to : to = Pour(se, Send(r).from, Amt(r), r, last)
  OBVIOUS
<1>4. /\ n # 0 /\ sess' = [Base(r) EXCEPT ![n] = to] /\ (se.status = "ACTIVE" => last = BoxCount)
  BY <1>1, <1>2, <1>3 DEF PutInto
<1>5. Audio
  <2>1. CASE ~Audio
    <3>1. job[r].sess = 0
      BY <1>0, <2>1 DEF Hand
    <3>2. Into(r) = 0
      BY <1>0, <3>1, BaseIs
    <3> QED
      BY <1>1, <1>4, <3>2
  <2> QED
    BY <2>1
<1>6. /\ se \in SessType /\ se.level \in Levels /\ se.status = "ACTIVE"
      /\ se.box[se.level].status = "ACTIVE" /\ last = BoxCount
  BY <1>0, <1>1, <1>2, <1>4, <1>5, IntoOpen
<1>7. /\ n \in DOMAIN Base(r) /\ Base(r) \in Seq(SessType) /\ DOMAIN Base(r) = 1 .. Len(Base(r))
      /\ Sessions \subseteq DOMAIN Base(r)
      /\ Len(Base(r)) = (IF job[r].sess = -1 THEN Len(sess) + 1 ELSE Len(sess))
      /\ \A x \in Sessions : Base(r)[x].box = sess[x].box
      /\ (job[r].sess = -1 => n = Len(sess) + 1 /\ se = Laid(Bare))
      /\ (job[r].sess # -1 => DOMAIN Base(r) = Sessions)
  BY <1>0, <1>1, <1>2, <1>4, BaseIs
<1>8. SessOK(se)
  BY <1>0, <1>2, <1>7, BaseOK
<1>9. /\ Accepted(se, Amt(r), last) \in Nat /\ Accepted(se, Amt(r), last) <= Amt(r)
      /\ Poured(se, Amt(r), last, se.level) > 0
  BY <1>0, <1>6, <1>8, AcceptedIs
<1>10. \A l \in Levels : \A i \in DOMAIN se.box[l].rows : se.box[l].rows[i].txn # r
  <2>1. CASE n \in Sessions
    <3>1. se.box = sess[n].box
      BY <1>2, <1>7, <2>1
    <3>2. \A l \in Levels : \A i \in DOMAIN sess[n].box[l].rows : sess[n].box[l].rows[i].txn # r
      BY <1>0, <2>1, SettleFinds
    <3> QED
      BY <3>1, <3>2
  <2>2. CASE n \notin Sessions
    <3>1. se = Laid(Bare)
      BY <1>7, <2>2
    <3>2. \A l \in Levels : se.box[l].rows = <<>>
      BY <1>0, <3>1, BareOK
    <3> QED
      BY <3>2
  <2> QED
    BY <2>1, <2>2
<1>11. DOMAIN sess' = DOMAIN Base(r) /\ sess'[n] = to /\ \A s \in DOMAIN sess' : s # n => sess'[s] = Base(r)[s]
  BY <1>4, <1>7
<1>12. LandedIn(r, n)' = Accepted(se, Amt(r), last)
  <2>1. SumFunction([l \in Levels |-> RowsOf(to.box[l].rows, r)]) = Accepted(se, Amt(r), last)
    BY <1>0, <1>3, <1>6, <1>10, PourLands
  <2>2. LandedIn(r, n)' = SumFunction([l \in Levels |-> RowsOf(sess'[n].box[l].rows, r)])
    BY DEF LandedIn
  <2> QED
    BY <1>11, <2>1, <2>2
<1>13. ASSUME NEW s \in DOMAIN sess', s # n PROVE LandedIn(r, s)' = 0
  <2>1. s \in Sessions
    BY <1>0, <1>7, <1>11, <1>13
  <2>2. sess'[s].box = sess[s].box
    BY <1>7, <1>11, <1>13, <2>1
  <2>3. LandedIn(r, s)' = LandedIn(r, s)
    BY <2>2 DEF LandedIn
  <2> QED
    BY <1>0, <2>1, <2>3, SettleFinds
<1>14. Counted(r)'
  <2>1. PICK l : l = se.level
    OBVIOUS
  <2>2. PICK got : got = Poured(se, Amt(r), last, l)
    OBVIOUS
  <2>3. l \in Levels /\ got > 0
    BY <1>6, <1>9, <2>1, <2>2
  <2>4. /\ se.box[l].rows \in Seq(RowType)
        /\ \E e \in RowType :
             e.txn = r /\ to.box[l].rows = (IF got > 0 THEN Append(se.box[l].rows, e) ELSE se.box[l].rows)
    <3>1. PICK u \in Users : u = Send(r).from
      BY <1>0
    <3>2. PICK v \in Nat : v = Amt(r)
      BY <1>0
    <3>3. to = Pour(se, u, v, r, last) /\ got = Poured(se, v, last, l)
      BY <1>3, <2>2, <3>1, <3>2
    <3>4. /\ TypeOK /\ se \in SessType /\ u \in Users /\ v \in Nat /\ r \in Reqs /\ last \in 0 .. BoxCount
          /\ l \in Levels
      BY <1>0, <1>6, <2>3
    <3> QED
      BY ONLY <3>3, <3>4, PouredRow
  <2>5. se.box[l].rows \in Seq(RowType) /\ \E e \in RowType : e.txn = r /\ to.box[l].rows = Append(se.box[l].rows, e)
    BY <2>3, <2>4
  <2>6. PICK rows : rows = se.box[l].rows
    OBVIOUS
  <2>7. PICK e \in RowType : e.txn = r /\ to.box[l].rows = Append(rows, e)
    BY <2>5, <2>6
  <2>8. Len(rows) + 1 \in DOMAIN Append(rows, e) /\ Append(rows, e)[Len(rows) + 1] = e
    BY <2>5, <2>6, SMTT(30)
  <2>9. /\ n \in DOMAIN sess' /\ Len(rows) + 1 \in DOMAIN sess'[n].box[l].rows
        /\ sess'[n].box[l].rows[Len(rows) + 1].txn = r
    BY <1>7, <1>11, <2>7, <2>8
  <2> QED
    BY <2>3, <2>9 DEF Counted, Sessions
<1>15. PICK back : back = Amt(r) - Accepted(se, Amt(r), last)
  OBVIOUS
<1>16. back \in Int /\ LandedIn(r, n)' + back = Send(r).amt /\ back <= Send(r).amt
  BY <1>0, <1>9, <1>12, <1>15
<1>17. /\ \A s : RestOf(s, r)' = {}
       /\ \A k : k = Send(r).key => SumAmt(RefundOf(k))' = back
  <2>1. RefundOf(Send(r).key) = {} /\ \A s : RestOf(s, r) = {}
    BY <1>0, SettleFinds
  <2>2. back = Amt(r) - Accepted(Base(r)[Into(r)], Amt(r), last)
    BY <1>1, <1>2, <1>15
  <2> QED
    BY <1>16, <2>1, <2>2, SettleBack
<1>18. \A s : Returned(r, s)' = back
  <2>1. \A k : k = Send(r).key => RefundOf(Send(r).key)' = RefundOf(k)'
    BY <1>0 DEF RefundOf
  <2>2. \A k : k = Send(r).key => SumAmt(RefundOf(k)') = back
    BY <1>17 DEF SumAmt
  <2>3. SumAmt(RefundOf(Send(r).key)') = back
    BY <2>1, <2>2
  <2>4. \A s : RefundOf(Send(r).key)' \cup RestOf(s, r)' = RefundOf(Send(r).key)'
    BY <1>17
  <2>5. \A s : Returned(r, s)' = SumAmt(RefundOf(Send(r).key)' \cup RestOf(s, r)')
    BY DEF Returned, SumAmt
  <2> QED
    BY <2>3, <2>4, <2>5
<1>19. \A p \in Reqs : Mate(p, r)' => pc'[p] \notin Behind
  <2> SUFFICES ASSUME NEW p \in Reqs, Mate(p, r)' PROVE pc'[p] \notin Behind
    OBVIOUS
  <2>1. Mate(p, r)
    BY <1>0 DEF Mate, Frame, Send
  <2>2. p # r => pc'[p] = pc[p]
    BY <1>0, ProcsAre DEF Frame
  <2> QED
    BY <1>0, <2>1, <2>2, SettleFinds DEF Behind, Working
<1>20. Home(r, n)' = Send(r).amt /\ \A s \in DOMAIN sess' : Home(r, s)' <= Send(r).amt
  <2>1. Home(r, n)' = LandedIn(r, n)' + back
    BY <1>18 DEF Home
  <2>2. \A s \in DOMAIN sess' : s # n => Home(r, s)' = 0 + back
    BY <1>13, <1>18 DEF Home
  <2> QED
    BY <1>0, <1>16, <2>1, <2>2
<1>21. Settled(r)'
  <2>1. n \in DOMAIN sess'
    BY <1>7, <1>11
  <2> QED
    BY <1>0, <1>14, <1>17, <1>19, <1>20, <2>1 DEF Settled, Sessions
<1> QED
  BY <1>0, <1>5, <1>21, SMTT(30) DEF Once

(* A gift is written by the commit of its send.                            *)
LEMMA WrittenBefore ==
  ASSUME ControlInv, NEW p \in Procs, Step(p) \/ Crash(p), NEW t, WrittenBy(t)', ~WrittenBy(t)
  PROVE  /\ t = p /\ p \in Reqs /\ SettleSend(p)
         /\ PutNowhere(p) \/ \E last \in 0 .. BoxCount : \E q : PutInto(p, last, q)
<1>1. TypeOK /\ scene' = scene /\ Send(t)' = Send(t) /\ t \in Reqs
  BY StepControl DEF Frame, Send, WrittenBy, ControlInv, Typed
<1>2. gift'[Send(t).key] = t /\ gift[Send(t).key] # t
  BY <1>1 DEF WrittenBy
<1>3. gift' # gift
  BY <1>2
<1>4. p \in Reqs /\ SettleSend(p)
  BY <1>3, Zenon DEF Step, Check, Lock, OpenSend, Tell, Feed, Fill, Count, Complete, OpenNext, Advance,
     RefundRest, Grant, Start, Status, Find, Close, Archive, Make, Boxes, Crash, wallets
<1>5. PutNowhere(p) \/ PutFails(p) \/ \E last \in 0 .. BoxCount : \E q : PutInto(p, last, q)
  BY <1>4, SettleCases
<1>6. ~PutFails(p)
  BY <1>3 DEF PutFails, wallets
<1>7. gift' = [gift EXCEPT ![Send(p).key] = p]
  BY <1>5, <1>6 DEF PutNowhere, PutInto
<1>8. gift \in [Keys -> Reqs \cup {None}] /\ Send(t).key \in Keys
  BY <1>1, SendIs DEF TypeOK
<1>9. t = p
  BY <1>2, <1>7, <1>8
<1> QED
  BY <1>4, <1>5, <1>6, <1>9

LEMMA LandStep ==
  ASSUME ControlInv, BoxInv, DayInv, EntryInv, ReadyInv, SkipInv, LandInv, Locked, Whole,
         NEW p \in Procs, Step(p) \/ Crash(p), NEW t, WrittenBy(t)'
  PROVE  Once(t)'
<1>1. CASE WrittenBy(t)
  <2>1. t \in Reqs /\ Once(t)
    BY <1>1 DEF LandInv, WrittenBy
  <2> QED
    BY <1>1, <2>1, OnceStays
<1>2. CASE ~WrittenBy(t)
  <2>1. /\ t = p /\ p \in Reqs /\ SettleSend(p)
        /\ PutNowhere(p) \/ \E last \in 0 .. BoxCount : \E q : PutInto(p, last, q)
    BY <1>2, WrittenBefore
  <2>2. CASE PutNowhere(p)
    BY <2>1, <2>2, SettleNowhere
  <2>3. ASSUME NEW last \in 0 .. BoxCount, NEW q, PutInto(p, last, q) PROVE Once(t)'
    BY <2>1, <2>3, SettleInto
  <2> QED
    BY <2>1, <2>2, <2>3
<1> QED
  BY <1>1, <1>2

(* Nothing else moves a coin.                                              *)
LEMMA LandStill ==
  ASSUME LandInv, scene' = scene, gift' = gift, ledger' = ledger, sess' = sess, pc' = pc, job' = job
  PROVE  LandInv'
<1> SUFFICES ASSUME Locked', Whole', NEW t \in Reqs, WrittenBy(t)' PROVE Once(t)'
  BY DEF LandInv
<1>1. Locked /\ Whole /\ WrittenBy(t) /\ (Audio' <=> Audio)
  BY DEF Locked, Whole, Audio, WrittenBy, Send
<1>2. Once(t)
  BY <1>1 DEF LandInv
<1>3. Send(t)' = Send(t) /\ \A r : Mate(r, t)' = Mate(r, t)
  BY DEF Send, Mate
<1>4. \A s : LandedIn(t, s)' = LandedIn(t, s) /\ RestOf(s, t)' = RestOf(s, t)
  BY DEF LandedIn, RestOf
<1>5. RefundOf(Send(t).key)' = RefundOf(Send(t).key)
  BY DEF RefundOf, Send
<1>6. \A s : Returned(t, s)' = Returned(t, s) /\ Home(t, s)' = Home(t, s)
  <2>1. \A s : Returned(t, s)' = SumAmt(RefundOf(Send(t).key)' \cup RestOf(s, t)')
    BY DEF Returned, SumAmt
  <2>2. \A s : Returned(t, s)' = Returned(t, s)
    BY <1>4, <1>5, <2>1 DEF Returned
  <2> QED
    BY <1>4, <2>2 DEF Home
<1>7. \A r : HandOK(r, t)' = HandOK(r, t)
  BY <1>3, <1>4 DEF HandOK, HandIn, InHand, Sessions
<1>8. (Counted(t)' <=> Counted(t)) /\ \A c : Sealed(c)' <=> Sealed(c)
  BY DEF Counted, Sealed, Full, Sessions
<1>9. \A c : MissedAt(t, c)' <=> MissedAt(t, c)
  BY <1>3, <1>4, <1>8 DEF MissedAt, Sessions
<1>10. Missed(t)' <=> Missed(t)
  BY <1>9 DEF Missed, Sessions
<1>11. Settled(t)' <=> Settled(t)
  BY <1>3, <1>4, <1>6, <1>8 DEF Settled, Sessions
<1>12. Heard(t)' <=> Heard(t)
  BY <1>3, <1>4, <1>5, <1>6, <1>7 DEF Heard, Sessions
<1> QED
  BY <1>1, <1>2, <1>10, <1>11, <1>12 DEF Once

LEMMA NextLand ==
  ControlInv /\ BoxInv /\ DayInv /\ EntryInv /\ ReadyInv /\ SkipInv /\ LandInv /\ [Next]_vars => LandInv'
<1> SUFFICES ASSUME ControlInv, BoxInv, DayInv, EntryInv, ReadyInv, SkipInv, LandInv, [Next]_vars
             PROVE  LandInv'
  OBVIOUS
<1>1. ASSUME NEW p \in Procs, Step(p) \/ Crash(p) PROVE LandInv'
  <2> SUFFICES ASSUME Locked', Whole', NEW t \in Reqs, WrittenBy(t)' PROVE Once(t)'
    BY DEF LandInv
  <2>1. Locked
    BY SceneStays DEF Locked
  <2>2. Whole
    BY WholeStays
  <2> QED
    BY <1>1, <2>1, <2>2, LandStep
<1>2. CASE Midnight \/ (\E k \in LockKeys : Expire(k)) \/ UNCHANGED vars
  <2>1. /\ scene' = scene /\ gift' = gift /\ ledger' = ledger /\ sess' = sess /\ pc' = pc
        /\ job' = job
    BY <1>2 DEF Midnight, Expire, vars, wallets
  <2> QED
    BY <2>1, LandStill
<1> QED
  BY <1>1, <1>2 DEF Next

LEMMA InitLand == Init => LandInv
<1> SUFFICES ASSUME Init, NEW t \in Reqs, WrittenBy(t) PROVE FALSE
  BY DEF LandInv
<1>1. TypeOK
  BY InitControl DEF ControlInv, Typed
<1>2. Send(t).key \in Keys /\ t # None
  BY <1>1, SendIs, GiftsAssumption
<1> QED
  BY <1>2 DEF Init, WrittenBy

(* What the invariant says of a written gift.                              *)
LEMMA OnceLands ==
  ASSUME ControlInv, DayInv, Locked, NEW k \in Keys, NEW t, t = gift[k], t # None,
         WrittenBy(t), Send(t).key = k, Once(t)
  PROVE  LandsOnce(k)
<1>1. TypeOK /\ Sessions = 1 .. Len(sess) /\ Len(sess) \in Nat /\ \A s \in Sessions : sess[s].day \in Int
  <2>1. TypeOK
    BY DEF ControlInv, Typed
  <2>2. \A s \in Sessions : sess[s] \in SessType
    BY <2>1, SessionsAre
  <2> QED
    BY <2>1, <2>2, SessionsAre DEF SessType
<1>2. \A s : Lands(k, s) = Home(t, s)
  <2>1. \A s : Back(k, s) = Returned(t, s)
    BY BackIs DEF Returned
  <2> QED
    BY <2>1 DEF Lands, Home
<1>3. CASE Audio /\ Settled(t)
  BY <1>2, <1>3 DEF LandsOnce, Settled
<1>4. CASE Heard(t) /\ (Audio => Missed(t))
  <2>1. \A s \in Sessions : Lands(k, s) <= Send(gift[k]).amt
    BY <1>2, <1>4 DEF Heard
  <2>2. ASSUME Audio
        PROVE  \E c \in Sessions : /\ Full(c)
                                   /\ \A s \in Sessions : sess[s].day <= sess[c].day => Lands(k, s) = 0
    <3>1. PICK c \in Sessions : MissedAt(t, c)
      BY <1>4, <2>2 DEF Missed
    <3>2. ASSUME NEW s \in Sessions, sess[s].day <= sess[c].day PROVE Lands(k, s) = 0
      <4>1. s <= c
        <5>1. c < s => sess[c].day < sess[s].day
          BY DEF DayInv, DaysOK
        <5> QED
          BY <1>1, <3>2, <5>1
      <4>2. LandedIn(t, s) = 0 /\ RestOf(s, t) = {} /\ RefundOf(Send(t).key) = {}
        BY <1>4, <3>1, <4>1 DEF MissedAt, Heard
      <4>3. RefundOf(Send(t).key) \cup RestOf(s, t) = {}
        BY <4>2
      <4>4. Returned(t, s) = 0
        BY <4>3, SumNone DEF Returned
      <4> QED
        BY <1>2, <4>2, <4>4 DEF Home
    <3> QED
      BY <3>1, <3>2 DEF MissedAt, Sealed
  <2> QED
    BY <2>1, <2>2 DEF LandsOnce
<1> QED
  BY <1>3, <1>4 DEF Once

(* In a room that only sends, starts and midnights touch, a gift's coins   *)
(* land once in a ladder, whoever announces it, hears it and dies: no more *)
(* than the gift, and in an audio room all of it, but for a gift that met  *)
(* the last box of a ladder filled.                                        *)
THEOREM CoinsHold == Spec => []CoinsLandOnce
<1>1. ControlInv /\ DayInv /\ EntryInv /\ LandInv => CoinsLandOnce
  <2> SUFFICES ASSUME ControlInv, DayInv, EntryInv, LandInv, Locked, Whole
               PROVE  /\ \A e \in ledger : e.why = "refund" => gift[e.of] # None
                      /\ \A k \in Keys : gift[k] # None => LandsOnce(k)
    BY DEF CoinsLandOnce
  <2>1. \A e \in ledger : e.why = "refund" => gift[e.of] # None
    BY DEF EntryInv, EntryOK
  <2>2. ASSUME NEW k \in Keys, gift[k] # None PROVE LandsOnce(k)
    <3>1. PICK t : t = gift[k]
      OBVIOUS
    <3>2. t \in Reqs /\ Send(t).key = k
      BY <2>2, <3>1 DEF ControlInv, Typed, TypeOK, Written
    <3>3. WrittenBy(t)
      BY <3>1, <3>2 DEF WrittenBy
    <3>4. Once(t)
      BY <3>2, <3>3 DEF LandInv
    <3> QED
      BY <2>2, <3>1, <3>2, <3>3, <3>4, OnceLands
  <2> QED
    BY <2>1, <2>2
<1> QED
  BY <1>1, InitControl, NextControl, InitBoxes, NextBoxes, InitDay, NextDay, InitEntries, NextEntries,
     InitReady, NextReady, InitSkip, NextSkip, InitLand, NextLand, PTL DEF Spec
=============================================================================

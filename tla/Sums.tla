-------------------------------- MODULE Sums --------------------------------
(***************************************************************************)
(* Facts about the sums over finite sets that the models are built from    *)
(* (SumFunctionOnSet of the community module Functions).  The sum takes    *)
(* its elements in the order CHOOSE gives them; the lemmas say that any    *)
(* order gives the same result, and what a sum becomes when one value or   *)
(* the set changes.  Induction over the subsets of a finite set is stated  *)
(* with the set of the subsets it holds for.                               *)
(***************************************************************************)
EXTENDS Integers, Functions, FiniteSetTheorems, TLAPS

-----------------------------------------------------------------------------
(* Induction: a set of natural numbers has a least element, so a property  *)
(* of subsets that fails somewhere fails at a least one.                   *)

LEMMA LeastNatural == ASSUME NEW T, T \subseteq Nat, T # {} PROVE \E n \in T : \A m \in T : n <= m
<1> DEFINE less == {ss \in Nat \X Nat : ss[1] < ss[2]}
<1>1. IsWellFoundedOn(less, Nat)
  BY NatLessThanWellFounded DEF OpToRel
<1>2. \E n \in T : \A m \in T : ~(<<m, n>> \in less)
  <2>1. ASSUME NEW R, IsWellFoundedOn(R, Nat)
        PROVE  \E n \in T : \A m \in T : ~(<<m, n>> \in R)
    BY <2>1, WFMin, Zenon
  <2> HIDE DEF less
  <2> QED
    BY <1>1, <2>1
<1>3. PICK n \in T : \A m \in T : ~(<<m, n>> \in less)
  BY <1>2
<1>4. \A m \in T : ~(m < n) /\ m \in Nat /\ n \in Nat
  BY <1>3
<1> QED
  BY <1>4

LEMMA SubsetInduction ==
  ASSUME NEW S, IsFiniteSet(S), NEW Good,
         \A T \in SUBSET S : (\A x \in T : T \ {x} \in Good) => T \in Good
  PROVE  \A T \in SUBSET S : T \in Good
<1> SUFFICES ASSUME NEW B \in SUBSET S, B \notin Good
             PROVE  FALSE
  OBVIOUS
<1> DEFINE Bad == {T \in SUBSET S : T \notin Good}
           sizes == {Cardinality(T) : T \in Bad}
<1>1. \A T \in Bad : IsFiniteSet(T) /\ Cardinality(T) \in Nat
  BY FS_Subset, FS_CardinalityType
<1>2. sizes \subseteq Nat /\ sizes # {}
  BY <1>1
<1>3. \E n \in sizes : \A m \in sizes : n <= m
  <2> HIDE DEF sizes
  <2> QED
    BY <1>2, LeastNatural
<1>4. PICK T \in Bad : \A U \in Bad : Cardinality(T) <= Cardinality(U)
  BY <1>3
<1>5. \A x \in T : Cardinality(T \ {x}) = Cardinality(T) - 1
  BY <1>1, <1>4, FS_RemoveElement
<1>6. \A x \in T : T \ {x} \notin Bad
  BY <1>1, <1>4, <1>5
<1>7. \A x \in T : T \ {x} \in Good
  BY <1>4, <1>6
<1> QED
  BY <1>4, <1>7

-----------------------------------------------------------------------------
(* The sum is the value of a function that some function satisfies.        *)

Chosen(s) == CHOOSE x \in s : TRUE
Adds(g, f, S) ==
    g = [s \in SUBSET S |-> IF s = {} THEN 0 ELSE f[Chosen(s)] + g[s \ {Chosen(s)}]]
Adder(f, S) == CHOOSE g : Adds(g, f, S)

LEMMA SumIs == ASSUME NEW f, NEW S PROVE SumFunctionOnSet(f, S) = Adder(f, S)[S]
BY DEF SumFunctionOnSet, FoldFunctionOnSet, MapThenFoldSet, Adder, Adds, Chosen

LEMMA SumOfAll == ASSUME NEW f PROVE SumFunction(f) = SumFunctionOnSet(f, DOMAIN f)
BY DEF SumFunction

LEMMA ChosenIs == ASSUME NEW S, NEW T \in SUBSET S, T # {}
                 PROVE  Chosen(T) \in T /\ T \ {Chosen(T)} \in SUBSET S
BY DEF Chosen

LEMMA AddsIs ==
  \A f, S, g : Adds(g, f, S) =>
     \A T \in SUBSET S : g[T] = IF T = {} THEN 0 ELSE f[Chosen(T)] + g[T \ {Chosen(T)}]
<1> SUFFICES ASSUME NEW f, NEW S, NEW g, Adds(g, f, S), NEW T \in SUBSET S
             PROVE  g[T] = IF T = {} THEN 0 ELSE f[Chosen(T)] + g[T \ {Chosen(T)}]
  OBVIOUS
<1>1. g = [s \in SUBSET S |-> IF s = {} THEN 0 ELSE f[Chosen(s)] + g[s \ {Chosen(s)}]]
  BY DEF Adds
<1> QED
  BY <1>1, Zenon

(* Two such functions agree where both are defined.                        *)
LEMMA AddsAgree ==
  ASSUME NEW f, NEW S, IsFiniteSet(S), NEW R \in SUBSET S, NEW g, NEW h,
         Adds(g, f, S), Adds(h, f, R), NEW U \in SUBSET R
  PROVE  g[U] = h[U]
<1> DEFINE Good == {T \in SUBSET R : g[T] = h[T]}
<1>0. /\ \A T \in SUBSET S : g[T] = IF T = {} THEN 0 ELSE f[Chosen(T)] + g[T \ {Chosen(T)}]
      /\ \A T \in SUBSET R : h[T] = IF T = {} THEN 0 ELSE f[Chosen(T)] + h[T \ {Chosen(T)}]
  <2>1. g = [s \in SUBSET S |-> IF s = {} THEN 0 ELSE f[Chosen(s)] + g[s \ {Chosen(s)}]]
    BY DEF Adds
  <2>2. h = [s \in SUBSET R |-> IF s = {} THEN 0 ELSE f[Chosen(s)] + h[s \ {Chosen(s)}]]
    BY DEF Adds
  <2>3. ASSUME NEW T \in SUBSET S
        PROVE  g[T] = IF T = {} THEN 0 ELSE f[Chosen(T)] + g[T \ {Chosen(T)}]
    BY <2>1, Zenon
  <2>4. ASSUME NEW T \in SUBSET R
        PROVE  h[T] = IF T = {} THEN 0 ELSE f[Chosen(T)] + h[T \ {Chosen(T)}]
    BY <2>2, Zenon
  <2> QED
    BY <2>3, <2>4
<1>1. ASSUME NEW T \in SUBSET R, \A x \in T : T \ {x} \in Good
      PROVE  T \in Good
  <2>1. /\ g[T] = IF T = {} THEN 0 ELSE f[Chosen(T)] + g[T \ {Chosen(T)}]
        /\ h[T] = IF T = {} THEN 0 ELSE f[Chosen(T)] + h[T \ {Chosen(T)}]
    BY <1>0
  <2>2. T # {} => g[T \ {Chosen(T)}] = h[T \ {Chosen(T)}]
    BY <1>1, ChosenIs
  <2> QED
    BY <2>1, <2>2
<1>2. IsFiniteSet(R)
  BY FS_Subset
<1>3. \A T \in SUBSET R : T \in Good
  <2> HIDE DEF Good
  <2> QED
    BY <1>1, <1>2, SubsetInduction
<1> QED
  BY <1>3

LEMMA AdderIs ==
  ASSUME NEW f, NEW S, IsFiniteSet(S)
  PROVE  \A R \in SUBSET S : Adds(Adder(f, R), f, R)
<1> DEFINE Good == {R \in SUBSET S : \A Q \in SUBSET R : \E g : Adds(g, f, Q)}
<1>1. ASSUME NEW R \in SUBSET S, \A x \in R : R \ {x} \in Good
      PROVE  R \in Good
  <2>1. ASSUME NEW Q \in SUBSET R, Q # R
        PROVE  \E g : Adds(g, f, Q)
    <3>1. PICK x \in R : x \notin Q
      BY <2>1
    <3> QED
      BY <1>1, <3>1
  <2>2. \E g : Adds(g, f, R)
    <3> DEFINE g == [s \in SUBSET R |-> IF s = {} THEN 0
                       ELSE f[Chosen(s)] + Adder(f, s \ {Chosen(s)})[s \ {Chosen(s)}]]
    <3>1. \A Q \in SUBSET R : Q # R => Adds(Adder(f, Q), f, Q)
      BY <2>1, Zenon DEF Adder
    <3>2. ASSUME NEW s \in SUBSET R, s # {}
          PROVE  g[s \ {Chosen(s)}] = Adder(f, s \ {Chosen(s)})[s \ {Chosen(s)}]
      <4> DEFINE u == s \ {Chosen(s)}
                 v == u \ {Chosen(u)}
      <4>1. u \in SUBSET R /\ u # R /\ IsFiniteSet(u)
        BY <3>2, ChosenIs, FS_Subset
      <4>2. Adder(f, u)[u] = IF u = {} THEN 0 ELSE f[Chosen(u)] + Adder(f, u)[v]
        <5> HIDE DEF u, v
        <5>1. Adds(Adder(f, u), f, u) /\ u \in SUBSET u
          BY <3>1, <4>1
        <5> QED
          BY <5>1, AddsIs DEF v
      <4>3. u # {} => Adder(f, u)[v] = Adder(f, v)[v]
        <5>1. u # {} => v \in SUBSET u /\ v # R /\ v \in SUBSET R /\ v \in SUBSET v
          BY <4>1, ChosenIs
        <5> HIDE DEF u, v
        <5>2. u # {} => Adds(Adder(f, u), f, u) /\ Adds(Adder(f, v), f, v)
          BY <3>1, <4>1, <5>1
        <5>3. ASSUME u # {}
              PROVE  Adder(f, u)[v] = Adder(f, v)[v]
          <6>1. IsFiniteSet(u) /\ v \in SUBSET u /\ v \in SUBSET v
            BY <4>1, <5>1, <5>3
          <6>2. Adds(Adder(f, u), f, u) /\ Adds(Adder(f, v), f, v)
            BY <5>2, <5>3
          <6> QED
            BY <6>1, <6>2, AddsAgree
        <5> QED
          BY <5>1, <5>3
      <4>4. g[u] = IF u = {} THEN 0 ELSE f[Chosen(u)] + Adder(f, v)[v]
        BY <4>1
      <4> QED
        BY <4>2, <4>3, <4>4
    <3>3. g = [s \in SUBSET R |-> IF s = {} THEN 0 ELSE f[Chosen(s)] + g[s \ {Chosen(s)}]]
      <4> HIDE DEF g
      <4>1. g = [s \in SUBSET R |-> IF s = {} THEN 0
                       ELSE f[Chosen(s)] + Adder(f, s \ {Chosen(s)})[s \ {Chosen(s)}]]
        BY DEF g
      <4> QED
        BY <4>1, <3>2
    <3> QED
      BY <3>3 DEF Adds
  <2>3. \A Q \in SUBSET R : \E g : Adds(g, f, Q)
    BY <2>1, <2>2
  <2> QED
    BY <2>3
<1>2. \A R \in SUBSET S : R \in Good
  <2> HIDE DEF Good
  <2> QED
    BY <1>1, SubsetInduction
<1>3. ASSUME NEW R \in SUBSET S
      PROVE  \E g : Adds(g, f, R)
  BY <1>2
<1> QED
  BY <1>3, Zenon DEF Adder

-----------------------------------------------------------------------------
(* What a sum is.                                                          *)

LEMMA SumEmpty == ASSUME NEW f PROVE SumFunctionOnSet(f, {}) = 0
<1>1. Adds(Adder(f, {}), f, {})
  BY AdderIs, FS_EmptySet
<1> QED
  BY <1>1, AddsIs, SumIs

LEMMA SumFirst ==
  ASSUME NEW f, NEW S, IsFiniteSet(S), S # {}
  PROVE  SumFunctionOnSet(f, S) = f[Chosen(S)] + SumFunctionOnSet(f, S \ {Chosen(S)})
<1> DEFINE T == S \ {Chosen(S)}
<1>1. T \in SUBSET S /\ S \in SUBSET S /\ T \in SUBSET T
  BY ChosenIs
<1>2. Adds(Adder(f, S), f, S) /\ Adds(Adder(f, T), f, T)
  BY <1>1, AdderIs
<1>3. Adder(f, S)[S] = f[Chosen(S)] + Adder(f, S)[T]
  BY <1>1, <1>2, AddsIs
<1>4. Adder(f, S)[T] = Adder(f, T)[T]
  <2> HIDE DEF T
  <2> QED
    BY <1>1, <1>2, AddsAgree
<1> QED
  BY <1>3, <1>4, SumIs

LEMMA SumInt ==
  ASSUME NEW f, NEW S, IsFiniteSet(S), \A x \in S : f[x] \in Int
  PROVE  \A T \in SUBSET S : SumFunctionOnSet(f, T) \in Int
<1> DEFINE Good == {T \in SUBSET S : SumFunctionOnSet(f, T) \in Int}
<1>1. ASSUME NEW T \in SUBSET S, \A x \in T : T \ {x} \in Good
      PROVE  T \in Good
  <2>1. CASE T = {}
    BY <2>1, SumEmpty
  <2>2. CASE T # {}
    <3>1. SumFunctionOnSet(f, T) = f[Chosen(T)] + SumFunctionOnSet(f, T \ {Chosen(T)})
      BY <2>2, SumFirst, FS_Subset
    <3> QED
      BY <1>1, <2>2, <3>1, ChosenIs
  <2> QED
    BY <2>1, <2>2
<1>2. \A T \in SUBSET S : T \in Good
  <2> HIDE DEF Good
  <2> QED
    BY <1>1, SubsetInduction
<1> QED
  BY <1>2

(* Any element may be taken first.                                         *)
LEMMA SumPick ==
  ASSUME NEW f, NEW S, IsFiniteSet(S), \A x \in S : f[x] \in Int, NEW y \in S
  PROVE  SumFunctionOnSet(f, S) = f[y] + SumFunctionOnSet(f, S \ {y})
<1> DEFINE Sum(T) == SumFunctionOnSet(f, T)
           Good == {T \in SUBSET S : \A x \in T : Sum(T) = f[x] + Sum(T \ {x})}
<1>1. ASSUME NEW T \in SUBSET S, \A x \in T : T \ {x} \in Good, NEW x \in T
      PROVE  Sum(T) = f[x] + Sum(T \ {x})
  <2> DEFINE c == Chosen(T)
             R == (T \ {x}) \ {c}
  <2>1. c \in T /\ Sum(T) = f[c] + Sum(T \ {c})
    BY SumFirst, FS_Subset, ChosenIs
  <2>2. CASE x = c
    BY <2>1, <2>2
  <2>3. CASE x # c
    <3>1. x \in T \ {c} /\ c \in T \ {x} /\ (T \ {c}) \ {x} = R
      BY <2>1, <2>3
    <3>2. Sum(T \ {c}) = f[x] + Sum(R) /\ Sum(T \ {x}) = f[c] + Sum(R)
      <4> HIDE DEF Sum, c
      <4> QED
        BY <1>1, <2>1, <3>1
    <3>3. f[x] \in Int /\ f[c] \in Int /\ Sum(R) \in Int
      BY <2>1, SumInt
    <3> HIDE DEF Sum, c, R
    <3> QED
      BY <2>1, <3>2, <3>3
  <2> QED
    BY <2>2, <2>3
<1>2. \A T \in SUBSET S : T \in Good
  <2>1. \A T \in SUBSET S : (\A x \in T : T \ {x} \in Good) => T \in Good
    BY <1>1
  <2> HIDE DEF Good
  <2> QED
    BY <2>1, SubsetInduction
<1> QED
  BY <1>2

LEMMA SumAdd ==
  ASSUME NEW f, NEW S, IsFiniteSet(S), NEW y, y \notin S,
         \A x \in S \cup {y} : f[x] \in Int
  PROVE  SumFunctionOnSet(f, S \cup {y}) = f[y] + SumFunctionOnSet(f, S)
<1>1. IsFiniteSet(S \cup {y}) /\ (S \cup {y}) \ {y} = S
  BY FS_AddElement
<1>2. SumFunctionOnSet(f, S \cup {y}) = f[y] + SumFunctionOnSet(f, (S \cup {y}) \ {y})
  BY <1>1, SumPick
<1> QED
  BY <1>1, <1>2

(* Functions that agree on a set have the same sum over it.                *)
LEMMA SumEqual ==
  ASSUME NEW f, NEW g, NEW S, IsFiniteSet(S), \A x \in S : f[x] = g[x]
  PROVE  SumFunctionOnSet(f, S) = SumFunctionOnSet(g, S)
<1> DEFINE Good == {T \in SUBSET S : SumFunctionOnSet(f, T) = SumFunctionOnSet(g, T)}
<1>1. ASSUME NEW T \in SUBSET S, \A x \in T : T \ {x} \in Good
      PROVE  T \in Good
  <2>1. CASE T = {}
    BY <2>1, SumEmpty
  <2>2. CASE T # {}
    <3>1. /\ SumFunctionOnSet(f, T) = f[Chosen(T)] + SumFunctionOnSet(f, T \ {Chosen(T)})
          /\ SumFunctionOnSet(g, T) = g[Chosen(T)] + SumFunctionOnSet(g, T \ {Chosen(T)})
      BY <2>2, SumFirst, FS_Subset
    <3> QED
      BY <1>1, <2>2, <3>1, ChosenIs
  <2> QED
    BY <2>1, <2>2
<1>2. \A T \in SUBSET S : T \in Good
  <2> HIDE DEF Good
  <2> QED
    BY <1>1, SubsetInduction
<1> QED
  BY <1>2

(* One value changes.                                                      *)
LEMMA SumChange ==
  ASSUME NEW f, NEW g, NEW S, IsFiniteSet(S), NEW y \in S,
         \A x \in S : f[x] \in Int /\ g[x] \in Int,
         \A x \in S : x # y => f[x] = g[x]
  PROVE  SumFunctionOnSet(g, S) = SumFunctionOnSet(f, S) - f[y] + g[y]
<1>1. IsFiniteSet(S \ {y}) /\ S \ {y} \in SUBSET S
  BY FS_RemoveElement
<1>2. SumFunctionOnSet(f, S) = f[y] + SumFunctionOnSet(f, S \ {y})
  BY SumPick
<1>3. SumFunctionOnSet(g, S) = g[y] + SumFunctionOnSet(g, S \ {y})
  BY SumPick
<1>4. SumFunctionOnSet(f, S \ {y}) = SumFunctionOnSet(g, S \ {y})
  BY <1>1, SumEqual
<1>5. SumFunctionOnSet(f, S \ {y}) \in Int
  BY <1>1, SumInt
<1> QED
  BY <1>2, <1>3, <1>4, <1>5

(* A sum of no negative value is none, and is at least each of its values. *)
LEMMA SumNat ==
  ASSUME NEW f, NEW S, IsFiniteSet(S), \A x \in S : f[x] \in Nat
  PROVE  \A T \in SUBSET S : SumFunctionOnSet(f, T) \in Nat
<1> DEFINE Good == {T \in SUBSET S : SumFunctionOnSet(f, T) \in Nat}
<1>1. ASSUME NEW T \in SUBSET S, \A x \in T : T \ {x} \in Good
      PROVE  T \in Good
  <2>1. CASE T = {}
    BY <2>1, SumEmpty
  <2>2. CASE T # {}
    <3>1. SumFunctionOnSet(f, T) = f[Chosen(T)] + SumFunctionOnSet(f, T \ {Chosen(T)})
      BY <2>2, SumFirst, FS_Subset
    <3> QED
      BY <1>1, <2>2, <3>1, ChosenIs
  <2> QED
    BY <2>1, <2>2
<1>2. \A T \in SUBSET S : T \in Good
  <2> HIDE DEF Good
  <2> QED
    BY <1>1, SubsetInduction
<1> QED
  BY <1>2

(* The sum over a set of zeros.                                            *)
LEMMA SumZero ==
  ASSUME NEW f, NEW S, IsFiniteSet(S), \A x \in S : f[x] = 0
  PROVE  SumFunctionOnSet(f, S) = 0
<1> DEFINE Good == {T \in SUBSET S : SumFunctionOnSet(f, T) = 0}
<1>1. ASSUME NEW T \in SUBSET S, \A x \in T : T \ {x} \in Good
      PROVE  T \in Good
  <2>1. CASE T = {}
    BY <2>1, SumEmpty
  <2>2. CASE T # {}
    <3>1. SumFunctionOnSet(f, T) = f[Chosen(T)] + SumFunctionOnSet(f, T \ {Chosen(T)})
      BY <2>2, SumFirst, FS_Subset
    <3> QED
      BY <1>1, <2>2, <3>1, ChosenIs
  <2> QED
    BY <2>1, <2>2
<1>2. \A T \in SUBSET S : T \in Good
  <2> HIDE DEF Good
  <2> QED
    BY <1>1, SubsetInduction
<1> QED
  BY <1>2

(* The sum of two functions is the sum of their sums.                      *)
LEMMA SumPlus ==
  ASSUME NEW f, NEW g, NEW h, NEW S, IsFiniteSet(S),
         \A x \in S : f[x] \in Int /\ g[x] \in Int /\ h[x] = f[x] + g[x]
  PROVE  SumFunctionOnSet(h, S) = SumFunctionOnSet(f, S) + SumFunctionOnSet(g, S)
<1> DEFINE Good == {T \in SUBSET S :
                      SumFunctionOnSet(h, T) = SumFunctionOnSet(f, T) + SumFunctionOnSet(g, T)}
<1>1. ASSUME NEW T \in SUBSET S, \A x \in T : T \ {x} \in Good
      PROVE  T \in Good
  <2>1. CASE T = {}
    BY <2>1, SumEmpty
  <2>2. CASE T # {}
    <3> DEFINE c == Chosen(T)
               R == T \ {c}
    <3>1. /\ SumFunctionOnSet(f, T) = f[c] + SumFunctionOnSet(f, R)
          /\ SumFunctionOnSet(g, T) = g[c] + SumFunctionOnSet(g, R)
          /\ SumFunctionOnSet(h, T) = h[c] + SumFunctionOnSet(h, R)
      BY <2>2, SumFirst, FS_Subset
    <3>2. c \in T /\ R \in SUBSET S /\ c \in S
      BY <2>2, ChosenIs
    <3>3. SumFunctionOnSet(h, R) = SumFunctionOnSet(f, R) + SumFunctionOnSet(g, R)
      BY <1>1, <3>2
    <3>4. SumFunctionOnSet(f, R) \in Int /\ SumFunctionOnSet(g, R) \in Int
      BY <3>2, SumInt
    <3> HIDE DEF c, R
    <3>5. f[c] \in Int /\ g[c] \in Int /\ h[c] = f[c] + g[c]
      BY <3>2
    <3>6. SumFunctionOnSet(h, T) = SumFunctionOnSet(f, T) + SumFunctionOnSet(g, T)
      BY <3>1, <3>3, <3>4, <3>5
    <3> QED
      BY <3>6
  <2> QED
    BY <2>1, <2>2
<1>2. \A T \in SUBSET S : T \in Good
  <2> HIDE DEF Good
  <2> QED
    BY <1>1, SubsetInduction
<1> QED
  BY <1>2

(* What is nothing outside a part sums to what the part sums to.           *)
LEMMA SumWithin ==
  ASSUME NEW f, NEW g, NEW S, IsFiniteSet(S), NEW P \in SUBSET S,
         \A x \in P : f[x] \in Int /\ g[x] = f[x],
         \A x \in S \ P : g[x] = 0
  PROVE  SumFunctionOnSet(g, S) = SumFunctionOnSet(f, P)
<1> DEFINE Good == {T \in SUBSET S : SumFunctionOnSet(g, T) = SumFunctionOnSet(f, T \cap P)}
<1>1. ASSUME NEW T \in SUBSET S, \A x \in T : T \ {x} \in Good
      PROVE  T \in Good
  <2>1. CASE T = {}
    <3>1. T \cap P = {}
      BY <2>1
    <3> QED
      BY <2>1, <3>1, SumEmpty
  <2>2. CASE T # {}
    <3>1. PICK c \in T : TRUE
      BY <2>2
    <3>2. IsFiniteSet(T) /\ IsFiniteSet(T \cap P)
      BY FS_Subset
    <3>3. SumFunctionOnSet(g, T) = g[c] + SumFunctionOnSet(g, T \ {c})
      BY <3>1, <3>2, SumPick
    <3>4. SumFunctionOnSet(g, T \ {c}) = SumFunctionOnSet(f, (T \ {c}) \cap P)
      BY <1>1, <3>1
    <3>5. CASE c \in P
      <4>1. SumFunctionOnSet(f, T \cap P) = f[c] + SumFunctionOnSet(f, (T \cap P) \ {c})
        BY <3>1, <3>2, <3>5, SumPick
      <4>2. (T \cap P) \ {c} = (T \ {c}) \cap P
        OBVIOUS
      <4>3. SumFunctionOnSet(g, T) = SumFunctionOnSet(f, T \cap P)
        BY <3>3, <3>4, <3>5, <4>1, <4>2
      <4> QED
        BY <4>3
    <3>6. CASE c \notin P
      <4>1. (T \ {c}) \cap P = T \cap P
        BY <3>6
      <4>2. SumFunctionOnSet(f, T \cap P) \in Int
        BY <3>2, SumInt
      <4>3. g[c] = 0
        BY <3>1, <3>6
      <4>a. SumFunctionOnSet(g, T \ {c}) = SumFunctionOnSet(f, T \cap P)
        BY <3>4, <4>1
      <4>4. SumFunctionOnSet(g, T) = SumFunctionOnSet(f, T \cap P)
        BY <3>3, <4>a, <4>2, <4>3
      <4> QED
        BY <4>4
    <3> QED
      BY <3>5, <3>6
  <2> QED
    BY <2>1, <2>2
<1>2. \A T \in SUBSET S : T \in Good
  <2> HIDE DEF Good
  <2> QED
    BY <1>1, SubsetInduction
<1>3. S \cap P = P /\ S \in Good
  BY <1>2
<1> QED
  BY <1>3
=============================================================================

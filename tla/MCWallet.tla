------------------------------ MODULE MCWallet ------------------------------
(* Small instances of Wallet: the calls the keys stand for.                *)
EXTENDS Wallet, TLC

CONSTANTS k1, k2, k3, k4, k5, h1, h2, FREE

(* A configuration uses the first keys of a list of calls.                 *)
On(f) == [k \in Keys |-> f[k]]
TheCall(kind, user, to, cur, amt) ==
    [kind |-> kind, user |-> user, to |-> to, cur |-> cur, amt |-> amt]

(* Both paths on one GOLD column: a recharge, a bet and a claw-back that   *)
(* cannot all be paid from it, an adjustment in a legacy currency, and one *)
(* of an amount that no path accepts.                                      *)
PathCalls == On(k1 :> TheCall("credit", 1, 1, GOLD, 2)
             @@ k2 :> TheCall("moveDebit", 1, 1, GOLD, 1)
             @@ k3 :> TheCall("reverse", 1, 1, GOLD, 2)
             @@ k4 :> TheCall("debit", 1, 1, FREE, 1)
             @@ k5 :> TheCall("credit", 1, 1, GOLD, 0))

(* Two users paying each other, and one of them reserving.                 *)
PairCalls == On(k1 :> TheCall("credit", 1, 1, GOLD, 2)
             @@ k2 :> TheCall("credit", 2, 2, GOLD, 1)
             @@ k3 :> TheCall("transfer", 1, 2, GOLD, 1)
             @@ k4 :> TheCall("transfer", 2, 1, GOLD, 1)
             @@ k5 :> TheCall("transfer", 1, 1, GOLD, 1))

TheHolds == [h \in Holds |-> [user |-> 1, amt |-> IF h = h1 THEN 2 ELSE 1]]

ReqSymmetry == Permutations(Reqs)
=============================================================================

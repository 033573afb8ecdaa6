------------------------------ MODULE Accounts ------------------------------
(***************************************************************************)
(* What the wallet promises its callers: a movement named by an            *)
(* idempotency key happens at most once, all at once, by exactly its       *)
(* amount; a spend needs the coins; only a claw-back may go below zero.    *)
(* There are no requests, locks, retries or crashes here.  The other       *)
(* modules (packets, purchases, casino) rely on this and no more.          *)
(***************************************************************************)
EXTENDS Integers

CONSTANTS
    Users, Currencies,
    Legacy,   \* currencies Path B has no column for
    Keys,     \* idempotency keys
    Calls     \* the calls that may be made with each key

VARIABLES
    balance,   \* coins per user and currency
    used       \* the keys whose movement has happened

accounts == <<balance, used>>

Init == balance = [u \in Users |-> [c \in Currencies |-> 0]] /\ used = {}

Credits == {"moveCredit", "credit"}
Spends == {"moveDebit", "debit"}

(* The column the call moves, if it moves one: transfers move only the     *)
(* derived availableBalance, and Path B has no column for the legacy       *)
(* currencies.                                                             *)
Unmoved(c) == c.kind = "transfer" \/ (c.kind \in {"credit", "debit", "reverse"} /\ c.cur \in Legacy)

Signed(c) == IF Unmoved(c) THEN 0 ELSE IF c.kind \in Credits THEN c.amt ELSE -c.amt

Covered(c) == c.kind \in Spends /\ Signed(c) < 0 => balance[c.user][c.cur] + Signed(c) >= 0

Move(k, c) ==
    /\ k \notin used /\ c \in Calls[k] /\ c.amt > 0 /\ Covered(c)
    /\ used' = used \cup {k}
    /\ balance' = [balance EXCEPT ![c.user][c.cur] = @ + Signed(c)]

(* What a caller of WalletService.debit or credit sees.  A key used before *)
(* is answered as a replay; a sum below zero is refused, a credit's too.   *)
Accepts(k, c) == c.amt > 0 /\ (k \in used \/ balance[c.user][c.cur] + Signed(c) >= 0)
Post(k, c) == IF k \in used THEN UNCHANGED accounts ELSE Move(k, c)

Next == \E k \in Keys : \E c \in Calls[k] : Move(k, c)

Spec == Init /\ [][Next]_accounts
=============================================================================

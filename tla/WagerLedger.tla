---------------------------- MODULE WagerLedger ----------------------------
(***************************************************************************)
(* What the wager transaction service promises a provider about money,     *)
(* with no handlers, locks, SQL transactions or retries: an order is       *)
(* decided at most once, a settled order moves its amount once and in the  *)
(* direction of its kind, a refused one moves nothing, and an order is     *)
(* undone at most once.  WagerService implements this specification.       *)
(***************************************************************************)
EXTENDS Integers

CONSTANTS
  Orders,          \* the requests providers may send
  Wallets,         \* the wallets that exist
  OpeningBalance,  \* the balance each wallet starts with
  MaxAmount,       \* the largest balance a wallet can hold
  NoRef            \* the reference of an order that names no other

VARIABLES
  balance,   \* of each wallet
  settled,   \* the orders that took effect
  refused,   \* the orders recorded as rejected
  undone     \* the settled orders a REFUND or a ROLLBACK has reversed

vars == <<balance, settled, refused, undone>>

Init ==
  /\ balance = OpeningBalance
  /\ settled = {}
  /\ refused = {}
  /\ undone = {}

\* nothing was decided yet under the order's provider and idempotency key
Undecided(o) ==
  \A d \in settled \cup refused : ~(d.provider = o.provider /\ d.key = o.key)

\* o names p: by external id, within one provider, for one player, wallet
\* and round
Names(o, p) ==
  /\ p.provider = o.provider /\ p.ext = o.ref
  /\ p.player = o.player /\ p.wallet = o.wallet /\ p.round = o.round

\* the money of order o moves by delta, and the balance stays representable
Pay(o, delta) ==
  /\ o.wallet \in Wallets
  /\ o.amount > 0
  /\ balance[o.wallet] + delta \in 0..MaxAmount
  /\ balance' = [balance EXCEPT ![o.wallet] = @ + delta]
  /\ settled' = settled \cup {o}
  /\ UNCHANGED refused

SettleBet(o) ==
  /\ o.kind = "BET"
  /\ Pay(o, -o.amount)
  /\ UNCHANGED undone

\* a WIN that names an order names a BET that was decided, won or lost
SettleWin(o) ==
  /\ o.kind = "WIN"
  /\ o.ref # NoRef => \E p \in settled \cup refused : p.kind = "BET" /\ Names(o, p)
  /\ Pay(o, o.amount)
  /\ UNCHANGED undone

SettleLoss(o) ==
  /\ o.kind = "LOSS"
  /\ o.wallet \in Wallets
  /\ settled' = settled \cup {o}
  /\ UNCHANGED <<balance, refused, undone>>

\* a REFUND credits the amount of p, whatever p is; a ROLLBACK moves the money of p
\* back, and knows how for three kinds
SettleReversal(o, p) ==
  /\ o.kind \in {"REFUND", "ROLLBACK"}
  /\ o.kind = "ROLLBACK" => p.kind \in {"BET", "WIN", "REFUND"}
  /\ p \in settled \ undone
  /\ Names(o, p)
  /\ p.amount = o.amount
  /\ Pay(o, IF o.kind = "ROLLBACK" /\ p.kind # "BET" THEN -o.amount ELSE o.amount)
  /\ undone' = undone \cup {p}

Refuse(o) ==
  /\ refused' = refused \cup {o}
  /\ UNCHANGED <<balance, settled, undone>>

Next ==
  \E o \in Orders :
    /\ Undecided(o)
    /\ \/ SettleBet(o)
       \/ SettleWin(o)
       \/ SettleLoss(o)
       \/ \E p \in settled : SettleReversal(o, p)
       \/ Refuse(o)

Spec == Init /\ [][Next]_vars
=============================================================================

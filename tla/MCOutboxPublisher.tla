------------------------- MODULE MCOutboxPublisher -------------------------
(***************************************************************************)
(* Small instances of OutboxPublisher: two balance changes of a wallet, or *)
(* the two events of a reversal.                                           *)
(***************************************************************************)
EXTENDS OutboxPublisher

CONSTANTS p1, p2

OnePublisher  == {p1}
TwoPublishers == {p1, p2}

Balance(n) == [id |-> n, type |-> "WalletBalanceChanged", aggregate |-> "wallet", after |-> 0]
Parked(n)  == [id |-> n, type |-> "WagerTransactionPendingReference", aggregate |-> "tx", after |-> 0]
Settled(n) == [id |-> n, type |-> "WagerTransactionProcessed", aggregate |-> "tx", after |-> n - 1]

TwoBalances == {Balance(1), Balance(2)}
\* a reversal that waited for its reference and was settled
OneReversal == {Parked(1), Settled(2)}
=============================================================================

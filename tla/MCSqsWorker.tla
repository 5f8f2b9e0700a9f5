----------------------------- MODULE MCSqsWorker -----------------------------
(***************************************************************************)
(* Small instances of SqsWorker: a worker and an HTTP handler, a BET, its  *)
(* REFUND over either transport, and a malformed message.                  *)
(***************************************************************************)
EXTENDS SqsWorker

CONSTANTS w1, t1, t2

OneThread  == {t1}
TwoThreads == {t1, t2}
OneWallet  == {w1}
OpenAt2    == [w \in OneWallet |-> 2]

Request(key, ext, kind, amount, refExt, hash, message) ==
  [provider |-> "prov", key |-> key, ext |-> ext, kind |-> kind, wallet |-> w1,
   player |-> "p", round |-> "r", amount |-> amount, ref |-> refExt,
   hash |-> hash, message |-> message]

Bet    == Request("k-bet", "bet", "BET", 2, NoRef, "h-bet", "m-bet")
Refund == Request("k-refund", "refund", "REFUND", 2, "bet", "h-refund", "m-refund")
HttpBet    == [Bet EXCEPT !.message = NoMessage]
HttpRefund == [Refund EXCEPT !.message = NoMessage]

MixedRequests == {HttpBet, Refund, HttpRefund}
Garbage   == {"m-garbage"}
=============================================================================

--------------------------- MODULE MCWagerService ---------------------------
(***************************************************************************)
(* Small instances of WagerService: the requests one provider sends for    *)
(* one or two wallets.                                                     *)
(***************************************************************************)
EXTENDS WagerService, TLC

CONSTANTS w1, w2, t1, t2

TwoThreads == {t1, t2}
OneThread  == {t1}

OneWallet  == {w1}
TwoWallets == {w1, w2}
OpenAt2    == [w \in {w1} |-> 2]
Open3And0  == (w1 :> 3) @@ (w2 :> 0)

\* a request of player "p" in round "r" over HTTP
Request(key, ext, kind, wallet, amount, refExt, hash) ==
  [provider |-> "prov", key |-> key, ext |-> ext, kind |-> kind, wallet |-> wallet,
   player |-> "p", round |-> "r", amount |-> amount, ref |-> refExt,
   hash |-> hash, message |-> NoMessage]

Bet       == Request("k-bet", "bet", "BET", w1, 2, NoRef, "h-bet")
BetBySqs  == [Bet EXCEPT !.message = "m-bet"]
Win       == Request("k-win", "win", "WIN", w1, 1, "bet", "h-win")
Loss      == [Request("k-loss", "loss", "LOSS", w1, 0, NoRef, "h-loss") EXCEPT !.message = "m-loss"]
Refund    == Request("k-refund", "refund", "REFUND", w1, 2, "bet", "h-refund")
Rollback  == Request("k-rollback", "rollback", "ROLLBACK", w1, 2, "bet", "h-rollback")
SmallBet  == Request("k-bet2", "bet2", "BET", w1, 1, NoRef, "h-bet2")
FreeWin   == Request("k-free", "free", "WIN", w2, 3, NoRef, "h-free")

\* a BET and the two ways to reverse it, and a BET the wallet cannot pay as well
ReversalRequests == {BetBySqs, SmallBet, Loss, Refund, Rollback}

\* every kind, settled and refused for every reason; UndoFree meets the money
\* of FreeWin in the wallet or already spent
Spend    == Request("k-spend", "spend", "BET", w2, 3, NoRef, "h-spend")
UndoFree == Request("k-undo", "undo", "ROLLBACK", w2, 3, "free", "h-undo")

RefusalRequests == {
  Bet, Win, Loss, Refund, FreeWin, Spend, UndoFree,
  Request("k-over", "over", "WIN", w2, 3, NoRef, "h-over"),
  Request("k-lost", "lost", "BET", "w-unknown", 1, NoRef, "h-lost"),
  Request("k-lost2", "lost2", "LOSS", "w-unknown", 0, NoRef, "h-lost2"),
  Request("k-bad", "bad", "BET", w1, -1, NoRef, "h-bad"),
  Request("k-open", "open", "OPENING", w1, 1, NoRef, "h-open"),
  Request("k-noref", "noref", "REFUND", w1, 2, NoRef, "h-noref"),
  Request("k-value", "value", "REFUND", w1, 1, "bet", "h-value"),
  Request("k-other", "other", "ROLLBACK", w2, 2, "bet", "h-other"),
  Request("k-redo", "redo", "ROLLBACK", w1, 2, "refund", "h-redo"),
  Request("k-redo2", "redo2", "ROLLBACK", w1, 2, "redo", "h-redo2"),
  [Request("k-late", "late", "WIN", w1, 1, "bet", "h-late") EXCEPT !.round = "r2"],
  Request("k-bet", "bet", "BET", w1, 1, "free", "h-bet1"),
  [Bet EXCEPT !.key = "k-again"]}
=============================================================================

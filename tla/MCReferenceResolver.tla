------------------------ MODULE MCReferenceResolver ------------------------
(***************************************************************************)
(* Small instances of ReferenceResolver: a WIN, two reversals that wait    *)
(* for it, a BET that spends its money, and two workers.                   *)
(***************************************************************************)
EXTENDS ReferenceResolver

CONSTANTS w1, t1, k1, k2

OneThread  == {t1}
TwoWorkers == {k1, k2}
OneWallet  == {w1}
OpenAt2    == [w \in OneWallet |-> 2]

Request(key, ext, kind, amount, refExt, hash) ==
  [provider |-> "prov", key |-> key, ext |-> ext, kind |-> kind, wallet |-> w1,
   player |-> "p", round |-> "r", amount |-> amount, ref |-> refExt,
   hash |-> hash, message |-> NoMessage]

Bet       == Request("k-bet", "bet", "BET", 4, NoRef, "h-bet")
Win       == Request("k-win", "win", "WIN", 2, NoRef, "h-win")
UndoWin   == Request("k-undo", "undo", "ROLLBACK", 2, "win", "h-undo")
UndoAgain == Request("k-again", "again", "ROLLBACK", 2, "win", "h-again")

RaceRequests == {Win, UndoWin, Bet}
AllRequests  == RaceRequests \cup {UndoAgain}
=============================================================================

--------------------------- MODULE MCWalletService ---------------------------
(***************************************************************************)
(* Small instances of WalletService: two providers with a player each, and *)
(* a caller whose token names no provider.                                 *)
(***************************************************************************)
EXTENDS WalletService, TLC

CONSTANTS c1, c2, c3

Owner(p) == [provider |-> p, player |-> "p", currency |-> "BRL"]

OneOwner   == {Owner("a")}
TwoOwners  == {Owner("a"), Owner("b")}
TwoCallers == {c1, c2}
ThreeCallers == {c1, c2, c3}
SameProvider == (c1 :> "a") @@ (c2 :> "a")
AllTokens    == (c1 :> "a") @@ (c2 :> "a") @@ (c3 :> NoProvider)
TwoProviders == (c1 :> "a") @@ (c2 :> "b")
SomeBalances == {-1, 0, 2}
OpenAt2      == {2}
=============================================================================

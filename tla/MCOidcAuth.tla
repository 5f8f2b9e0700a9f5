----------------------------- MODULE MCOidcAuth -----------------------------
(***************************************************************************)
(* A small instance of OidcAuth: two goroutines, two key ids, and tokens   *)
(* signed by the first key, by its replacement and by a later one.         *)
(***************************************************************************)
EXTENDS OidcAuth

CONSTANTS t1, t2

TwoThreads == {t1, t2}

Token(kid, key) ==
  [bearer |-> TRUE, alg |-> "RS256", kid |-> kid, key |-> key, exp |-> "ahead", provider |-> "prov"]

\* good tokens, and one for each way to refuse a token
SomeTokens == {
  Token("a", "m1"), Token("a", "m2"), Token("b", "m1"),
  [Token("a", "m1") EXCEPT !.bearer = FALSE],
  [Token("a", "m1") EXCEPT !.exp = "past"],
  [Token("a", "m1") EXCEPT !.provider = ""]}

OneKey == [k \in {"a", "b"} |-> IF k = "a" THEN "m1" ELSE Absent]
=============================================================================

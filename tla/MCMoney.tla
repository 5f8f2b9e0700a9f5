------------------------------ MODULE MCMoney ------------------------------
(***************************************************************************)
(* Money in a word of eight bits: MaxInt is 127, so "1.27" is the largest  *)
(* amount and "1.28" the first that does not fit.                          *)
(***************************************************************************)
EXTENDS Money

\* digits around the limits, and one character of every other class
SomeCharacters == {"0", "1", "2", "7", "8"} \cup OtherChars
=============================================================================

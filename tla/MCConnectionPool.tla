-------------------------- MODULE MCConnectionPool --------------------------
(***************************************************************************)
(* Two requests of the API and the worker's loop over pending references.  *)
(***************************************************************************)
EXTENDS ConnectionPool

CONSTANTS r1, r2, l1

AllGoroutines == {r1, r2, l1}
DutyOf        == [g \in AllGoroutines |-> IF g = l1 THEN "references" ELSE "request"]
AllJobs       == ProcessTransactionJobs \cup {CreateWallet, Read}
\* concurrent BETs with one idempotency key
IdenticalBets == {Settle, Duplicate}
=============================================================================

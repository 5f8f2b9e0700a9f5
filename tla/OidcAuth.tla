------------------------------ MODULE OidcAuth ------------------------------
(***************************************************************************)
(* The OIDC middleware and its KeyValidator: goroutines that verify tokens *)
(* against a cache of the issuer's signing keys, which they refresh over   *)
(* HTTP while they hold the cache's only mutex.                            *)
(*                                                                         *)
(* Time is kept as distances from now, in ticks: how long the cache is     *)
(* still valid, how long ago the last refresh began, how long ago a        *)
(* goroutine read the clock.  Distances that no comparison tells apart are *)
(* clipped, so time itself need not be bounded.                            *)
(***************************************************************************)
EXTENDS Integers

CONSTANTS
  Threads,        \* goroutines that serve requests
  Tokens,         \* the tokens clients present, records of TokenFields
  Kids,           \* key ids
  Materials,      \* RSA public keys
  FirstJwks,      \* what the issuer publishes at first
  Misconfigured,  \* configErr # nil
  TTL,            \* cacheTTL, 5 minutes by default
  Cooldown,       \* refreshCooldown, 30 seconds
  Timeout,        \* of the HTTP client, 10 seconds
  MaxAge,         \* bound: how long a goroutine is kept from using a clock reading
  MaxRequests,    \* bound: requests of a behaviour
  MaxRotations,   \* bound: changes of the issuer's key set
  MaxFaults,      \* bound: failed fetches
  NoThread        \* the owner of the mutex when it is free

TokenFields == {"bearer", "alg", "kid", "key", "exp", "provider"}
NoToken     == [f \in TokenFields |-> "none"]

\* a JWK that is missing, or that refreshKeys skips: not RSA, another alg or
\* use, or refused by parseRSAPublicKey
Absent   == "absent"
Unusable == "unusable"

ASSUME OidcAssumption ==
  /\ \A tok \in Tokens : /\ DOMAIN tok = TokenFields
                         /\ tok.kid \in Kids \cup {""}
                         /\ tok.key \notin {Absent, Unusable}
  /\ FirstJwks \in [Kids -> Materials \cup {Absent, Unusable}]
  /\ {Absent, Unusable} \cap Materials = {}
  /\ Misconfigured \in BOOLEAN
  /\ TTL \in Nat \ {0} /\ Cooldown \in Nat \ {0} /\ Timeout \in Nat \ {0}
  /\ Timeout < Cooldown
  /\ MaxAge \in Nat /\ MaxRequests \in Nat /\ MaxRotations \in Nat /\ MaxFaults \in Nat
  /\ NoThread \notin Threads

VARIABLES
  keys,       \* kv.keys
  left,       \* kv.cacheExpiry - now
  since,      \* now - kv.lastRefresh
  mutex,      \* who holds kv.mu
  pc,         \* where each goroutine stands
  token,      \* the token it verifies
  age,        \* how long ago it last called time.Now
  elapsed,    \* how long the fetch under way has taken
  fetched,    \* the key set it has received
  answer,     \* the last response of the middleware
  jwks,       \* what the issuer publishes
  held,       \* how long each key has been published, or withdrawn
  requests,   \* requests so far
  rotations,  \* changes of jwks so far
  faults      \* failed fetches so far

cache  == <<keys, left, since>>
local  == <<token, age, fetched>>
issuer == <<jwks, held, rotations>>
avars  == <<cache, mutex, pc, local, elapsed, answer, issuer, requests, faults>>

\* the distances beyond which nothing is compared
LongAgo   == Cooldown + MaxAge
LongSince == TTL + Timeout + MaxAge + 1
Clip(n, bound) == IF n > bound THEN bound ELSE n

Goto(t, s) == pc' = [pc EXCEPT ![t] = s]

\* the middleware has written its response, or called the next handler; what
\* the goroutine knew is gone
Answered(t, a) ==
  /\ answer' = a
  /\ token' = [token EXCEPT ![t] = NoToken]
  /\ age' = [age EXCEPT ![t] = 0]
  /\ Goto(t, "idle")

-----------------------------------------------------------------------------
(***************************************************************************)
(* The checks of the middleware before and after the key is known.         *)
(***************************************************************************)
BeforeKey(tok) ==
  IF Misconfigured                              THEN "server_misconfigured"
  ELSE IF ~tok.bearer                           THEN "invalid_authorization"
  ELSE IF tok.alg # "RS256" \/ tok.kid = ""     THEN "invalid_token"
  ELSE ""

\* signature, exp, and provider_id or sub
Verdict(tok, key) ==
  IF key # tok.key \/ tok.exp # "ahead"         THEN "invalid_token"
  ELSE IF tok.provider = ""                     THEN "missing_subject"
  ELSE "accepted"

Receive(t, tok) ==
  /\ pc[t] = "idle"
  /\ requests < MaxRequests
  /\ requests' = requests + 1
  /\ IF BeforeKey(tok) # ""
     THEN Answered(t, BeforeKey(tok))
     ELSE /\ Goto(t, "lookup")
          /\ token' = [token EXCEPT ![t] = tok]
          /\ age' = [age EXCEPT ![t] = 0]
          /\ UNCHANGED answer
  /\ UNCHANGED <<cache, mutex, elapsed, fetched, issuer, faults>>

-----------------------------------------------------------------------------
(***************************************************************************)
(* GetKey.  Its first critical section decides with a clock reading taken  *)
(* before the mutex was free; the last one looks at no clock at all.       *)
(***************************************************************************)

\* Mutant: cached keys are used whatever their age.
MutantNeverExpires(t) == TRUE

\* now.Before(kv.cacheExpiry), for the goroutine's own now
CacheValid(t) == left + age[t] > 0

\* Mutant: an unknown kid does not ask for a refresh.
MutantRefreshOnExpiry(t) == ~CacheValid(t)

ShouldRefresh(t) == ~CacheValid(t) \/ since - age[t] >= Cooldown

Known(t) == keys[token[t].kid] # Absent

Verify(t) == Answered(t, Verdict(token[t], keys[token[t].kid]))

Lookup(t) ==
  /\ pc[t] = "lookup"
  /\ mutex = NoThread
  /\ IF CacheValid(t) /\ Known(t)
     THEN Verify(t)
     ELSE Goto(t, IF ShouldRefresh(t) THEN "refresh" ELSE "final") /\ UNCHANGED <<answer, token, age>>
  /\ UNCHANGED <<cache, mutex, fetched, elapsed, issuer, requests, faults>>

Final(t) ==
  /\ pc[t] = "final"
  /\ mutex = NoThread
  /\ IF Known(t) THEN Verify(t) ELSE Answered(t, "invalid_token")
  /\ UNCHANGED <<cache, mutex, fetched, elapsed, issuer, requests, faults>>

-----------------------------------------------------------------------------
(***************************************************************************)
(* refreshKeys.  The mutex is held from its first line to its return, the  *)
(* HTTP exchange included.                                                 *)
(***************************************************************************)

\* somebody refreshed while this goroutine waited for the mutex
AlreadyRefreshed == left > 0 /\ since < Cooldown

BeginRefresh(t) ==
  /\ pc[t] = "refresh"
  /\ mutex = NoThread
  /\ age' = [age EXCEPT ![t] = 0]
  /\ IF AlreadyRefreshed
     THEN Goto(t, "final") /\ UNCHANGED <<since, mutex, elapsed>>
     ELSE /\ Goto(t, "fetch")
          /\ since' = 0
          /\ mutex' = t
          /\ elapsed' = 0
  /\ UNCHANGED <<keys, left, token, fetched, answer, issuer, requests, faults>>

\* the issuer answers with the keys of this moment
ServeJwks(t) ==
  /\ pc[t] = "fetch"
  /\ fetched' = [fetched EXCEPT ![t] = jwks]
  /\ Goto(t, "decode")
  /\ UNCHANGED <<cache, mutex, token, age, elapsed, answer, issuer, requests, faults>>

Usable(set) == [k \in Kids |-> IF set[k] = Unusable THEN Absent ELSE set[k]]
NoKeys      == [k \in Kids |-> Absent]

\* Mutant: an error return that leaves the mutex locked.
MutantStillLocked(t) == Answered(t, "invalid_token") /\ UNCHANGED <<mutex, elapsed>>

\* refreshKeys and GetKey return an error; the old keys and their expiry stay
RefreshFails(t) == Answered(t, "invalid_token") /\ mutex' = NoThread /\ elapsed' = 0

StoreKeys(t) ==
  /\ pc[t] = "decode"
  /\ fetched' = [fetched EXCEPT ![t] = NoKeys]
  /\ IF Usable(fetched[t]) = NoKeys
     THEN RefreshFails(t) /\ UNCHANGED <<keys, left>>
     ELSE /\ keys' = Usable(fetched[t])
          /\ left' = TTL
          /\ age' = [age EXCEPT ![t] = 0]
          /\ mutex' = NoThread
          /\ elapsed' = 0
          /\ Goto(t, "final")
          /\ UNCHANGED <<answer, token>>
  /\ UNCHANGED <<since, issuer, requests, faults>>

\* no connection, a timeout, a status other than 200, a body that is no JSON
FetchFails(t) ==
  /\ pc[t] \in {"fetch", "decode"}
  /\ faults < MaxFaults
  /\ faults' = faults + 1
  /\ fetched' = [fetched EXCEPT ![t] = NoKeys]
  /\ RefreshFails(t)
  /\ UNCHANGED <<cache, issuer, requests>>

-----------------------------------------------------------------------------
(***************************************************************************)
(* The issuer, and time.                                                   *)
(***************************************************************************)

\* a key appears, disappears or changes under its kid; its distance starts over
Rotate(k, m) ==
  /\ rotations < MaxRotations
  /\ rotations' = rotations + 1
  /\ m # jwks[k]
  /\ jwks' = [jwks EXCEPT ![k] = m]
  /\ held' = [p \in Kids \X Materials |->
       IF p[1] = k /\ p[2] \in {m, jwks[k]} THEN 0 ELSE held[p]]
  /\ UNCHANGED <<cache, mutex, pc, local, elapsed, answer, requests, faults>>

\* goroutines that still act on an earlier clock reading
Waiting(t) == pc[t] \in {"lookup", "refresh", "final"}

Tick ==
  /\ mutex # NoThread => elapsed < Timeout
  /\ \A t \in Threads : Waiting(t) => age[t] < MaxAge
  /\ left' = IF left > -MaxAge THEN left - 1 ELSE left
  /\ since' = Clip(since + 1, LongAgo)
  /\ age' = [t \in Threads |-> IF Waiting(t) THEN age[t] + 1 ELSE age[t]]
  /\ elapsed' = IF mutex # NoThread THEN elapsed + 1 ELSE elapsed
  /\ held' = [p \in Kids \X Materials |-> Clip(held[p] + 1, LongSince)]
  /\ UNCHANGED <<keys, mutex, pc, token, fetched, answer, jwks, rotations, requests, faults>>

-----------------------------------------------------------------------------
OidcInit ==
  /\ keys = NoKeys
  /\ left = -MaxAge
  /\ since = LongAgo
  /\ mutex = NoThread
  /\ pc = [t \in Threads |-> "idle"]
  /\ token = [t \in Threads |-> NoToken]
  /\ age = [t \in Threads |-> 0]
  /\ elapsed = 0
  /\ fetched = [t \in Threads |-> NoKeys]
  /\ answer = ""
  /\ jwks = FirstJwks
  /\ held = [p \in Kids \X Materials |-> LongSince]
  /\ requests = 0 /\ rotations = 0 /\ faults = 0

ThreadStep(t) == Lookup(t) \/ BeginRefresh(t) \/ ServeJwks(t) \/ StoreKeys(t) \/ Final(t)

OidcNext ==
  \/ \E t \in Threads :
       (\E tok \in Tokens : Receive(t, tok)) \/ ThreadStep(t) \/ FetchFails(t)
  \/ \E k \in Kids, m \in Materials \cup {Absent, Unusable} : Rotate(k, m)
  \/ Tick

\* a goroutine that can take the mutex takes it, and the issuer answers
OidcFairness == \A t \in Threads : WF_avars(ThreadStep(t))

OidcSpec == OidcInit /\ [][OidcNext]_avars /\ OidcFairness

-----------------------------------------------------------------------------
JwksType == [Kids -> Materials \cup {Absent, Unusable}]

\* OidcTypeOK: every variable in its type, cached keys are usable ones, and the
\* mutex is held by exactly the goroutine that fetches.
OidcTypeOK ==
  /\ keys \in [Kids -> Materials \cup {Absent}]
  /\ left \in -MaxAge..TTL /\ since \in 0..LongAgo /\ elapsed \in 0..Timeout
  /\ \A t \in Threads : mutex = t <=> pc[t] \in {"fetch", "decode"}
  /\ token \in [Threads -> Tokens \cup {NoToken}] /\ age \in [Threads -> 0..MaxAge]
  /\ fetched \in [Threads -> JwksType] /\ jwks \in JwksType
  /\ held \in [Kids \X Materials -> 0..LongSince]

KeyOf(t) == <<token[t].kid, token[t].key>>

\* Goroutine t answers in this step by looking at the cache.
Decides(t) == pc[t] \in {"lookup", "final"} /\ pc'[t] = "idle"

\* A key the issuer has withdrawn is honoured no longer than the cache's TTL, the
\* fetch that brought it and the wait of the goroutine that accepts with it, also
\* when refreshes fail meanwhile or another goroutine waits with a refresh.
WithdrawnKeyBounded ==
  [][\A t \in Threads :
       Decides(t) /\ answer' = "accepted" /\ jwks[token[t].kid] # token[t].key
       => held[KeyOf(t)] < TTL + Timeout + age[t]]_avars

\* A good token whose key the issuer publishes is refused for an outdated cache
\* only while the key is new: for a kid the cache does not know, until the
\* cooldown of a successful refresh is over; for a key replaced under its kid, or
\* after a failed refresh, until the cache expires.
PublishedKeyAccepted ==
  [][\A t \in Threads :
       /\ Decides(t)
       /\ answer' # "accepted"
       /\ Verdict(token[t], jwks[token[t].kid]) = "accepted"
       => held[KeyOf(t)] < age[t] + (IF Known(t) \/ faults > 0 THEN TTL + Timeout
                                                               ELSE Cooldown)]_avars

\* Every request that reaches GetKey is answered, though goroutines wait for the
\* mutex of one that fetches and fetches fail.
EveryCallerAnswered == \A t \in Threads : pc[t] = "lookup" ~> pc[t] = "idle"
=============================================================================

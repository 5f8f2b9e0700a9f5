--------------------------- MODULE OidcAuthProofs ---------------------------
(***************************************************************************)
(* Proofs about OidcAuth for any number of goroutines, tokens and keys and *)
(* any TTL, cooldown and timeout.                                          *)
(*                                                                         *)
(* The cache may disagree with the issuer about a key only since the fetch *)
(* that filled it, and a goroutine about to look at the cache for the last *)
(* time has, by its own clock reading, found it valid.                     *)
(***************************************************************************)
EXTENDS OidcAuth, TLAPS

Places == {"idle", "lookup", "refresh", "fetch", "decode", "final"}

ThreadsOK ==
  /\ pc \in [Threads -> Places]
  /\ mutex \in Threads \cup {NoThread}
  /\ requests \in Nat /\ rotations \in Nat /\ faults \in Nat
  /\ \A t \in Threads : pc[t] # "idle" => token[t] \in Tokens /\ token[t].kid \in Kids

\* the cache and the issuer disagree about a key
Differs(k, m) == (keys[k] = m) # (jwks[k] = m)

\* they have disagreed for no longer than the cache is old
CacheLag ==
  left > -MaxAge =>
    \A k \in Kids, m \in Materials : Differs(k, m) => held[<<k, m>>] <= TTL - left + Timeout

\* what a fetch brings was right while it took place
FetchLag ==
  \A t \in Threads : pc[t] = "decode" =>
    \A k \in Kids, m \in Materials :
      (fetched[t][k] = m) # (jwks[k] = m) => held[<<k, m>>] <= elapsed

\* a fetch has taken the time since the refresh began
FetchClock == mutex # NoThread => since = elapsed

\* as long as no fetch failed, the cache lacks no key older than the last refresh
RefreshLag ==
  mutex = NoThread /\ faults = 0 /\ since < LongAgo =>
    \A k \in Kids, m \in Materials :
      jwks[k] = m /\ keys[k] # m => held[<<k, m>>] <= since

\* a goroutine before its last look has seen a valid cache and a recent refresh
FinalFresh ==
  \A t \in Threads : pc[t] = "final" => left + age[t] > 0 /\ since - age[t] < Cooldown

OidcInv ==
  OidcTypeOK /\ ThreadsOK /\ CacheLag /\ FetchLag /\ FetchClock /\ RefreshLag /\ FinalFresh

-----------------------------------------------------------------------------
\* The constants as numbers.
LEMMA Numbers ==
  /\ TTL \in Nat /\ Cooldown \in Nat /\ Timeout \in Nat /\ MaxAge \in Nat
  /\ TTL > 0 /\ Timeout < Cooldown
  /\ LongAgo \in Nat /\ LongAgo = Cooldown + MaxAge
  /\ LongSince \in Nat /\ LongSince = TTL + Timeout + MaxAge + 1
<1>1. /\ TTL \in Nat \ {0} /\ Cooldown \in Nat \ {0} /\ Timeout \in Nat \ {0}
      /\ MaxAge \in Nat /\ Timeout < Cooldown
  BY OidcAssumption, Zenon
<1> QED
  BY <1>1 DEF LongAgo, LongSince

\* The constants as sets.
LEMMA Kinds ==
  /\ NoThread \notin Threads
  /\ Absent \notin Materials /\ Unusable \notin Materials /\ Absent # Unusable
  /\ FirstJwks \in JwksType
  /\ \A tok \in Tokens : tok.kid # "" => tok.kid \in Kids
  /\ \A tok \in Tokens : tok.key # Absent /\ tok.key # Unusable
<1>1. /\ NoThread \notin Threads /\ {Absent, Unusable} \cap Materials = {}
      /\ FirstJwks \in JwksType
  BY OidcAssumption, Zenon DEF JwksType
<1>2. /\ \A tok \in Tokens : tok.kid # "" => tok.kid \in Kids
      /\ \A tok \in Tokens : tok.key # Absent /\ tok.key # Unusable
  BY OidcAssumption, Zenon
<1>3. Absent # Unusable
  BY DEF Absent, Unusable
<1> QED
  BY <1>1, <1>2, <1>3, Zenon

LEMMA OidcInitInv == OidcInit => OidcInv
<1> SUFFICES ASSUME OidcInit PROVE OidcInv
  OBVIOUS
<1>0. left = -MaxAge /\ since = LongAgo /\ elapsed = 0
  BY DEF OidcInit
<1>1. OidcTypeOK
  <2>1. keys \in [Kids -> Materials \cup {Absent}] /\ fetched \in [Threads -> JwksType]
    BY DEF OidcInit, NoKeys, JwksType
  <2>2. left \in -MaxAge..TTL /\ since \in 0..LongAgo /\ elapsed \in 0..Timeout
    BY <1>0, Numbers
  <2>3. \A t \in Threads : mutex = t <=> pc[t] \in {"fetch", "decode"}
    BY Kinds DEF OidcInit
  <2>4. /\ token \in [Threads -> Tokens \cup {NoToken}] /\ age \in [Threads -> 0..MaxAge]
        /\ held \in [Kids \X Materials -> 0..LongSince]
    <3>1. 0 \in 0..MaxAge /\ LongSince \in 0..LongSince
      BY Numbers
    <3> QED
      BY <3>1 DEF OidcInit
  <2>5. jwks \in JwksType
    BY Kinds DEF OidcInit
  <2> QED
    BY <2>1, <2>2, <2>3, <2>4, <2>5 DEF OidcTypeOK
<1>2. ThreadsOK
  BY DEF OidcInit, ThreadsOK, Places
<1>3. CacheLag /\ RefreshLag
  BY <1>0, Numbers DEF CacheLag, RefreshLag
<1>4. FetchLag /\ FetchClock /\ FinalFresh
  BY DEF OidcInit, FetchLag, FetchClock, FinalFresh
<1> QED
  BY <1>1, <1>2, <1>3, <1>4 DEF OidcInv

\* The mutex belongs to the one goroutine that fetches.
LEMMA OneFetches ==
  ASSUME OidcInv, NEW t \in Threads, pc[t] \in {"fetch", "decode"}
  PROVE  mutex = t /\ mutex # NoThread /\ \A u \in Threads \ {t} : pc[u] \notin {"fetch", "decode"}
  BY Kinds DEF OidcInv, OidcTypeOK

\* A goroutine answers, or goes on, without the mutex and without the cache.
LEMMA QuietStep ==
  ASSUME OidcInv, NEW t \in Threads, NEW s \in Places \ {"fetch", "decode"},
         pc[t] \notin {"fetch", "decode"}, pc' = [pc EXCEPT ![t] = s],
         UNCHANGED <<cache, mutex, fetched, elapsed, issuer, faults>>,
         token' \in [Threads -> Tokens \cup {NoToken}], age' \in [Threads -> 0..MaxAge],
         \A u \in Threads \ {t} : token'[u] = token[u] /\ age'[u] = age[u],
         s # "idle" => token'[t] \in Tokens /\ token'[t].kid \in Kids,
         s = "final" => left + age'[t] > 0 /\ since - age'[t] < Cooldown,
         requests' \in Nat
  PROVE  OidcInv'
<1>1. /\ UNCHANGED <<keys, left, since, jwks, held, rotations, mutex, fetched, elapsed, faults>>
  BY DEF cache, issuer
<1>2. pc' \in [Threads -> Places] /\ pc'[t] = s /\ \A u \in Threads \ {t} : pc'[u] = pc[u]
  BY DEF OidcInv, ThreadsOK
<1>3. OidcTypeOK'
  <2>1. \A u \in Threads : mutex' = u <=> pc'[u] \in {"fetch", "decode"}
    BY <1>1, <1>2 DEF OidcInv, OidcTypeOK
  <2> QED
    BY <1>1, <2>1 DEF OidcInv, OidcTypeOK, JwksType
<1>4. ThreadsOK'
  BY <1>1, <1>2 DEF OidcInv, ThreadsOK
<1>5. CacheLag'
  BY <1>1 DEF OidcInv, CacheLag, Differs
<1>6. FetchLag'
  BY <1>1, <1>2 DEF OidcInv, FetchLag
<1>7. FetchClock' /\ RefreshLag'
  BY <1>1 DEF OidcInv, FetchClock, RefreshLag, LongAgo
<1>8. FinalFresh'
  BY <1>1, <1>2 DEF OidcInv, FinalFresh
<1> QED
  BY <1>3, <1>4, <1>5, <1>6, <1>7, <1>8 DEF OidcInv

LEMMA AnsweredForm ==
  ASSUME OidcInv, NEW t \in Threads, NEW a, Answered(t, a)
  PROVE  /\ pc' = [pc EXCEPT ![t] = "idle"]
         /\ token' \in [Threads -> Tokens \cup {NoToken}] /\ age' \in [Threads -> 0..MaxAge]
         /\ \A u \in Threads \ {t} : token'[u] = token[u] /\ age'[u] = age[u]
  BY Numbers DEF OidcInv, OidcTypeOK, Answered, Goto

\* Receive.
LEMMA ReceiveInv ==
  ASSUME OidcInv, NEW t \in Threads, NEW tok \in Tokens, Receive(t, tok)
  PROVE  OidcInv'
<1>1. /\ pc[t] = "idle" /\ requests' \in Nat
      /\ UNCHANGED <<cache, mutex, fetched, elapsed, issuer, faults>>
  <2>1. pc[t] = "idle" /\ requests' = requests + 1
    BY DEF Receive
  <2>2. UNCHANGED <<cache, mutex, elapsed, fetched, issuer, faults>>
    BY DEF Receive
  <2>3. requests \in Nat
    BY DEF OidcInv, ThreadsOK
  <2> QED
    BY <2>1, <2>2, <2>3
<1>2. CASE BeforeKey(tok) # ""
  <2>1. Answered(t, BeforeKey(tok))
    BY <1>2 DEF Receive
  <2> QED
    BY <1>1, <2>1, AnsweredForm, QuietStep DEF Places
<1>3. CASE BeforeKey(tok) = ""
  <2>1. /\ pc' = [pc EXCEPT ![t] = "lookup"] /\ token' = [token EXCEPT ![t] = tok]
        /\ age' = [age EXCEPT ![t] = 0]
    BY <1>3 DEF Receive, Goto
  <2>2. tok.kid \in Kids
    BY <1>3, Kinds DEF BeforeKey
  <2>3. /\ token' \in [Threads -> Tokens \cup {NoToken}] /\ age' \in [Threads -> 0..MaxAge]
        /\ token'[t] = tok
        /\ \A u \in Threads \ {t} : token'[u] = token[u] /\ age'[u] = age[u]
    BY <2>1, Numbers DEF OidcInv, OidcTypeOK
  <2> QED
    BY <1>1, <2>1, <2>2, <2>3, QuietStep DEF Places
<1> QED
  BY <1>2, <1>3

\* Lookup and Final.
LEMMA LookInv ==
  ASSUME OidcInv, NEW t \in Threads, Lookup(t) \/ Final(t)
  PROVE  OidcInv'
<1>1. /\ pc[t] \in {"lookup", "final"} /\ requests' \in Nat
      /\ UNCHANGED <<cache, mutex, fetched, elapsed, issuer, faults>>
  BY DEF Lookup, Final, OidcInv, ThreadsOK
<1>2. CASE \E a : Answered(t, a)
  BY <1>1, <1>2, AnsweredForm, QuietStep DEF Places
<1>3. CASE ~\E a : Answered(t, a)
  <2>1. /\ pc[t] = "lookup" /\ UNCHANGED <<token, age>>
        /\ pc' = [pc EXCEPT ![t] = IF ShouldRefresh(t) THEN "refresh" ELSE "final"]
    BY <1>3 DEF Lookup, Final, Verify, Goto
  <2>2. ~ShouldRefresh(t) => left + age[t] > 0 /\ since - age[t] < Cooldown
    BY Numbers DEF ShouldRefresh, CacheValid, OidcInv, OidcTypeOK
  <2>3. token[t] \in Tokens /\ token[t].kid \in Kids
    BY <2>1 DEF OidcInv, ThreadsOK
  <2>4. /\ token' \in [Threads -> Tokens \cup {NoToken}] /\ age' \in [Threads -> 0..MaxAge]
    BY <2>1 DEF OidcInv, OidcTypeOK
  <2>5. CASE ShouldRefresh(t)
    BY <1>1, <2>1, <2>3, <2>4, <2>5, QuietStep DEF Places
  <2>6. CASE ~ShouldRefresh(t)
    BY <1>1, <2>1, <2>2, <2>3, <2>4, <2>6, QuietStep DEF Places
  <2> QED
    BY <2>5, <2>6
<1> QED
  BY <1>2, <1>3

\* BeginRefresh.
LEMMA BeginRefreshInv ==
  ASSUME OidcInv, NEW t \in Threads, BeginRefresh(t)
  PROVE  OidcInv'
<1>1. /\ pc[t] = "refresh" /\ mutex = NoThread /\ age' = [age EXCEPT ![t] = 0]
      /\ UNCHANGED <<keys, left, token, fetched, answer, issuer, requests, faults>>
  BY DEF BeginRefresh
<1>2. UNCHANGED <<jwks, held, rotations>>
  BY <1>1 DEF issuer
<1>3. /\ age' \in [Threads -> 0..MaxAge] /\ age'[t] = 0
      /\ \A u \in Threads \ {t} : age'[u] = age[u]
  <2>1. 0 \in 0..MaxAge
    BY Numbers
  <2> QED
    BY <1>1, <2>1 DEF OidcInv, OidcTypeOK
<1>4. token[t] \in Tokens /\ token[t].kid \in Kids
  BY <1>1 DEF OidcInv, ThreadsOK
<1>5. CASE AlreadyRefreshed
  <2>1. pc' = [pc EXCEPT ![t] = "final"] /\ UNCHANGED <<since, mutex, elapsed>>
    BY <1>5 DEF BeginRefresh, Goto
  <2>2. left + age'[t] > 0 /\ since - age'[t] < Cooldown
    <3>1. left \in Int /\ since \in Int
      BY Numbers DEF OidcInv, OidcTypeOK
    <3> QED
      BY <1>3, <1>5, <3>1, Numbers DEF AlreadyRefreshed
  <2>3. UNCHANGED <<cache, mutex, fetched, elapsed, issuer, faults>>
    BY <1>1, <2>1 DEF cache
  <2>4. token' \in [Threads -> Tokens \cup {NoToken}] /\ requests' \in Nat
    BY <1>1 DEF OidcInv, OidcTypeOK, ThreadsOK
  <2> QED
    BY <1>1, <1>3, <1>4, <2>1, <2>2, <2>3, <2>4, QuietStep DEF Places
<1>6. CASE ~AlreadyRefreshed
  <2>1. pc' = [pc EXCEPT ![t] = "fetch"] /\ since' = 0 /\ mutex' = t /\ elapsed' = 0
    BY <1>6 DEF BeginRefresh, Goto
  <2>2. pc' \in [Threads -> Places] /\ pc'[t] = "fetch" /\ \A u \in Threads \ {t} : pc'[u] = pc[u]
    BY <2>1 DEF OidcInv, ThreadsOK, Places
  <2>3. \A u \in Threads : pc[u] \notin {"fetch", "decode"}
    BY <1>1, Kinds DEF OidcInv, OidcTypeOK
  <2>4. OidcTypeOK'
    <3>1. \A u \in Threads : mutex' = u <=> pc'[u] \in {"fetch", "decode"}
      BY <2>1, <2>2, <2>3
    <3>2. since' \in 0..LongAgo /\ elapsed' \in 0..Timeout
      BY <2>1, Numbers
    <3> QED
      BY <1>1, <1>2, <1>3, <3>1, <3>2 DEF OidcInv, OidcTypeOK, JwksType
  <2>5. ThreadsOK'
    BY <1>1, <1>2, <1>4, <2>1, <2>2 DEF OidcInv, ThreadsOK
  <2>6. CacheLag'
    BY <1>1, <1>2 DEF OidcInv, CacheLag, Differs
  <2>7. FetchLag'
    BY <2>2, <2>3 DEF FetchLag
  <2>8. FetchClock' /\ RefreshLag'
    BY <2>1, Kinds DEF FetchClock, RefreshLag
  <2>9. FinalFresh'
    <3> SUFFICES ASSUME NEW u \in Threads, pc'[u] = "final"
                 PROVE  left' + age'[u] > 0 /\ since' - age'[u] < Cooldown
      BY DEF FinalFresh
    <3>1. u # t /\ pc[u] = "final" /\ age'[u] = age[u] /\ age[u] \in 0..MaxAge
      BY <1>3, <2>2 DEF OidcInv, OidcTypeOK
    <3>2. left + age[u] > 0
      BY <3>1 DEF OidcInv, FinalFresh
    <3> QED
      BY <1>1, <2>1, <3>1, <3>2, Numbers
  <2> QED
    BY <2>4, <2>5, <2>6, <2>7, <2>8, <2>9 DEF OidcInv
<1> QED
  BY <1>5, <1>6

\* ServeJwks.
LEMMA ServeInv ==
  ASSUME OidcInv, NEW t \in Threads, ServeJwks(t)
  PROVE  OidcInv'
<1>1. /\ pc[t] = "fetch" /\ fetched' = [fetched EXCEPT ![t] = jwks]
      /\ pc' = [pc EXCEPT ![t] = "decode"]
      /\ UNCHANGED <<cache, mutex, token, age, elapsed, answer, issuer, requests, faults>>
  BY DEF ServeJwks, Goto
<1>2. UNCHANGED <<keys, left, since, jwks, held, rotations>>
  BY <1>1 DEF cache, issuer
<1>3. pc' \in [Threads -> Places] /\ pc'[t] = "decode" /\ \A u \in Threads \ {t} : pc'[u] = pc[u]
  BY <1>1 DEF OidcInv, ThreadsOK, Places
<1>4. mutex = t /\ \A u \in Threads \ {t} : pc[u] \notin {"fetch", "decode"}
  BY <1>1, OneFetches
<1>5. fetched' \in [Threads -> JwksType] /\ fetched'[t] = jwks
  BY <1>1 DEF OidcInv, OidcTypeOK
<1>6. OidcTypeOK'
  <2>1. \A u \in Threads : mutex' = u <=> pc'[u] \in {"fetch", "decode"}
    BY <1>1, <1>3, <1>4
  <2> QED
    BY <1>1, <1>2, <1>5, <2>1 DEF OidcInv, OidcTypeOK, JwksType
<1>7. ThreadsOK'
  BY <1>1, <1>2, <1>3 DEF OidcInv, ThreadsOK
<1>8. CacheLag' /\ FetchClock' /\ RefreshLag'
  BY <1>1, <1>2 DEF OidcInv, CacheLag, FetchClock, RefreshLag, Differs, LongAgo
<1>9. FetchLag'
  BY <1>2, <1>3, <1>4, <1>5 DEF FetchLag
<1>10. FinalFresh'
  BY <1>1, <1>2, <1>3 DEF OidcInv, FinalFresh
<1> QED
  BY <1>6, <1>7, <1>8, <1>9, <1>10 DEF OidcInv

\* The keys refreshKeys takes over agree with the fetched ones on every material.
LEMMA UsableKeys ==
  ASSUME NEW set \in JwksType
  PROVE  /\ Usable(set) \in [Kids -> Materials \cup {Absent}]
         /\ \A k \in Kids, m \in Materials : Usable(set)[k] = m <=> set[k] = m
  BY Kinds DEF Usable, JwksType

\* A refresh that ends without new keys.
LEMMA RefreshFailsInv ==
  ASSUME OidcInv, NEW t \in Threads, pc[t] \in {"fetch", "decode"}, RefreshFails(t),
         fetched' = [fetched EXCEPT ![t] = NoKeys],
         UNCHANGED <<cache, issuer, requests>>, faults' \in Nat,
         \/ faults' > 0
         \/ faults' = faults /\ pc[t] = "decode" /\ Usable(fetched[t]) = NoKeys
  PROVE  OidcInv'
<1>1. /\ mutex' = NoThread /\ elapsed' = 0 /\ pc' = [pc EXCEPT ![t] = "idle"]
      /\ token' \in [Threads -> Tokens \cup {NoToken}] /\ age' \in [Threads -> 0..MaxAge]
      /\ \A u \in Threads \ {t} : token'[u] = token[u] /\ age'[u] = age[u]
  BY AnsweredForm DEF RefreshFails
<1>2. UNCHANGED <<keys, left, since, jwks, held, rotations>>
  BY DEF cache, issuer
<1>3. pc' \in [Threads -> Places] /\ pc'[t] = "idle" /\ \A u \in Threads \ {t} : pc'[u] = pc[u]
  BY <1>1 DEF OidcInv, ThreadsOK, Places
<1>4. mutex = t /\ mutex # NoThread /\ \A u \in Threads \ {t} : pc[u] \notin {"fetch", "decode"}
  BY OneFetches
<1>5. OidcTypeOK'
  <2>1. \A u \in Threads : mutex' = u <=> pc'[u] \in {"fetch", "decode"}
    BY <1>1, <1>3, <1>4, Kinds
  <2>2. fetched' \in [Threads -> JwksType]
    BY DEF OidcInv, OidcTypeOK, NoKeys, JwksType
  <2>3. elapsed' \in 0..Timeout
    BY <1>1, Numbers
  <2> QED
    BY <1>1, <1>2, <2>1, <2>2, <2>3 DEF OidcInv, OidcTypeOK, JwksType
<1>6. ThreadsOK'
  BY <1>1, <1>2, <1>3 DEF OidcInv, ThreadsOK
<1>7. CacheLag'
  BY <1>2 DEF OidcInv, CacheLag, Differs
<1>8. FetchLag' /\ FetchClock'
  BY <1>1, <1>3, <1>4 DEF FetchLag, FetchClock
<1>9. RefreshLag'
  <2> SUFFICES ASSUME faults' = 0, NEW k \in Kids, NEW m \in Materials, jwks[k] = m
               PROVE  held[<<k, m>>] <= since
    BY <1>2 DEF RefreshLag
  <2>1. pc[t] = "decode" /\ Usable(fetched[t]) = NoKeys
    OBVIOUS
  <2>2. fetched[t] \in JwksType
    BY DEF OidcInv, OidcTypeOK
  <2>3. fetched[t][k] # m
    <3>1. Usable(fetched[t])[k] = Absent
      BY <2>1 DEF NoKeys
    <3> QED
      BY <2>2, <3>1, UsableKeys, Kinds
  <2>4. held[<<k, m>>] <= elapsed
    BY <2>1, <2>3 DEF OidcInv, FetchLag
  <2> QED
    BY <1>4, <2>4 DEF OidcInv, FetchClock
<1>10. FinalFresh'
  BY <1>1, <1>2, <1>3 DEF OidcInv, FinalFresh
<1> QED
  BY <1>5, <1>6, <1>7, <1>8, <1>9, <1>10 DEF OidcInv

\* FetchFails.
LEMMA FetchFailsInv ==
  ASSUME OidcInv, NEW t \in Threads, FetchFails(t)
  PROVE  OidcInv'
<1>1. faults \in Nat
  BY DEF OidcInv, ThreadsOK
<1>2. /\ pc[t] \in {"fetch", "decode"} /\ faults' = faults + 1 /\ RefreshFails(t)
      /\ fetched' = [fetched EXCEPT ![t] = NoKeys] /\ UNCHANGED <<cache, issuer, requests>>
  BY DEF FetchFails
<1>3. faults' \in Nat /\ faults' > 0
  BY <1>1, <1>2
<1> QED
  BY <1>2, <1>3, RefreshFailsInv

\* StoreKeys.
LEMMA StoreInv ==
  ASSUME OidcInv, NEW t \in Threads, StoreKeys(t)
  PROVE  OidcInv'
<1>1. /\ pc[t] = "decode" /\ fetched' = [fetched EXCEPT ![t] = NoKeys]
      /\ UNCHANGED <<since, issuer, requests, faults>>
  BY DEF StoreKeys
<1>2. faults \in Nat /\ since \in Int
  BY Numbers DEF OidcInv, OidcTypeOK, ThreadsOK
<1>3. CASE Usable(fetched[t]) = NoKeys
  <2>1. RefreshFails(t) /\ UNCHANGED cache
    BY <1>1, <1>3 DEF StoreKeys, cache
  <2> QED
    BY <1>1, <1>2, <1>3, <2>1, RefreshFailsInv
<1>4. CASE Usable(fetched[t]) # NoKeys
  <2>1. /\ keys' = Usable(fetched[t]) /\ left' = TTL /\ age' = [age EXCEPT ![t] = 0]
        /\ mutex' = NoThread /\ elapsed' = 0 /\ pc' = [pc EXCEPT ![t] = "final"]
        /\ UNCHANGED <<answer, token, since, jwks, held, rotations, requests, faults>>
    BY <1>1, <1>4 DEF StoreKeys, Goto, issuer
  <2>2. pc' \in [Threads -> Places] /\ pc'[t] = "final" /\ \A u \in Threads \ {t} : pc'[u] = pc[u]
    BY <2>1 DEF OidcInv, ThreadsOK, Places
  <2>3. mutex = t /\ mutex # NoThread /\ \A u \in Threads \ {t} : pc[u] \notin {"fetch", "decode"}
    BY <1>1, OneFetches
  <2>4. /\ keys' \in [Kids -> Materials \cup {Absent}]
        /\ \A k \in Kids, m \in Materials : keys'[k] = m <=> fetched[t][k] = m
    BY <2>1, UsableKeys DEF OidcInv, OidcTypeOK
  <2>5. /\ age' \in [Threads -> 0..MaxAge] /\ age'[t] = 0
        /\ \A u \in Threads \ {t} : age'[u] = age[u]
    <3>1. 0 \in 0..MaxAge
      BY Numbers
    <3> QED
      BY <2>1, <3>1 DEF OidcInv, OidcTypeOK
  <2>6. since = elapsed /\ elapsed \in 0..Timeout /\ elapsed \in Int /\ elapsed <= Timeout
    <3>1. since = elapsed /\ elapsed \in 0..Timeout
      BY <2>3 DEF OidcInv, OidcTypeOK, FetchClock
    <3> QED
      BY <3>1, Numbers
  <2>7. \A k \in Kids, m \in Materials :
          /\ held[<<k, m>>] \in Int
          /\ (keys'[k] = m) # (jwks[k] = m) => held[<<k, m>>] <= elapsed
    <3>1. \A k \in Kids, m \in Materials : held[<<k, m>>] \in 0..LongSince
      BY DEF OidcInv, OidcTypeOK
    <3>2. \A k \in Kids, m \in Materials : held[<<k, m>>] \in Int
      <4>1. 0..LongSince \subseteq Int
        OBVIOUS
      <4> QED
        BY <3>1, <4>1, Zenon
    <3> QED
      BY <1>1, <2>4, <3>2 DEF OidcInv, FetchLag
  <2>8. OidcTypeOK'
    <3>1. \A u \in Threads : mutex' = u <=> pc'[u] \in {"fetch", "decode"}
      BY <2>1, <2>2, <2>3, Kinds
    <3>2. fetched' \in [Threads -> JwksType]
      BY <1>1 DEF OidcInv, OidcTypeOK, NoKeys, JwksType
    <3>3. elapsed' \in 0..Timeout /\ left' \in -MaxAge..TTL
      BY <2>1, Numbers
    <3> QED
      BY <2>1, <2>4, <2>5, <3>1, <3>2, <3>3 DEF OidcInv, OidcTypeOK, JwksType
  <2>9. ThreadsOK'
    BY <1>1, <2>1, <2>2 DEF OidcInv, ThreadsOK
  <2>10. CacheLag'
    <3> SUFFICES ASSUME NEW k \in Kids, NEW m \in Materials, (keys'[k] = m) # (jwks[k] = m)
                 PROVE  held[<<k, m>>] <= TTL - left' + Timeout
      BY <2>1 DEF CacheLag, Differs
    <3> QED
      BY <2>1, <2>6, <2>7, Numbers
  <2>11. FetchLag' /\ FetchClock'
    BY <2>1, <2>2, <2>3 DEF FetchLag, FetchClock
  <2>12. RefreshLag'
    BY <2>1, <2>6, <2>7 DEF RefreshLag
  <2>13. FinalFresh'
    <3> SUFFICES ASSUME NEW u \in Threads, pc'[u] = "final"
                 PROVE  left' + age'[u] > 0 /\ since' - age'[u] < Cooldown
      BY DEF FinalFresh
    <3>1. CASE u = t
      BY <2>1, <2>5, <2>6, <3>1, Numbers
    <3>2. CASE u # t
      <4>1. age'[u] = age[u] /\ age[u] \in 0..MaxAge /\ since - age[u] < Cooldown
        BY <2>2, <2>5, <3>2 DEF OidcInv, OidcTypeOK, FinalFresh
      <4> QED
        BY <2>1, <4>1, Numbers
    <3> QED
      BY <3>1, <3>2
  <2> QED
    BY <2>8, <2>9, <2>10, <2>11, <2>12, <2>13 DEF OidcInv
<1> QED
  BY <1>3, <1>4

\* Rotate.
LEMMA RotateInv ==
  ASSUME OidcInv, NEW k \in Kids, NEW m \in Materials \cup {Absent, Unusable}, Rotate(k, m)
  PROVE  OidcInv'
<1>1. /\ rotations' = rotations + 1 /\ jwks' = [jwks EXCEPT ![k] = m]
      /\ held' = [p \in Kids \X Materials |->
                    IF p[1] = k /\ p[2] \in {m, jwks[k]} THEN 0 ELSE held[p]]
      /\ UNCHANGED <<cache, mutex, pc, local, elapsed, answer, requests, faults>>
  BY DEF Rotate
<1>2. UNCHANGED <<keys, left, since, token, age, fetched, mutex, pc, elapsed, requests, faults>>
  BY <1>1 DEF cache, local
<1>3. /\ left \in Int /\ left <= TTL /\ since \in Int /\ since >= 0 /\ elapsed \in Int /\ elapsed >= 0
  <2>1. left \in -MaxAge..TTL /\ since \in 0..LongAgo /\ elapsed \in 0..Timeout
    BY DEF OidcInv, OidcTypeOK
  <2> QED
    BY <2>1, Numbers
<1>4. /\ held' \in [Kids \X Materials -> 0..LongSince] /\ jwks' \in JwksType
  <2>1. 0 \in 0..LongSince
    BY Numbers
  <2> QED
    BY <1>1, <2>1 DEF OidcInv, OidcTypeOK, JwksType
<1>5. ASSUME NEW i \in Kids, NEW n \in Materials
      PROVE  \/ held'[<<i, n>>] = 0
             \/ held'[<<i, n>>] = held[<<i, n>>] /\ (jwks'[i] = n <=> jwks[i] = n)
  <2>1. <<i, n>> \in Kids \X Materials
    OBVIOUS
  <2>2. held'[<<i, n>>] = IF i = k /\ n \in {m, jwks[k]} THEN 0 ELSE held[<<i, n>>]
    BY <1>1, <2>1
  <2>3. jwks'[i] = IF i = k THEN m ELSE jwks[i]
    BY <1>1 DEF OidcInv, OidcTypeOK, JwksType
  <2> QED
    BY <2>2, <2>3
<1>6. OidcTypeOK'
  BY <1>2, <1>4 DEF OidcInv, OidcTypeOK
<1>7. ThreadsOK'
  <2>1. rotations' \in Nat
    BY <1>1 DEF OidcInv, ThreadsOK
  <2> QED
    BY <1>2, <2>1 DEF OidcInv, ThreadsOK
<1>8. CacheLag'
  <2> SUFFICES ASSUME left > -MaxAge, NEW i \in Kids, NEW n \in Materials, Differs(i, n)'
               PROVE  held'[<<i, n>>] <= TTL - left + Timeout
    BY <1>2 DEF CacheLag
  <2>1. CASE held'[<<i, n>>] = 0
    BY <1>3, <2>1, Numbers
  <2>2. CASE held'[<<i, n>>] = held[<<i, n>>] /\ (jwks'[i] = n <=> jwks[i] = n)
    BY <1>2, <2>2 DEF OidcInv, CacheLag, Differs
  <2> QED
    BY <1>5, <2>1, <2>2
<1>9. FetchLag'
  <2> SUFFICES ASSUME NEW t \in Threads, pc[t] = "decode", NEW i \in Kids, NEW n \in Materials,
                      (fetched[t][i] = n) # (jwks'[i] = n)
               PROVE  held'[<<i, n>>] <= elapsed
    BY <1>2 DEF FetchLag
  <2>1. CASE held'[<<i, n>>] = 0
    BY <1>3, <2>1
  <2>2. CASE held'[<<i, n>>] = held[<<i, n>>] /\ (jwks'[i] = n <=> jwks[i] = n)
    BY <2>2 DEF OidcInv, FetchLag
  <2> QED
    BY <1>5, <2>1, <2>2
<1>10. FetchClock' /\ FinalFresh'
  BY <1>2 DEF OidcInv, FetchClock, FinalFresh
<1>11. RefreshLag'
  <2> SUFFICES ASSUME mutex = NoThread, faults = 0, since < LongAgo,
                      NEW i \in Kids, NEW n \in Materials, jwks'[i] = n, keys[i] # n
               PROVE  held'[<<i, n>>] <= since
    BY <1>2 DEF RefreshLag, LongAgo
  <2>1. CASE held'[<<i, n>>] = 0
    BY <1>3, <2>1
  <2>2. CASE held'[<<i, n>>] = held[<<i, n>>] /\ (jwks'[i] = n <=> jwks[i] = n)
    BY <2>2 DEF OidcInv, RefreshLag
  <2> QED
    BY <1>5, <2>1, <2>2
<1> QED
  BY <1>6, <1>7, <1>8, <1>9, <1>10, <1>11 DEF OidcInv

\* Tick.
LEMMA TickInv ==
  ASSUME OidcInv, Tick
  PROVE  OidcInv'
<1>1. /\ left' = (IF left > -MaxAge THEN left - 1 ELSE left)
      /\ since' = Clip(since + 1, LongAgo)
      /\ age' = [t \in Threads |-> IF Waiting(t) THEN age[t] + 1 ELSE age[t]]
      /\ elapsed' = (IF mutex # NoThread THEN elapsed + 1 ELSE elapsed)
      /\ held' = [p \in Kids \X Materials |-> Clip(held[p] + 1, LongSince)]
      /\ UNCHANGED <<keys, mutex, pc, token, fetched, jwks, rotations, requests, faults>>
  BY DEF Tick
<1>2. /\ mutex # NoThread => elapsed < Timeout
      /\ \A t \in Threads : Waiting(t) => age[t] < MaxAge
  BY DEF Tick
<1>3. /\ left \in Int /\ -MaxAge <= left /\ left <= TTL
      /\ since \in Int /\ 0 <= since /\ since <= LongAgo
      /\ elapsed \in Int /\ 0 <= elapsed /\ elapsed <= Timeout
      /\ \A t \in Threads : age[t] \in Int /\ 0 <= age[t] /\ age[t] <= MaxAge
      /\ \A i \in Kids, n \in Materials : /\ held[<<i, n>>] \in Int
                                          /\ 0 <= held[<<i, n>>] /\ held[<<i, n>>] <= LongSince
  <2>1. /\ left \in -MaxAge..TTL /\ since \in 0..LongAgo /\ elapsed \in 0..Timeout
        /\ \A t \in Threads : age[t] \in 0..MaxAge
        /\ \A i \in Kids, n \in Materials : held[<<i, n>>] \in 0..LongSince
    BY DEF OidcInv, OidcTypeOK
  <2> QED
    BY <2>1, Numbers
<1>4. /\ left' \in -MaxAge..TTL /\ since' \in 0..LongAgo /\ elapsed' \in 0..Timeout
      /\ since < LongAgo => since' = since + 1
      /\ since' < LongAgo => since < LongAgo /\ since' = since + 1
  BY <1>1, <1>2, <1>3, Numbers DEF Clip
<1>5. ASSUME NEW i \in Kids, NEW n \in Materials
      PROVE  /\ held'[<<i, n>>] \in 0..LongSince
             /\ held'[<<i, n>>] <= held[<<i, n>>] + 1
  <2>1. <<i, n>> \in Kids \X Materials
    OBVIOUS
  <2>2. held'[<<i, n>>] = Clip(held[<<i, n>>] + 1, LongSince)
    BY <1>1, <2>1
  <2> QED
    BY <1>3, <2>2, Numbers DEF Clip
<1>6. age' \in [Threads -> 0..MaxAge]
  <2>1. ASSUME NEW t \in Threads
        PROVE  (IF Waiting(t) THEN age[t] + 1 ELSE age[t]) \in 0..MaxAge
    <3>1. age[t] \in Int /\ 0 <= age[t] /\ age[t] <= MaxAge /\ (Waiting(t) => age[t] < MaxAge)
      BY <1>2, <1>3
    <3>2. MaxAge \in Nat
      BY Numbers
    <3> QED
      BY <3>1, <3>2
  <2> QED
    BY <1>1, <2>1
<1>7. OidcTypeOK'
  <2>1. held' \in [Kids \X Materials -> 0..LongSince]
    <3>1. \A p \in Kids \X Materials : held'[p] \in 0..LongSince
      BY <1>5
    <3>2. held' = [p \in Kids \X Materials |-> held'[p]]
      BY <1>1
    <3> QED
      BY <3>1, <3>2
  <2> QED
    BY <1>1, <1>4, <1>6, <2>1 DEF OidcInv, OidcTypeOK, JwksType
<1>8. ThreadsOK'
  BY <1>1 DEF OidcInv, ThreadsOK
<1>9. CacheLag'
  <2> SUFFICES ASSUME left' > -MaxAge, NEW i \in Kids, NEW n \in Materials, Differs(i, n)'
               PROVE  held'[<<i, n>>] <= TTL - left' + Timeout
    BY DEF CacheLag
  <2>1. left > -MaxAge /\ left' = left - 1
    BY <1>1, <1>3, Numbers
  <2>2. Differs(i, n)
    BY <1>1 DEF Differs
  <2>3. held[<<i, n>>] <= TTL - left + Timeout
    BY <2>1, <2>2 DEF OidcInv, CacheLag
  <2>4. held'[<<i, n>>] \in Int
    BY <1>5, Numbers
  <2> QED
    BY <1>3, <1>5, <2>1, <2>3, <2>4, Numbers
<1>10. FetchLag'
  <2> SUFFICES ASSUME NEW t \in Threads, pc[t] = "decode", NEW i \in Kids, NEW n \in Materials,
                      (fetched[t][i] = n) # (jwks[i] = n)
               PROVE  held'[<<i, n>>] <= elapsed'
    BY <1>1 DEF FetchLag
  <2>1. mutex # NoThread
    BY OneFetches
  <2>2. held[<<i, n>>] <= elapsed
    BY DEF OidcInv, FetchLag
  <2>3. elapsed' = elapsed + 1
    BY <1>1, <2>1
  <2>4. held'[<<i, n>>] \in Int
    BY <1>5, Numbers
  <2> QED
    BY <1>3, <1>5, <2>2, <2>3, <2>4
<1>11. FetchClock'
  <2> SUFFICES ASSUME mutex # NoThread PROVE since' = elapsed'
    BY <1>1 DEF FetchClock
  <2>1. since = elapsed /\ elapsed' = elapsed + 1
    BY <1>1 DEF OidcInv, FetchClock
  <2> QED
    BY <1>2, <1>3, <1>4, <2>1, Numbers
<1>12. RefreshLag'
  <2> SUFFICES ASSUME mutex = NoThread, faults = 0, since' < LongAgo,
                      NEW i \in Kids, NEW n \in Materials, jwks[i] = n, keys[i] # n
               PROVE  held'[<<i, n>>] <= since'
    BY <1>1 DEF RefreshLag, LongAgo
  <2>1. since < LongAgo /\ since' = since + 1
    BY <1>4
  <2>2. held[<<i, n>>] <= since
    BY <2>1 DEF OidcInv, RefreshLag
  <2>3. held'[<<i, n>>] \in Int
    BY <1>5, Numbers
  <2> QED
    BY <1>3, <1>5, <2>1, <2>2, <2>3
<1>13. FinalFresh'
  <2> SUFFICES ASSUME NEW t \in Threads, pc[t] = "final"
               PROVE  left' + age'[t] > 0 /\ since' - age'[t] < Cooldown
    BY <1>1 DEF FinalFresh
  <2>1. Waiting(t) /\ age[t] < MaxAge
    BY <1>2 DEF Waiting
  <2>2. left + age[t] > 0 /\ since - age[t] < Cooldown
    BY DEF OidcInv, FinalFresh
  <2>3. age'[t] = age[t] + 1
    BY <1>1, <2>1
  <2>4. since' \in Int /\ since' <= since + 1
    BY <1>1, <1>3, Numbers DEF Clip
  <2> QED
    BY <1>1, <1>3, <2>1, <2>2, <2>3, <2>4, Numbers
<1> QED
  BY <1>7, <1>8, <1>9, <1>10, <1>11, <1>12, <1>13 DEF OidcInv

-----------------------------------------------------------------------------
\* Every step keeps the invariant.
LEMMA OidcStep == OidcInv /\ [OidcNext]_avars => OidcInv'
<1> SUFFICES ASSUME OidcInv, [OidcNext]_avars PROVE OidcInv'
  OBVIOUS
<1>1. ASSUME NEW t \in Threads,
             (\E tok \in Tokens : Receive(t, tok)) \/ ThreadStep(t) \/ FetchFails(t)
      PROVE  OidcInv'
  BY <1>1, ReceiveInv, LookInv, BeginRefreshInv, ServeInv, StoreInv, FetchFailsInv
     DEF ThreadStep
<1>2. CASE UNCHANGED avars
  <2>1. UNCHANGED <<keys, left, since, mutex, pc, token, age, fetched, elapsed,
                    jwks, held, rotations, requests, faults>>
    BY <1>2 DEF avars, cache, local, issuer
  <2>2. OidcTypeOK' /\ ThreadsOK'
    BY <2>1 DEF OidcInv, OidcTypeOK, ThreadsOK, JwksType
  <2>3. CacheLag' /\ FetchLag' /\ FetchClock' /\ RefreshLag' /\ FinalFresh'
    BY <2>1 DEF OidcInv, CacheLag, FetchLag, FetchClock, RefreshLag, FinalFresh, Differs, LongAgo
  <2> QED
    BY <2>2, <2>3 DEF OidcInv
<1> QED
  BY <1>1, <1>2, RotateInv, TickInv DEF OidcNext

\* The types of OidcTypeOK, and that the mutex of the KeyValidator is held by
\* exactly the goroutine that fetches, together with the bounds on how far the
\* cache, and a fetch under way, lag behind the issuer.
THEOREM CacheInvariance == OidcSpec => []OidcInv
  BY OidcInitInv, OidcStep, PTL DEF OidcSpec

\* OidcTypeOK for any number of goroutines, keys and tokens.
THEOREM OidcTypes == OidcSpec => []OidcTypeOK
<1>1. OidcInv => OidcTypeOK
  BY DEF OidcInv
<1> QED
  BY <1>1, CacheInvariance, PTL

\* What a goroutine that answers from the cache has looked at.
LEMMA Decision ==
  ASSUME OidcInv, OidcNext, NEW t \in Threads, Decides(t)
  PROVE  /\ mutex = NoThread
         /\ left + age[t] > 0
         /\ ~Known(t) => since - age[t] < Cooldown
         /\ \/ answer' = Verdict(token[t], keys[token[t].kid])
            \/ ~Known(t) /\ answer' = "invalid_token"
<1>1. pc[t] \in {"lookup", "final"} /\ pc'[t] = "idle" /\ pc \in [Threads -> Places]
  BY DEF Decides, OidcInv, ThreadsOK
<1>2. ASSUME NEW u \in Threads,
             (\E tok \in Tokens : Receive(u, tok)) \/ ThreadStep(u) \/ FetchFails(u)
      PROVE  Lookup(t) \/ Final(t)
  <2>1. \A v \in Threads : v # u => pc'[v] = pc[v]
    BY <1>1, <1>2 DEF ThreadStep, Receive, Lookup, BeginRefresh, ServeJwks, StoreKeys, Final,
       FetchFails, RefreshFails, Verify, Answered, Goto
  <2>2. u = t
    BY <1>1, <2>1
  <2> QED
    BY <1>1, <1>2, <2>2 DEF ThreadStep, Receive, BeginRefresh, ServeJwks, StoreKeys, FetchFails
<1>3. Lookup(t) \/ Final(t)
  BY <1>1, <1>2 DEF OidcNext, Rotate, Tick
<1>4. CASE Lookup(t)
  <2>1. CacheValid(t) /\ Known(t) /\ Verify(t)
    BY <1>1, <1>4 DEF Lookup, Goto
  <2> QED
    BY <1>4, <2>1 DEF Lookup, CacheValid, Verify, Answered
<1>5. CASE Final(t)
  <2>1. left + age[t] > 0 /\ since - age[t] < Cooldown
    BY <1>5 DEF Final, OidcInv, FinalFresh
  <2> QED
    BY <1>5, <2>1 DEF Final, Verify, Answered
<1> QED
  BY <1>3, <1>4, <1>5

\* WithdrawnKeyBounded for any number of goroutines and keys: a token is accepted
\* with a key the issuer has withdrawn only within the TTL of the cache, the
\* timeout of a fetch and the time the goroutine waited since it read the clock.
THEOREM WithdrawnKeys == OidcSpec => WithdrawnKeyBounded
<1> DEFINE Bounded ==
      \A t \in Threads :
        Decides(t) /\ answer' = "accepted" /\ jwks[token[t].kid] # token[t].key
        => held[KeyOf(t)] < TTL + Timeout + age[t]
<1>1. OidcInv /\ [OidcNext]_avars => [Bounded]_avars
  <2> SUFFICES ASSUME OidcInv, OidcNext, NEW t \in Threads, Decides(t),
                      answer' = "accepted", jwks[token[t].kid] # token[t].key
               PROVE  held[KeyOf(t)] < TTL + Timeout + age[t]
    OBVIOUS
  <2> DEFINE k == token[t].kid
             m == token[t].key
  <2>1. /\ left + age[t] > 0 /\ keys[k] = m
    BY Decision DEF Verdict
  <2>2. k \in Kids /\ token[t] \in Tokens /\ m # Absent
    BY Kinds DEF Decides, OidcInv, ThreadsOK
  <2>3. m \in Materials
    BY <2>1, <2>2 DEF OidcInv, OidcTypeOK
  <2> HIDE DEF k, m
  <2>4. /\ left \in -MaxAge..TTL /\ age[t] \in 0..MaxAge /\ held[<<k, m>>] \in 0..LongSince
    BY <2>2, <2>3 DEF OidcInv, OidcTypeOK
  <2>5. left > -MaxAge
    BY <2>1, <2>4, Numbers
  <2>6. Differs(k, m)
    BY <2>1 DEF Differs, k, m
  <2>7. held[<<k, m>>] <= TTL - left + Timeout
    BY <2>2, <2>3, <2>5, <2>6 DEF OidcInv, CacheLag
  <2>8. held[<<k, m>>] < TTL + Timeout + age[t]
    BY <2>1, <2>4, <2>7, Numbers
  <2> QED
    BY <2>8 DEF KeyOf, k, m
<1> QED
  BY <1>1, CacheInvariance, PTL DEF OidcSpec, WithdrawnKeyBounded

\* PublishedKeyAccepted for any number of goroutines and keys: a good token is
\* refused for an outdated cache only while its key is new.  It rests on a fetch
\* that is shorter than the cooldown, 10 and 30 seconds in the code.
THEOREM PublishedKeys == OidcSpec => PublishedKeyAccepted
<1> DEFINE Accepted ==
      \A t \in Threads :
        /\ Decides(t)
        /\ answer' # "accepted"
        /\ Verdict(token[t], jwks[token[t].kid]) = "accepted"
        => held[KeyOf(t)] < age[t] + (IF Known(t) \/ faults > 0 THEN TTL + Timeout
                                                                ELSE Cooldown)
<1>1. OidcInv /\ [OidcNext]_avars => [Accepted]_avars
  <2> SUFFICES ASSUME OidcInv, OidcNext, NEW t \in Threads, Decides(t),
                      answer' # "accepted",
                      Verdict(token[t], jwks[token[t].kid]) = "accepted"
               PROVE  held[KeyOf(t)] < age[t] + (IF Known(t) \/ faults > 0 THEN TTL + Timeout
                                                                           ELSE Cooldown)
    OBVIOUS
  <2> DEFINE k == token[t].kid
             m == token[t].key
  <2>1. jwks[k] = m /\ token[t].exp = "ahead" /\ token[t].provider # ""
    BY DEF Verdict
  <2>2. /\ mutex = NoThread /\ left + age[t] > 0 /\ (~Known(t) => since - age[t] < Cooldown)
        /\ \/ answer' = Verdict(token[t], keys[k])
           \/ ~Known(t) /\ answer' = "invalid_token"
    BY Decision
  <2>3. k \in Kids /\ token[t] \in Tokens /\ m # Absent /\ m # Unusable
    BY Kinds DEF Decides, OidcInv, ThreadsOK
  <2>4. m \in Materials
    BY <2>1, <2>3 DEF OidcInv, OidcTypeOK, JwksType
  <2>5. keys[k] # m
    BY <2>1, <2>2, <2>3 DEF Verdict, Known
  <2> HIDE DEF k, m
  <2>6. /\ left \in -MaxAge..TTL /\ age[t] \in 0..MaxAge /\ held[<<k, m>>] \in 0..LongSince
        /\ since \in 0..LongAgo /\ faults \in Nat
    BY <2>3, <2>4 DEF OidcInv, OidcTypeOK, ThreadsOK
  <2>7. CASE Known(t) \/ faults > 0
    <3>1. left > -MaxAge
      BY <2>2, <2>6, Numbers
    <3>2. Differs(k, m)
      BY <2>1, <2>5 DEF Differs
    <3>3. held[<<k, m>>] <= TTL - left + Timeout
      BY <2>3, <2>4, <3>1, <3>2 DEF OidcInv, CacheLag
    <3>4. held[<<k, m>>] < age[t] + (TTL + Timeout)
      BY <2>2, <2>6, <3>3, Numbers
    <3> QED
      BY <2>7, <3>4 DEF KeyOf, k, m
  <2>8. CASE ~Known(t) /\ ~(faults > 0)
    <3>1. faults = 0
      BY <2>6, <2>8
    <3>2. since < LongAgo
      BY <2>2, <2>6, <2>8, Numbers
    <3>3. held[<<k, m>>] <= since
      BY <2>1, <2>2, <2>3, <2>4, <2>5, <3>1, <3>2 DEF OidcInv, RefreshLag
    <3>4. held[<<k, m>>] < age[t] + Cooldown
      BY <2>2, <2>6, <2>8, <3>3, Numbers
    <3> QED
      BY <2>8, <3>4 DEF KeyOf, k, m
  <2> QED
    BY <2>7, <2>8
<1> QED
  BY <1>1, CacheInvariance, PTL DEF OidcSpec, PublishedKeyAccepted
=============================================================================

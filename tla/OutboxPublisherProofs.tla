----------------------- MODULE OutboxPublisherProofs -----------------------
(***************************************************************************)
(* Safety of the outbox for any number of events and publishers, batches   *)
(* of any size and any number of failures.                                 *)
(***************************************************************************)
EXTENDS OutboxPublisher, FiniteSetTheorems, TLAPS

-----------------------------------------------------------------------------
(***************************************************************************)
(* Schedules: sequences in which no event occurs twice.                    *)
(***************************************************************************)

Distinct(s) == \A i, j \in DOMAIN s : s[i] = s[j] => i = j

\* wherever e is in s, d is before it
Before(s, d, e) == \A i \in DOMAIN s : s[i] = e => \E j \in DOMAIN s : j < i /\ s[j] = d

LEMMA RangeOf ==
  ASSUME NEW s
  PROVE  \A x : x \in Range(s) <=> \E i \in DOMAIN s : s[i] = x
  BY DEF Range

\* A part of a sequence, and two sequences one after the other.
LEMMA Part ==
  ASSUME NEW S, NEW s \in Seq(S), NEW a \in 1..(Len(s) + 1), NEW b \in 0..Len(s), a <= b + 1
  PROVE  LET t == SubSeq(s, a, b) IN
         /\ t \in Seq(S) /\ Len(t) = (b - a) + 1
         /\ \A i \in 1..((b - a) + 1) : t[i] = s[(a + i) - 1]
<1>1. \A i \in a..b : s[i] \in S
  OBVIOUS
<1> QED
  BY <1>1

LEMMA Joined ==
  ASSUME NEW S, NEW s \in Seq(S), NEW t \in Seq(S)
  PROVE  /\ s \o t \in Seq(S) /\ Len(s \o t) = Len(s) + Len(t)
         /\ \A i \in 1..(Len(s) + Len(t)) :
              (s \o t)[i] = IF i <= Len(s) THEN s[i] ELSE t[i - Len(s)]
  OBVIOUS

LEMMA Appended ==
  ASSUME NEW S, NEW s \in Seq(S), NEW e \in S
  PROVE  LET t == Append(s, e) IN
         /\ t \in Seq(S)
         /\ \A x : x \in Range(t) <=> x \in Range(s) \/ x = e
         /\ Distinct(s) /\ e \notin Range(s) => Distinct(t)
         /\ \A d, x : Before(s, d, x) /\ (x = e => d \in Range(s)) => Before(t, d, x)
<1> DEFINE t == Append(s, e)
           n == Len(s)
<1>1. /\ t \in Seq(S) /\ n \in Nat /\ Len(t) = n + 1 /\ DOMAIN s = 1..n /\ DOMAIN t = 1..(n + 1)
      /\ t[n + 1] = e /\ \A i \in 1..n : t[i] = s[i]
  OBVIOUS
<1> HIDE DEF t, n
<1>2. \A x : x \in Range(t) <=> x \in Range(s) \/ x = e
  <2>1. \A i \in 1..(n + 1) : i \in 1..n \/ i = n + 1
    BY <1>1
  <2>2. \A i \in 1..n : i \in 1..(n + 1)
    BY <1>1
  <2>3. n + 1 \in 1..(n + 1)
    BY <1>1
  <2> QED
    BY <1>1, <2>1, <2>2, <2>3, RangeOf
<1>3. Distinct(s) /\ e \notin Range(s) => Distinct(t)
  BY <1>1, RangeOf DEF Distinct
<1>4. ASSUME NEW d, NEW x, Before(s, d, x), x = e => d \in Range(s)
      PROVE  Before(t, d, x)
  <2> SUFFICES ASSUME NEW i \in 1..(n + 1), t[i] = x
               PROVE  \E j \in 1..(n + 1) : j < i /\ t[j] = d
    BY <1>1 DEF Before
  <2>1. CASE i = n + 1
    <3>1. PICK j \in 1..n : s[j] = d
      BY <1>1, <1>4, <2>1, RangeOf
    <3> QED
      BY <1>1, <2>1, <3>1
  <2>2. CASE i # n + 1
    <3>1. i \in 1..n /\ s[i] = x
      BY <1>1, <2>2
    <3>2. PICK j \in 1..n : j < i /\ s[j] = d
      BY <1>1, <1>4, <3>1 DEF Before
    <3> QED
      BY <1>1, <3>2
  <2> QED
    BY <2>1, <2>2
<1> QED
  BY <1>1, <1>2, <1>3, <1>4 DEF t

\* Without takes an event out and keeps the order of the others.
LEMMA Removed ==
  ASSUME NEW S, NEW s \in Seq(S), Distinct(s), NEW e
  PROVE  LET t == Without(s, e) IN
         /\ t \in Seq(S) /\ Distinct(t)
         /\ \A x : x \in Range(t) <=> x \in Range(s) /\ x # e
         /\ \A d, x : Before(s, d, x) /\ d # e => Before(t, d, x)
<1> DEFINE t == Without(s, e)
           n == Len(s)
<1>1. n \in Nat /\ DOMAIN s = 1..n /\ \A i \in 1..n : s[i] \in S
  OBVIOUS
<1>2. CASE e \notin Range(s)
  <2>1. t = s
    BY <1>2 DEF Without
  <2> HIDE DEF t
  <2> QED
    BY <1>2, <2>1 DEF t
<1>3. CASE e \in Range(s)
  <2> DEFINE k == CHOOSE i \in DOMAIN s : s[i] = e
  <2>1. k \in 1..n /\ s[k] = e
    BY <1>1, <1>3, RangeOf
  <2>2. t = SubSeq(s, 1, k - 1) \o SubSeq(s, k + 1, Len(s))
    BY <1>3 DEF Without, RemoveAt
  <2> HIDE DEF k, t
  <2>3. /\ t \in Seq(S) /\ Len(t) = n - 1
        /\ \A i \in 1..(n - 1) : t[i] = IF i < k THEN s[i] ELSE s[i + 1]
    <3> DEFINE u == SubSeq(s, 1, k - 1)
               v == SubSeq(s, k + 1, n)
    <3>1. u \in Seq(S) /\ Len(u) = k - 1 /\ \A i \in 1..(k - 1) : u[i] = s[i]
      <4>1. /\ 1 \in 1..(Len(s) + 1) /\ k - 1 \in 0..Len(s) /\ 1 <= (k - 1) + 1
            /\ ((k - 1) - 1) + 1 = k - 1
        BY <1>1, <2>1
      <4>2. \A i \in 1..(k - 1) : (1 + i) - 1 = i
        BY <1>1, <2>1
      <4> QED
        BY <4>1, <4>2, Part
    <3>2. v \in Seq(S) /\ Len(v) = n - k /\ \A i \in 1..(n - k) : v[i] = s[k + i]
      <4>1. /\ k + 1 \in 1..(Len(s) + 1) /\ n \in 0..Len(s) /\ k + 1 <= n + 1
            /\ (n - (k + 1)) + 1 = n - k
        BY <1>1, <2>1
      <4>2. \A i \in 1..(n - k) : ((k + 1) + i) - 1 = k + i
        BY <1>1, <2>1
      <4> QED
        BY <4>1, <4>2, Part
    <3>3. t = u \o v
      BY <2>2
    <3> HIDE DEF u, v, n
    <3>4. /\ t \in Seq(S) /\ Len(t) = (k - 1) + (n - k)
          /\ \A i \in 1..((k - 1) + (n - k)) : t[i] = IF i <= k - 1 THEN u[i] ELSE v[i - (k - 1)]
      BY <3>1, <3>2, <3>3, Joined
    <3>5. (k - 1) + (n - k) = n - 1
      BY <1>1, <2>1
    <3>6. ASSUME NEW i \in 1..(n - 1) PROVE t[i] = IF i < k THEN s[i] ELSE s[i + 1]
      <4>1. CASE i < k
        <5>1. i \in 1..(k - 1) /\ i <= k - 1
          BY <1>1, <2>1, <4>1
        <5> QED
          BY <3>1, <3>4, <3>5, <4>1, <5>1
      <4>2. CASE ~(i < k)
        <5>1. i - (k - 1) \in 1..(n - k) /\ ~(i <= k - 1) /\ k + (i - (k - 1)) = i + 1
          BY <1>1, <2>1, <4>2
        <5> QED
          BY <3>2, <3>4, <3>5, <4>2, <5>1
      <4> QED
        BY <4>1, <4>2
    <3> QED
      BY <3>4, <3>5, <3>6
  <2>4. DOMAIN t = 1..(n - 1)
    BY <2>3
  <2> HIDE DEF n
  <2>5. \A i \in 1..(n - 1) : i \in 1..n /\ i + 1 \in 1..n
    BY <1>1
  <2>6. \A i \in 1..n : i # k =>
          \E j \in 1..(n - 1) : t[j] = s[i] /\ ((i < k /\ j = i) \/ (i > k /\ j = i - 1))
    <3> SUFFICES ASSUME NEW i \in 1..n, i # k
                 PROVE  \E j \in 1..(n - 1) : t[j] = s[i] /\ ((i < k /\ j = i) \/ (i > k /\ j = i - 1))
      OBVIOUS
    <3>1. CASE i < k
      <4>1. i \in 1..(n - 1) /\ t[i] = s[i]
        BY <1>1, <2>1, <2>3, <3>1
      <4> QED
        BY <3>1, <4>1
    <3>2. CASE i > k
      <4>1. i - 1 \in 1..(n - 1) /\ ~(i - 1 < k) /\ (i - 1) + 1 = i
        BY <1>1, <2>1, <3>2
      <4>2. t[i - 1] = s[i]
        BY <2>3, <4>1
      <4> QED
        BY <3>2, <4>1, <4>2
    <3> QED
      BY <1>1, <2>1, <3>1, <3>2
  <2>7. \A j \in 1..(n - 1) : \E i \in 1..n : t[j] = s[i] /\ i # k /\ (i = j \/ i = j + 1) /\ (i = j + 1 => j >= k)
                                              /\ (i = j => j < k)
    BY <1>1, <2>1, <2>3, <2>5
  <2>8. \A x : x \in Range(t) <=> x \in Range(s) /\ x # e
    <3>1. \A i \in 1..n : s[i] = e <=> i = k
      BY <1>1, <2>1 DEF Distinct
    <3>2. \A x : x \in Range(s) <=> \E i \in 1..n : s[i] = x
      BY <1>1, RangeOf
    <3>3. \A x : x \in Range(t) <=> \E i \in 1..(n - 1) : t[i] = x
      BY <2>4, RangeOf
    <3>4. ASSUME NEW x \in Range(t) PROVE x \in Range(s) /\ x # e
      BY <2>7, <3>1, <3>2, <3>3
    <3>5. ASSUME NEW x \in Range(s), x # e PROVE x \in Range(t)
      BY <2>6, <3>1, <3>2, <3>3, <3>5
    <3> QED
      BY <3>4, <3>5
  <2>9. Distinct(t)
    <3> SUFFICES ASSUME NEW a \in 1..(n - 1), NEW b \in 1..(n - 1), t[a] = t[b] PROVE a = b
      BY <2>4 DEF Distinct
    <3>1. \A i, j \in 1..n : s[i] = s[j] => i = j
      BY <1>1 DEF Distinct
    <3> QED
      BY <1>1, <2>1, <2>3, <2>5, <3>1
  <2>10. ASSUME NEW d, NEW x, Before(s, d, x), d # e
         PROVE  Before(t, d, x)
    <3> SUFFICES ASSUME NEW b \in 1..(n - 1), t[b] = x
                 PROVE  \E a \in 1..(n - 1) : a < b /\ t[a] = d
      BY <2>4 DEF Before
    <3>1. PICK i \in 1..n : x = s[i] /\ i # k /\ (i = b \/ i = b + 1) /\ (i = b + 1 => b >= k)
                            /\ (i = b => b < k)
      BY <2>7
    <3>2. PICK j \in 1..n : j < i /\ s[j] = d
      BY <1>1, <2>10, <3>1 DEF Before
    <3>3. j # k
      BY <2>1, <2>10, <3>2
    <3>4. PICK a \in 1..(n - 1) : t[a] = d /\ ((j < k /\ a = j) \/ (j > k /\ a = j - 1))
      BY <2>6, <3>2, <3>3
    <3>5. a < b
      BY <1>1, <2>1, <3>1, <3>2, <3>4
    <3> QED
      BY <3>4, <3>5
  <2> QED
    BY <2>3, <2>8, <2>9, <2>10 DEF t
<1> QED
  BY <1>2, <1>3

\* InsertAt puts an event anywhere.
LEMMA Inserted ==
  ASSUME NEW S, NEW s \in Seq(S), NEW e \in S, NEW k \in 1..(Len(s) + 1)
  PROVE  LET t == InsertAt(s, k, e) IN
         /\ t \in Seq(S)
         /\ \A x : x \in Range(t) <=> x \in Range(s) \/ x = e
         /\ Distinct(s) /\ e \notin Range(s) => Distinct(t)
<1> DEFINE t == InsertAt(s, k, e)
           n == Len(s)
<1>1. n \in Nat /\ DOMAIN s = 1..n /\ \A i \in 1..n : s[i] \in S
  OBVIOUS
<1>2. t = SubSeq(s, 1, k - 1) \o <<e>> \o SubSeq(s, k, Len(s))
  BY DEF InsertAt
<1> HIDE DEF t
<1>3. /\ t \in Seq(S) /\ Len(t) = n + 1
      /\ \A i \in 1..(n + 1) : t[i] = IF i < k THEN s[i] ELSE IF i = k THEN e ELSE s[i - 1]
  <2> DEFINE u == SubSeq(s, 1, k - 1)
             v == SubSeq(s, k, n)
             m == u \o <<e>>
  <2>0. k \in Nat /\ 1 <= k /\ k <= n + 1
    BY <1>1
  <2>1. u \in Seq(S) /\ Len(u) = k - 1 /\ \A i \in 1..(k - 1) : u[i] = s[i]
    <3>1. /\ 1 \in 1..(Len(s) + 1) /\ k - 1 \in 0..Len(s) /\ 1 <= (k - 1) + 1
          /\ ((k - 1) - 1) + 1 = k - 1
      BY <1>1, <2>0
    <3>2. \A i \in 1..(k - 1) : (1 + i) - 1 = i
      BY <1>1, <2>0
    <3> QED
      BY <3>1, <3>2, Part
  <2>2. v \in Seq(S) /\ Len(v) = (n - k) + 1 /\ \A i \in 1..((n - k) + 1) : v[i] = s[(k + i) - 1]
    <3>1. k \in 1..(Len(s) + 1) /\ n \in 0..Len(s) /\ k <= n + 1
      BY <1>1, <2>0
    <3> QED
      BY <3>1, Part
  <2>3. t = m \o v
    BY <1>2
  <2>4. <<e>> \in Seq(S) /\ Len(<<e>>) = 1 /\ <<e>>[1] = e
    OBVIOUS
  <2> HIDE DEF u, v, n
  <2>5. m \in Seq(S) /\ Len(m) = k /\ m[k] = e /\ \A i \in 1..(k - 1) : m[i] = s[i]
    <3>1. /\ m \in Seq(S) /\ Len(m) = (k - 1) + 1
          /\ \A i \in 1..((k - 1) + 1) : m[i] = IF i <= k - 1 THEN u[i] ELSE <<e>>[i - (k - 1)]
      BY <2>1, <2>4, Joined
    <3>2. (k - 1) + 1 = k /\ k - (k - 1) = 1 /\ ~(k <= k - 1) /\ k \in 1..((k - 1) + 1)
      BY <2>0
    <3>3. \A i \in 1..(k - 1) : i \in 1..((k - 1) + 1) /\ i <= k - 1
      BY <2>0
    <3> QED
      BY <2>1, <2>4, <3>1, <3>2, <3>3
  <2> HIDE DEF m
  <2>6. /\ t \in Seq(S) /\ Len(t) = k + ((n - k) + 1)
        /\ \A i \in 1..(k + ((n - k) + 1)) : t[i] = IF i <= k THEN m[i] ELSE v[i - k]
    <3>1. /\ m \o v \in Seq(S) /\ Len(m \o v) = Len(m) + Len(v)
          /\ \A i \in 1..(Len(m) + Len(v)) : (m \o v)[i] = IF i <= Len(m) THEN m[i] ELSE v[i - Len(m)]
      BY <2>2, <2>5, Joined
    <3>2. Len(m) = k /\ Len(v) = (n - k) + 1
      BY <2>2, <2>5
    <3> QED
      BY <2>3, <3>1, <3>2
  <2>7. k + ((n - k) + 1) = n + 1
    BY <1>1, <2>0
  <2>8. ASSUME NEW i \in 1..(n + 1)
        PROVE  t[i] = IF i < k THEN s[i] ELSE IF i = k THEN e ELSE s[i - 1]
    <3>1. CASE i < k
      <4>1. i \in 1..(k - 1) /\ i <= k
        BY <2>0, <3>1
      <4> QED
        BY <2>5, <2>6, <2>7, <3>1, <4>1
    <3>2. CASE i = k
      BY <2>0, <2>5, <2>6, <2>7, <3>2
    <3>3. CASE i > k
      <4>1. i - k \in 1..((n - k) + 1) /\ ~(i <= k) /\ ~(i < k) /\ i # k /\ (k + (i - k)) - 1 = i - 1
        BY <1>1, <2>0, <3>3
      <4> QED
        BY <2>2, <2>6, <2>7, <3>3, <4>1
    <3> QED
      BY <1>1, <2>0, <3>1, <3>2, <3>3
  <2> QED
    BY <2>6, <2>7, <2>8
<1>4. DOMAIN t = 1..(n + 1) /\ k \in 1..(n + 1)
  BY <1>3
<1> HIDE DEF n
<1>5. \A i \in 1..n : \E j \in 1..(n + 1) : t[j] = s[i]
  <2> SUFFICES ASSUME NEW i \in 1..n PROVE \E j \in 1..(n + 1) : t[j] = s[i]
    OBVIOUS
  <2>1. CASE i < k
    BY <1>1, <1>3, <2>1
  <2>2. CASE ~(i < k)
    <3>1. i + 1 \in 1..(n + 1) /\ ~(i + 1 < k) /\ i + 1 # k /\ (i + 1) - 1 = i
      BY <1>1, <1>4, <2>2
    <3> QED
      BY <1>3, <3>1
  <2> QED
    BY <2>1, <2>2
<1>6. \A j \in 1..(n + 1) : j # k => \E i \in 1..n : t[j] = s[i]
  BY <1>1, <1>3, <1>4
<1>7. t[k] = e
  BY <1>3, <1>4
<1>8. \A x : x \in Range(t) <=> x \in Range(s) \/ x = e
  BY <1>1, <1>4, <1>5, <1>6, <1>7, RangeOf
<1>9. ASSUME Distinct(s), e \notin Range(s)
      PROVE  Distinct(t)
  <2> SUFFICES ASSUME NEW a \in 1..(n + 1), NEW b \in 1..(n + 1), t[a] = t[b] PROVE a = b
    BY <1>4 DEF Distinct
  <2>1. \A i, j \in 1..n : s[i] = s[j] => i = j
    BY <1>1, <1>9 DEF Distinct
  <2>2. \A i \in 1..n : s[i] # e
    BY <1>1, <1>9, RangeOf
  <2> QED
    <3>1. \A i \in 1..(n + 1) : i # k => t[i] # e
      BY <1>6, <2>2
    <3>2. CASE a = k \/ b = k
      BY <1>7, <3>1, <3>2
    <3>3. CASE a # k /\ b # k
      <4> DEFINE At(i) == IF i < k THEN i ELSE i - 1
      <4>1. \A i \in 1..(n + 1) : i # k => t[i] = s[At(i)] /\ At(i) \in 1..n
        BY <1>1, <1>3, <1>4
      <4>2. At(a) = At(b)
        BY <2>1, <3>3, <4>1
      <4> QED
        BY <1>1, <3>3, <4>2
    <3> QED
      BY <3>2, <3>3
<1> QED
  BY <1>3, <1>8, <1>9 DEF t

-----------------------------------------------------------------------------
(***************************************************************************)
(* The inductive invariant.                                                *)
(***************************************************************************)

BatchRow == [event : Events, attempts : Nat]

\* Committed events are scheduled, each once.  An event is scheduled behind the
\* one it builds on, as long as that one has not failed; only failed events wait.
ScheduleInv ==
  /\ Distinct(due) /\ Distinct(later)
  /\ Range(committed) \subseteq Range(due) \cup Range(later)
  /\ \A d, e \in Events :
       Precedes(d, e) /\ e \in Range(due) \cup Range(later) => d \in Range(committed)
  /\ Range(later) \subseteq failed
  /\ \A d, e \in Events : Precedes(d, e) /\ d \notin failed => Before(due, d, e)
  /\ \A e \in Events : attempts[e] > 0 => e \in failed

\* a message with the deduplication id of e is in q
Sent(e, q) == \E x \in Range(q) : DeduplicationId(x) = DeduplicationId(e)

\* What the queue remembers it holds, and as long as nothing has expired it
\* remembers all it holds.
QueueInv ==
  /\ expiries \in Nat
  /\ \A id \in remembered : \E x \in Range(queue) : DeduplicationId(x) = id
  /\ expiries = 0 => \A x \in Range(queue) : DeduplicationId(x) \in remembered
  /\ expiries = 0 => Distinct(queue)

\* A batch b at step s holds committed events.  Before an event of it comes the one
\* it builds on, or that one is in the queue, has failed or was skipped.
BatchOK(b, s, C, q, F, G) ==
  /\ \A k \in DOMAIN b : b[k].event \in C /\ (b[k].attempts > 0 => b[k].event \in F)
  /\ b # <<>> /\ s = "mark" => Sent(b[1].event, q)
  /\ b # <<>> /\ s = "increment" => b[1].event \in F
  /\ \A k \in DOMAIN b : \A d \in Events :
       Precedes(d, b[k].event) /\ d \notin F \cup G
       => d \in Range(q) \/ \E l \in DOMAIN b : l < k /\ b[l].event = d

BatchInv ==
  \A p \in Publishers : BatchOK(batch[p], step[p], Range(committed), queue, failed, skipped)

AllSent == \A e \in published : Sent(e, queue)

InOrder ==
  \A d, e \in Events : Precedes(d, e) /\ d \notin failed \cup skipped => Before(queue, d, e)

OutboxInv == OutboxTypeOK /\ ScheduleInv /\ QueueInv /\ BatchInv /\ AllSent /\ InOrder

\* what no step takes back
OutboxGrows ==
  /\ Range(committed) \subseteq Range(committed)'
  /\ Range(queue) \subseteq Range(queue)'
  /\ failed \subseteq failed' /\ skipped \subseteq skipped'

-----------------------------------------------------------------------------
(***************************************************************************)
(* Lemmas about batches and the queue.                                     *)
(***************************************************************************)

\* An event others build on is in the queue when its deduplication id is.
LEMMA SentItself ==
  ASSUME NEW q \in Seq(Events), NEW d \in Events, NEW e \in Events, Precedes(d, e), Sent(d, q)
  PROVE  d \in Range(q)
<1>1. PICK x \in Range(q) : DeduplicationId(x) = DeduplicationId(d)
  BY DEF Sent
<1>2. x \in Events
  BY <1>1, RangeOf
<1> QED
  BY <1>1, <1>2, SuccessionAssumption

LEMMA BatchMonotonic ==
  ASSUME NEW b, NEW s, NEW C, NEW q, NEW F, NEW G, NEW C2, NEW q2, NEW F2, NEW G2,
         BatchOK(b, s, C, q, F, G),
         C \subseteq C2, Range(q) \subseteq Range(q2), F \subseteq F2, G \subseteq G2
  PROVE  BatchOK(b, s, C2, q2, F2, G2)
<1>1. \A k \in DOMAIN b : b[k].event \in C2 /\ (b[k].attempts > 0 => b[k].event \in F2)
  BY DEF BatchOK
<1>2. b # <<>> /\ s = "mark" => Sent(b[1].event, q2)
  BY DEF BatchOK, Sent
<1>3. b # <<>> /\ s = "increment" => b[1].event \in F2
  BY DEF BatchOK
<1>4. ASSUME NEW k \in DOMAIN b, NEW d \in Events, Precedes(d, b[k].event), d \notin F2 \cup G2
      PROVE  d \in Range(q2) \/ \E l \in DOMAIN b : l < k /\ b[l].event = d
  BY <1>4 DEF BatchOK
<1> QED
  BY <1>1, <1>2, <1>3, <1>4 DEF BatchOK

\* The empty batch, and a batch at a step that says nothing of its head.
LEMMA EmptyBatch ==
  ASSUME NEW s, NEW C, NEW q, NEW F, NEW G
  PROVE  BatchOK(<<>>, s, C, q, F, G)
  BY DEF BatchOK

LEMMA BatchAtSend ==
  ASSUME NEW b, NEW s, NEW t \in {"select", "send"}, NEW C, NEW q, NEW F, NEW G,
         BatchOK(b, s, C, q, F, G)
  PROVE  BatchOK(b, t, C, q, F, G)
  BY DEF BatchOK

\* A prefix of a batch.
LEMMA BatchPrefix ==
  ASSUME NEW b \in Seq(BatchRow), NEW s, NEW n \in 0..Len(b), NEW C, NEW q, NEW F, NEW G,
         BatchOK(b, s, C, q, F, G)
  PROVE  SubSeq(b, 1, n) \in Seq(BatchRow) /\ BatchOK(SubSeq(b, 1, n), "send", C, q, F, G)
<1> DEFINE t == SubSeq(b, 1, n)
<1>1. Len(b) \in Nat /\ n \in Nat /\ n <= Len(b) /\ DOMAIN b = 1..Len(b)
  OBVIOUS
<1>2. t \in Seq(BatchRow) /\ DOMAIN t = 1..n /\ \A i \in 1..n : t[i] = b[i]
  <2>1. 1 \in 1..(Len(b) + 1) /\ 1 <= n + 1 /\ (n - 1) + 1 = n /\ \A i \in 1..n : (1 + i) - 1 = i
    BY <1>1
  <2>2. t \in Seq(BatchRow) /\ Len(t) = n /\ \A i \in 1..n : t[i] = b[i]
    BY <2>1, Part
  <2> QED
    BY <2>2
<1> HIDE DEF t
<1>3. \A k \in 1..n : k \in DOMAIN b
  BY <1>1
<1>4. ASSUME NEW k \in 1..n, NEW d \in Events, Precedes(d, t[k].event), d \notin F \cup G
      PROVE  d \in Range(q) \/ \E l \in 1..n : l < k /\ t[l].event = d
  <2>1. d \in Range(q) \/ \E l \in DOMAIN b : l < k /\ b[l].event = d
    BY <1>2, <1>3, <1>4 DEF BatchOK
  <2>2. ASSUME NEW l \in DOMAIN b, l < k, b[l].event = d
        PROVE  l \in 1..n /\ t[l].event = d
    BY <1>1, <1>2, <2>2
  <2> QED
    BY <2>1, <2>2
<1>5. BatchOK(t, "send", C, q, F, G)
  BY <1>2, <1>3, <1>4 DEF BatchOK
<1> QED
  BY <1>2, <1>5 DEF t

\* The rest of a batch, when its head was sent or has failed.
LEMMA BatchTail ==
  ASSUME NEW b \in Seq(BatchRow), b # <<>>, NEW s, NEW C, NEW q \in Seq(Events), NEW F, NEW G,
         BatchOK(b, s, C, q, F, G), C \subseteq Events,
         b[1].event \in F \/ Sent(b[1].event, q)
  PROVE  Tail(b) \in Seq(BatchRow) /\ BatchOK(Tail(b), "send", C, q, F, G)
<1> DEFINE t == Tail(b)
           n == Len(b)
<1>1. n \in Nat /\ n >= 1 /\ DOMAIN b = 1..n
  OBVIOUS
<1>2. t \in Seq(BatchRow) /\ DOMAIN t = 1..(n - 1) /\ \A i \in 1..(n - 1) : t[i] = b[i + 1]
  OBVIOUS
<1> HIDE DEF t, n
<1>3. \A k \in 1..(n - 1) : k + 1 \in DOMAIN b
  BY <1>1
<1>4. ASSUME NEW k \in 1..(n - 1), NEW d \in Events, Precedes(d, t[k].event), d \notin F \cup G
      PROVE  d \in Range(q) \/ \E l \in 1..(n - 1) : l < k /\ t[l].event = d
  <2>1. t[k] = b[k + 1] /\ k + 1 \in DOMAIN b
    BY <1>2, <1>3
  <2>2. t[k].event \in Events
    BY <2>1 DEF BatchOK
  <2>3. d \in Range(q) \/ \E l \in DOMAIN b : l < k + 1 /\ b[l].event = d
    BY <1>4, <2>1 DEF BatchOK
  <2>4. ASSUME NEW l \in DOMAIN b, l < k + 1, b[l].event = d
        PROVE  d \in Range(q) \/ \E j \in 1..(n - 1) : j < k /\ t[j].event = d
    <3>1. CASE l = 1
      <4>1. Sent(d, q)
        BY <1>4, <2>4, <3>1
      <4> QED
        BY <1>4, <2>2, <4>1, SentItself
    <3>2. CASE l # 1
      <4>1. l - 1 \in 1..(n - 1) /\ l - 1 < k /\ (l - 1) + 1 = l
        BY <1>1, <2>4, <3>2
      <4>2. t[l - 1] = b[l]
        BY <1>2, <4>1
      <4> QED
        BY <2>4, <4>1, <4>2
    <3> QED
      BY <3>1, <3>2
  <2> QED
    BY <2>3, <2>4
<1>5. \A k \in 1..(n - 1) : t[k].event \in C /\ (t[k].attempts > 0 => t[k].event \in F)
  BY <1>2, <1>3 DEF BatchOK
<1>6. BatchOK(t, "send", C, q, F, G)
  BY <1>2, <1>4, <1>5 DEF BatchOK
<1> QED
  BY <1>2, <1>6 DEF t

\* A step of one publisher, while the rest grows.
LEMMA PublisherMoves ==
  ASSUME OutboxInv, OutboxGrows, NEW p \in Publishers, NEW b \in Seq(BatchRow),
         NEW s \in {"select", "send", "mark", "increment"},
         batch' = [batch EXCEPT ![p] = b], step' = [step EXCEPT ![p] = s],
         BatchOK(b, s, Range(committed'), queue', failed', skipped')
  PROVE  /\ BatchInv'
         /\ batch' \in [Publishers -> Seq(BatchRow)]
         /\ step' \in [Publishers -> {"select", "send", "mark", "increment"}]
<1>1. /\ batch \in [Publishers -> Seq(BatchRow)]
      /\ step \in [Publishers -> {"select", "send", "mark", "increment"}]
  BY DEF OutboxInv, OutboxTypeOK, BatchRow
<1>2. batch'[p] = b /\ step'[p] = s /\ \A r \in Publishers : r # p => batch'[r] = batch[r] /\ step'[r] = step[r]
  BY <1>1
<1>3. /\ Range(committed) \subseteq Range(committed') /\ Range(queue) \subseteq Range(queue')
      /\ failed \subseteq failed' /\ skipped \subseteq skipped'
  BY DEF OutboxGrows, Range
<1>4. \A r \in Publishers :
        BatchOK(batch[r], step[r], Range(committed'), queue', failed', skipped')
  BY <1>3, BatchMonotonic DEF OutboxInv, BatchInv
<1>5. \A r \in Publishers :
        BatchOK(batch'[r], step'[r], Range(committed'), queue', failed', skipped')
  BY <1>2, <1>4
<1>6. BatchInv'
  BY <1>5 DEF BatchInv, Range
<1> QED
  BY <1>1, <1>6

-----------------------------------------------------------------------------
(***************************************************************************)
(* One lemma per action.                                                   *)
(***************************************************************************)

\* Parts of the invariant that a step leaves alone.
LEMMA ScheduleKept ==
  ASSUME ScheduleInv, failed \subseteq failed', UNCHANGED <<committed, due, later, attempts>>
  PROVE  ScheduleInv'
<1>1. Range(committed)' = Range(committed) /\ Range(due)' = Range(due) /\ Range(later)' = Range(later)
  BY DEF Range
<1> QED
  BY <1>1 DEF ScheduleInv

LEMMA QueueKept ==
  ASSUME QueueInv, UNCHANGED <<queue, remembered, expiries>>
  PROVE  QueueInv' /\ Range(queue') = Range(queue)
<1>1. Range(queue)' = Range(queue) /\ Range(queue') = Range(queue)
  BY DEF Range
<1> QED
  BY <1>1 DEF QueueInv

\* The queue takes, or drops as known, an event whose predecessor it has.
LEMMA AcceptInv ==
  ASSUME OutboxInv, NEW e \in Events, Accept(e), failed \subseteq failed', skipped \subseteq skipped',
         \A d \in Events : Precedes(d, e) /\ d \notin failed \cup skipped => d \in Range(queue),
         UNCHANGED published
  PROVE  /\ queue' \in Seq(Events)
         /\ remembered' \subseteq {DeduplicationId(x) : x \in Events}
         /\ Range(queue) \subseteq Range(queue')
         /\ QueueInv' /\ AllSent' /\ InOrder' /\ Sent(e, queue')
<1> DEFINE i == DeduplicationId(e)
<1>1. queue \in Seq(Events) /\ remembered \subseteq {DeduplicationId(x) : x \in Events}
  BY DEF OutboxInv, OutboxTypeOK
<1>2. /\ queue' = IF i \in remembered THEN queue ELSE Append(queue, e)
      /\ remembered' = remembered \cup {i} /\ expiries' = expiries
  BY DEF Accept
<1>3. /\ expiries \in Nat
      /\ \A id \in remembered : \E x \in Range(queue) : DeduplicationId(x) = id
      /\ expiries = 0 => \A x \in Range(queue) : DeduplicationId(x) \in remembered
      /\ expiries = 0 => Distinct(queue)
  BY DEF OutboxInv, QueueInv
<1>4. /\ queue' \in Seq(Events)
      /\ \A x : x \in Range(queue') <=> x \in Range(queue) \/ (i \notin remembered /\ x = e)
      /\ expiries = 0 => Distinct(queue')
      /\ \A d, x : Before(queue, d, x) /\ (x = e => d \in Range(queue)) => Before(queue', d, x)
  <2>1. CASE i \in remembered
    <3>1. queue' = queue
      BY <1>2, <2>1
    <3> QED
      BY <1>1, <1>3, <2>1, <3>1
  <2>2. CASE i \notin remembered
    <3>1. queue' = Append(queue, e)
      BY <1>2, <2>2
    <3>2. expiries = 0 => e \notin Range(queue)
      BY <1>3, <2>2
    <3> QED
      BY <1>1, <1>3, <2>2, <3>1, <3>2, Appended
  <2> QED
    BY <2>1, <2>2
<1>5. \E x \in Range(queue') : DeduplicationId(x) = i
  <2>1. CASE i \in remembered
    BY <1>3, <1>4, <2>1
  <2>2. CASE i \notin remembered
    BY <1>4, <2>2
  <2> QED
    BY <2>1, <2>2
<1>6. remembered' \subseteq {DeduplicationId(x) : x \in Events}
  BY <1>1, <1>2
<1> DEFINE R == Range(queue')
<1>7. Range(queue)' = R
  BY DEF Range
<1>8. QueueInv'
  <2>1. \A id \in remembered' : \E x \in R : DeduplicationId(x) = id
    BY <1>2, <1>3, <1>4, <1>5
  <2>2. expiries = 0 => \A x \in R : DeduplicationId(x) \in remembered'
    BY <1>2, <1>3, <1>4
  <2> HIDE DEF R, i
  <2> QED
    BY <1>2, <1>3, <1>4, <1>7, <2>1, <2>2 DEF QueueInv
<1>9. AllSent'
  <2>1. \A x \in published : Sent(x, queue)
    BY DEF OutboxInv, AllSent
  <2>2. \A x \in published : Sent(x, queue')
    BY <1>4, <2>1 DEF Sent
  <2> QED
    BY <2>2 DEF AllSent
<1>10. InOrder'
  <2> SUFFICES ASSUME NEW d \in Events, NEW x \in Events, Precedes(d, x), d \notin failed' \cup skipped'
               PROVE  Before(queue', d, x)
    BY DEF InOrder
  <2>1. d \notin failed \cup skipped
    OBVIOUS
  <2>2. Before(queue, d, x)
    BY <2>1 DEF OutboxInv, InOrder
  <2> QED
    BY <1>4, <2>1, <2>2
<1>11. Sent(e, queue')
  BY <1>5 DEF Sent
<1>12. Range(queue) \subseteq Range(queue')
  BY <1>4
<1> HIDE DEF i, R
<1> QED
  BY <1>4, <1>6, <1>8, <1>9, <1>10, <1>11, <1>12

LEMMA BeginInv ==
  ASSUME OutboxInv, NEW e \in Events, Begin(e)
  PROVE  OutboxInv'
<1>1. /\ e \notin Range(due) \cup Range(later)
      /\ \A d \in Events : Precedes(d, e) => d \in Range(committed)
      /\ due' = Append(due, e)
      /\ UNCHANGED <<committed, later, attempts, published, batch, step, queue, remembered, expiries,
                     failed, skipped>>
  BY DEF Begin, broker, history
<1>2. due \in Seq(Events)
  BY DEF OutboxInv, OutboxTypeOK
<1>3. /\ due' \in Seq(Events) /\ \A x : x \in Range(due') <=> x \in Range(due) \/ x = e
      /\ Distinct(due')
      /\ \A d, x : Before(due, d, x) /\ (x = e => d \in Range(due)) => Before(due', d, x)
  BY <1>1, <1>2, Appended DEF OutboxInv, ScheduleInv
<1>4. Range(due)' = Range(due') /\ Range(committed)' = Range(committed) /\ Range(later)' = Range(later)
  BY <1>1 DEF Range
<1>5. OutboxTypeOK'
  BY <1>1, <1>3, <1>4 DEF OutboxInv, OutboxTypeOK
<1>6. ScheduleInv'
  <2>1. \A d, x \in Events : Precedes(d, x) /\ d \notin failed => Before(due', d, x)
    <3> SUFFICES ASSUME NEW d \in Events, NEW x \in Events, Precedes(d, x), d \notin failed
                 PROVE  Before(due', d, x)
      OBVIOUS
    <3>1. Before(due, d, x)
      BY DEF OutboxInv, ScheduleInv
    <3>2. x = e => d \in Range(due)
      BY <1>1 DEF OutboxInv, ScheduleInv
    <3> QED
      BY <1>3, <3>1, <3>2
  <2>2. \A d, x \in Events :
          Precedes(d, x) /\ x \in Range(due') \cup Range(later) => d \in Range(committed)
    BY <1>1, <1>3 DEF OutboxInv, ScheduleInv
  <2>3. Range(committed) \subseteq Range(due') \cup Range(later)
    BY <1>3 DEF OutboxInv, ScheduleInv
  <2> QED
    BY <1>1, <1>3, <1>4, <2>1, <2>2, <2>3 DEF OutboxInv, ScheduleInv
<1>7. QueueInv'
  BY <1>1, QueueKept DEF OutboxInv
<1>8. BatchInv' /\ AllSent' /\ InOrder'
  BY <1>1, <1>4 DEF OutboxInv, BatchInv, AllSent, InOrder
<1> QED
  BY <1>5, <1>6, <1>7, <1>8 DEF OutboxInv

LEMMA CommitInv ==
  ASSUME OutboxInv, NEW e \in Events, Commit(e)
  PROVE  OutboxInv'
<1>1. /\ e \in Range(due) /\ committed' = Append(committed, e)
      /\ UNCHANGED <<due, later, attempts, published, batch, step, queue, remembered, expiries,
                     failed, skipped>>
  BY DEF Commit, broker, history
<1>2. committed \in Seq(Events)
  BY DEF OutboxInv, OutboxTypeOK
<1>3. /\ committed' \in Seq(Events)
      /\ \A x : x \in Range(committed') <=> x \in Range(committed) \/ x = e
  BY <1>1, <1>2, Appended
<1>4. Range(due)' = Range(due) /\ Range(committed)' = Range(committed') /\ Range(later)' = Range(later)
  BY <1>1 DEF Range
<1>5. OutboxTypeOK'
  BY <1>1, <1>3, <1>4 DEF OutboxInv, OutboxTypeOK
<1>6. ScheduleInv'
  <2>1. Range(committed') \subseteq Range(due) \cup Range(later)
    BY <1>1, <1>3 DEF OutboxInv, ScheduleInv
  <2>2. \A d, x \in Events :
          Precedes(d, x) /\ x \in Range(due) \cup Range(later) => d \in Range(committed')
    BY <1>3 DEF OutboxInv, ScheduleInv
  <2> QED
    BY <1>1, <1>4, <2>1, <2>2 DEF OutboxInv, ScheduleInv
<1>7. QueueInv'
  BY <1>1, QueueKept DEF OutboxInv
<1>8. BatchInv'
  <2>1. \A p \in Publishers : BatchOK(batch[p], step[p], Range(committed), queue, failed, skipped)
    BY DEF OutboxInv, BatchInv
  <2>2. Range(committed) \subseteq Range(committed')
    BY <1>3
  <2>3. \A p \in Publishers : BatchOK(batch[p], step[p], Range(committed'), queue, failed, skipped)
    BY <2>1, <2>2, BatchMonotonic
  <2> QED
    BY <1>1, <1>4, <2>3 DEF BatchInv
<1>9. AllSent' /\ InOrder'
  BY <1>1 DEF OutboxInv, AllSent, InOrder
<1> QED
  BY <1>5, <1>6, <1>7, <1>8, <1>9 DEF OutboxInv

\* A step of a publisher that touches neither the table nor the queue.
LEMMA BatchOnly ==
  ASSUME OutboxInv, NEW p \in Publishers, NEW b \in Seq(BatchRow),
         NEW s \in {"select", "send", "mark", "increment"},
         batch' = [batch EXCEPT ![p] = b], step' = [step EXCEPT ![p] = s],
         UNCHANGED <<table, broker>>, failed \subseteq failed', skipped \subseteq skipped',
         BatchOK(b, s, Range(committed), queue, failed', skipped')
  PROVE  OutboxInv'
<1>1. UNCHANGED <<committed, due, later, attempts, published, queue, remembered, expiries>>
  BY DEF table, broker
<1>2. /\ Range(committed)' = Range(committed) /\ Range(committed') = Range(committed)
      /\ Range(queue)' = Range(queue) /\ Range(queue') = Range(queue)
      /\ Range(due)' = Range(due) /\ Range(later)' = Range(later)
  BY <1>1 DEF Range
<1>3. OutboxGrows
  BY <1>2 DEF OutboxGrows
<1>4. BatchOK(b, s, Range(committed'), queue', failed', skipped')
  BY <1>1, <1>2
<1>5. /\ BatchInv' /\ batch' \in [Publishers -> Seq(BatchRow)]
      /\ step' \in [Publishers -> {"select", "send", "mark", "increment"}]
  BY <1>3, <1>4, PublisherMoves
<1>6. OutboxTypeOK'
  BY <1>1, <1>2, <1>5 DEF OutboxInv, OutboxTypeOK, BatchRow
<1>7. ScheduleInv'
  BY <1>1, ScheduleKept DEF OutboxInv
<1>8. QueueInv'
  BY <1>1, QueueKept DEF OutboxInv
<1>9. AllSent' /\ InOrder'
  BY <1>1 DEF OutboxInv, AllSent, InOrder
<1> QED
  BY <1>5, <1>6, <1>7, <1>8, <1>9 DEF OutboxInv

\* What a publisher knows of its batch.
LEMMA BatchOf ==
  ASSUME OutboxInv, NEW p \in Publishers
  PROVE  /\ batch[p] \in Seq(BatchRow)
         /\ BatchOK(batch[p], step[p], Range(committed), queue, failed, skipped)
         /\ Range(committed) \subseteq Events
         /\ batch[p] # <<>> => /\ Head(batch[p]) = batch[p][1] /\ batch[p][1] \in BatchRow
                               /\ Current(p) = batch[p][1].event /\ Current(p) \in Events
                               /\ 1 \in DOMAIN batch[p]
<1>1. batch[p] \in Seq(BatchRow) /\ committed \in Seq(Events)
  BY DEF OutboxInv, OutboxTypeOK, BatchRow
<1>2. BatchOK(batch[p], step[p], Range(committed), queue, failed, skipped)
  BY DEF OutboxInv, BatchInv
<1>3. Range(committed) \subseteq Events
  BY <1>1, RangeOf
<1>4. ASSUME batch[p] # <<>>
      PROVE  Head(batch[p]) = batch[p][1] /\ batch[p][1] \in BatchRow /\ 1 \in DOMAIN batch[p]
  BY <1>1, <1>4
<1>5. ASSUME batch[p] # <<>>
      PROVE  Current(p) = batch[p][1].event /\ Current(p) \in Events
  BY <1>4, <1>5 DEF Current, BatchRow
<1> QED
  BY <1>1, <1>2, <1>3, <1>4, <1>5

\* an event another builds on is in the queue or has failed while it is updated
LEMMA UpdatingDone ==
  ASSUME OutboxInv, NEW p \in Publishers, NEW d \in Updating(p)
  PROVE  d \in failed \/ Sent(d, queue)
<1>1. PICK q \in Publishers : /\ batch[q] # <<>> /\ step[q] \in {"mark", "increment"}
                              /\ d = Current(q)
  BY DEF Updating
<1>2. /\ BatchOK(batch[q], step[q], Range(committed), queue, failed, skipped)
      /\ Current(q) = batch[q][1].event
  BY <1>1, BatchOf
<1> QED
  BY <1>1, <1>2 DEF BatchOK

LEMMA PollInv ==
  ASSUME OutboxInv, NEW p \in Publishers, Poll(p)
  PROVE  OutboxInv'
<1>1. PICK U \in SUBSET Updating(p) : FindPending(p, Locked(p) \cup U)
  BY DEF Poll
<1> DEFINE hidden == Locked(p) \cup U
           B == Backlog(hidden)
           found == Cardinality(B)
           n == IF found < BatchLimit THEN found ELSE BatchLimit
<1>2. PICK f \in Oldest(B, n) :
        batch' = [batch EXCEPT ![p] =
          [k \in 1..n |-> [event |-> due[f[k]], attempts |-> attempts[due[f[k]]]]]]
  BY <1>1 DEF FindPending
<1> DEFINE b == [k \in 1..n |-> [event |-> due[f[k]], attempts |-> attempts[due[f[k]]]]]
<1>3. /\ step' = [step EXCEPT ![p] = "select"] /\ batch' = [batch EXCEPT ![p] = b]
      /\ skipped' = skipped \cup {e \in Locked(p) : Pending(e)}
      /\ UNCHANGED <<table, broker>> /\ failed' = failed
  BY <1>1, <1>2 DEF FindPending
<1>4. due \in Seq(Events) /\ DOMAIN due = 1..Len(due) /\ Len(due) \in Nat /\ attempts \in [Events -> Nat]
  BY DEF OutboxInv, OutboxTypeOK
<1>5. B \subseteq 1..Len(due) /\ \A i \in B : Pending(due[i]) /\ due[i] \notin hidden
  BY <1>4 DEF Backlog
<1>6. n \in Nat
  <2>1. IsFiniteSet(B)
    <3>1. IsFiniteSet(1..Len(due))
      BY <1>4, FS_Interval
    <3> HIDE DEF B
    <3> QED
      BY <1>5, <3>1, FS_Subset
  <2>2. found \in Nat
    BY <2>1, FS_CardinalityType
  <2> HIDE DEF found
  <2> QED
    BY <2>2, OutboxAssumption
<1>7. /\ \A k \in 1..n : f[k] \in B
      /\ \A j, k \in 1..n : j < k => f[j] < f[k]
      /\ \A i \in B \ Range(f), k \in 1..n : f[k] < i
      /\ DOMAIN f = 1..n
  BY DEF Oldest
<1> HIDE DEF n, B
<1>8. \A k \in 1..n : /\ due[f[k]] \in Events /\ Pending(due[f[k]])
                      /\ attempts[due[f[k]]] \in Nat /\ f[k] \in 1..Len(due)
  <2> SUFFICES ASSUME NEW k \in 1..n
               PROVE  /\ due[f[k]] \in Events /\ Pending(due[f[k]])
                      /\ attempts[due[f[k]]] \in Nat /\ f[k] \in 1..Len(due)
    OBVIOUS
  <2>1. f[k] \in B /\ f[k] \in 1..Len(due)
    BY <1>5, <1>7
  <2>2. due[f[k]] \in Events
    BY <1>4, <2>1
  <2>3. Pending(due[f[k]])
    BY <1>5, <2>1
  <2> QED
    BY <1>4, <2>1, <2>2, <2>3
<1>9. b \in Seq(BatchRow) /\ DOMAIN b = 1..n
      /\ \A k \in 1..n : b[k].event = due[f[k]] /\ b[k].attempts = attempts[due[f[k]]]
  <2>1. \A k \in 1..n : [event |-> due[f[k]], attempts |-> attempts[due[f[k]]]] \in BatchRow
    BY <1>8 DEF BatchRow
  <2> QED
    BY <1>6, <2>1
<1> HIDE DEF b, hidden
<1>10. \A k \in 1..n : b[k].event \in Range(committed) /\ (b[k].attempts > 0 => b[k].event \in failed)
  <2>1. \A e \in Events : attempts[e] > 0 => e \in failed
    BY DEF OutboxInv, ScheduleInv
  <2> QED
    BY <1>8, <1>9, <2>1 DEF Pending
<1>11. ASSUME NEW k \in 1..n, NEW d \in Events, Precedes(d, b[k].event), d \notin failed \cup skipped'
       PROVE  d \in Range(queue) \/ \E l \in 1..n : l < k /\ b[l].event = d
  <2> DEFINE e == due[f[k]]
  <2>1. b[k].event = e /\ e \in Events /\ f[k] \in 1..Len(due)
    BY <1>8, <1>9
  <2>2. e \in Range(due)
    BY <1>4, <2>1, RangeOf
  <2>3. Before(due, d, e) /\ d \in Range(committed)
    BY <1>11, <2>1, <2>2 DEF OutboxInv, ScheduleInv
  <2>4. PICK j \in 1..Len(due) : j < f[k] /\ due[j] = d
    BY <1>4, <2>1, <2>3 DEF Before
  <2>5. queue \in Seq(Events)
    BY DEF OutboxInv, OutboxTypeOK
  <2>6. CASE d \in published
    <3>1. Sent(d, queue)
      BY <2>6 DEF OutboxInv, AllSent
    <3> QED
      BY <1>11, <2>1, <2>5, <3>1, SentItself
  <2>7. CASE d \in U
    <3>1. Sent(d, queue)
      BY <1>11, <2>7, UpdatingDone
    <3> QED
      BY <1>11, <2>1, <2>5, <3>1, SentItself
  <2>8. CASE d \notin published /\ d \notin U
    <3>1. Pending(d)
      BY <2>3, <2>8 DEF Pending
    <3>2. d \notin Locked(p)
      BY <1>3, <1>11, <3>1
    <3>3. j \in B
      BY <1>4, <2>4, <2>8, <3>1, <3>2 DEF B, Backlog, hidden
    <3>4. j \in Range(f)
      <4>1. f[k] \in Nat /\ j \in Nat
        BY <2>1, <2>4, <1>4
      <4> QED
        BY <1>7, <2>4, <3>3, <4>1
    <3>5. PICK l \in 1..n : f[l] = j
      BY <1>7, <3>4, RangeOf
    <3>6. l < k
      <4>1. f[k] \in Nat /\ j \in Nat /\ k \in Int /\ l \in Int
        BY <1>6, <2>1, <2>4, <1>4
      <4>2. ~(k < l) /\ k # l
        BY <1>7, <2>4, <3>5, <4>1
      <4> QED
        BY <4>1, <4>2
    <3> QED
      BY <1>9, <2>4, <3>5, <3>6
  <2> QED
    BY <2>6, <2>7, <2>8
<1>12. BatchOK(b, "select", Range(committed), queue, failed', skipped')
  BY <1>3, <1>9, <1>10, <1>11 DEF BatchOK
<1> QED
  BY <1>3, <1>9, <1>12, BatchOnly

LEMMA FetchedInv ==
  ASSUME OutboxInv, NEW p \in Publishers, Fetched(p)
  PROVE  OutboxInv'
<1>1. /\ step' = [step EXCEPT ![p] = "send"] /\ batch' = [batch EXCEPT ![p] = batch[p]]
      /\ UNCHANGED <<table, broker>> /\ failed' = failed /\ skipped' = skipped
  BY DEF Fetched, history, OutboxInv, OutboxTypeOK
<1>2. /\ batch[p] \in Seq(BatchRow)
      /\ BatchOK(batch[p], "send", Range(committed), queue, failed, skipped)
  BY BatchOf, BatchAtSend
<1> QED
  BY <1>1, <1>2, BatchOnly

LEMMA FetchBreaksInv ==
  ASSUME OutboxInv, NEW p \in Publishers, FetchBreaks(p)
  PROVE  OutboxInv'
<1>1. PICK n \in 0..(Len(batch[p]) - 1) : batch' = [batch EXCEPT ![p] = SubSeq(batch[p], 1, n)]
  BY DEF FetchBreaks
<1>2. /\ step' = [step EXCEPT ![p] = "send"]
      /\ UNCHANGED <<table, broker>> /\ failed' = failed /\ skipped' = skipped
  BY DEF FetchBreaks, history
<1>3. /\ batch[p] \in Seq(BatchRow)
      /\ BatchOK(batch[p], step[p], Range(committed), queue, failed, skipped)
  BY BatchOf
<1>4. n \in 0..Len(batch[p])
  BY <1>3
<1>5. /\ SubSeq(batch[p], 1, n) \in Seq(BatchRow)
      /\ BatchOK(SubSeq(batch[p], 1, n), "send", Range(committed), queue, failed, skipped)
  BY <1>3, <1>4, BatchPrefix
<1> QED
  BY <1>1, <1>2, <1>5, BatchOnly

LEMMA RestartInv ==
  ASSUME OutboxInv, NEW p \in Publishers, Restart(p)
  PROVE  OutboxInv'
<1>1. /\ step' = [step EXCEPT ![p] = "send"] /\ batch' = [batch EXCEPT ![p] = <<>>]
      /\ UNCHANGED <<table, broker>> /\ failed' = failed /\ skipped' = skipped
  BY DEF Restart, history
<1>2. <<>> \in Seq(BatchRow) /\ BatchOK(<<>>, "send", Range(committed), queue, failed', skipped')
  BY EmptyBatch
<1> QED
  BY <1>1, <1>2, BatchOnly

\* Drop moves on to the rest of the batch, if the head was sent or has failed.
LEMMA DropOK ==
  ASSUME OutboxInv, NEW p \in Publishers, batch[p] # <<>>, Drop(p),
         Current(p) \in failed \/ Sent(Current(p), queue)
  PROVE  LET t == Tail(batch[p]) IN
         /\ batch' = [batch EXCEPT ![p] = t] /\ step' = [step EXCEPT ![p] = "send"]
         /\ t \in Seq(BatchRow)
         /\ BatchOK(t, "send", Range(committed), queue, failed, skipped)
<1>1. batch' = [batch EXCEPT ![p] = Tail(batch[p])] /\ step' = [step EXCEPT ![p] = "send"]
  BY DEF Drop
<1>2. queue \in Seq(Events)
  BY DEF OutboxInv, OutboxTypeOK
<1>3. /\ batch[p] \in Seq(BatchRow) /\ Range(committed) \subseteq Events
      /\ BatchOK(batch[p], step[p], Range(committed), queue, failed, skipped)
      /\ batch[p][1].event \in failed \/ Sent(batch[p][1].event, queue)
  BY BatchOf
<1>4. /\ Tail(batch[p]) \in Seq(BatchRow)
      /\ BatchOK(Tail(batch[p]), "send", Range(committed), queue, failed, skipped)
  BY <1>2, <1>3, BatchTail
<1> QED
  BY <1>1, <1>4

\* ... and changes nothing else.
LEMMA DropOnly ==
  ASSUME OutboxInv, NEW p \in Publishers, batch[p] # <<>>, Drop(p),
         Current(p) \in failed \/ Sent(Current(p), queue),
         UNCHANGED <<table, broker, history>>
  PROVE  OutboxInv'
<1> DEFINE t == Tail(batch[p])
<1>1. /\ batch' = [batch EXCEPT ![p] = t] /\ step' = [step EXCEPT ![p] = "send"]
      /\ t \in Seq(BatchRow)
      /\ BatchOK(t, "send", Range(committed), queue, failed, skipped)
  BY DropOK
<1>2. failed' = failed /\ skipped' = skipped
  BY DEF history
<1> HIDE DEF t
<1> QED
  BY <1>1, <1>2, BatchOnly

\* An abandoned event has failed: its attempts are not zero.
LEMMA AbandonInv ==
  ASSUME OutboxInv, NEW p \in Publishers, Abandon(p)
  PROVE  OutboxInv'
<1>1. batch[p] # <<>> /\ Head(batch[p]).attempts >= MaxAttempts /\ Drop(p)
      /\ UNCHANGED <<table, broker, history>>
  BY DEF Abandon, Working, Exceeded
<1>2. /\ Head(batch[p]) = batch[p][1] /\ batch[p][1] \in BatchRow /\ 1 \in DOMAIN batch[p]
      /\ Current(p) = batch[p][1].event
      /\ BatchOK(batch[p], step[p], Range(committed), queue, failed, skipped)
  BY <1>1, BatchOf
<1>3. batch[p][1].attempts > 0
  BY <1>1, <1>2, OutboxAssumption DEF BatchRow
<1>4. Current(p) \in failed
  BY <1>2, <1>3 DEF BatchOK
<1> QED
  BY <1>1, <1>4, DropOnly

\* What the queue needs of the event at the head of a batch.
LEMMA HeadInTurn ==
  ASSUME OutboxInv, NEW p \in Publishers, batch[p] # <<>>
  PROVE  /\ Current(p) \in Events
         /\ \A d \in Events : Precedes(d, Current(p)) /\ d \notin failed \cup skipped => d \in Range(queue)
<1>1. /\ Current(p) = batch[p][1].event /\ Current(p) \in Events /\ 1 \in DOMAIN batch[p]
      /\ BatchOK(batch[p], step[p], Range(committed), queue, failed, skipped)
      /\ DOMAIN batch[p] = 1..Len(batch[p]) /\ Len(batch[p]) \in Nat
  BY BatchOf
<1>2. \A l \in DOMAIN batch[p] : ~(l < 1)
  BY <1>1
<1> QED
  BY <1>1, <1>2 DEF BatchOK

\* Send, and SendFails when the queue took the message.
LEMMA SendInv ==
  ASSUME OutboxInv, NEW p \in Publishers, batch[p] # <<>>, Accept(Current(p)),
         NEW s \in {"mark", "increment"}, step' = [step EXCEPT ![p] = s],
         s = "increment" => Current(p) \in failed',
         failed \subseteq failed', UNCHANGED <<table, batch, skipped>>
  PROVE  OutboxInv'
<1> DEFINE e == Current(p)
           b == batch[p]
<1>1. UNCHANGED <<committed, due, later, attempts, published, batch>> /\ skipped' = skipped
  BY DEF table
<1>2. /\ e \in Events
      /\ \A d \in Events : Precedes(d, e) /\ d \notin failed \cup skipped => d \in Range(queue)
  BY HeadInTurn
<1>3. /\ queue' \in Seq(Events) /\ remembered' \subseteq {DeduplicationId(x) : x \in Events}
      /\ Range(queue) \subseteq Range(queue')
      /\ QueueInv' /\ AllSent' /\ InOrder' /\ Sent(e, queue')
  BY <1>1, <1>2, AcceptInv
<1>4. /\ Range(committed)' = Range(committed) /\ Range(committed') = Range(committed)
      /\ Range(queue)' = Range(queue') /\ Range(due)' = Range(due) /\ Range(later)' = Range(later)
  BY <1>1 DEF Range
<1>5. OutboxGrows
  BY <1>1, <1>3, <1>4 DEF OutboxGrows
<1>6. b \in Seq(BatchRow) /\ b[1].event = e /\ BatchOK(b, step[p], Range(committed), queue, failed, skipped)
  BY BatchOf
<1>7. batch' = [batch EXCEPT ![p] = b]
  BY <1>1 DEF OutboxInv, OutboxTypeOK
<1> HIDE DEF b, e
<1>8. BatchOK(b, step[p], Range(committed'), queue', failed', skipped')
  BY <1>1, <1>3, <1>4, <1>6, BatchMonotonic
<1>9. BatchOK(b, s, Range(committed'), queue', failed', skipped')
  <2>1. s = "mark" => Sent(b[1].event, queue')
    BY <1>3, <1>6
  <2>2. s = "increment" => b[1].event \in failed'
    BY <1>6 DEF e
  <2> QED
    BY <1>8, <2>1, <2>2 DEF BatchOK
<1>10. /\ BatchInv' /\ batch' \in [Publishers -> Seq(BatchRow)]
       /\ step' \in [Publishers -> {"select", "send", "mark", "increment"}]
  BY <1>5, <1>6, <1>7, <1>9, PublisherMoves
<1>11. OutboxTypeOK'
  BY <1>1, <1>3, <1>4, <1>10 DEF OutboxInv, OutboxTypeOK, BatchRow
<1>12. ScheduleInv'
  BY <1>1, ScheduleKept DEF OutboxInv
<1> QED
  BY <1>3, <1>10, <1>11, <1>12 DEF OutboxInv

LEMMA SendStepInv ==
  ASSUME OutboxInv, NEW p \in Publishers, Send(p)
  PROVE  OutboxInv'
  BY SendInv DEF Send, Working, history

LEMMA SendFailsInv ==
  ASSUME OutboxInv, NEW p \in Publishers, SendFails(p)
  PROVE  OutboxInv'
<1>1. /\ batch[p] # <<>> /\ step' = [step EXCEPT ![p] = "increment"]
      /\ failed' = failed \cup {Current(p)} /\ UNCHANGED <<table, batch, skipped>>
      /\ Accept(Current(p)) \/ UNCHANGED broker
  BY DEF SendFails, Working
<1>2. CASE Accept(Current(p))
  BY <1>1, <1>2, SendInv
<1>3. CASE UNCHANGED broker
  <2> DEFINE b == batch[p]
  <2>1. b \in Seq(BatchRow) /\ b[1].event = Current(p)
        /\ BatchOK(b, step[p], Range(committed), queue, failed, skipped)
    BY <1>1, BatchOf
  <2>2. batch' = [batch EXCEPT ![p] = b]
    BY <1>1 DEF OutboxInv, OutboxTypeOK
  <2> HIDE DEF b
  <2>3. failed \subseteq failed' /\ skipped \subseteq skipped'
    BY <1>1
  <2>4. BatchOK(b, step[p], Range(committed), queue, failed', skipped')
    BY <2>1, <2>3, BatchMonotonic
  <2>5. BatchOK(b, "increment", Range(committed), queue, failed', skipped')
    BY <1>1, <2>1, <2>4 DEF BatchOK
  <2> QED
    BY <1>1, <1>3, <2>1, <2>2, <2>3, <2>5, BatchOnly
<1> QED
  BY <1>1, <1>2, <1>3

\* At "mark" the event was sent, at "increment" it has failed.
LEMMA HeadDone ==
  ASSUME OutboxInv, NEW p \in Publishers, Working(p, "mark") \/ Working(p, "increment")
  PROVE  /\ batch[p] # <<>> /\ (Current(p) \in failed \/ Sent(Current(p), queue))
         /\ step[p] = "mark" => Sent(Current(p), queue)
         /\ step[p] = "increment" => Current(p) \in failed
         /\ Current(p) \in Range(committed) /\ Current(p) \in Events
<1>1. batch[p] # <<>> /\ step[p] \in {"mark", "increment"}
  BY DEF Working
<1>2. /\ Current(p) = batch[p][1].event /\ 1 \in DOMAIN batch[p] /\ Current(p) \in Events
      /\ BatchOK(batch[p], step[p], Range(committed), queue, failed, skipped)
  BY <1>1, BatchOf
<1> QED
  BY <1>1, <1>2 DEF BatchOK

LEMMA UpdateFailsInv ==
  ASSUME OutboxInv, NEW p \in Publishers, UpdateFails(p)
  PROVE  OutboxInv'
  BY HeadDone, DropOnly DEF UpdateFails

LEMMA MarkPublishedInv ==
  ASSUME OutboxInv, NEW p \in Publishers, MarkPublished(p)
  PROVE  OutboxInv'
<1> DEFINE t == Tail(batch[p])
<1>1. /\ batch[p] # <<>> /\ Sent(Current(p), queue) /\ Current(p) \in Range(committed)
      /\ published' = published \cup {Current(p)} /\ Drop(p)
      /\ UNCHANGED <<committed, due, later, attempts, queue, remembered, expiries, failed, skipped>>
  BY HeadDone DEF MarkPublished, Working, broker, history
<1>2. /\ batch' = [batch EXCEPT ![p] = t] /\ step' = [step EXCEPT ![p] = "send"]
      /\ t \in Seq(BatchRow)
      /\ BatchOK(t, "send", Range(committed), queue, failed, skipped)
  BY <1>1, DropOK
<1>3. /\ Range(committed)' = Range(committed) /\ Range(committed') = Range(committed)
      /\ Range(queue)' = Range(queue) /\ Range(due)' = Range(due) /\ Range(later)' = Range(later)
  BY <1>1 DEF Range
<1> HIDE DEF t
<1>4. OutboxGrows /\ BatchOK(t, "send", Range(committed'), queue', failed', skipped')
  BY <1>1, <1>2, <1>3 DEF OutboxGrows
<1>5. /\ BatchInv' /\ batch' \in [Publishers -> Seq(BatchRow)]
      /\ step' \in [Publishers -> {"select", "send", "mark", "increment"}]
  BY <1>2, <1>4, PublisherMoves
<1>6. OutboxTypeOK'
  BY <1>1, <1>3, <1>5 DEF OutboxInv, OutboxTypeOK, BatchRow
<1>7. ScheduleInv'
  BY <1>1, ScheduleKept DEF OutboxInv
<1>8. QueueInv'
  BY <1>1, QueueKept DEF OutboxInv
<1>9. AllSent' /\ InOrder'
  BY <1>1 DEF OutboxInv, AllSent, InOrder
<1> QED
  BY <1>5, <1>6, <1>7, <1>8, <1>9 DEF OutboxInv

\* The first of a schedule is taken off.
LEMMA TakenOff ==
  ASSUME NEW S, NEW s \in Seq(S), Distinct(s), s # <<>>
  PROVE  /\ Head(s) \in S /\ Head(s) \in Range(s)
         /\ Tail(s) \in Seq(S) /\ Distinct(Tail(s))
         /\ \A x : x \in Range(Tail(s)) <=> x \in Range(s) /\ x # Head(s)
<1> DEFINE t == Tail(s)
           n == Len(s)
<1>1. /\ n \in Nat /\ n >= 1 /\ DOMAIN s = 1..n /\ \A i \in 1..n : s[i] \in S
      /\ Head(s) = s[1] /\ t \in Seq(S) /\ DOMAIN t = 1..(n - 1)
      /\ \A i \in 1..(n - 1) : t[i] = s[i + 1]
  OBVIOUS
<1> HIDE DEF t, n
<1>2. \A i, j \in 1..n : s[i] = s[j] => i = j
  BY <1>1 DEF Distinct
<1>3. 1 \in 1..n /\ \A i \in 1..(n - 1) : i + 1 \in 1..n /\ i + 1 # 1
  BY <1>1
<1>4. \A i \in 1..n : i # 1 => i - 1 \in 1..(n - 1) /\ (i - 1) + 1 = i
  BY <1>1
<1>5. Distinct(t)
  <2> SUFFICES ASSUME NEW i \in 1..(n - 1), NEW j \in 1..(n - 1), t[i] = t[j] PROVE i = j
    BY <1>1 DEF Distinct
  <2>1. i + 1 = j + 1
    BY <1>1, <1>2, <1>3
  <2> QED
    BY <1>1, <2>1
<1>6. ASSUME NEW x \in Range(t) PROVE x \in Range(s) /\ x # Head(s)
  <2>1. PICK i \in 1..(n - 1) : t[i] = x
    BY <1>1, RangeOf
  <2> QED
    BY <1>1, <1>2, <1>3, <2>1, RangeOf
<1>7. ASSUME NEW x \in Range(s), x # Head(s) PROVE x \in Range(t)
  <2>1. PICK i \in 1..n : s[i] = x
    BY <1>1, RangeOf
  <2>2. i # 1
    BY <1>1, <1>7, <2>1
  <2>3. t[i - 1] = x /\ i - 1 \in DOMAIN t
    BY <1>1, <1>4, <2>1, <2>2
  <2> QED
    BY <2>3, RangeOf
<1>8. Head(s) \in Range(s)
  BY <1>1, <1>3, RangeOf
<1> QED
  BY <1>1, <1>3, <1>5, <1>6, <1>7, <1>8 DEF t

\* The failed event leaves its place among the due events for one among the
\* waiting ones.
LEMMA IncrementAttemptsInv ==
  ASSUME OutboxInv, NEW p \in Publishers, IncrementAttempts(p)
  PROVE  OutboxInv'
<1> DEFINE e == Current(p)
           t == Tail(batch[p])
           w == Without(later, e)
<1>1. /\ Working(p, "increment") /\ attempts' = [attempts EXCEPT ![e] = @ + 1]
      /\ due' = Without(due, e) /\ Drop(p)
      /\ UNCHANGED <<committed, published, queue, remembered, expiries, failed, skipped>>
  BY DEF IncrementAttempts, broker, history
<1>2. PICK i \in 1..(Len(w) + 1) : later' = InsertAt(w, i, e)
  BY DEF IncrementAttempts
<1>3. batch[p] # <<>> /\ e \in failed /\ e \in Events
  BY <1>1, HeadDone DEF Working
<1>4. /\ batch' = [batch EXCEPT ![p] = t] /\ step' = [step EXCEPT ![p] = "send"]
      /\ t \in Seq(BatchRow)
      /\ BatchOK(t, "send", Range(committed), queue, failed, skipped)
  BY <1>1, <1>3, DropOK
<1> HIDE DEF t, e
<1>5. /\ due \in Seq(Events) /\ later \in Seq(Events) /\ Distinct(due) /\ Distinct(later)
      /\ attempts \in [Events -> Nat] /\ Range(due) \cap Range(later) = {}
  BY DEF OutboxInv, OutboxTypeOK, ScheduleInv
<1>6. /\ due' \in Seq(Events) /\ Distinct(due')
      /\ \A x : x \in Range(due') <=> x \in Range(due) /\ x # e
      /\ \A d, x : Before(due, d, x) /\ d # e => Before(due', d, x)
  BY <1>1, <1>5, Removed
<1>7. /\ w \in Seq(Events) /\ Distinct(w)
      /\ \A x : x \in Range(w) <=> x \in Range(later) /\ x # e
  BY <1>5, Removed
<1> HIDE DEF w
<1>8. /\ later' \in Seq(Events) /\ Distinct(later')
      /\ \A x : x \in Range(later') <=> x \in Range(later) \/ x = e
  <2>1. e \notin Range(w)
    BY <1>7
  <2>2. /\ later' \in Seq(Events) /\ Distinct(later')
        /\ \A x : x \in Range(later') <=> x \in Range(w) \/ x = e
    BY <1>2, <1>3, <1>7, <2>1, Inserted
  <2> QED
    BY <1>7, <2>2
<1>9. /\ Range(committed)' = Range(committed) /\ Range(committed') = Range(committed)
      /\ Range(queue)' = Range(queue) /\ Range(due)' = Range(due') /\ Range(later)' = Range(later')
  BY <1>1 DEF Range
<1>10. OutboxGrows /\ BatchOK(t, "send", Range(committed'), queue', failed', skipped')
  BY <1>1, <1>4, <1>9 DEF OutboxGrows
<1>11. /\ BatchInv' /\ batch' \in [Publishers -> Seq(BatchRow)]
       /\ step' \in [Publishers -> {"select", "send", "mark", "increment"}]
  BY <1>4, <1>10, PublisherMoves
<1>12. attempts' \in [Events -> Nat] /\ \A x \in Events : attempts'[x] > 0 => x \in failed
  <2>1. \A x \in Events : attempts[x] > 0 => x \in failed
    BY DEF OutboxInv, ScheduleInv
  <2> QED
    BY <1>1, <1>3, <1>5, <2>1
<1>13. OutboxTypeOK'
  <2>1. Range(due') \cap Range(later') = {}
    BY <1>5, <1>6, <1>8
  <2> QED
    BY <1>1, <1>6, <1>8, <1>9, <1>11, <1>12, <2>1 DEF OutboxInv, OutboxTypeOK, BatchRow
<1>14. ScheduleInv'
  <2>1. Range(committed) \subseteq Range(due') \cup Range(later')
    BY <1>6, <1>8 DEF OutboxInv, ScheduleInv
  <2>2. e \in Range(due) \cup Range(later)
    <3>1. e \in Range(committed)
      BY <1>1, HeadDone DEF e
    <3> QED
      BY <3>1 DEF OutboxInv, ScheduleInv
  <2>3. \A d, x \in Events :
          Precedes(d, x) /\ x \in Range(due') \cup Range(later') => d \in Range(committed)
    BY <1>6, <1>8, <2>2 DEF OutboxInv, ScheduleInv
  <2>4. Range(later') \subseteq failed
    BY <1>3, <1>8 DEF OutboxInv, ScheduleInv
  <2>5. \A d, x \in Events : Precedes(d, x) /\ d \notin failed => Before(due', d, x)
    BY <1>3, <1>6 DEF OutboxInv, ScheduleInv
  <2> QED
    BY <1>1, <1>6, <1>8, <1>9, <1>12, <2>1, <2>3, <2>4, <2>5 DEF ScheduleInv
<1>15. QueueInv'
  BY <1>1, QueueKept DEF OutboxInv
<1>16. AllSent' /\ InOrder'
  BY <1>1 DEF OutboxInv, AllSent, InOrder
<1> QED
  BY <1>11, <1>13, <1>14, <1>15, <1>16 DEF OutboxInv

\* An event whose backoff ends has failed, and what it builds on is due, unless
\* that has failed too.
LEMMA RipenInv ==
  ASSUME OutboxInv, Ripen
  PROVE  OutboxInv'
<1> DEFINE h == Head(later)
<1>1. /\ later # <<>> /\ due' = Append(due, h) /\ later' = Tail(later)
      /\ UNCHANGED <<committed, attempts, published, batch, step, queue, remembered, expiries,
                     failed, skipped>>
  BY DEF Ripen, broker, history
<1>2. /\ due \in Seq(Events) /\ later \in Seq(Events) /\ Distinct(due) /\ Distinct(later)
      /\ Range(due) \cap Range(later) = {}
  BY DEF OutboxInv, OutboxTypeOK, ScheduleInv
<1>3. /\ h \in Events /\ h \in Range(later) /\ later' \in Seq(Events) /\ Distinct(later')
      /\ \A x : x \in Range(later') <=> x \in Range(later) /\ x # h
  BY <1>1, <1>2, TakenOff
<1> HIDE DEF h
<1>4. /\ due' \in Seq(Events) /\ Distinct(due')
      /\ \A x : x \in Range(due') <=> x \in Range(due) \/ x = h
      /\ \A d, x : Before(due, d, x) /\ (x = h => d \in Range(due)) => Before(due', d, x)
  <2>1. h \notin Range(due)
    BY <1>2, <1>3
  <2> QED
    BY <1>1, <1>2, <1>3, <2>1, Appended
<1>5. Range(due)' = Range(due') /\ Range(committed)' = Range(committed) /\ Range(later)' = Range(later')
  BY <1>1 DEF Range
<1>6. OutboxTypeOK'
  <2>1. Range(due') \cap Range(later') = {}
    BY <1>2, <1>3, <1>4
  <2> QED
    BY <1>1, <1>3, <1>4, <1>5, <2>1 DEF OutboxInv, OutboxTypeOK
<1>7. ScheduleInv'
  <2>1. \A d, x \in Events : Precedes(d, x) /\ d \notin failed => Before(due', d, x)
    <3> SUFFICES ASSUME NEW d \in Events, NEW x \in Events, Precedes(d, x), d \notin failed
                 PROVE  Before(due', d, x)
      OBVIOUS
    <3>1. Before(due, d, x)
      BY DEF OutboxInv, ScheduleInv
    <3>2. x = h => d \in Range(due)
      BY <1>3 DEF OutboxInv, ScheduleInv
    <3> QED
      BY <1>4, <3>1, <3>2
  <2>2. \A d, x \in Events :
          Precedes(d, x) /\ x \in Range(due') \cup Range(later') => d \in Range(committed)
    BY <1>3, <1>4 DEF OutboxInv, ScheduleInv
  <2>3. Range(committed) \subseteq Range(due') \cup Range(later')
    BY <1>3, <1>4 DEF OutboxInv, ScheduleInv
  <2>4. Range(later') \subseteq failed
    BY <1>3 DEF OutboxInv, ScheduleInv
  <2>5. \A x \in Events : attempts[x] > 0 => x \in failed
    BY DEF OutboxInv, ScheduleInv
  <2> QED
    BY <1>1, <1>3, <1>4, <1>5, <2>1, <2>2, <2>3, <2>4, <2>5 DEF ScheduleInv
<1>8. QueueInv'
  BY <1>1, QueueKept DEF OutboxInv
<1>9. BatchInv' /\ AllSent' /\ InOrder'
  BY <1>1, <1>5 DEF OutboxInv, BatchInv, AllSent, InOrder
<1> QED
  BY <1>6, <1>7, <1>8, <1>9 DEF OutboxInv

LEMMA ExpireInv ==
  ASSUME OutboxInv, NEW id, Expire(id)
  PROVE  OutboxInv'
<1>1. /\ remembered' = remembered \ {id} /\ expiries' = expiries + 1
      /\ UNCHANGED <<committed, due, later, attempts, published, batch, step, queue, failed, skipped>>
  BY DEF Expire, table, history
<1>2. /\ Range(committed)' = Range(committed) /\ Range(queue)' = Range(queue)
      /\ Range(due)' = Range(due) /\ Range(later)' = Range(later)
  BY <1>1 DEF Range
<1>3. OutboxTypeOK'
  <2>1. remembered' \subseteq {DeduplicationId(e) : e \in Events}
    BY <1>1 DEF OutboxInv, OutboxTypeOK
  <2> QED
    BY <1>1, <1>2, <2>1 DEF OutboxInv, OutboxTypeOK
<1>4. ScheduleInv'
  BY <1>1, ScheduleKept DEF OutboxInv
<1>5. QueueInv'
  <2>1. expiries' \in Nat /\ expiries' # 0
    BY <1>1 DEF OutboxInv, QueueInv
  <2> QED
    BY <1>1, <1>2, <2>1 DEF OutboxInv, QueueInv
<1>6. BatchInv' /\ AllSent' /\ InOrder'
  BY <1>1, <1>2 DEF OutboxInv, BatchInv, AllSent, InOrder
<1> QED
  BY <1>3, <1>4, <1>5, <1>6 DEF OutboxInv

LEMMA OutboxStutter ==
  ASSUME OutboxInv, UNCHANGED ovars
  PROVE  OutboxInv'
<1>1. /\ UNCHANGED <<committed, due, later, attempts, published, batch, step, queue, remembered,
                      expiries, failed, skipped>>
  BY DEF ovars, table, broker, history
<1>2. /\ Range(committed)' = Range(committed) /\ Range(queue)' = Range(queue)
      /\ Range(due)' = Range(due) /\ Range(later)' = Range(later)
  BY <1>1 DEF Range
<1>3. OutboxTypeOK'
  BY <1>1, <1>2 DEF OutboxInv, OutboxTypeOK
<1>4. ScheduleInv' /\ QueueInv'
  BY <1>1, ScheduleKept, QueueKept DEF OutboxInv
<1>5. BatchInv' /\ AllSent' /\ InOrder'
  BY <1>1, <1>2 DEF OutboxInv, BatchInv, AllSent, InOrder
<1> QED
  BY <1>3, <1>4, <1>5 DEF OutboxInv

LEMMA OutboxInitInv ==
  ASSUME OutboxInit
  PROVE  OutboxInv
<1>1. <<>> \in Seq(Events) /\ <<>> \in Seq(BatchRow) /\ DOMAIN <<>> = {} /\ Range(<<>>) = {}
  BY DEF Range
<1>2. OutboxTypeOK
  BY <1>1 DEF OutboxInit, OutboxTypeOK, BatchRow
<1>3. ScheduleInv
  BY <1>1 DEF OutboxInit, ScheduleInv, Distinct, Before
<1>4. QueueInv
  BY <1>1 DEF OutboxInit, QueueInv, Distinct
<1>5. BatchInv
  <2>1. \A p \in Publishers : batch[p] = <<>>
    BY DEF OutboxInit
  <2> QED
    BY <2>1, EmptyBatch DEF BatchInv
<1>6. AllSent /\ InOrder
  BY <1>1 DEF OutboxInit, AllSent, InOrder, Before
<1> QED
  BY <1>2, <1>3, <1>4, <1>5, <1>6 DEF OutboxInv

LEMMA OutboxNextInv ==
  ASSUME OutboxInv, [OutboxNext]_ovars
  PROVE  OutboxInv'
<1>1. CASE \E e \in Events : Begin(e) \/ Commit(e)
  BY <1>1, BeginInv, CommitInv
<1>2. CASE \E p \in Publishers : PublisherStep(p)
  BY <1>2, PollInv, FetchedInv, AbandonInv, SendStepInv, MarkPublishedInv, IncrementAttemptsInv
     DEF PublisherStep
<1>3. CASE \E p \in Publishers : SendFails(p) \/ UpdateFails(p) \/ FetchBreaks(p) \/ Restart(p)
  BY <1>3, SendFailsInv, UpdateFailsInv, FetchBreaksInv, RestartInv
<1>4. CASE Ripen
  BY <1>4, RipenInv
<1>5. CASE \E id \in remembered : Expire(id)
  BY <1>5, ExpireInv
<1>6. CASE UNCHANGED ovars
  BY <1>6, OutboxStutter
<1> QED
  BY <1>1, <1>2, <1>3, <1>4, <1>5, <1>6 DEF OutboxNext, Idle

-----------------------------------------------------------------------------
(***************************************************************************)
(* The theorems.                                                           *)
(***************************************************************************)

\* The inductive invariant holds in every reachable state of the publishers, the
\* outbox_events table and the queue.
THEOREM OutboxInvariance == OutboxSpec => []OutboxInv
<1>1. OutboxInit => OutboxInv
  BY OutboxInitInv
<1>2. OutboxInv /\ [OutboxNext]_ovars => OutboxInv'
  BY OutboxNextInv
<1> QED
  BY <1>1, <1>2, PTL DEF OutboxSpec

\* The table, the batches and the queue stay in their types: an event is scheduled
\* at one place, and only committed events are marked as published.
THEOREM OutboxTypes == OutboxSpec => []OutboxTypeOK
<1>1. OutboxInv => OutboxTypeOK
  BY DEF OutboxInv
<1> QED
  BY <1>1, OutboxInvariance, PTL

\* No event becomes two messages while the queue remembers deduplication ids,
\* whatever the publishers read, lose, repeat or leave unfinished.
THEOREM NoDuplicates == OutboxSpec => []NoDuplicateMessage
<1>1. OutboxInv => NoDuplicateMessage
  BY DEF OutboxInv, QueueInv, Distinct, NoDuplicateMessage
<1> QED
  BY <1>1, OutboxInvariance, PTL

\* MarkPublished follows a message of that deduplication id in the queue.
THEOREM PublishedSent == OutboxSpec => []PublishedWasSent
<1>1. OutboxInv => PublishedWasSent
  BY RangeOf DEF OutboxInv, AllSent, Sent, PublishedWasSent
<1> QED
  BY <1>1, OutboxInvariance, PTL

\* An event comes behind the one it builds on, unless that one failed once or was
\* skipped by an overlapping poll.
THEOREM InTheirOrder == OutboxSpec => []DeliveredInOrder
<1>1. ASSUME OutboxInv PROVE DeliveredInOrder
  <2> SUFFICES ASSUME NEW d \in Events, NEW e \in Events, NEW i \in DOMAIN queue,
                      Precedes(d, e), queue[i] = e, d \notin failed \cup skipped
               PROVE  \E j \in 1..(i - 1) : queue[j] = d
    BY DEF DeliveredInOrder
  <2>1. DOMAIN queue = 1..Len(queue) /\ Len(queue) \in Nat
    BY <1>1 DEF OutboxInv, OutboxTypeOK
  <2>2. PICK j \in DOMAIN queue : j < i /\ queue[j] = d
    BY <1>1 DEF OutboxInv, InOrder, Before
  <2>3. j \in 1..(i - 1)
    BY <2>1, <2>2
  <2> QED
    BY <2>2, <2>3
<1> QED
  BY <1>1, OutboxInvariance, PTL

\* A publisher that runs alone finds no row locked by the poll of another.
LEMMA AloneSkipsNothing ==
  ASSUME \A p, q \in Publishers : p = q
  PROVE  OutboxSpec => [](skipped = {})
<1>1. OutboxInit => skipped = {}
  BY DEF OutboxInit
<1>2. skipped = {} /\ [OutboxNext]_ovars => (skipped = {})'
  <2> SUFFICES ASSUME skipped = {}, [OutboxNext]_ovars PROVE skipped' = {}
    OBVIOUS
  <2>1. ASSUME NEW p \in Publishers, Poll(p) PROVE skipped' = {}
    <3>1. Locked(p) = {}
      BY DEF Locked
    <3>2. skipped' = skipped \cup {e \in Locked(p) : Pending(e)}
      BY <2>1 DEF Poll, FindPending
    <3> QED
      BY <3>1, <3>2
  <2>2. CASE \E e \in Events : Begin(e) \/ Commit(e)
    BY <2>2 DEF Begin, Commit, history
  <2>3. CASE \E p \in Publishers : PublisherStep(p)
    BY <2>1, <2>3 DEF PublisherStep, Fetched, Abandon, Send, MarkPublished, IncrementAttempts, history
  <2>4. CASE \E p \in Publishers : SendFails(p) \/ UpdateFails(p) \/ FetchBreaks(p) \/ Restart(p)
    BY <2>4 DEF SendFails, UpdateFails, FetchBreaks, Restart, history
  <2>5. CASE Ripen \/ \E id \in remembered : Expire(id)
    BY <2>5 DEF Ripen, Expire, history
  <2>6. CASE UNCHANGED ovars
    BY <2>6 DEF ovars, history
  <2> QED
    BY <2>2, <2>3, <2>4, <2>5, <2>6 DEF OutboxNext, Idle
<1> QED
  BY <1>1, <1>2, PTL DEF OutboxSpec

OnlyFailedOvertaken ==
  \A d, e \in Events : Precedes(d, e) /\ d \notin failed => Before(queue, d, e)

\* With one publisher, only an event whose SendMessage failed can come behind one
\* that builds on it.
THEOREM AloneInOrder ==
  ASSUME \A p, q \in Publishers : p = q
  PROVE  OutboxSpec => []OnlyFailedOvertaken
<1>1. OutboxInv /\ skipped = {} => OnlyFailedOvertaken
  BY DEF OutboxInv, InOrder, OnlyFailedOvertaken
<1>2. OutboxSpec => [](skipped = {})
  BY AloneSkipsNothing
<1> QED
  BY <1>1, <1>2, OutboxInvariance, PTL

-----------------------------------------------------------------------------
(***************************************************************************)
(* What as many abandoned events as a poll returns do to the others.       *)
(***************************************************************************)

InBatch(e) == \E p \in Publishers : \E k \in DOMAIN batch[p] : batch[p][k].event = e

\* Enough abandoned events come before e to fill every poll.
HeldUp(e) ==
  /\ Pending(e) /\ e \in Range(due) /\ ~InBatch(e)
  /\ \E A \in SUBSET Abandoned :
       /\ IsFiniteSet(A) /\ Cardinality(A) = BatchLimit
       /\ \A d \in A : Before(due, d, e)

\* What a publisher that runs alone knows of its batch: the attempts it read are
\* the present ones, no event is in it twice, and an abandoned one is never sent.
Fresh(b, s, a) ==
  /\ \A k \in DOMAIN b : b[k].attempts = a[b[k].event]
  /\ \A k, l \in DOMAIN b : b[k].event = b[l].event => k = l
  /\ b # <<>> /\ s \in {"mark", "increment"} => b[1].attempts < MaxAttempts

FreshInv == \A p \in Publishers : Fresh(batch[p], step[p], attempts)

\* What FindPending returns: the first places, BatchLimit at most.
LEMMA PollRows ==
  ASSUME OutboxInv, NEW p \in Publishers, NEW hidden, FindPending(p, hidden)
  PROVE  \E n \in 0..BatchLimit : \E f \in [1..n -> Backlog(hidden)] :
           /\ \A j, k \in 1..n : j < k => f[j] < f[k]
           /\ \A i \in Backlog(hidden) \ Range(f), k \in 1..n : f[k] < i
           /\ batch' = [batch EXCEPT ![p] =
                [k \in 1..n |-> [event |-> due[f[k]], attempts |-> attempts[due[f[k]]]]]]
<1> DEFINE B == Backlog(hidden)
           found == Cardinality(B)
           n == IF found < BatchLimit THEN found ELSE BatchLimit
<1>1. PICK f \in Oldest(B, n) :
        batch' = [batch EXCEPT ![p] =
          [k \in 1..n |-> [event |-> due[f[k]], attempts |-> attempts[due[f[k]]]]]]
  BY DEF FindPending
<1>2. DOMAIN due = 1..Len(due) /\ Len(due) \in Nat
  BY DEF OutboxInv, OutboxTypeOK
<1>3. found \in Nat
  <2>1. IsFiniteSet(1..Len(due)) /\ B \in SUBSET (1..Len(due))
    BY <1>2, FS_Interval DEF Backlog
  <2> HIDE DEF B
  <2> QED
    BY <2>1, FS_Subset, FS_CardinalityType
<1> HIDE DEF found
<1>4. n \in 0..BatchLimit
  BY <1>3, OutboxAssumption
<1>5. /\ f \in [1..n -> B]
      /\ \A j, k \in 1..n : j < k => f[j] < f[k]
      /\ \A i \in B \ Range(f), k \in 1..n : f[k] < i
  BY DEF Oldest
<1> QED
  BY <1>1, <1>4, <1>5

\* A place among those that are returned has all places before it returned too, so
\* fewer than BatchLimit are before it.
LEMMA HeldUpNotPolled ==
  ASSUME OutboxInv, NEW p \in Publishers, FindPending(p, {}), NEW e \in Events, HeldUp(e)
  PROVE  ~InBatch(e)'
<1>1. PICK A \in SUBSET Abandoned : /\ IsFiniteSet(A) /\ Cardinality(A) = BatchLimit
                                    /\ \A d \in A : Before(due, d, e)
  BY DEF HeldUp
<1> DEFINE B == Backlog({})
<1>2. PICK n \in 0..BatchLimit : \E f \in [1..n -> B] :
           /\ \A j, k \in 1..n : j < k => f[j] < f[k]
           /\ \A i \in B \ Range(f), k \in 1..n : f[k] < i
           /\ batch' = [batch EXCEPT ![p] =
                [k \in 1..n |-> [event |-> due[f[k]], attempts |-> attempts[due[f[k]]]]]]
  BY PollRows
<1>3. PICK f \in [1..n -> B] :
           /\ \A j, k \in 1..n : j < k => f[j] < f[k]
           /\ \A i \in B \ Range(f), k \in 1..n : f[k] < i
           /\ batch' = [batch EXCEPT ![p] =
                [k \in 1..n |-> [event |-> due[f[k]], attempts |-> attempts[due[f[k]]]]]]
  BY <1>2
<1>4. /\ due \in Seq(Events) /\ DOMAIN due = 1..Len(due) /\ Len(due) \in Nat
      /\ batch \in [Publishers -> Seq(BatchRow)] /\ Distinct(due)
  <2>1. due \in Seq(Events) /\ Distinct(due)
    BY DEF OutboxInv, OutboxTypeOK, ScheduleInv
  <2>2. batch \in [Publishers -> Seq(BatchRow)]
    BY DEF OutboxInv, OutboxTypeOK, BatchRow
  <2> QED
    BY <2>1, <2>2
<1>5. \A i \in B : i \in 1..Len(due)
  BY <1>4 DEF Backlog
<1>6. \A k \in 1..n : due[f[k]] # e
  <2> SUFFICES ASSUME NEW m \in 1..n, due[f[m]] = e PROVE FALSE
    OBVIOUS
  <2>1. f[m] \in 1..Len(due)
    BY <1>5
  <2>2. \A d \in A : \E k \in 1..n : due[f[k]] = d
    <3> SUFFICES ASSUME NEW d \in A PROVE \E k \in 1..n : due[f[k]] = d
      OBVIOUS
    <3>1. PICK j \in 1..Len(due) : j < f[m] /\ due[j] = d
      BY <1>1, <1>4, <2>1 DEF Before
    <3>2. j \in B
      BY <1>1, <1>4, <3>1 DEF Backlog, Pending, Abandoned
    <3>3. ~(f[m] < j)
      BY <1>4, <2>1, <3>1
    <3>4. j \in Range(f)
      BY <1>3, <3>2, <3>3
    <3> QED
      BY <3>1, <3>4, RangeOf
  <2>3. e \notin A
    <3> SUFFICES ASSUME e \in A PROVE FALSE
      OBVIOUS
    <3>1. PICK j \in 1..Len(due) : j < f[m] /\ due[j] = e
      BY <1>1, <1>4, <2>1 DEF Before
    <3> QED
      BY <1>4, <2>1, <3>1 DEF Distinct
  <2> DEFINE S == A \cup {e}
             Q == 1..n
             g == [x \in S |-> CHOOSE k \in Q : due[f[k]] = x]
  <2>4. IsFiniteSet(S) /\ Cardinality(S) = BatchLimit + 1
    BY <1>1, <2>3, FS_AddElement
  <2>5. n \in Nat /\ n <= BatchLimit /\ BatchLimit \in Nat
    BY OutboxAssumption
  <2>6. IsFiniteSet(Q) /\ Cardinality(Q) <= BatchLimit
    BY <2>5, FS_Interval
  <2>7. \A x \in S : \E k \in Q : due[f[k]] = x
    BY <2>2
  <2>8. g \in [S -> Q] /\ \A x \in S : due[f[g[x]]] = x
    BY <2>7
  <2>9. Cardinality(Q) < Cardinality(S)
    <3>1. Cardinality(Q) \in Nat
      BY <2>6, FS_CardinalityType
    <3> QED
      BY <2>4, <2>5, <2>6, <3>1
  <2> HIDE DEF S, Q, g
  <2>10. PICK x \in S, y \in S : x # y /\ g[x] = g[y]
    BY <2>4, <2>6, <2>8, <2>9, FS_PigeonHole
  <2> QED
    BY <2>8, <2>10
<1>7. \A q \in Publishers : \A k \in DOMAIN batch[q] : batch[q][k].event # e
  BY DEF HeldUp, InBatch
<1> DEFINE b == [k \in 1..n |-> [event |-> due[f[k]], attempts |-> attempts[due[f[k]]]]]
<1>8. DOMAIN b = 1..n /\ \A k \in 1..n : b[k].event # e
  BY <1>6
<1>9. batch' = [batch EXCEPT ![p] = b]
  BY <1>3
<1> HIDE DEF b
<1>10. \A q \in Publishers : \A k \in DOMAIN batch'[q] : batch'[q][k].event # e
  BY <1>4, <1>7, <1>8, <1>9
<1> QED
  BY <1>10 DEF InBatch

PartOf(b, c) == \A k \in DOMAIN b : \E l \in DOMAIN c : b[k] = c[l]

\* The rest of a batch, or a part of it, holds nothing new.
LEMMA FreshTail ==
  ASSUME NEW b \in Seq(BatchRow), b # <<>>, NEW s, NEW a, Fresh(b, s, a)
  PROVE  /\ Fresh(Tail(b), "send", a) /\ PartOf(Tail(b), b)
         /\ \A k \in DOMAIN Tail(b) : Tail(b)[k].event # b[1].event
<1>1. /\ DOMAIN b = 1..Len(b) /\ Len(b) \in Nat
      /\ DOMAIN Tail(b) = 1..(Len(b) - 1) /\ \A k \in 1..(Len(b) - 1) : Tail(b)[k] = b[k + 1]
  OBVIOUS
<1>2. \A k \in 1..(Len(b) - 1) : k + 1 \in DOMAIN b /\ k + 1 # 1
  BY <1>1
<1> QED
  BY <1>1, <1>2 DEF Fresh, PartOf

LEMMA FreshPrefix ==
  ASSUME NEW b \in Seq(BatchRow), NEW n \in 0..Len(b), NEW s, NEW a, Fresh(b, s, a)
  PROVE  /\ SubSeq(b, 1, n) \in Seq(BatchRow) /\ Fresh(SubSeq(b, 1, n), "send", a)
         /\ PartOf(SubSeq(b, 1, n), b)
<1> DEFINE t == SubSeq(b, 1, n)
<1>1. t \in Seq(BatchRow) /\ DOMAIN t = 1..n /\ \A i \in 1..n : t[i] = b[i]
  <2>1. /\ 1 \in 1..(Len(b) + 1) /\ n \in 0..Len(b) /\ 1 <= n + 1
        /\ (n - 1) + 1 = n /\ \A i \in 1..n : (1 + i) - 1 = i
    OBVIOUS
  <2>2. t \in Seq(BatchRow) /\ Len(t) = n /\ \A i \in 1..n : t[i] = b[i]
    BY <2>1, Part
  <2> QED
    BY <2>2
<1>2. \A i \in 1..n : i \in DOMAIN b
  OBVIOUS
<1> HIDE DEF t
<1>3. Fresh(t, "send", a) /\ PartOf(t, b)
  BY <1>1, <1>2 DEF Fresh, PartOf
<1> QED
  BY <1>1, <1>2, <1>3 DEF t

\* What a step of publisher p that changes its batch means for both.
LEMMA RowsMove ==
  ASSUME \A q, r \in Publishers : q = r, OutboxInv,
         NEW p \in Publishers, NEW b, NEW s,
         batch' = [batch EXCEPT ![p] = b], step' = [step EXCEPT ![p] = s],
         Fresh(b, s, attempts')
  PROVE  /\ FreshInv'
         /\ PartOf(b, batch[p]) => \A e : ~InBatch(e) => ~InBatch(e)'
<1>1. batch'[p] = b /\ step'[p] = s
  BY DEF OutboxInv, OutboxTypeOK
<1>2. \A q \in Publishers : batch'[q] = b /\ step'[q] = s
  BY <1>1
<1>3. FreshInv'
  BY <1>2 DEF FreshInv
<1>4. ASSUME NEW e, ~InBatch(e), PartOf(b, batch[p])
      PROVE  ~InBatch(e)'
  BY <1>2, <1>4 DEF InBatch, PartOf
<1> QED
  BY <1>3, <1>4

\* The present batch of p.
LEMMA FreshOf ==
  ASSUME OutboxInv, FreshInv, NEW p \in Publishers
  PROVE  batch[p] \in Seq(BatchRow) /\ Fresh(batch[p], step[p], attempts)
  BY BatchOf DEF FreshInv

\* FindPending reads the present attempts, and every event once.
LEMMA FreshPoll ==
  ASSUME \A q, r \in Publishers : q = r, OutboxInv, NEW p \in Publishers, Poll(p)
  PROVE  FreshInv' /\ FindPending(p, {})
<1>1. Locked(p) = {} /\ Updating(p) = {}
  BY DEF Locked, Updating
<1>2. FindPending(p, {})
  BY <1>1 DEF Poll
<1>3. PICK n \in 0..BatchLimit : \E f \in [1..n -> Backlog({})] :
           /\ \A j, k \in 1..n : j < k => f[j] < f[k]
           /\ \A i \in Backlog({}) \ Range(f), k \in 1..n : f[k] < i
           /\ batch' = [batch EXCEPT ![p] =
                [k \in 1..n |-> [event |-> due[f[k]], attempts |-> attempts[due[f[k]]]]]]
  BY <1>2, PollRows
<1>4. PICK f \in [1..n -> Backlog({})] :
           /\ \A j, k \in 1..n : j < k => f[j] < f[k]
           /\ batch' = [batch EXCEPT ![p] =
                [k \in 1..n |-> [event |-> due[f[k]], attempts |-> attempts[due[f[k]]]]]]
  BY <1>3
<1> DEFINE b == [k \in 1..n |-> [event |-> due[f[k]], attempts |-> attempts[due[f[k]]]]]
<1>5. /\ DOMAIN b = 1..n
      /\ \A k \in 1..n : b[k].event = due[f[k]] /\ b[k].attempts = attempts[due[f[k]]]
  OBVIOUS
<1>6. batch' = [batch EXCEPT ![p] = b] /\ step' = [step EXCEPT ![p] = "select"] /\ attempts' = attempts
  BY <1>2, <1>4 DEF FindPending, table
<1>7. \A j, k \in 1..n : due[f[j]] = due[f[k]] => j = k
  <2> SUFFICES ASSUME NEW j \in 1..n, NEW k \in 1..n, due[f[j]] = due[f[k]] PROVE j = k
    OBVIOUS
  <2>1. f[j] \in DOMAIN due /\ f[k] \in DOMAIN due /\ Distinct(due) /\ DOMAIN due = 1..Len(due)
    BY DEF Backlog, OutboxInv, ScheduleInv, OutboxTypeOK
  <2>2. f[j] = f[k] /\ f[j] \in Int
    BY <2>1 DEF Distinct
  <2>3. ~(j < k) /\ ~(k < j)
    BY <1>4, <2>2
  <2> QED
    BY <2>3
<1> HIDE DEF b
<1>8. Fresh(b, "select", attempts')
  BY <1>5, <1>6, <1>7 DEF Fresh
<1> QED
  BY <1>2, <1>6, <1>8, RowsMove

\* A step of the publisher that neither polls nor counts an attempt.
LEMMA FreshStep ==
  ASSUME \A q, r \in Publishers : q = r, OutboxInv, FreshInv, NEW p \in Publishers,
         \/ Fetched(p) \/ Abandon(p) \/ Send(p) \/ MarkPublished(p)
         \/ SendFails(p) \/ UpdateFails(p) \/ FetchBreaks(p) \/ Restart(p)
  PROVE  FreshInv' /\ \A e : ~InBatch(e) => ~InBatch(e)'
<1> DEFINE c == batch[p]
<1>1. /\ c \in Seq(BatchRow) /\ Fresh(c, step[p], attempts)
      /\ batch \in [Publishers -> Seq(BatchRow)]
  <2>1. batch \in [Publishers -> Seq(BatchRow)]
    BY DEF OutboxInv, OutboxTypeOK, BatchRow
  <2> QED
    BY <2>1, FreshOf
<1>2. attempts' = attempts
  BY DEF Fetched, Abandon, Send, MarkPublished, SendFails, UpdateFails, FetchBreaks, Restart, table
<1>3. CASE Fetched(p)
  <2>1. batch' = [batch EXCEPT ![p] = c] /\ step' = [step EXCEPT ![p] = "send"]
    BY <1>1, <1>3 DEF Fetched
  <2>2. Fresh(c, "send", attempts') /\ PartOf(c, c)
    BY <1>1, <1>2 DEF Fresh, PartOf
  <2> QED
    BY <2>1, <2>2, RowsMove
<1>4. CASE Send(p) \/ SendFails(p)
  <2>1. PICK s \in {"mark", "increment"} :
          batch' = [batch EXCEPT ![p] = c] /\ step' = [step EXCEPT ![p] = s]
    BY <1>1, <1>4 DEF Send, SendFails
  <2>2. c # <<>> /\ ~(c[1].attempts >= MaxAttempts)
    BY <1>1, <1>4 DEF Send, SendFails, Working, Exceeded
  <2>3. c[1].attempts \in Nat
    BY <2>2, BatchOf DEF BatchRow
  <2>4. Fresh(c, s, attempts') /\ PartOf(c, c)
    BY <1>1, <1>2, <2>2, <2>3, OutboxAssumption DEF Fresh, PartOf
  <2> QED
    BY <2>1, <2>4, RowsMove
<1>5. CASE Abandon(p) \/ MarkPublished(p) \/ UpdateFails(p)
  <2>1. c # <<>> /\ batch' = [batch EXCEPT ![p] = Tail(c)] /\ step' = [step EXCEPT ![p] = "send"]
    BY <1>5 DEF Abandon, MarkPublished, UpdateFails, Working, Drop
  <2>2. Fresh(Tail(c), "send", attempts') /\ PartOf(Tail(c), c)
    BY <1>1, <1>2, <2>1, FreshTail
  <2> QED
    BY <2>1, <2>2, RowsMove
<1>6. CASE FetchBreaks(p)
  <2>1. PICK n \in 0..(Len(c) - 1) :
          batch' = [batch EXCEPT ![p] = SubSeq(c, 1, n)] /\ step' = [step EXCEPT ![p] = "send"]
    BY <1>6 DEF FetchBreaks
  <2>2. n \in 0..Len(c)
    BY <1>1
  <2> DEFINE t == SubSeq(c, 1, n)
  <2>3. Fresh(t, "send", attempts') /\ PartOf(t, c)
    BY <1>1, <1>2, <2>2, FreshPrefix
  <2> QED
    BY <2>1, <2>3, RowsMove
<1>7. CASE Restart(p)
  <2>1. batch' = [batch EXCEPT ![p] = <<>>] /\ step' = [step EXCEPT ![p] = "send"]
    BY <1>7 DEF Restart
  <2>2. Fresh(<<>>, "send", attempts') /\ PartOf(<<>>, c)
    BY DEF Fresh, PartOf
  <2> QED
    BY <2>1, <2>2, RowsMove
<1> QED
  BY <1>3, <1>4, <1>5, <1>6, <1>7

\* A failed event is moved and counted: no other event of the batch is it.
LEMMA FreshIncrement ==
  ASSUME \A q, r \in Publishers : q = r, OutboxInv, FreshInv, NEW p \in Publishers,
         IncrementAttempts(p)
  PROVE  FreshInv' /\ \A e : ~InBatch(e) => ~InBatch(e)'
<1> DEFINE c == batch[p]
           t == Tail(c)
<1>1. /\ c # <<>> /\ attempts' = [attempts EXCEPT ![Current(p)] = @ + 1]
      /\ batch' = [batch EXCEPT ![p] = t] /\ step' = [step EXCEPT ![p] = "send"]
  BY DEF IncrementAttempts, Working, Drop
<1>2. c \in Seq(BatchRow) /\ Fresh(c, step[p], attempts)
  BY FreshOf
<1>3. /\ Fresh(t, "send", attempts)
      /\ PartOf(t, c) /\ \A k \in DOMAIN t : t[k].event # c[1].event
  BY <1>1, <1>2, FreshTail
<1>4. \A k \in DOMAIN t : t[k].event # Current(p)
  BY <1>1, <1>3, BatchOf
<1>5. \A l \in DOMAIN c : c[l] \in BatchRow
  BY <1>2
<1>6. \A k \in DOMAIN t : t[k].event \in Events
  BY <1>3, <1>5 DEF PartOf, BatchRow
<1>7. attempts \in [Events -> Nat]
  BY DEF OutboxInv, OutboxTypeOK
<1> HIDE DEF t
<1>8. \A k \in DOMAIN t : attempts'[t[k].event] = attempts[t[k].event]
  BY <1>1, <1>4, <1>6, <1>7
<1>9. Fresh(t, "send", attempts')
  BY <1>3, <1>8 DEF Fresh
<1> QED
  BY <1>1, <1>3, <1>9, RowsMove

LEMMA FreshNext ==
  ASSUME \A q, r \in Publishers : q = r, OutboxInv, FreshInv, [OutboxNext]_ovars
  PROVE  FreshInv'
<1>1. ASSUME UNCHANGED <<batch, step, attempts>> PROVE FreshInv'
  BY <1>1 DEF FreshInv
<1>2. CASE (\E e \in Events : Begin(e) \/ Commit(e)) \/ Ripen \/ (\E id \in remembered : Expire(id))
  BY <1>1, <1>2 DEF Begin, Commit, Ripen, Expire, table
<1>3. CASE \E p \in Publishers : PublisherStep(p)
  BY <1>3, FreshPoll, FreshStep, FreshIncrement DEF PublisherStep
<1>4. CASE \E p \in Publishers : SendFails(p) \/ UpdateFails(p) \/ FetchBreaks(p) \/ Restart(p)
  BY <1>4, FreshStep
<1>5. CASE UNCHANGED ovars
  BY <1>1, <1>5 DEF ovars, table
<1> QED
  BY <1>2, <1>3, <1>4, <1>5 DEF OutboxNext, Idle

\* A step that neither publishes an abandoned event nor moves one, or e, keeps e back.
LEMMA HeldUpKept ==
  ASSUME NEW e \in Events, HeldUp(e), Pending(e)', ~InBatch(e)', e \in Range(due'),
         \A d \in Abandoned : d \in Abandoned' /\ (Before(due, d, e) => Before(due', d, e))
  PROVE  HeldUp(e)'
<1>1. PICK A \in SUBSET Abandoned : /\ IsFiniteSet(A) /\ Cardinality(A) = BatchLimit
                                    /\ \A d \in A : Before(due, d, e)
  BY DEF HeldUp
<1>2. A \in SUBSET (Abandoned') /\ \A d \in A : Before(due', d, e)
  BY <1>1
<1> QED
  BY <1>1, <1>2 DEF HeldUp, Before, Range

LEMMA HeldUpTable ==
  ASSUME NEW e \in Events, HeldUp(e), UNCHANGED table, ~InBatch(e)'
  PROVE  HeldUp(e)'
  BY DEF HeldUp, table, Pending, Abandoned, Before, Range

\* New events, new commits and ended backoffs come behind.
LEMMA HeldUpOthers ==
  ASSUME OutboxInv, NEW e \in Events, HeldUp(e),
         (\E x \in Events : Begin(x) \/ Commit(x)) \/ Ripen
  PROVE  HeldUp(e)'
<1>1. /\ UNCHANGED <<attempts, published, batch>> /\ ~InBatch(e)'
      /\ e \in Range(due) /\ Pending(e)
  BY DEF Begin, Commit, Ripen, HeldUp, InBatch
<1>2. /\ due \in Seq(Events) /\ later \in Seq(Events) /\ committed \in Seq(Events)
      /\ Range(due) \cap Range(later) = {}
  BY DEF OutboxInv, OutboxTypeOK
<1>3. ASSUME NEW x \in Events \ Range(due), due' = Append(due, x), committed' = committed
      PROVE  HeldUp(e)'
  <2>1. e \in Range(due') /\ \A d : Before(due, d, e) => Before(due', d, e)
    BY <1>1, <1>2, <1>3, Appended
  <2>2. Pending(e)' /\ Abandoned' = Abandoned
    BY <1>1, <1>3 DEF Pending, Abandoned
  <2> QED
    BY <1>1, <2>1, <2>2, HeldUpKept
<1>4. CASE \E x \in Events : Begin(x)
  BY <1>3, <1>4 DEF Begin
<1>5. CASE Ripen
  <2>1. Head(later) \in Events /\ Head(later) \in Range(later)
    BY <1>2, <1>5 DEF Ripen, Range
  <2> QED
    BY <1>2, <1>3, <1>5, <2>1 DEF Ripen
<1>6. CASE \E x \in Events : Commit(x)
  <2>1. PICK x \in Events : committed' = Append(committed, x) /\ due' = due
    BY <1>6 DEF Commit
  <2>2. \A y : y \in Range(committed) => y \in Range(committed')
    BY <1>2, <2>1, Appended
  <2>3. Pending(e)' /\ \A d \in Abandoned : d \in Abandoned'
    BY <1>1, <2>2 DEF Pending, Abandoned, Range
  <2> QED
    BY <1>1, <2>1, <2>3, HeldUpKept
<1> QED
  BY <1>4, <1>5, <1>6

\* A publisher that runs alone marks and moves only an event of its batch that has
\* attempts left.
LEMMA HeldUpUpdates ==
  ASSUME \A q, r \in Publishers : q = r, OutboxInv, FreshInv, NEW p \in Publishers,
         MarkPublished(p) \/ IncrementAttempts(p), NEW e \in Events, HeldUp(e)
  PROVE  HeldUp(e)'
<1> DEFINE x == Current(p)
<1>1. batch[p] # <<>> /\ step[p] \in {"mark", "increment"} /\ committed' = committed
  BY DEF MarkPublished, IncrementAttempts, Working
<1>2. x = batch[p][1].event /\ x \in Events /\ 1 \in DOMAIN batch[p] /\ batch[p][1] \in BatchRow
  BY <1>1, BatchOf
<1>3. attempts[x] < MaxAttempts
  BY <1>1, <1>2 DEF FreshInv, Fresh
<1>4. x # e /\ e \in Range(due) /\ Pending(e)
  BY <1>2 DEF HeldUp, InBatch
<1>5. /\ due \in Seq(Events) /\ Distinct(due) /\ attempts \in [Events -> Nat]
      /\ committed \in Seq(Events)
  BY DEF OutboxInv, OutboxTypeOK, ScheduleInv
<1>6. x \notin Abandoned /\ Abandoned \subseteq Events
  <2>1. \A d \in Range(committed) : d \in Events
    BY <1>5, RangeOf
  <2>2. attempts[x] \in Nat
    BY <1>2, <1>5
  <2> QED
    BY <1>3, <2>1, <2>2, OutboxAssumption DEF Abandoned
<1>7. ~InBatch(e)'
  BY FreshStep, FreshIncrement DEF HeldUp
<1>8. Range(committed)' = Range(committed)
  BY <1>1 DEF Range
<1> HIDE DEF x
<1>9. CASE MarkPublished(p)
  <2>1. published' = published \cup {x} /\ due' = due /\ attempts' = attempts
    BY <1>9 DEF MarkPublished, x
  <2>2. Pending(e)' /\ \A d \in Abandoned : d \in Abandoned'
    BY <1>4, <1>6, <1>8, <2>1 DEF Pending, Abandoned
  <2> QED
    BY <1>4, <1>7, <2>1, <2>2, HeldUpKept
<1>10. CASE IncrementAttempts(p)
  <2>1. /\ published' = published /\ due' = Without(due, x)
        /\ attempts' = [attempts EXCEPT ![x] = @ + 1]
    BY <1>10 DEF IncrementAttempts, x
  <2>2. e \in Range(due') /\ \A d : Before(due, d, e) /\ d # x => Before(due', d, e)
    BY <1>4, <1>5, <2>1, Removed
  <2>3. \A d \in Abandoned : attempts'[d] = attempts[d] /\ d # x
    BY <1>5, <1>6, <2>1
  <2>4. Pending(e)' /\ \A d \in Abandoned : d \in Abandoned'
    BY <1>4, <1>8, <2>1, <2>3 DEF Pending, Abandoned
  <2> QED
    BY <1>7, <2>2, <2>3, <2>4, HeldUpKept
<1> QED
  BY <1>9, <1>10

LEMMA HeldUpNext ==
  ASSUME \A q, r \in Publishers : q = r, OutboxInv, FreshInv, [OutboxNext]_ovars,
         NEW e \in Events, HeldUp(e)
  PROVE  HeldUp(e)'
<1>1. CASE (\E x \in Events : Begin(x) \/ Commit(x)) \/ Ripen
  BY <1>1, HeldUpOthers
<1>2. ASSUME NEW p \in Publishers, Poll(p) PROVE HeldUp(e)'
  <2>1. FindPending(p, {}) /\ UNCHANGED table
    BY <1>2, FreshPoll DEF FindPending
  <2> QED
    BY <2>1, HeldUpNotPolled, HeldUpTable
<1>3. ASSUME NEW p \in Publishers,
             \/ Fetched(p) \/ Abandon(p) \/ Send(p)
             \/ SendFails(p) \/ UpdateFails(p) \/ FetchBreaks(p) \/ Restart(p)
      PROVE  HeldUp(e)'
  <2>1. UNCHANGED table
    BY <1>3 DEF Fetched, Abandon, Send, SendFails, UpdateFails, FetchBreaks, Restart
  <2>2. ~InBatch(e)'
    BY <1>3, FreshStep DEF HeldUp
  <2> QED
    BY <2>1, <2>2, HeldUpTable
<1>4. CASE \E p \in Publishers : PublisherStep(p)
  BY <1>2, <1>3, <1>4, HeldUpUpdates DEF PublisherStep
<1>5. CASE \E p \in Publishers : SendFails(p) \/ UpdateFails(p) \/ FetchBreaks(p) \/ Restart(p)
  BY <1>3, <1>5
<1>6. ASSUME UNCHANGED <<table, batch>> PROVE HeldUp(e)'
  <2>1. ~InBatch(e)'
    BY <1>6 DEF HeldUp, InBatch
  <2> QED
    BY <1>6, <2>1, HeldUpTable
<1>7. CASE (\E id \in remembered : Expire(id)) \/ UNCHANGED ovars
  BY <1>6, <1>7 DEF Expire, ovars
<1> QED
  BY <1>1, <1>4, <1>5, <1>7 DEF OutboxNext, Idle

\* With one publisher, an event behind as many abandoned ones as a poll returns is
\* never read, sent or marked again: FindPending has no condition on attempts, and
\* what it skips in memory keeps its place.  This is why EventuallyPublished needs
\* its condition.
THEOREM HeldUpForEver ==
  ASSUME \A p, q \in Publishers : p = q, NEW e \in Events
  PROVE  OutboxSpec => [](HeldUp(e) => [](HeldUp(e) /\ e \notin published /\ ~InBatch(e)))
<1>1. OutboxInit => FreshInv
  BY DEF OutboxInit, FreshInv, Fresh
<1>2. OutboxInv /\ FreshInv /\ [OutboxNext]_ovars => FreshInv'
  BY FreshNext
<1>3. OutboxInv /\ FreshInv /\ [OutboxNext]_ovars /\ HeldUp(e) => HeldUp(e)'
  BY HeldUpNext
<1>4. HeldUp(e) => e \notin published /\ ~InBatch(e)
  BY DEF HeldUp, Pending
<1> QED
  BY <1>1, <1>2, <1>3, <1>4, OutboxInvariance, PTL DEF OutboxSpec
=============================================================================

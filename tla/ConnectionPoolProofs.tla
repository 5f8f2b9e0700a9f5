------------------------ MODULE ConnectionPoolProofs ------------------------
(***************************************************************************)
(* Proofs about ConnectionPool for any finite number of goroutines.        *)
(*                                                                         *)
(* What a goroutine holds follows from what is left of its job: each job   *)
(* is nested, and stays so when its first point is passed.  A goroutine    *)
(* that asks for a connection has one transaction open at most, and one    *)
(* that has the wallet waits for nothing but a connection.                 *)
(***************************************************************************)
EXTENDS ConnectionPool, FiniteSetTheorems, TLAPS

Points == {"query", "begin", "lock", "insert", "end"}

AllJobs == ProcessTransactionJobs \cup
           {Resolve, ResolveRejected, ResolveRefused, ResolveNotFound, CreateWallet, Read}

\* the open transactions before and after each point of s
Fits(s, d) ==
  /\ d \in [1..(Len(s) + 1) -> 0..2]
  /\ d[Len(s) + 1] = 0
  /\ \A i \in 1..Len(s) :
       /\ s[i] = "begin" => d[i] <= 1 /\ d[i + 1] = d[i] + 1
       /\ s[i] = "end" => d[i + 1] = d[i] - 1
       /\ s[i] \in {"query", "lock", "insert"} => d[i + 1] = d[i]
       /\ s[i] = "query" => d[i] <= 1
       /\ s[i] = "insert" => i < Len(s) /\ s[i + 1] = "end"
       /\ s[i] = "lock" => \/ i < Len(s) /\ s[i + 1] = "end"
                           \/ i + 1 < Len(s) /\ s[i + 1] = "query" /\ s[i + 2] = "end"

\* what is left of a job of which h transactions are open
Nested(s, h) == s \in Seq(Points) /\ \E d : Fits(s, d) /\ d[1] = h

\* the transaction ends next
Ending(s) == Len(s) >= 1 /\ s[1] = "end"

\* it ends next, or after one more query
Locking(s) == Ending(s) \/ (Len(s) >= 2 /\ s[1] = "query" /\ s[2] = "end")

PoolTypeOK ==
  /\ todo \in [Goroutines -> Seq(Points)]
  /\ held \in [Goroutines -> 0..2]
  /\ owner \in Goroutines \cup {None}
  /\ sharers \subseteq Goroutines
  /\ phase \in [Processes -> {"running", "stopping", "closing", "stopped"}]

JobsNested == \A g \in Goroutines : Nested(todo[g], held[g])

LocksEnd ==
  /\ owner # None => Locking(todo[owner])
  /\ \A g \in sharers : Ending(todo[g])

ClosingIdle ==
  \A p \in Processes : phase[p] \in {"closing", "stopped"} => \A g \in Members(p) : todo[g] = <<>>

PoolInv == PoolTypeOK /\ JobsNested /\ LocksEnd /\ ClosingIdle

-----------------------------------------------------------------------------
(***************************************************************************)
(* Jobs.                                                                   *)
(***************************************************************************)

\* A job that is over holds nothing.
LEMMA NothingLeft ==
  /\ Nested(<<>>, 0)
  /\ \A h : Nested(<<>>, h) => h = 0
<1>1. Fits(<<>>, [i \in 1..1 |-> 0])
  BY DEF Fits
<1>2. Nested(<<>>, 0)
  BY <1>1 DEF Nested
<1> QED
  BY <1>2 DEF Nested, Fits

\* Passing a point keeps what is left of a job nested.
LEMMA PassPoint ==
  ASSUME NEW s \in Seq(Points), s # <<>>, NEW h, Nested(s, h)
  PROVE  /\ h \in 0..2
         /\ Tail(s) \in Seq(Points)
         /\ s[1] = "begin" => h <= 1 /\ Nested(Tail(s), h + 1)
         /\ s[1] = "end" => Nested(Tail(s), h - 1)
         /\ s[1] \in {"query", "lock", "insert"} => Nested(Tail(s), h)
         /\ s[1] = "query" => h <= 1
         /\ s[1] = "insert" => Ending(Tail(s))
         /\ s[1] = "lock" => Locking(Tail(s))
<1>1. PICK d : Fits(s, d) /\ d[1] = h
  BY DEF Nested
<1> DEFINE n == Len(s)
           t == Tail(s)
           e == [i \in 1..n |-> d[i + 1]]
<1>2. /\ n \in Nat /\ n >= 1 /\ t \in Seq(Points) /\ Len(t) = n - 1
      /\ \A i \in 1..(n - 1) : t[i] = s[i + 1]
  OBVIOUS
<1>3. d \in [1..(n + 1) -> 0..2] /\ d[n + 1] = 0
  BY <1>1 DEF Fits
<1>4. e \in [1..(Len(t) + 1) -> 0..2] /\ e[Len(t) + 1] = 0 /\ e[1] = d[2]
  BY <1>2, <1>3
<1>5. ASSUME NEW i \in 1..Len(t)
      PROVE  /\ t[i] = s[i + 1] /\ e[i] = d[i + 1] /\ e[i + 1] = d[i + 2] /\ i + 1 \in 1..n
             /\ i < Len(t) => t[i + 1] = s[i + 2]
             /\ i + 1 < Len(t) => t[i + 2] = s[i + 3]
  BY <1>2
<1> HIDE DEF n, t, e
<1>6. Fits(t, e)
  <2>1. ASSUME NEW i \in 1..Len(t)
        PROVE  /\ t[i] = "begin" => e[i] <= 1 /\ e[i + 1] = e[i] + 1
               /\ t[i] = "end" => e[i + 1] = e[i] - 1
               /\ t[i] \in {"query", "lock", "insert"} => e[i + 1] = e[i]
               /\ t[i] = "query" => e[i] <= 1
               /\ t[i] = "insert" => i < Len(t) /\ t[i + 1] = "end"
               /\ t[i] = "lock" => \/ i < Len(t) /\ t[i + 1] = "end"
                                   \/ i + 1 < Len(t) /\ t[i + 1] = "query" /\ t[i + 2] = "end"
    <3> DEFINE j == i + 1
    <3>1. j \in 1..n /\ j \in Nat /\ i \in Nat
      BY <1>2, <1>5
    <3>2. /\ s[j] = "begin" => d[j] <= 1 /\ d[j + 1] = d[j] + 1
          /\ s[j] = "end" => d[j + 1] = d[j] - 1
          /\ s[j] \in {"query", "lock", "insert"} => d[j + 1] = d[j]
          /\ s[j] = "query" => d[j] <= 1
          /\ s[j] = "insert" => j < n /\ s[j + 1] = "end"
          /\ s[j] = "lock" => \/ j < n /\ s[j + 1] = "end"
                              \/ j + 1 < n /\ s[j + 1] = "query" /\ s[j + 2] = "end"
      BY <1>1, <3>1 DEF Fits, n
    <3>3. t[i] = s[j] /\ e[i] = d[j] /\ e[i + 1] = d[j + 1]
      BY <1>5, <3>1
    <3>4. /\ j < n => i < Len(t) /\ t[i + 1] = s[j + 1]
          /\ j + 1 < n => i + 1 < Len(t) /\ t[i + 2] = s[j + 2]
      <4>1. Len(t) = n - 1 /\ n \in Nat /\ i \in Nat
        BY <1>2
      <4>2. j + 1 = i + 2 /\ j + 2 = i + 3 /\ (j < n => i < Len(t)) /\ (j + 1 < n => i + 1 < Len(t))
        BY <4>1
      <4> QED
        BY <1>5, <4>2
    <3> HIDE DEF j
    <3> QED
      BY <3>1, <3>2, <3>3, <3>4, <1>2
  <2> QED
    BY <1>4, <2>1 DEF Fits
<1>7. Nested(t, d[2])
  BY <1>2, <1>4, <1>6 DEF Nested
<1>8. /\ s[1] = "begin" => d[1] <= 1 /\ d[2] = d[1] + 1
      /\ s[1] = "end" => d[2] = d[1] - 1
      /\ s[1] \in {"query", "lock", "insert"} => d[2] = d[1]
      /\ s[1] = "query" => d[1] <= 1
      /\ s[1] = "insert" => 1 < n /\ s[2] = "end"
      /\ s[1] = "lock" => \/ 1 < n /\ s[2] = "end"
                          \/ 2 < n /\ s[2] = "query" /\ s[3] = "end"
  BY <1>1, <1>2 DEF Fits, n
<1>9. /\ s[1] = "insert" => Ending(t)
      /\ s[1] = "lock" => Locking(t)
  BY <1>2, <1>8 DEF Ending, Locking
<1> QED
  BY <1>1, <1>2, <1>3, <1>7, <1>8, <1>9 DEF t

\* The open transactions before each point of every job.
LEMMA JobsAreNested ==
  ASSUME NEW s \in AllJobs
  PROVE  s \in Seq(Points) /\ Nested(s, 0)
<1>1. Settle \in Seq(Points) /\ Nested(Settle, 0)
  <2>1. Settle \in Seq(Points)
    BY DEF Settle, Points
  <2>2. Fits(Settle, <<0, 0, 1, 1, 0>>)
    BY DEF Fits, Settle
  <2> QED
    BY <2>1, <2>2 DEF Nested
<1>2. Duplicate \in Seq(Points) /\ Nested(Duplicate, 0)
  <2>1. Duplicate \in Seq(Points)
    BY DEF Duplicate, Points
  <2>2. Fits(Duplicate, <<0, 0, 1, 1, 1, 0, 0>>)
    BY DEF Fits, Duplicate
  <2> QED
    BY <2>1, <2>2 DEF Nested
<1>3. Refused \in Seq(Points) /\ Nested(Refused, 0)
  <2>1. Refused \in Seq(Points)
    BY DEF Refused, Points
  <2>2. Fits(Refused, <<0, 0, 1, 1, 0, 0, 1, 1, 0>>)
    BY DEF Fits, Refused
  <2> QED
    BY <2>1, <2>2 DEF Nested
<1>4. Parked \in Seq(Points) /\ Nested(Parked, 0)
  <2>1. Parked \in Seq(Points)
    BY DEF Parked, Points
  <2>2. Fits(Parked, <<0, 0, 1, 1, 0>>)
    BY DEF Fits, Parked
  <2> QED
    BY <2>1, <2>2 DEF Nested
<1>5. Rejected \in Seq(Points) /\ Nested(Rejected, 0)
  <2>1. Rejected \in Seq(Points)
    BY DEF Rejected, Points
  <2>2. Fits(Rejected, <<0, 0, 1, 1, 0, 0>>)
    BY DEF Fits, Rejected
  <2> QED
    BY <2>1, <2>2 DEF Nested
<1>6. Loss \in Seq(Points) /\ Nested(Loss, 0)
  <2>1. Loss \in Seq(Points)
    BY DEF Loss, Points
  <2>2. Fits(Loss, <<0, 0, 1, 1, 1, 0, 0>>)
    BY DEF Fits, Loss
  <2> QED
    BY <2>1, <2>2 DEF Nested
<1>7. WrongReference \in Seq(Points) /\ Nested(WrongReference, 0)
  <2>1. WrongReference \in Seq(Points)
    BY DEF WrongReference, Points
  <2>2. Fits(WrongReference, <<0, 0, 1, 2, 2, 1, 1, 0>>)
    BY DEF Fits, WrongReference
  <2> QED
    BY <2>1, <2>2 DEF Nested
<1>8. Resolve \in Seq(Points) /\ Nested(Resolve, 0)
  <2>1. Resolve \in Seq(Points)
    BY DEF Resolve, Points
  <2>2. Fits(Resolve, <<0, 0, 1, 1, 1, 0>>)
    BY DEF Fits, Resolve
  <2> QED
    BY <2>1, <2>2 DEF Nested
<1>9. ResolveRefused \in Seq(Points) /\ Nested(ResolveRefused, 0)
  <2>1. ResolveRefused \in Seq(Points)
    BY DEF ResolveRefused, Points
  <2>2. Fits(ResolveRefused, <<0, 0, 1, 1, 1, 0, 1, 0>>)
    BY DEF Fits, ResolveRefused
  <2> QED
    BY <2>1, <2>2 DEF Nested
<1>10. ResolveRejected \in Seq(Points) /\ Nested(ResolveRejected, 0)
  <2>1. ResolveRejected \in Seq(Points)
    BY DEF ResolveRejected, Points
  <2>2. Fits(ResolveRejected, <<0, 0, 1, 1, 0, 0>>)
    BY DEF Fits, ResolveRejected
  <2> QED
    BY <2>1, <2>2 DEF Nested
<1>11. ResolveNotFound \in Seq(Points) /\ Nested(ResolveNotFound, 0)
  <2>1. ResolveNotFound \in Seq(Points)
    BY DEF ResolveNotFound, Points
  <2>2. Fits(ResolveNotFound, <<0, 0, 1, 1, 0, 1, 0, 0>>)
    BY DEF Fits, ResolveNotFound
  <2> QED
    BY <2>1, <2>2 DEF Nested
<1>12. CreateWallet \in Seq(Points) /\ Nested(CreateWallet, 0)
  <2>1. CreateWallet \in Seq(Points)
    BY DEF CreateWallet, Points
  <2>2. Fits(CreateWallet, <<0, 0, 1, 0>>)
    BY DEF Fits, CreateWallet
  <2> QED
    BY <2>1, <2>2 DEF Nested
<1>13. Read \in Seq(Points) /\ Nested(Read, 0)
  <2>1. Read \in Seq(Points)
    BY DEF Read, Points
  <2>2. Fits(Read, <<0, 0>>)
    BY DEF Fits, Read
  <2> QED
    BY <2>1, <2>2 DEF Nested
<1> QED
  BY <1>1, <1>2, <1>3, <1>4, <1>5, <1>6, <1>7, <1>8, <1>9, <1>10, <1>11, <1>12, <1>13 DEF AllJobs, ProcessTransactionJobs

-----------------------------------------------------------------------------
(***************************************************************************)
(* The pool.                                                               *)
(***************************************************************************)

\* With two connections for each of its goroutines, a process has one left for a
\* goroutine that has a transaction open at most.
LEMMA OneLeft ==
  ASSUME NEW g \in Goroutines, held \in [Goroutines -> 0..2], held[g] <= 1,
         2 * Cardinality(Members(Home(g))) <= MaxConns
  PROVE  Available(Home(g))
<1> DEFINE M == Members(Home(g))
           S == M \X (1..2)
           c == <<g, 2>>
<1>1. IsFiniteSet(M) /\ g \in M /\ Cardinality(M) \in Nat
  <2>1. M \subseteq Goroutines /\ g \in M
    BY DEF Members
  <2> QED
    BY <2>1, PoolAssumption, FS_Subset, FS_CardinalityType
<1>2. IsFiniteSet(1..2) /\ Cardinality(1..2) = 2
  <2>1. 1 \in Int /\ 2 \in Int /\ 2 - 1 + 1 = 2 /\ ~(1 > 2)
    OBVIOUS
  <2> QED
    BY <2>1, FS_Interval
<1>3. IsFiniteSet(S) /\ Cardinality(S) = Cardinality(M) * 2
  BY <1>1, <1>2, FS_Product
<1>4. c \in S /\ IsFiniteSet(S \ {c}) /\ Cardinality(S \ {c}) = Cardinality(S) - 1
  <2>1. c \in S
    BY <1>1
  <2> HIDE DEF S, c
  <2> QED
    BY <1>3, <2>1, FS_RemoveElement
<1>5. Borrowed(Home(g)) \subseteq S \ {c}
  <2> SUFFICES ASSUME NEW b \in Borrowed(Home(g)) PROVE b \in S /\ b # c
    OBVIOUS
  <2>1. b = <<b[1], b[2]>> /\ b[1] \in M /\ b[2] \in 1..MaxConns /\ b[2] <= held[b[1]]
    BY DEF Borrowed
  <2>2. b[1] \in Goroutines /\ held[b[1]] \in 0..2 /\ MaxConns \in Nat
    BY <2>1, PoolAssumption DEF Members
  <2>3. b[2] \in 1..2
    BY <2>1, <2>2
  <2>4. b # c
    BY <2>1
  <2> QED
    BY <2>1, <2>3, <2>4
<1>6. Cardinality(Borrowed(Home(g))) <= Cardinality(S \ {c}) /\ IsFiniteSet(Borrowed(Home(g)))
  BY <1>4, <1>5, FS_Subset
<1>7. Cardinality(Borrowed(Home(g))) \in Nat
  BY <1>6, FS_CardinalityType
<1> QED
  BY <1>1, <1>3, <1>4, <1>6, <1>7, PoolAssumption DEF Available, InUse

\* A process of which no goroutine holds anything has borrowed nothing.
LEMMA NoneLeft ==
  ASSUME NEW p, \A g \in Members(p) : held[g] = 0
  PROVE  InUse(p) = 0
<1>1. Borrowed(p) = {}
  BY PoolAssumption DEF Borrowed
<1> QED
  BY <1>1, FS_EmptySet DEF InUse

-----------------------------------------------------------------------------
(***************************************************************************)
(* The invariant.                                                          *)
(***************************************************************************)

\* How many transactions a nested rest of a job may leave open.
LEMMA NestedRange ==
  ASSUME NEW s, NEW h, Nested(s, h)
  PROVE  s \in Seq(Points) /\ h \in 0..2
<1>1. s \in Seq(Points)
  BY DEF Nested
<1>2. PICK d : Fits(s, d) /\ d[1] = h
  BY DEF Nested
<1>3. Len(s) \in Nat /\ 1 \in 1..(Len(s) + 1)
  BY <1>1
<1> QED
  BY <1>1, <1>2, <1>3 DEF Fits

\* The goroutine that has the wallet and the ones that refer to it are past the
\* points at which a goroutine waits for the wallet or begins a transaction.
LEMMA LockersPoint ==
  ASSUME PoolInv, NEW g \in Goroutines, todo[g] # <<>>
  PROVE  /\ todo[g] \in Seq(Points) /\ Head(todo[g]) = todo[g][1]
         /\ owner = g => todo[g][1] \in {"query", "end"}
         /\ owner = g /\ todo[g][1] = "query" => Ending(Tail(todo[g]))
         /\ g \in sharers => todo[g][1] = "end"
<1>1. todo[g] \in Seq(Points) /\ Head(todo[g]) = todo[g][1]
  BY DEF PoolInv, PoolTypeOK
<1>2. owner = g => Locking(todo[g])
  BY PoolAssumption DEF PoolInv, LocksEnd
<1>3. g \in sharers => Ending(todo[g])
  BY DEF PoolInv, LocksEnd
<1>4. Len(todo[g]) >= 2 => Len(Tail(todo[g])) >= 1 /\ Tail(todo[g])[1] = todo[g][2]
  BY <1>1
<1> QED
  BY <1>1, <1>2, <1>3, <1>4 DEF Locking, Ending

\* A goroutine goes on with a rest of a job that fits what it then holds.
LEMMA GoesOn ==
  ASSUME PoolInv, NEW g \in Goroutines, NEW s, NEW h, Nested(s, h),
         todo' = [todo EXCEPT ![g] = s], held' = [held EXCEPT ![g] = h]
  PROVE  /\ todo' \in [Goroutines -> Seq(Points)] /\ held' \in [Goroutines -> 0..2]
         /\ JobsNested'
         /\ todo'[g] = s /\ held'[g] = h
         /\ \A k \in Goroutines \ {g} : todo'[k] = todo[k] /\ held'[k] = held[k]
<1>1. todo \in [Goroutines -> Seq(Points)] /\ held \in [Goroutines -> 0..2] /\ JobsNested
  BY DEF PoolInv, PoolTypeOK
<1>2. s \in Seq(Points) /\ h \in 0..2
  BY NestedRange
<1>3. /\ todo' \in [Goroutines -> Seq(Points)] /\ held' \in [Goroutines -> 0..2]
      /\ todo'[g] = s /\ held'[g] = h
      /\ \A k \in Goroutines \ {g} : todo'[k] = todo[k] /\ held'[k] = held[k]
  BY <1>1, <1>2
<1>4. JobsNested'
  BY <1>1, <1>3 DEF JobsNested
<1> QED
  BY <1>3, <1>4

\* A process whose goroutines are at work is not closing.
LEMMA StaysIdle ==
  ASSUME PoolInv, NEW g \in Goroutines, todo[g] # <<>> \/ phase[Home(g)] = "running",
         UNCHANGED phase, \A k \in Goroutines \ {g} : todo'[k] = todo[k]
  PROVE  ClosingIdle'
<1>1. Home(g) \in Processes /\ g \in Members(Home(g))
  BY DEF Home, Processes, Members
<1>2. phase[Home(g)] \notin {"closing", "stopped"}
  BY <1>1 DEF PoolInv, ClosingIdle
<1>3. \A p \in Processes : phase[p] \in {"closing", "stopped"} => g \notin Members(p)
  BY <1>2 DEF Members
<1> QED
  BY <1>3 DEF PoolInv, ClosingIdle, Members, Home

LEMMA PoolInitInv == PoolInit => PoolInv
<1> SUFFICES ASSUME PoolInit PROVE PoolInv
  OBVIOUS
<1>1. PoolTypeOK
  BY DEF PoolInit, PoolTypeOK
<1>2. JobsNested
  BY NothingLeft DEF PoolInit, JobsNested
<1>3. LocksEnd /\ ClosingIdle
  BY DEF PoolInit, LocksEnd, ClosingIdle
<1> QED
  BY <1>1, <1>2, <1>3 DEF PoolInv

\* Start, with any job of the duty of the goroutine.
LEMMA StartInv ==
  ASSUME PoolInv, NEW g \in Goroutines, NEW job \in Jobs(Duty[g]), Start(g, job)
  PROVE  PoolInv'
<1>1. job \in AllJobs
  BY PoolAssumption DEF Jobs, AllJobs, Duties
<1>2. Nested(job, 0)
  BY <1>1, JobsAreNested
<1>3. held[g] = 0
  BY NothingLeft DEF PoolInv, JobsNested, Start
<1>4. todo' = [todo EXCEPT ![g] = job] /\ held' = [held EXCEPT ![g] = 0]
  BY <1>3 DEF Start, PoolInv, PoolTypeOK
<1>5. /\ todo' \in [Goroutines -> Seq(Points)] /\ held' \in [Goroutines -> 0..2]
      /\ JobsNested'
      /\ \A k \in Goroutines \ {g} : todo'[k] = todo[k]
  BY <1>2, <1>4, GoesOn
<1>6. ClosingIdle'
  BY <1>5, StaysIdle DEF Start, Accepts
<1>7. LocksEnd'
  <2>1. owner # g /\ g \notin sharers
    BY PoolAssumption DEF Start, PoolInv, PoolTypeOK, LocksEnd, Locking, Ending
  <2> QED
    BY <1>5, <2>1 DEF Start, PoolInv, PoolTypeOK, LocksEnd, Locking, Ending
<1> QED
  BY <1>5, <1>6, <1>7 DEF PoolInv, PoolTypeOK, Start

\* Query, Begin, Lock, Insert and End.
LEMMA RunInv ==
  ASSUME PoolInv, NEW g \in Goroutines, Run(g)
  PROVE  PoolInv'
<1> DEFINE s == todo[g]
           h == held[g]
<1>1. /\ s # <<>> /\ todo' = [todo EXCEPT ![g] = Tail(s)] /\ UNCHANGED phase
  BY DEF Run, Query, Begin, Lock, Insert, End, At, Advance
<1>2. /\ s \in Seq(Points) /\ Head(s) = s[1] /\ Nested(s, h) /\ h \in 0..2
      /\ owner = g => s[1] \in {"query", "end"}
      /\ owner = g /\ s[1] = "query" => Ending(Tail(s))
      /\ g \in sharers => s[1] = "end"
  BY <1>1, LockersPoint DEF PoolInv, PoolTypeOK, JobsNested
<1>3. /\ s[1] = "begin" => h <= 1 /\ Nested(Tail(s), h + 1)
      /\ s[1] = "end" => Nested(Tail(s), h - 1)
      /\ s[1] \in {"query", "lock", "insert"} => Nested(Tail(s), h)
      /\ s[1] = "insert" => Ending(Tail(s))
      /\ s[1] = "lock" => Locking(Tail(s))
  BY <1>1, <1>2, PassPoint
<1>4. ASSUME NEW k, Nested(Tail(s), k), held' = [held EXCEPT ![g] = k]
      PROVE  /\ todo' \in [Goroutines -> Seq(Points)] /\ held' \in [Goroutines -> 0..2]
             /\ JobsNested' /\ ClosingIdle' /\ todo'[g] = Tail(s)
             /\ \A b \in Goroutines \ {g} : todo'[b] = todo[b]
  <2>1. /\ todo' \in [Goroutines -> Seq(Points)] /\ held' \in [Goroutines -> 0..2]
        /\ JobsNested' /\ todo'[g] = Tail(s)
        /\ \A b \in Goroutines \ {g} : todo'[b] = todo[b]
    BY <1>1, <1>4, GoesOn
  <2> QED
    BY <1>1, <2>1, StaysIdle
<1> HIDE DEF s, h
<1>5. UNCHANGED held => held' = [held EXCEPT ![g] = h]
  BY DEF PoolInv, PoolTypeOK, h
<1>6. CASE Query(g)
  <2>1. s[1] = "query" /\ UNCHANGED <<held, owner, sharers>>
    BY <1>2, <1>6 DEF Query, At, s
  <2>2. /\ todo' \in [Goroutines -> Seq(Points)] /\ held' \in [Goroutines -> 0..2]
        /\ JobsNested' /\ ClosingIdle' /\ todo'[g] = Tail(s)
        /\ \A b \in Goroutines \ {g} : todo'[b] = todo[b]
    BY <1>3, <1>4, <1>5, <2>1
  <2>3. LocksEnd'
    BY <1>2, <2>1, <2>2 DEF PoolInv, PoolTypeOK, LocksEnd, Locking
  <2> QED
    BY <1>1, <2>1, <2>2, <2>3 DEF PoolInv, PoolTypeOK
<1>7. CASE Begin(g)
  <2>1. s[1] = "begin" /\ UNCHANGED <<owner, sharers>> /\ held' = [held EXCEPT ![g] = h + 1]
    BY <1>2, <1>7 DEF Begin, At, s, h
  <2>2. /\ todo' \in [Goroutines -> Seq(Points)] /\ held' \in [Goroutines -> 0..2]
        /\ JobsNested' /\ ClosingIdle'
        /\ \A b \in Goroutines \ {g} : todo'[b] = todo[b]
    BY <1>3, <1>4, <2>1
  <2>3. LocksEnd'
    BY <1>2, <2>1, <2>2 DEF PoolInv, PoolTypeOK, LocksEnd, Locking
  <2> QED
    BY <1>1, <2>1, <2>2, <2>3 DEF PoolInv, PoolTypeOK
<1>8. CASE Lock(g)
  <2>1. s[1] = "lock" /\ owner' = g /\ sharers \subseteq {g} /\ UNCHANGED <<held, sharers>>
    BY <1>2, <1>8 DEF Lock, At, s
  <2>2. /\ todo' \in [Goroutines -> Seq(Points)] /\ held' \in [Goroutines -> 0..2]
        /\ JobsNested' /\ ClosingIdle' /\ todo'[g] = Tail(s)
    BY <1>3, <1>4, <1>5, <2>1
  <2>3. LocksEnd'
    BY <1>2, <1>3, <2>1, <2>2 DEF LocksEnd
  <2> QED
    BY <1>1, <2>1, <2>2, <2>3 DEF PoolInv, PoolTypeOK
<1>9. CASE Insert(g)
  <2>1. s[1] = "insert" /\ sharers' = sharers \cup {g} /\ UNCHANGED <<held, owner>>
    BY <1>2, <1>9 DEF Insert, At, s
  <2>2. /\ todo' \in [Goroutines -> Seq(Points)] /\ held' \in [Goroutines -> 0..2]
        /\ JobsNested' /\ ClosingIdle' /\ todo'[g] = Tail(s)
        /\ \A b \in Goroutines \ {g} : todo'[b] = todo[b]
    BY <1>3, <1>4, <1>5, <2>1
  <2>3. LocksEnd'
    BY <1>2, <1>3, <2>1, <2>2 DEF PoolInv, PoolTypeOK, LocksEnd
  <2> QED
    BY <1>1, <2>1, <2>2, <2>3 DEF PoolInv, PoolTypeOK
<1>10. CASE End(g)
  <2>1. /\ s[1] = "end" /\ held' = [held EXCEPT ![g] = h - 1]
        /\ owner' = (IF owner \in {g} THEN None ELSE owner) /\ sharers' = sharers \ {g}
    BY <1>2, <1>10 DEF End, At, Release, Unlock, s, h
  <2>2. /\ todo' \in [Goroutines -> Seq(Points)] /\ held' \in [Goroutines -> 0..2]
        /\ JobsNested' /\ ClosingIdle'
        /\ \A b \in Goroutines \ {g} : todo'[b] = todo[b]
    BY <1>3, <1>4, <2>1
  <2>3. LocksEnd'
    BY <2>1, <2>2 DEF PoolInv, PoolTypeOK, LocksEnd
  <2> QED
    BY <1>1, <2>1, <2>2, <2>3 DEF PoolInv, PoolTypeOK
<1> QED
  BY <1>6, <1>7, <1>8, <1>9, <1>10 DEF Run

\* A cancelled call, of the worker or of a client that has gone.
LEMMA GiveUpInv ==
  ASSUME PoolInv, NEW g \in Goroutines, GiveUp(g)
  PROVE  PoolInv'
<1>1. /\ todo[g] # <<>> /\ todo' = [todo EXCEPT ![g] = <<>>] /\ held' = [held EXCEPT ![g] = 0]
      /\ owner' = (IF owner \in {g} THEN None ELSE owner) /\ sharers' = sharers \ {g}
      /\ UNCHANGED phase
  BY DEF GiveUp, Unlock
<1>2. /\ todo' \in [Goroutines -> Seq(Points)] /\ held' \in [Goroutines -> 0..2]
      /\ JobsNested'
      /\ \A b \in Goroutines \ {g} : todo'[b] = todo[b]
  BY <1>1, NothingLeft, GoesOn
<1>3. ClosingIdle'
  BY <1>1, <1>2, StaysIdle
<1>4. LocksEnd'
  BY <1>1, <1>2 DEF PoolInv, PoolTypeOK, LocksEnd
<1> QED
  BY <1>1, <1>2, <1>3, <1>4 DEF PoolInv, PoolTypeOK

\* Stop, Drained, ClosePool, Kill and Restart.
LEMMA ProcessInv ==
  ASSUME PoolInv, NEW p \in Processes,
         Stop(p) \/ Drained(p) \/ ClosePool(p) \/ Kill(p) \/ Restart(p)
  PROVE  PoolInv'
<1>1. CASE Kill(p)
  <2>1. /\ todo' = [g \in Goroutines |-> IF Home(g) = p THEN <<>> ELSE todo[g]]
        /\ held' = [g \in Goroutines |-> IF Home(g) = p THEN 0 ELSE held[g]]
        /\ owner' = (IF owner \in Members(p) THEN None ELSE owner)
        /\ sharers' = sharers \ Members(p)
        /\ phase' = [phase EXCEPT ![p] = "stopped"]
    BY <1>1 DEF Kill, Unlock
  <2>2. PoolTypeOK'
    BY <2>1 DEF PoolInv, PoolTypeOK
  <2>3. JobsNested'
    BY <2>1, NothingLeft DEF PoolInv, JobsNested
  <2>4. LocksEnd'
    BY <2>1 DEF PoolInv, PoolTypeOK, LocksEnd, Members
  <2>5. ClosingIdle'
    BY <2>1 DEF PoolInv, PoolTypeOK, ClosingIdle, Members, Home
  <2> QED
    BY <2>2, <2>3, <2>4, <2>5 DEF PoolInv
<1>2. CASE Stop(p) \/ Drained(p) \/ ClosePool(p) \/ Restart(p)
  <2>1. UNCHANGED <<todo, held, owner, sharers>>
    BY <1>2 DEF Stop, Drained, ClosePool, Restart
  <2>2. PoolTypeOK'
    BY <1>2, <2>1 DEF PoolInv, PoolTypeOK, Stop, Drained, ClosePool, Restart, SetPhase
  <2>3. JobsNested' /\ LocksEnd'
    BY <2>1 DEF PoolInv, JobsNested, LocksEnd
  <2>4. ClosingIdle'
    <3>1. \A q \in Processes : Members(q)' = Members(q)
      BY DEF Members, Home
    <3>2. CASE Stop(p) \/ Restart(p)
      BY <2>1, <3>1, <3>2 DEF PoolInv, PoolTypeOK, ClosingIdle, Stop, Restart, SetPhase
    <3>3. CASE Drained(p)
      BY <2>1, <3>1, <3>3 DEF PoolInv, PoolTypeOK, ClosingIdle, Drained, SetPhase
    <3>4. CASE ClosePool(p)
      BY <2>1, <3>1, <3>4 DEF PoolInv, PoolTypeOK, ClosingIdle, ClosePool, SetPhase
    <3> QED
      BY <1>2, <3>2, <3>3, <3>4
  <2> QED
    BY <2>2, <2>3, <2>4 DEF PoolInv
<1> QED
  BY <1>1, <1>2

\* What a goroutine holds always fits what is left of its job, a goroutine with a
\* lock on the wallet is about to end its transaction, and the goroutines of a
\* process whose pool closes have nothing left to do.
THEOREM PoolInvariance == PoolSpec => []PoolInv
<1>1. PoolInv /\ [PoolNext]_cvars => PoolInv'
  <2> SUFFICES ASSUME PoolInv, [PoolNext]_cvars PROVE PoolInv'
    OBVIOUS
  <2>1. CASE PoolNext
    <3>1. ASSUME NEW g \in Goroutines,
                 \/ \E job \in Jobs(Duty[g]) : Start(g, job)
                 \/ Run(g) \/ WorkerGivesUp(g) \/ ClientGone(g)
          PROVE  PoolInv'
      BY <3>1, StartInv, RunInv, GiveUpInv DEF WorkerGivesUp, ClientGone
    <3>2. ASSUME NEW p \in Processes,
                 Stop(p) \/ Drained(p) \/ ClosePool(p) \/ Kill(p) \/ Restart(p)
          PROVE  PoolInv'
      BY <3>2, ProcessInv
    <3> QED
      BY <2>1, <3>1, <3>2 DEF PoolNext
  <2>2. CASE UNCHANGED cvars
    BY <2>2 DEF cvars, PoolInv, PoolTypeOK, JobsNested, LocksEnd, ClosingIdle, Members, Home
  <2> QED
    BY <2>1, <2>2
<1> QED
  BY <1>1, PoolInitInv, PTL DEF PoolSpec

-----------------------------------------------------------------------------
\* API_DB_MAX_CONNS allows every goroutine of a process two connections
TwoEach == \A p \in Processes : 2 * Cardinality(Members(p)) <= MaxConns

\* With two connections for every goroutine of a process that may use its pool,
\* no set of jobs can bring all goroutines to wait for each other, whatever the
\* number of goroutines.  Nothing in the code provides the bound: MaxConns is one
\* setting and the API accepts any number of requests.
THEOREM NoDeadlock ==
  ASSUME TwoEach
  PROVE  PoolSpec => []NoCircularWait
<1>1. PoolInv => NoCircularWait
  <2> SUFFICES ASSUME PoolInv, NEW b \in Goroutines, todo[b] # <<>>
               PROVE  \E g \in Goroutines : todo[g] # <<>> /\ CanMove(g)
    BY DEF NoCircularWait
  <2>1. ASSUME NEW g \in Goroutines, todo[g] # <<>>
        PROVE  /\ Head(todo[g]) \in Points
               /\ Head(todo[g]) \in {"query", "begin"} => Available(Home(g))
               /\ Head(todo[g]) = "end" => CanMove(g)
               /\ Head(todo[g]) \in {"query", "begin"} => CanMove(g)
    <3>1. todo[g] \in Seq(Points) /\ Nested(todo[g], held[g]) /\ held \in [Goroutines -> 0..2]
      BY DEF PoolInv, PoolTypeOK, JobsNested
    <3>2. Head(todo[g]) = todo[g][1] /\ Head(todo[g]) \in Points
      BY <2>1, <3>1
    <3>3. Head(todo[g]) \in {"query", "begin"} => held[g] <= 1
      BY <2>1, <3>1, <3>2, PassPoint
    <3>4. 2 * Cardinality(Members(Home(g))) <= MaxConns
      BY TwoEach DEF TwoEach, Home, Processes
    <3>5. Head(todo[g]) \in {"query", "begin"} => Available(Home(g))
      BY <3>1, <3>3, <3>4, OneLeft
    <3> QED
      BY <3>2, <3>5 DEF CanMove
  <2>2. CASE owner # None
    <3>1. owner \in Goroutines /\ Locking(todo[owner]) /\ todo[owner] \in Seq(Points)
      BY <2>2 DEF PoolInv, PoolTypeOK, LocksEnd
    <3>2. todo[owner] # <<>> /\ Head(todo[owner]) \in {"query", "end"}
      BY <3>1 DEF Locking, Ending
    <3> QED
      BY <2>1, <3>1, <3>2
  <2>3. CASE \E g \in sharers : TRUE
    <3>1. PICK g \in sharers : TRUE
      BY <2>3
    <3>2. g \in Goroutines /\ Ending(todo[g]) /\ todo[g] \in Seq(Points)
      BY <3>1 DEF PoolInv, PoolTypeOK, LocksEnd
    <3>3. todo[g] # <<>> /\ Head(todo[g]) = "end"
      BY <3>2 DEF Ending
    <3> QED
      BY <2>1, <3>2, <3>3
  <2>4. CASE owner = None /\ sharers = {}
    <3>1. CanMove(b)
      BY <2>1, <2>4 DEF CanMove, Points
    <3> QED
      BY <3>1
  <2> QED
    BY <2>2, <2>3, <2>4
<1> QED
  BY <1>1, PoolInvariance, PTL

\* NewPool's OnStop hook never waits: when the server or the loops have ended, no
\* transaction has kept its connection.
CloseNeverWaits == \A p \in Processes : phase[p] = "closing" => InUse(p) = 0

THEOREM ConnectionsComeBack == PoolSpec => []CloseNeverWaits
<1>1. PoolInv => CloseNeverWaits
  <2> SUFFICES ASSUME PoolInv, NEW p \in Processes, phase[p] = "closing"
               PROVE  InUse(p) = 0
    BY DEF CloseNeverWaits
  <2>1. \A g \in Members(p) : g \in Goroutines /\ todo[g] = <<>>
    BY DEF PoolInv, ClosingIdle, Members
  <2>2. \A g \in Members(p) : held[g] = 0
    BY <2>1, NothingLeft DEF PoolInv, JobsNested
  <2> QED
    BY <2>2, NoneLeft
<1> QED
  BY <1>1, PoolInvariance, PTL
=============================================================================

------------------------ MODULE WalletServiceProofs ------------------------
(***************************************************************************)
(* Proofs about WalletService for any number of callers, wallets and       *)
(* settlements, and ledgers of any length.                                 *)
(*                                                                         *)
(* The provers have no induction, but every nonempty set of naturals has a *)
(* least element: a smallest entry at which a claim about the running sum  *)
(* fails would contradict the claim about the entry before it.             *)
(***************************************************************************)
EXTENDS WalletService, WellFoundedInduction, TLAPS

\* The least element of a set of naturals.
LEMMA Least ==
  ASSUME NEW T, T \subseteq Nat, T # {}
  PROVE  \E n \in T : \A k \in T : ~(k < n)
<1>1. PICK n \in T : \A k \in T : ~(<<k, n>> \in OpToRel(<, Nat))
  BY NatLessThanWellFounded, WFMin
<1>2. \A k \in T : k < n => <<k, n>> \in OpToRel(<, Nat)
  BY DEF OpToRel
<1> QED
  BY <1>1, <1>2

-----------------------------------------------------------------------------
(***************************************************************************)
(* The sum of a ledger.                                                    *)
(***************************************************************************)

EntryType == [dir : {"CREDIT", "DEBIT"}, amount : Int, before : Int, after : Int, created : Int]

\* f is the running sum of the first n entries of s
Sums(f, s, n) ==
  /\ f \in [0..n -> Int]
  /\ f[0] = 0
  /\ \A i \in 1..n : f[i] = f[i - 1] + Signed(s[i])

\* two ledgers have their first n entries in common
Agree(s, t, n) == \A i \in 1..n : s[i] = t[i]

LEMMA SignedType ==
  ASSUME NEW e \in EntryType
  PROVE  Signed(e) \in Int
  BY DEF EntryType, Signed

\* Every ledger has a running sum ...
LEMMA SumsExist ==
  ASSUME NEW s \in Seq(EntryType), NEW n \in 0..Len(s)
  PROVE  \E f : Sums(f, s, n)
<1> DEFINE T == {k \in 0..Len(s) : ~\E f : Sums(f, s, k)}
<1>1. Len(s) \in Nat
  OBVIOUS
<1> SUFFICES ASSUME T # {} PROVE FALSE
  OBVIOUS
<1>2. PICK k \in T : \A j \in T : ~(j < k)
  <2>1. T \subseteq Nat
    BY <1>1
  <2> HIDE DEF T
  <2> QED
    BY <2>1, Least
<1>3. k \in Nat /\ k <= Len(s)
  BY <1>1, <1>2
<1>4. CASE k = 0
  <2>1. Sums([i \in 0..0 |-> 0], s, 0)
    BY DEF Sums
  <2> QED
    BY <1>2, <1>4, <2>1
<1>5. CASE k # 0
  <2>1. k - 1 \in 0..Len(s) /\ k - 1 < k
    BY <1>1, <1>3, <1>5
  <2>2. PICK f : Sums(f, s, k - 1)
    BY <1>2, <2>1
  <2> DEFINE x == f[k - 1] + Signed(s[k])
             g == [i \in 0..k |-> IF i = k THEN x ELSE f[i]]
  <2>3. x \in Int
    <3>1. s[k] \in EntryType
      BY <1>3, <1>5
    <3>2. f[k - 1] \in Int
      BY <1>3, <1>5, <2>2 DEF Sums
    <3> QED
      BY <3>1, <3>2, SignedType
  <2>4. g \in [0..k -> Int]
    <3>1. \A i \in 0..k : i # k => f[i] \in Int
      BY <1>3, <2>2 DEF Sums
    <3> QED
      BY <2>3, <3>1
  <2>5. g[0] = 0 /\ \A i \in 1..k : g[i] = g[i - 1] + Signed(s[i])
    BY <1>3, <1>5, <2>2 DEF Sums
  <2>6. Sums(g, s, k)
    BY <2>4, <2>5 DEF Sums
  <2> QED
    BY <1>2, <2>6
<1> QED
  BY <1>4, <1>5

\* ... and only one, which depends on the entries it adds up alone.
LEMMA SumsAgree ==
  ASSUME NEW s, NEW t, NEW n \in Nat, NEW m \in Nat, n <= m,
         Agree(s, t, n),
         NEW f, Sums(f, s, n), NEW g, Sums(g, t, m)
  PROVE  f[n] = g[n]
<1> DEFINE T == {k \in 0..n : f[k] # g[k]}
<1> SUFFICES ASSUME T # {} PROVE FALSE
  BY DEF T
<1>1. PICK k \in T : \A j \in T : ~(j < k)
  <2>1. T \subseteq Nat
    OBVIOUS
  <2> HIDE DEF T
  <2> QED
    BY <2>1, Least
<1>2. k \in Nat /\ k <= n /\ f[k] # g[k]
  BY <1>1
<1>3. k # 0
  BY <1>2 DEF Sums
<1>4. k - 1 \in 0..n /\ k - 1 < k /\ k \in 1..n /\ k \in 1..m
  BY <1>2, <1>3
<1>5. f[k - 1] = g[k - 1]
  BY <1>1, <1>4
<1>6. f[k] = f[k - 1] + Signed(s[k]) /\ g[k] = g[k - 1] + Signed(t[k])
  BY <1>4 DEF Sums
<1> QED
  BY <1>2, <1>4, <1>5, <1>6 DEF Agree

\* RunningSum is that sum.
LEMMA RunningSumIs ==
  ASSUME NEW s \in Seq(EntryType)
  PROVE  Sums(RunningSum(s), s, Len(s))
<1> DEFINE Is(f) == f = [n \in 0..Len(s) |-> IF n = 0 THEN 0 ELSE f[n - 1] + Signed(s[n])]
<1>1. RunningSum(s) = CHOOSE f : Is(f)
  BY DEF RunningSum
<1>2. Len(s) \in Nat
  OBVIOUS
<1>3. PICK g : Sums(g, s, Len(s))
  <2>1. Len(s) \in 0..Len(s)
    BY <1>2
  <2> QED
    BY <2>1, SumsExist
<1>4. Is(g)
  <2>1. \A n \in 0..Len(s) : g[n] = IF n = 0 THEN 0 ELSE g[n - 1] + Signed(s[n])
    BY <1>2, <1>3 DEF Sums
  <2>2. g = [n \in 0..Len(s) |-> g[n]]
    BY <1>3 DEF Sums
  <2> QED
    BY <2>1, <2>2
<1>5. Is(RunningSum(s))
  BY <1>1, <1>4
<1> DEFINE r == RunningSum(s)
           T == {k \in 0..Len(s) : r[k] # g[k]}
<1>6. /\ r = [n \in 0..Len(s) |-> r[n]]
      /\ r[0] = 0 /\ \A n \in 1..Len(s) : r[n] = r[n - 1] + Signed(s[n])
  <2> HIDE DEF r
  <2>1. r = [n \in 0..Len(s) |-> IF n = 0 THEN 0 ELSE r[n - 1] + Signed(s[n])]
    BY <1>5 DEF r
  <2> QED
    BY <1>2, <2>1
<1> HIDE DEF r, Is
<1>7. ASSUME T # {} PROVE FALSE
  <2>1. PICK k \in T : \A j \in T : ~(j < k)
    <3>1. T \subseteq Nat
      BY <1>2
    <3> HIDE DEF T
    <3> QED
      BY <1>7, <3>1, Least
  <2>2. k \in Nat /\ k <= Len(s) /\ r[k] # g[k]
    BY <1>2, <2>1
  <2>3. k # 0
    BY <1>3, <1>6, <2>2 DEF Sums
  <2>4. k - 1 \in 0..Len(s) /\ k - 1 < k /\ k \in 1..Len(s)
    BY <1>2, <2>2, <2>3
  <2>5. r[k - 1] = g[k - 1]
    BY <2>1, <2>4
  <2>6. g[k] = g[k - 1] + Signed(s[k])
    BY <1>3, <2>4 DEF Sums
  <2> QED
    BY <1>6, <2>2, <2>4, <2>5, <2>6
<1>8. \A n \in 0..Len(s) : r[n] = g[n]
  BY <1>7
<1>9. r = g
  <2>1. g = [n \in 0..Len(s) |-> g[n]]
    BY <1>3 DEF Sums
  <2> QED
    BY <1>6, <1>8, <2>1
<1> QED
  BY <1>3, <1>9 DEF r

\* The sum of a ledger is a number; an empty ledger sums up to zero, and a new
\* entry adds its signed amount.
LEMMA SumOfLedger ==
  ASSUME NEW s \in Seq(EntryType)
  PROVE  /\ SumByWalletID(s) \in Int
         /\ s = <<>> => SumByWalletID(s) = 0
         /\ \A e \in EntryType : SumByWalletID(Append(s, e)) = SumByWalletID(s) + Signed(e)
<1> DEFINE n == Len(s)
<1>1. n \in Nat /\ Sums(RunningSum(s), s, n)
  BY RunningSumIs
<1>2. SumByWalletID(s) \in Int
  BY <1>1 DEF Sums, SumByWalletID
<1>3. s = <<>> => SumByWalletID(s) = 0
  BY <1>1 DEF Sums, SumByWalletID
<1>4. ASSUME NEW e \in EntryType
      PROVE  SumByWalletID(Append(s, e)) = SumByWalletID(s) + Signed(e)
  <2> DEFINE t == Append(s, e)
  <2>1. t \in Seq(EntryType) /\ Len(t) = n + 1 /\ t[n + 1] = e /\ \A i \in 1..n : s[i] = t[i]
    OBVIOUS
  <2>2. Sums(RunningSum(t), t, n + 1)
    BY <2>1, RunningSumIs
  <2> HIDE DEF t
  <2>3. RunningSum(s)[n] = RunningSum(t)[n]
    <3> DEFINE f == RunningSum(s)
               g == RunningSum(t)
               m == n + 1
    <3>1. n \in Nat /\ m \in Nat /\ n <= m
      BY <1>1
    <3>2. Sums(f, s, n) /\ Sums(g, t, m) /\ Agree(s, t, n)
      BY <1>1, <2>1, <2>2 DEF Agree
    <3> HIDE DEF n, m, f, g
    <3>3. f[n] = g[n]
      BY <3>1, <3>2, SumsAgree
    <3> QED
      BY <3>3 DEF f, g
  <2>4. RunningSum(t)[n + 1] = RunningSum(t)[n] + Signed(e)
    <3>1. n + 1 \in 1..(n + 1) /\ (n + 1) - 1 = n
      BY <1>1
    <3> QED
      BY <2>1, <2>2, <3>1 DEF Sums
  <2> QED
    BY <2>1, <2>3, <2>4 DEF SumByWalletID, t
<1> QED
  BY <1>2, <1>3, <1>4

-----------------------------------------------------------------------------
(***************************************************************************)
(* The tables.                                                             *)
(***************************************************************************)

WalletType == [owner : Owners, balance : Int]

TablesOK ==
  /\ wallets \in Seq(WalletType)
  /\ ledger \in Seq(Seq(EntryType)) /\ Len(ledger) = Len(wallets)
  /\ begun \in Nat
  /\ open \subseteq [wallet : DOMAIN wallets, created : Int]

OneWalletEach == \A v, w \in DOMAIN wallets : wallets[v].owner = wallets[w].owner => v = w

\* the balance the last entry of a ledger leaves
LastAfter(entries) == IF Len(entries) = 0 THEN 0 ELSE entries[Len(entries)].after

\* the stored balance is the sum of the ledger and what its last entry says
LedgerSumsUp ==
  \A w \in DOMAIN wallets :
    /\ SumByWalletID(ledger[w]) = wallets[w].balance
    /\ wallets[w].balance = LastAfter(ledger[w])

TablesInv == TablesOK /\ OneWalletEach /\ LedgerSumsUp

\* a step of the tables keeps the wallets, their owners and their entries
Grows ==
  /\ DOMAIN wallets \subseteq DOMAIN wallets'
  /\ \A w \in DOMAIN wallets :
       /\ wallets'[w].owner = wallets[w].owner
       /\ Len(ledger'[w]) \in Nat /\ Len(ledger[w]) <= Len(ledger'[w])
       /\ \A i \in 1..Len(ledger[w]) : ledger'[w][i] = ledger[w][i]

\* The rows of the tables.
LEMMA Rows ==
  ASSUME TablesOK, NEW w \in DOMAIN wallets
  PROVE  /\ wallets[w] \in WalletType /\ wallets[w].balance \in Int /\ wallets[w].owner \in Owners
         /\ DOMAIN ledger = DOMAIN wallets /\ w \in Nat
         /\ ledger[w] \in Seq(EntryType) /\ Len(ledger[w]) \in Nat
<1>1. /\ DOMAIN wallets = 1..Len(wallets) /\ DOMAIN ledger = 1..Len(ledger)
      /\ Len(ledger) = Len(wallets) /\ Len(wallets) \in Nat
  BY DEF TablesOK
<1>2. wallets[w] \in WalletType /\ ledger[w] \in Seq(EntryType) /\ w \in Nat
  BY <1>1 DEF TablesOK
<1>3. wallets[w].balance \in Int /\ wallets[w].owner \in Owners
  BY <1>2 DEF WalletType
<1>4. Len(ledger[w]) \in Nat
  BY <1>2
<1> QED
  BY <1>1, <1>2, <1>3, <1>4

LEMMA NothingGrows ==
  ASSUME TablesOK, UNCHANGED <<wallets, ledger>>
  PROVE  Grows
  BY Rows DEF Grows

\* InsertWallet, for an owner that has no wallet.
LEMMA InsertWalletInv ==
  ASSUME TablesInv, NEW c \in Callers, InsertWallet(c), ~OwnerTaken(call[c].owner),
         call[c].owner \in Owners, call[c].amount \in Int
  PROVE  /\ TablesInv' /\ Grows
         /\ \E w \in DOMAIN wallets' :
              /\ wallets'[w].owner = call[c].owner
              /\ call[c].amount # 0 => Len(ledger'[w]) >= 1 /\ ledger'[w][1].after = call[c].amount
<1> DEFINE o == call[c].owner
           a == call[c].amount
           n == Len(wallets) + 1
           l == OpeningLedger(a)
           e == Entry("CREDIT", a, 0, a, begun + 1)
<1>1. /\ wallets' = Append(wallets, [owner |-> o, balance |-> a]) /\ ledger' = Append(ledger, l)
      /\ begun' = begun + 1 /\ UNCHANGED open
      /\ l = IF a = 0 THEN <<>> ELSE <<e>>
  BY DEF InsertWallet, OpeningLedger
<1>2. o \in Owners /\ a \in Int /\ begun \in Nat
  BY DEF TablesInv, TablesOK
<1>3. \A w \in DOMAIN wallets : wallets[w].owner # o
  BY DEF OwnerTaken, FindByPlayerAndCurrencyAndProvider
<1>4. e \in EntryType /\ e.after = a /\ Signed(e) = a
  BY <1>2 DEF Entry, EntryType, Signed
<1> HIDE DEF o, a, l, e
<1>5. l \in Seq(EntryType) /\ (a # 0 => Len(l) = 1 /\ l[1] = e) /\ (a = 0 => Len(l) = 0)
  BY <1>1, <1>4
<1>6. SumByWalletID(l) = a
  <2>1. CASE a = 0
    BY <1>1, <1>5, <2>1, SumOfLedger
  <2>2. CASE a # 0
    <3>1. l = Append(<<>>, e) /\ <<>> \in Seq(EntryType)
      BY <1>1, <2>2
    <3>2. SumByWalletID(<<>>) = 0 /\ SumByWalletID(Append(<<>>, e)) = SumByWalletID(<<>>) + Signed(e)
      BY <1>4, <3>1, SumOfLedger
    <3> QED
      BY <1>2, <1>4, <3>1, <3>2
  <2> QED
    BY <2>1, <2>2
<1>7. /\ wallets \in Seq(WalletType) /\ ledger \in Seq(Seq(EntryType)) /\ Len(ledger) = Len(wallets)
      /\ [owner |-> o, balance |-> a] \in WalletType
  BY <1>2 DEF TablesInv, TablesOK, WalletType
<1>8. /\ wallets' \in Seq(WalletType) /\ ledger' \in Seq(Seq(EntryType)) /\ Len(ledger') = Len(wallets')
      /\ DOMAIN wallets = 1..Len(wallets) /\ Len(wallets) \in Nat /\ DOMAIN wallets' = 1..n
      /\ wallets'[n] = [owner |-> o, balance |-> a] /\ ledger'[n] = l
      /\ \A w \in DOMAIN wallets : wallets'[w] = wallets[w] /\ ledger'[w] = ledger[w]
  BY <1>1, <1>5, <1>7
<1>9. TablesOK'
  <2>1. open \subseteq [wallet : DOMAIN wallets', created : Int]
    BY <1>8 DEF TablesInv, TablesOK
  <2> QED
    BY <1>1, <1>2, <1>8, <2>1 DEF TablesOK
<1>10. OneWalletEach'
  <2> SUFFICES ASSUME NEW v \in DOMAIN wallets', NEW w \in DOMAIN wallets',
                      wallets'[v].owner = wallets'[w].owner
               PROVE  v = w
    BY DEF OneWalletEach
  <2>1. wallets'[n].owner = o
    BY <1>8
  <2>2. \A u \in DOMAIN wallets' : u # n => u \in DOMAIN wallets /\ wallets'[u].owner # o
    BY <1>3, <1>8
  <2>3. CASE v = n \/ w = n
    BY <2>1, <2>2, <2>3
  <2>4. CASE v # n /\ w # n
    BY <1>8, <2>2, <2>4 DEF TablesInv, OneWalletEach
  <2> QED
    BY <2>3, <2>4
<1>11. LedgerSumsUp'
  <2> SUFFICES ASSUME NEW w \in DOMAIN wallets'
               PROVE  /\ SumByWalletID(ledger'[w]) = wallets'[w].balance
                      /\ wallets'[w].balance = LastAfter(ledger'[w])
    BY DEF LedgerSumsUp
  <2>1. CASE w = n
    <3>1. wallets'[w].balance = a /\ ledger'[w] = l
      BY <1>8, <2>1
    <3>2. LastAfter(l) = a
      BY <1>4, <1>5 DEF LastAfter
    <3> QED
      BY <1>6, <3>1, <3>2
  <2>2. CASE w # n
    <3>1. w \in DOMAIN wallets /\ wallets'[w] = wallets[w] /\ ledger'[w] = ledger[w]
      BY <1>8, <2>2
    <3> QED
      BY <3>1 DEF TablesInv, LedgerSumsUp
  <2> QED
    BY <2>1, <2>2
<1>12. Grows
  BY <1>8, Rows DEF Grows, TablesInv
<1>13. n \in DOMAIN wallets' /\ wallets'[n].owner = o
       /\ (a # 0 => Len(ledger'[n]) >= 1 /\ ledger'[n][1].after = a)
  BY <1>4, <1>5, <1>8
<1> QED
  BY <1>9, <1>10, <1>11, <1>12, <1>13 DEF TablesInv, o, a

\* Settle.
LEMMA SettleInv ==
  ASSUME TablesInv, NEW m \in open, NEW dir \in {"CREDIT", "DEBIT"}, NEW x \in Amounts,
         Settle(m, dir, x)
  PROVE  TablesInv' /\ Grows
<1> DEFINE v == m.wallet
           before == wallets[v].balance
           after == IF dir = "CREDIT" THEN before + x ELSE before - x
           e == Entry(dir, x, before, after, m.created)
<1>1. /\ wallets' = [wallets EXCEPT ![v].balance = after]
      /\ ledger' = [ledger EXCEPT ![v] = Append(@, e)]
      /\ open' = open \ {m} /\ UNCHANGED begun
  BY DEF Settle
<1>2. v \in DOMAIN wallets /\ m.created \in Int /\ x \in Int
  BY WalletAssumption DEF TablesInv, TablesOK
<1>3. /\ wallets[v] \in WalletType /\ before \in Int /\ after \in Int
      /\ ledger[v] \in Seq(EntryType) /\ Len(ledger[v]) \in Nat
      /\ DOMAIN ledger = DOMAIN wallets
  BY <1>2, Rows DEF TablesInv
<1>4. e \in EntryType /\ e.after = after /\ before + Signed(e) = after
  BY <1>2, <1>3 DEF Entry, EntryType, Signed
<1>5. SumByWalletID(Append(ledger[v], e)) = SumByWalletID(ledger[v]) + Signed(e)
  BY <1>3, <1>4, SumOfLedger
<1> HIDE DEF v, before, after, e
<1>6. /\ wallets \in Seq(WalletType) /\ ledger \in Seq(Seq(EntryType)) /\ Len(ledger) = Len(wallets)
  BY DEF TablesInv, TablesOK
<1>7. /\ DOMAIN wallets' = DOMAIN wallets /\ DOMAIN ledger' = DOMAIN ledger
      /\ wallets'[v] = [wallets[v] EXCEPT !.balance = after]
      /\ ledger'[v] = Append(ledger[v], e)
      /\ \A w \in DOMAIN wallets : w # v => wallets'[w] = wallets[w] /\ ledger'[w] = ledger[w]
  BY <1>1, <1>2, <1>3, <1>6
<1>8. /\ wallets'[v] \in WalletType /\ wallets'[v].balance = after
      /\ wallets'[v].owner = wallets[v].owner
  BY <1>3, <1>7 DEF WalletType
<1>9. /\ ledger'[v] \in Seq(EntryType) /\ Len(ledger'[v]) = Len(ledger[v]) + 1
      /\ ledger'[v][Len(ledger'[v])] = e
      /\ \A i \in 1..Len(ledger[v]) : ledger'[v][i] = ledger[v][i]
  BY <1>3, <1>4, <1>7
<1>10. TablesOK'
  <2>1. wallets' \in Seq(WalletType) /\ Len(wallets') = Len(wallets)
    <3>1. [wallets[v] EXCEPT !.balance = after] \in WalletType
      BY <1>7, <1>8
    <3>2. wallets' = [wallets EXCEPT ![v] = [wallets[v] EXCEPT !.balance = after]]
      BY <1>1
    <3> QED
      BY <1>2, <1>6, <3>1, <3>2
  <2>2. ledger' \in Seq(Seq(EntryType)) /\ Len(ledger') = Len(ledger)
    BY <1>1, <1>2, <1>3, <1>4, <1>6
  <2>3. open' \subseteq [wallet : DOMAIN wallets', created : Int]
    BY <1>1, <1>7 DEF TablesInv, TablesOK
  <2> QED
    BY <1>1, <1>6, <2>1, <2>2, <2>3 DEF TablesInv, TablesOK
<1>11. OneWalletEach'
  <2>1. \A w \in DOMAIN wallets : wallets'[w].owner = wallets[w].owner
    BY <1>7, <1>8
  <2>2. \A u, w \in DOMAIN wallets : wallets[u].owner = wallets[w].owner => u = w
    BY DEF TablesInv, OneWalletEach
  <2>3. DOMAIN wallets' = DOMAIN wallets
    BY <1>7
  <2> QED
    BY <2>1, <2>2, <2>3 DEF OneWalletEach
<1>12. LedgerSumsUp'
  <2> SUFFICES ASSUME NEW w \in DOMAIN wallets
               PROVE  /\ SumByWalletID(ledger'[w]) = wallets'[w].balance
                      /\ wallets'[w].balance = LastAfter(ledger'[w])
    BY <1>7 DEF LedgerSumsUp
  <2>1. CASE w = v
    <3>1. SumByWalletID(ledger[v]) = before
      BY <1>2 DEF TablesInv, LedgerSumsUp, before
    <3>2. SumByWalletID(ledger'[v]) = after
      BY <1>4, <1>5, <1>7, <3>1
    <3>3. LastAfter(ledger'[v]) = after
      BY <1>3, <1>4, <1>9 DEF LastAfter
    <3> QED
      BY <1>8, <2>1, <3>2, <3>3
  <2>2. CASE w # v
    BY <1>7, <2>2 DEF TablesInv, LedgerSumsUp
  <2> QED
    BY <2>1, <2>2
<1>13. Grows
  <2> SUFFICES ASSUME NEW w \in DOMAIN wallets
               PROVE  /\ wallets'[w].owner = wallets[w].owner
                      /\ Len(ledger'[w]) \in Nat /\ Len(ledger[w]) <= Len(ledger'[w])
                      /\ \A i \in 1..Len(ledger[w]) : ledger'[w][i] = ledger[w][i]
    BY <1>7 DEF Grows
  <2>1. Len(ledger[w]) \in Nat
    BY Rows DEF TablesInv
  <2>2. CASE w = v
    BY <1>8, <1>9, <2>1, <2>2
  <2>3. CASE w # v
    BY <1>7, <2>1, <2>3
  <2> QED
    BY <2>2, <2>3
<1> QED
  BY <1>10, <1>11, <1>12, <1>13 DEF TablesInv

-----------------------------------------------------------------------------
(***************************************************************************)
(* What a call knows about the tables: ws and lg are wallets and ledger.   *)
(***************************************************************************)

\* the balance after the first i entries
At(entries, i) == IF i = 0 THEN 0 ELSE entries[i].after

CallFields ==
  {"op", "step", "owner", "wallet", "amount", "stored", "sum", "checked", "cursor", "result"}

\* the control of a call: what it has before it reaches a step
ControlOK(r) ==
  /\ DOMAIN r = CallFields
  /\ r.step \in {"find", "insert"} => r.owner \in Owners /\ r.amount \in Int
  /\ r.step = "authorise" => r.op \in {"ledger", "reconcile"}
  /\ r.step = "readWallet" => r.op = "reconcile"
  /\ r.step # "done" => r.result = ""

CreatedOK(r, ws, lg) ==
  r.result = "created" =>
    \E w \in DOMAIN ws : /\ ws[w].owner = r.owner
                         /\ r.amount # 0 => Len(lg[w]) >= 1 /\ lg[w][1].after = r.amount

\* between the two reads of Reconcile, the stored balance is one the wallet had
StoredOK(r, ws, lg) ==
  r.step = "sum" =>
    /\ r.op = "reconcile" /\ r.wallet \in DOMAIN ws
    /\ \E i \in 0..Len(lg[r.wallet]) : r.stored = At(lg[r.wallet], i)

\* and after them, so is the sum, a later one
ComparedOK(r, ws, lg) ==
  r.op = "reconcile" /\ (r.step = "page" \/ r.result \in {"consistent", "divergent"}) =>
    /\ r.wallet \in DOMAIN ws
    /\ \E i, j \in 0..Len(lg[r.wallet]) :
         i <= j /\ r.stored = At(lg[r.wallet], i) /\ r.sum = At(lg[r.wallet], j)

CallOK(r, ws, lg) ==
  ControlOK(r) /\ CreatedOK(r, ws, lg) /\ StoredOK(r, ws, lg) /\ ComparedOK(r, ws, lg)

CallInv == DOMAIN call = Callers /\ \A c \in Callers : CallOK(call[c], wallets, ledger)

\* The inductive invariant.
WalletInv == TablesInv /\ CallInv

\* What a call knows stays true while the tables grow.
LEMMA GrowsKeeps ==
  ASSUME TablesOK, Grows, NEW r, CallOK(r, wallets, ledger)
  PROVE  CallOK(r, wallets', ledger')
<1>1. /\ DOMAIN wallets \subseteq DOMAIN wallets'
      /\ \A w \in DOMAIN wallets :
           /\ wallets'[w].owner = wallets[w].owner
           /\ Len(ledger'[w]) \in Nat /\ Len(ledger[w]) <= Len(ledger'[w])
           /\ \A i \in 1..Len(ledger[w]) : ledger'[w][i] = ledger[w][i]
  BY DEF Grows
<1>2. \A w \in DOMAIN wallets : Len(ledger[w]) \in Nat
  BY Rows
<1>3. \A w \in DOMAIN wallets : \A i \in 0..Len(ledger[w]) :
        i \in 0..Len(ledger'[w]) /\ At(ledger'[w], i) = At(ledger[w], i)
  <2> SUFFICES ASSUME NEW w \in DOMAIN wallets, NEW i \in 0..Len(ledger[w])
               PROVE  i \in 0..Len(ledger'[w]) /\ At(ledger'[w], i) = At(ledger[w], i)
    OBVIOUS
  <2>1. Len(ledger[w]) \in Nat /\ Len(ledger'[w]) \in Nat /\ Len(ledger[w]) <= Len(ledger'[w])
    BY <1>1, <1>2
  <2>2. i = 0 \/ i \in 1..Len(ledger[w])
    BY <2>1
  <2>3. i \in 0..Len(ledger'[w])
    BY <2>1
  <2>4. i # 0 => ledger'[w][i] = ledger[w][i]
    BY <1>1, <2>2
  <2> QED
    BY <2>3, <2>4 DEF At
<1>4. ControlOK(r)
  BY DEF CallOK
<1>5. CreatedOK(r, wallets', ledger')
  <2> SUFFICES ASSUME r.result = "created"
               PROVE  \E w \in DOMAIN wallets' :
                        /\ wallets'[w].owner = r.owner
                        /\ r.amount # 0 => Len(ledger'[w]) >= 1 /\ ledger'[w][1].after = r.amount
    BY DEF CreatedOK
  <2>1. PICK w \in DOMAIN wallets :
               /\ wallets[w].owner = r.owner
               /\ r.amount # 0 => Len(ledger[w]) >= 1 /\ ledger[w][1].after = r.amount
    BY DEF CallOK, CreatedOK
  <2>2. Len(ledger[w]) >= 1 => 1 \in 1..Len(ledger[w]) /\ Len(ledger'[w]) >= 1
    BY <1>1, <1>2
  <2>3. Len(ledger[w]) >= 1 => ledger'[w][1] = ledger[w][1]
    BY <1>1, <2>2
  <2> QED
    BY <1>1, <2>1, <2>2, <2>3
<1>6. StoredOK(r, wallets', ledger')
  BY <1>1, <1>3 DEF CallOK, StoredOK
<1>7. ComparedOK(r, wallets', ledger')
  BY <1>1, <1>3 DEF CallOK, ComparedOK
<1> QED
  BY <1>4, <1>5, <1>6, <1>7 DEF CallOK

\* A step that changes one call, while the tables may grow.
LEMMA OneCall ==
  ASSUME WalletInv, Grows, NEW c \in Callers, NEW r,
         call' = [call EXCEPT ![c] = r], CallOK(r, wallets', ledger')
  PROVE  CallInv'
<1>1. DOMAIN call' = Callers /\ call'[c] = r /\ \A d \in Callers : d # c => call'[d] = call[d]
  BY DEF WalletInv, CallInv
<1>2. \A d \in Callers : CallOK(call[d], wallets', ledger')
  BY GrowsKeeps DEF WalletInv, TablesInv, CallInv
<1> QED
  BY <1>1, <1>2 DEF CallInv

\* A step of one call that leaves the tables alone.
LEMMA OneCallOnly ==
  ASSUME WalletInv, UNCHANGED tables, NEW c \in Callers, NEW r,
         call' = [call EXCEPT ![c] = r], CallOK(r, wallets, ledger)
  PROVE  WalletInv'
<1>1. wallets' = wallets /\ ledger' = ledger /\ begun' = begun /\ open' = open
  BY DEF tables
<1>2. Grows
  BY <1>1, NothingGrows DEF WalletInv, TablesInv
<1>3. CallInv'
  BY <1>1, <1>2, OneCall
<1>4. TablesInv'
  BY <1>1 DEF WalletInv, TablesInv, TablesOK, OneWalletEach, LedgerSumsUp
<1> QED
  BY <1>3, <1>4 DEF WalletInv

-----------------------------------------------------------------------------
(***************************************************************************)
(* One lemma per action.                                                   *)
(***************************************************************************)

\* Both ways a call is updated set one call.
LEMMA AnswerSets ==
  ASSUME CallInv, NEW c \in Callers, NEW answer, Answer(c, answer)
  PROVE  call' = [call EXCEPT ![c] = [call[c] EXCEPT !.step = "done", !.result = answer]]
  BY DEF Answer, CallInv

LEMMA GotoSets ==
  ASSUME CallInv, NEW c \in Callers, NEW s, Goto(c, s)
  PROVE  call' = [call EXCEPT ![c] = [call[c] EXCEPT !.step = s]]
  BY DEF Goto, CallInv

\* An answer that claims nothing about the tables.
LEMMA PlainAnswer ==
  ASSUME NEW ws, NEW lg, NEW r, CallOK(r, ws, lg),
         NEW answer \in {"duplicate", "error", "not found", "forbidden"}
  PROVE  CallOK([r EXCEPT !.step = "done", !.result = answer], ws, lg)
<1> DEFINE q == [r EXCEPT !.step = "done", !.result = answer]
<1>1. DOMAIN r = CallFields
  BY DEF CallOK, ControlOK
<1>2. DOMAIN q = CallFields /\ q.step = "done" /\ q.result = answer
  BY <1>1 DEF CallFields
<1> HIDE DEF q
<1>3. ControlOK(q) /\ CreatedOK(q, ws, lg) /\ StoredOK(q, ws, lg) /\ ComparedOK(q, ws, lg)
  BY <1>2 DEF ControlOK, CreatedOK, StoredOK, ComparedOK
<1> QED
  BY <1>3 DEF CallOK, q

\* the step after an answer that claims nothing
LEMMA AnswerInv ==
  ASSUME WalletInv, UNCHANGED tables, NEW c \in Callers,
         NEW answer \in {"duplicate", "error", "not found", "forbidden"}, Answer(c, answer)
  PROVE  WalletInv'
<1> DEFINE q == [call[c] EXCEPT !.step = "done", !.result = answer]
<1>1. call' = [call EXCEPT ![c] = q]
  BY AnswerSets DEF WalletInv
<1>2. CallOK(q, wallets, ledger)
  BY PlainAnswer DEF WalletInv, CallInv
<1> HIDE DEF q
<1> QED
  BY <1>1, <1>2, OneCallOnly

\* A call that has just been made or moves on to a step.
LEMMA FreshCall ==
  ASSUME NEW ws, NEW lg, NEW r, ControlOK(r), r.step # "sum",
         r.step = "page" => r.op # "reconcile",
         r.result \notin {"created", "consistent", "divergent"}
  PROVE  CallOK(r, ws, lg)
  BY DEF CallOK, CreatedOK, StoredOK, ComparedOK

LEMMA RequestCreateInv ==
  ASSUME WalletInv, NEW c \in Callers, NEW o \in Owners, NEW b \in InitialBalances,
         RequestCreate(c, o, b)
  PROVE  WalletInv'
<1> DEFINE f == [NoCall EXCEPT !.op = "create", !.step = "done", !.result = "forbidden"]
           g == [NoCall EXCEPT !.op = "create", !.owner = o, !.amount = b,
                    !.step = IF b < 0 THEN "done" ELSE "find",
                    !.result = IF b < 0 THEN "negative" ELSE ""]
<1>1. \/ call' = [call EXCEPT ![c] = f]
      \/ call' = [call EXCEPT ![c] = g]
  BY DEF RequestCreate, SetCall
<1>2. UNCHANGED tables
  BY DEF RequestCreate
<1>3. CallOK(f, wallets, ledger)
  <2>1. /\ DOMAIN f = CallFields /\ f.step = "done" /\ f.result = "forbidden"
    BY DEF NoCall, CallFields
  <2> HIDE DEF f
  <2>2. ControlOK(f)
    BY <2>1 DEF ControlOK
  <2> QED
    BY <2>1, <2>2, FreshCall
<1>4. CallOK(g, wallets, ledger)
  <2>1. /\ DOMAIN g = CallFields /\ g.owner = o /\ g.amount = b
        /\ g.step = IF b < 0 THEN "done" ELSE "find"
        /\ g.result = IF b < 0 THEN "negative" ELSE ""
    BY DEF NoCall, CallFields
  <2> HIDE DEF g
  <2>2. b \in Int
    BY WalletAssumption
  <2>3. ControlOK(g)
    BY <2>1, <2>2 DEF ControlOK
  <2> QED
    BY <2>1, <2>3, FreshCall
<1> HIDE DEF f, g
<1> QED
  BY <1>1, <1>2, <1>3, <1>4, OneCallOnly

LEMMA RequestReadInv ==
  ASSUME WalletInv, NEW c \in Callers, NEW op \in {"ledger", "reconcile"}, NEW w,
         RequestRead(c, op, w)
  PROVE  WalletInv'
<1> DEFINE g == [NoCall EXCEPT !.op = op, !.wallet = w, !.step = "authorise"]
<1>1. call' = [call EXCEPT ![c] = g] /\ UNCHANGED tables
  BY DEF RequestRead, SetCall
<1>2. DOMAIN g = CallFields /\ g.op = op /\ g.step = "authorise" /\ g.result = ""
  BY DEF NoCall, CallFields
<1> HIDE DEF g
<1>3. ControlOK(g)
  BY <1>2 DEF ControlOK
<1>4. CallOK(g, wallets, ledger)
  BY <1>2, <1>3, FreshCall
<1> QED
  BY <1>1, <1>4, OneCallOnly

\* Moving on to a step that needs no more than the control of the call.
LEMMA GotoInv ==
  ASSUME WalletInv, UNCHANGED tables, NEW c \in Callers,
         NEW s \in {"insert", "page", "readWallet"}, Goto(c, s),
         call[c].step # "done",
         s = "insert" => call[c].owner \in Owners /\ call[c].amount \in Int,
         s = "page" => call[c].op # "reconcile",
         s = "readWallet" => call[c].op = "reconcile"
  PROVE  WalletInv'
<1> DEFINE r == call[c]
           q == [r EXCEPT !.step = s]
<1>1. call' = [call EXCEPT ![c] = q]
  BY GotoSets DEF WalletInv
<1>2. ControlOK(r)
  BY DEF WalletInv, CallInv, CallOK
<1>3. DOMAIN r = CallFields /\ r.result = ""
  BY <1>2 DEF ControlOK
<1>4. /\ DOMAIN q = CallFields /\ q.step = s /\ q.result = "" /\ q.op = r.op
      /\ q.owner = r.owner /\ q.amount = r.amount
  BY <1>3 DEF CallFields
<1>5. /\ s = "insert" => r.owner \in Owners /\ r.amount \in Int
      /\ s = "page" => r.op # "reconcile"
      /\ s = "readWallet" => r.op = "reconcile"
  OBVIOUS
<1> HIDE DEF q, r
<1>6. ControlOK(q)
  BY <1>4, <1>5 DEF ControlOK
<1>7. CallOK(q, wallets, ledger)
  BY <1>4, <1>5, <1>6, FreshCall
<1> QED
  BY <1>1, <1>7, OneCallOnly

LEMMA FindExistingInv ==
  ASSUME WalletInv, NEW c \in Callers, FindExisting(c)
  PROVE  WalletInv'
<1>1. UNCHANGED tables /\ call[c].step = "find" /\ (Answer(c, "duplicate") \/ Goto(c, "insert"))
  BY DEF FindExisting
<1>2. call[c].owner \in Owners /\ call[c].amount \in Int
  BY <1>1 DEF WalletInv, CallInv, CallOK, ControlOK
<1> QED
  BY <1>1, <1>2, AnswerInv, GotoInv

\* CreateWallet with the insert, whatever the caller is told.
LEMMA InsertInv ==
  ASSUME WalletInv, NEW c \in Callers, InsertWallet(c), ~OwnerTaken(call[c].owner),
         call[c].step = "insert", NEW answer \in {"created", "error"}, Answer(c, answer)
  PROVE  WalletInv'
<1> DEFINE r == call[c]
           q == [r EXCEPT !.step = "done", !.result = answer]
<1>1. call' = [call EXCEPT ![c] = q]
  BY AnswerSets DEF WalletInv
<1>2. ControlOK(r) /\ r.owner \in Owners /\ r.amount \in Int
  BY DEF WalletInv, CallInv, CallOK, ControlOK
<1>3. /\ TablesInv' /\ Grows
      /\ \E w \in DOMAIN wallets' :
           /\ wallets'[w].owner = r.owner
           /\ r.amount # 0 => Len(ledger'[w]) >= 1 /\ ledger'[w][1].after = r.amount
  BY <1>2, InsertWalletInv DEF WalletInv
<1>4. DOMAIN r = CallFields
  BY <1>2 DEF ControlOK
<1>5. /\ DOMAIN q = CallFields /\ q.step = "done" /\ q.result = answer
      /\ q.owner = r.owner /\ q.amount = r.amount
  BY <1>4 DEF CallFields
<1> HIDE DEF r, q
<1>6. ControlOK(q) /\ StoredOK(q, wallets', ledger') /\ ComparedOK(q, wallets', ledger')
  BY <1>5 DEF ControlOK, StoredOK, ComparedOK
<1>7. CreatedOK(q, wallets', ledger')
  BY <1>3, <1>5 DEF CreatedOK
<1>8. CallInv'
  BY <1>1, <1>3, <1>6, <1>7, OneCall DEF CallOK
<1> QED
  BY <1>3, <1>8 DEF WalletInv

LEMMA CreateWalletInv ==
  ASSUME WalletInv, NEW c \in Callers, CreateWallet(c)
  PROVE  WalletInv'
<1>1. CASE OwnerTaken(call[c].owner)
  BY <1>1, AnswerInv DEF CreateWallet
<1>2. CASE ~OwnerTaken(call[c].owner)
  BY <1>2, InsertInv DEF CreateWallet
<1> QED
  BY <1>1, <1>2

LEMMA CreateFailsInv ==
  ASSUME WalletInv, NEW c \in Callers, CreateFails(c)
  PROVE  WalletInv'
<1>1. CASE UNCHANGED tables
  BY <1>1, AnswerInv DEF CreateFails
<1>2. CASE call[c].step = "insert" /\ ~OwnerTaken(call[c].owner) /\ InsertWallet(c)
  BY <1>2, InsertInv DEF CreateFails
<1> QED
  BY <1>1, <1>2 DEF CreateFails

LEMMA AuthoriseInv ==
  ASSUME WalletInv, NEW c \in Callers, Authorise(c)
  PROVE  WalletInv'
<1>1. /\ UNCHANGED tables /\ call[c].step = "authorise"
      /\ Answer(c, "not found") \/ Answer(c, "forbidden") \/ Goto(c, FirstRead(c))
  BY DEF Authorise
<1>2. call[c].op \in {"ledger", "reconcile"}
  BY <1>1 DEF WalletInv, CallInv, CallOK, ControlOK
<1>3. CASE Goto(c, FirstRead(c))
  <2>1. CASE call[c].op = "ledger"
    <3>1. Goto(c, "page")
      BY <1>3, <2>1 DEF FirstRead
    <3> QED
      BY <1>1, <2>1, <3>1, GotoInv
  <2>2. CASE call[c].op = "reconcile"
    <3>1. Goto(c, "readWallet")
      BY <1>3, <2>2 DEF FirstRead
    <3> QED
      BY <1>1, <2>2, <3>1, GotoInv
  <2> QED
    BY <1>2, <2>1, <2>2
<1> QED
  BY <1>1, <1>3, AnswerInv

\* Reconcile reads the stored balance: it is the one the last entry left.
LEMMA ReadWalletInv ==
  ASSUME WalletInv, NEW c \in Callers, ReadWallet(c)
  PROVE  WalletInv'
<1> DEFINE r == call[c]
           w == r.wallet
           n == Len(ledger[w])
           q == [r EXCEPT !.step = "sum", !.stored = wallets[w].balance]
<1>1. UNCHANGED tables /\ r.step = "readWallet"
  BY DEF ReadWallet
<1>2. CASE w \notin DOMAIN wallets
  BY <1>1, <1>2, AnswerInv DEF ReadWallet
<1>3. CASE w \in DOMAIN wallets
  <2>1. call' = [call EXCEPT ![c] = q]
    BY <1>3 DEF ReadWallet, SetCall
  <2>2. ControlOK(r)
    BY DEF WalletInv, CallInv, CallOK
  <2>3. DOMAIN r = CallFields /\ r.result = "" /\ r.op = "reconcile"
    BY <1>1, <2>2 DEF ControlOK
  <2>4. /\ DOMAIN q = CallFields /\ q.step = "sum" /\ q.result = "" /\ q.op = "reconcile"
        /\ q.wallet = w /\ q.stored = wallets[w].balance
    BY <2>3 DEF CallFields
  <2>5. wallets[w].balance = LastAfter(ledger[w]) /\ n \in Nat
    BY <1>3, Rows DEF WalletInv, TablesInv, LedgerSumsUp
  <2>6. wallets[w].balance = At(ledger[w], n) /\ n \in 0..n
    BY <2>5 DEF LastAfter, At
  <2> HIDE DEF q, r, w
  <2>7. ControlOK(q) /\ CreatedOK(q, wallets, ledger) /\ ComparedOK(q, wallets, ledger)
    BY <2>4 DEF ControlOK, CreatedOK, ComparedOK
  <2>8. StoredOK(q, wallets, ledger)
    BY <1>3, <2>4, <2>6 DEF StoredOK
  <2> QED
    BY <1>1, <2>1, <2>7, <2>8, OneCallOnly DEF CallOK
<1> QED
  BY <1>2, <1>3

\* Its sum is the balance the last entry has left by then.
LEMMA SumLedgerInv ==
  ASSUME WalletInv, NEW c \in Callers, SumLedger(c)
  PROVE  WalletInv'
<1> DEFINE r == call[c]
           w == r.wallet
           n == Len(ledger[w])
           q == [r EXCEPT !.step = "page", !.sum = SumByWalletID(ledger[w])]
<1>1. UNCHANGED tables /\ r.step = "sum" /\ call' = [call EXCEPT ![c] = q]
  BY DEF SumLedger, SetCall
<1>2. ControlOK(r) /\ StoredOK(r, wallets, ledger)
  BY DEF WalletInv, CallInv, CallOK
<1>3. DOMAIN r = CallFields /\ r.result = "" /\ r.op = "reconcile" /\ w \in DOMAIN wallets
  BY <1>1, <1>2 DEF ControlOK, StoredOK
<1>4. PICK i \in 0..n : r.stored = At(ledger[w], i)
  BY <1>1, <1>2 DEF StoredOK
<1>5. /\ DOMAIN q = CallFields /\ q.step = "page" /\ q.result = "" /\ q.op = "reconcile"
      /\ q.wallet = w /\ q.stored = r.stored /\ q.sum = SumByWalletID(ledger[w])
  BY <1>3 DEF CallFields
<1>6. SumByWalletID(ledger[w]) = LastAfter(ledger[w]) /\ n \in Nat
  BY <1>3, Rows DEF WalletInv, TablesInv, LedgerSumsUp
<1>7. SumByWalletID(ledger[w]) = At(ledger[w], n) /\ n \in 0..n /\ i <= n
  BY <1>6 DEF LastAfter, At
<1> HIDE DEF q, r, w
<1>8. ControlOK(q) /\ CreatedOK(q, wallets, ledger) /\ StoredOK(q, wallets, ledger)
  BY <1>5 DEF ControlOK, CreatedOK, StoredOK
<1>9. ComparedOK(q, wallets, ledger)
  BY <1>3, <1>4, <1>5, <1>7 DEF ComparedOK
<1> QED
  BY <1>1, <1>8, <1>9, OneCallOnly DEF CallOK

\* A page changes neither of the two balances that are compared.
LEMMA PageOK ==
  ASSUME NEW ws, NEW lg, NEW r, CallOK(r, ws, lg), r.step = "page", NEW q,
         DOMAIN q = CallFields, q.op = r.op, q.wallet = r.wallet, q.stored = r.stored,
         q.sum = r.sum,
         \/ q.step = "page" /\ q.result = ""
         \/ q.step = "done" /\ q.result \in {"listed", "consistent", "divergent"}
  PROVE  CallOK(q, ws, lg)
  BY DEF CallOK, ControlOK, CreatedOK, StoredOK, ComparedOK

LEMMA ReadPageInv ==
  ASSUME WalletInv, NEW c \in Callers, ReadPage(c)
  PROVE  WalletInv'
<1> DEFINE r == call[c]
           w == r.wallet
           known == w \in DOMAIN wallets
           rest == IF known THEN EntriesAfter(w, r.cursor) ELSE {}
           page == IF known THEN FirstBy(w, rest, PageSize) ELSE {}
           read == [r EXCEPT !.checked = @ + Cardinality(page)]
           next == [read EXCEPT !.cursor = CursorOf(ledger[w][LastOf(w, page)])]
           last == [read EXCEPT !.step = "done", !.result = Outcome(read)]
<1>1. /\ UNCHANGED tables /\ r.step = "page"
      /\ \/ Answer(c, "error")
         \/ call' = [call EXCEPT ![c] = next]
         \/ call' = [call EXCEPT ![c] = last]
  BY DEF ReadPage, SetCall
<1>2. CallOK(r, wallets, ledger)
  BY DEF WalletInv, CallInv
<1>3. DOMAIN r = CallFields /\ r.result = ""
  BY <1>1, <1>2 DEF CallOK, ControlOK
<1> HIDE DEF rest, page
<1>4. /\ DOMAIN read = CallFields /\ read.op = r.op /\ read.wallet = r.wallet
      /\ read.stored = r.stored /\ read.sum = r.sum /\ read.step = "page" /\ read.result = ""
  BY <1>1, <1>3 DEF CallFields
<1> HIDE DEF read
<1>5. CASE call' = [call EXCEPT ![c] = next]
  <2>1. /\ DOMAIN next = CallFields /\ next.op = r.op /\ next.wallet = r.wallet
        /\ next.stored = r.stored /\ next.sum = r.sum /\ next.step = "page" /\ next.result = ""
    BY <1>4 DEF CallFields
  <2> HIDE DEF next
  <2>2. CallOK(next, wallets, ledger)
    BY <1>1, <1>2, <2>1, PageOK
  <2> QED
    BY <1>1, <1>5, <2>2, OneCallOnly
<1>6. CASE call' = [call EXCEPT ![c] = last]
  <2>1. Outcome(read) \in {"listed", "consistent", "divergent"}
    BY DEF Outcome
  <2>2. /\ DOMAIN last = CallFields /\ last.op = r.op /\ last.wallet = r.wallet
        /\ last.stored = r.stored /\ last.sum = r.sum /\ last.step = "done"
        /\ last.result = Outcome(read)
    BY <1>4 DEF CallFields
  <2> HIDE DEF last
  <2>3. CallOK(last, wallets, ledger)
    BY <1>1, <1>2, <2>1, <2>2, PageOK
  <2> QED
    BY <1>1, <1>6, <2>3, OneCallOnly
<1> QED
  BY <1>1, <1>5, <1>6, AnswerInv

LEMMA ReadFailsInv ==
  ASSUME WalletInv, NEW c \in Callers, ReadFails(c)
  PROVE  WalletInv'
  BY AnswerInv DEF ReadFails

LEMMA BeginInv ==
  ASSUME WalletInv, NEW w \in DOMAIN wallets, Begin(w)
  PROVE  WalletInv'
<1> DEFINE m == [wallet |-> w, created |-> begun + 1]
<1>1. /\ wallets' = wallets /\ ledger' = ledger /\ call' = call
      /\ begun' = begun + 1 /\ open' = open \cup {m}
  BY DEF Begin
<1>2. begun \in Nat /\ open \subseteq [wallet : DOMAIN wallets, created : Int]
  BY DEF WalletInv, TablesInv, TablesOK
<1>3. m \in [wallet : DOMAIN wallets, created : Int]
  BY <1>2
<1> HIDE DEF m
<1>4. begun' \in Nat /\ open' \subseteq [wallet : DOMAIN wallets', created : Int]
  BY <1>1, <1>2, <1>3
<1> QED
  BY <1>1, <1>4
     DEF WalletInv, TablesInv, TablesOK, OneWalletEach, LedgerSumsUp, CallInv

LEMMA SettleStepInv ==
  ASSUME WalletInv, NEW m \in open, NEW dir \in {"CREDIT", "DEBIT"}, NEW x \in Amounts,
         Settle(m, dir, x)
  PROVE  WalletInv'
<1>1. TablesInv' /\ Grows
  BY SettleInv DEF WalletInv
<1>2. call' = call
  BY DEF Settle
<1>3. CallInv'
  BY <1>1, <1>2, GrowsKeeps DEF WalletInv, TablesInv, CallInv
<1> QED
  BY <1>1, <1>3 DEF WalletInv

-----------------------------------------------------------------------------
(***************************************************************************)
(* The theorems.                                                           *)
(***************************************************************************)

\* The inductive invariant: the rows of the two tables belong together and what
\* every call has read or been told is still so, whatever other requests of
\* CreateWallet and Reconcile and the settlements do in between.
THEOREM WalletInvariance == WalletSpec => []WalletInv
<1>1. WalletInit => WalletInv
  <2> SUFFICES ASSUME WalletInit PROVE WalletInv
    OBVIOUS
  <2>1. /\ wallets = <<>> /\ ledger = <<>> /\ begun = 0 /\ open = {}
        /\ call = [c \in Callers |-> NoCall]
    BY DEF WalletInit
  <2>2. TablesInv
    <3>1. DOMAIN wallets = {} /\ Len(wallets) = 0 /\ Len(ledger) = 0
      BY <2>1
    <3>2. wallets \in Seq(WalletType) /\ ledger \in Seq(Seq(EntryType))
      BY <2>1
    <3> QED
      BY <2>1, <3>1, <3>2 DEF TablesInv, TablesOK, OneWalletEach, LedgerSumsUp
  <2>3. DOMAIN NoCall = CallFields /\ NoCall.step = "idle" /\ NoCall.result = ""
    BY DEF NoCall, CallFields
  <2>4. ControlOK(NoCall)
    BY <2>3 DEF ControlOK
  <2>5. CallOK(NoCall, wallets, ledger)
    BY <2>3, <2>4, FreshCall
  <2> QED
    BY <2>1, <2>2, <2>5 DEF WalletInv, CallInv
<1>2. WalletInv /\ [WalletNext]_wvars => WalletInv'
  <2> SUFFICES ASSUME WalletInv, [WalletNext]_wvars PROVE WalletInv'
    OBVIOUS
  <2>1. ASSUME NEW c \in Callers,
               NEW o \in Owners, NEW b \in InitialBalances, RequestCreate(c, o, b)
        PROVE  WalletInv'
    BY <2>1, RequestCreateInv
  <2>2. ASSUME NEW c \in Callers, NEW op \in {"ledger", "reconcile"},
               NEW w \in 1..Cardinality(Owners), RequestRead(c, op, w)
        PROVE  WalletInv'
    BY <2>2, RequestReadInv
  <2>3. ASSUME NEW c \in Callers, \/ FindExisting(c) \/ CreateWallet(c) \/ CreateFails(c)
                                  \/ Authorise(c) \/ ReadWallet(c) \/ SumLedger(c)
                                  \/ ReadPage(c) \/ ReadFails(c)
        PROVE  WalletInv'
    BY <2>3, FindExistingInv, CreateWalletInv, CreateFailsInv, AuthoriseInv, ReadWalletInv,
       SumLedgerInv, ReadPageInv, ReadFailsInv
  <2>4. ASSUME NEW w \in DOMAIN wallets, Begin(w)
        PROVE  WalletInv'
    BY <2>4, BeginInv
  <2>5. ASSUME NEW m \in open, NEW dir \in {"CREDIT", "DEBIT"}, NEW a \in Amounts,
               Settle(m, dir, a)
        PROVE  WalletInv'
    BY <2>5, SettleStepInv
  <2>6. CASE Waiting \/ UNCHANGED wvars
    <3>1. wallets' = wallets /\ ledger' = ledger /\ begun' = begun /\ open' = open /\ call' = call
      BY <2>6 DEF Waiting, wvars, tables
    <3> QED
      BY <3>1 DEF WalletInv, TablesInv, TablesOK, OneWalletEach, LedgerSumsUp, CallInv
  <2> QED
    BY <2>1, <2>2, <2>3, <2>4, <2>5, <2>6 DEF WalletNext
<1> QED
  BY <1>1, <1>2, PTL DEF WalletSpec

\* However many requests race CreateWallet for a player, fail half-way or lose
\* the answer to their commit, the player has one wallet per provider and
\* currency, and whoever was told "created" has it with the balance asked for.
THEOREM OneWalletPerOwner == WalletSpec => []WalletPerOwner
<1>1. WalletInv => WalletPerOwner
  <2> SUFFICES ASSUME WalletInv PROVE WalletPerOwner
    OBVIOUS
  <2>1. \A v, w \in DOMAIN wallets : wallets[v].owner = wallets[w].owner => v = w
    BY DEF WalletInv, TablesInv, OneWalletEach
  <2>2. \A c \in Callers : CreatedOK(call[c], wallets, ledger)
    BY DEF WalletInv, CallInv, CallOK
  <2> QED
    BY <2>1, <2>2 DEF WalletPerOwner, CreatedOK, FindByPlayerAndCurrencyAndProvider
<1> QED
  BY <1>1, WalletInvariance, PTL

\* In every state the sum SumByWalletID computes over a wallet's ledger, however
\* long it is, is the balance stored in its row.
THEOREM SumsMatch == WalletSpec => []SumIsBalance
<1>1. WalletInv => SumIsBalance
  BY DEF WalletInv, TablesInv, LedgerSumsUp, SumIsBalance
<1> QED
  BY <1>1, WalletInvariance, PTL

\* Reconcile, whose reads are separate statements between which settlements
\* commit, compares two balances the wallet had, the sum the later one.
THEOREM ReconcileTrue == WalletSpec => []ReconcilesRealBalances
<1>1. WalletInv => ReconcilesRealBalances
  <2> SUFFICES ASSUME WalletInv PROVE ReconcilesRealBalances
    OBVIOUS
  <2>1. \A w, i : BalanceAt(w, i) = At(ledger[w], i)
    BY DEF BalanceAt, At
  <2>2. \A c \in Callers : ComparedOK(call[c], wallets, ledger)
    BY DEF WalletInv, CallInv, CallOK
  <2> QED
    BY <2>1, <2>2 DEF ReconcilesRealBalances, ComparedOK
<1> QED
  BY <1>1, WalletInvariance, PTL
=============================================================================

---------------------------- MODULE WalletService ----------------------------
(***************************************************************************)
(* wallet.Service and its HTTP handlers: CreateWallet, GetLedger and       *)
(* Reconcile, called concurrently while transactions settle.  A step is    *)
(* one database round trip, or one SQL transaction.                        *)
(*                                                                         *)
(* The settlements of WagerService appear as Begin and Settle: the balance *)
(* and the ledger entry are committed together, and created_at is now(),   *)
(* the time the transaction began.                                         *)
(***************************************************************************)
EXTENDS Integers, Sequences, FiniteSets

CONSTANTS
  Callers,          \* concurrent HTTP requests
  Provider,         \* the provider_id of each caller's token, or NoProvider
  NoProvider,
  Owners,           \* records [provider, player, currency]
  InitialBalances,  \* the initial balances asked for, minor units
  Amounts,          \* the amounts settlements move
  PageSize,         \* the limit of a page, 1000 in Reconcile
  MaxTransactions,  \* bound: transactions begun, which stamp their entries
  MaxCalls,         \* bound: calls made
  MaxFaults         \* bound: failed database calls

ASSUME WalletAssumption ==
  /\ Provider \in [Callers -> {o.provider : o \in Owners} \cup {NoProvider}]
  /\ NoProvider \notin {o.provider : o \in Owners}
  /\ InitialBalances \subseteq Int
  /\ Amounts \subseteq Nat \ {0}
  /\ PageSize \in Nat \ {0}
  /\ MaxTransactions \in Nat /\ MaxCalls \in Nat /\ MaxFaults \in Nat

VARIABLES
  wallets,  \* the wallets table, records [owner, balance]; the index is the id
  ledger,   \* the ledger entries of each wallet, in commit order
  begun,    \* transactions begun so far: the stamp of the next one
  open,     \* settlements that began and have not committed, [wallet, created]
  call,     \* the call of each caller
  calls,    \* calls so far
  faults    \* failed database calls so far

tables == <<wallets, ledger, begun, open>>
wvars  == <<tables, call, calls, faults>>

NoCursor == <<>>
NoCall   == [op |-> "none", step |-> "idle", owner |-> 0, wallet |-> 0, amount |-> 0,
             stored |-> 0, sum |-> 0, checked |-> 0, cursor |-> NoCursor, result |-> ""]

SetCall(c, r)    == call' = [call EXCEPT ![c] = r]
Goto(c, s)       == call' = [call EXCEPT ![c].step = s]
Answer(c, answer) == call' = [call EXCEPT ![c].step = "done", ![c].result = answer]

Fault == faults < MaxFaults /\ faults' = faults + 1

FindByPlayerAndCurrencyAndProvider(o) == {w \in DOMAIN wallets : wallets[w].owner = o}

-----------------------------------------------------------------------------
(***************************************************************************)
(* CreateWallet.                                                           *)
(***************************************************************************)

\* the handler's and the service's validation; the provider is the token's
RequestCreate(c, o, amount) ==
  /\ call[c].step \in {"idle", "done"} /\ calls < MaxCalls
  /\ calls' = calls + 1
  /\ IF Provider[c] = NoProvider
     THEN SetCall(c, [NoCall EXCEPT !.op = "create", !.step = "done", !.result = "forbidden"])
     ELSE /\ o.provider = Provider[c]
          /\ SetCall(c, [NoCall EXCEPT !.op = "create", !.owner = o, !.amount = amount,
                           !.step = IF amount < 0 THEN "done" ELSE "find",
                           !.result = IF amount < 0 THEN "negative" ELSE ""])
  /\ UNCHANGED <<tables, faults>>

FindExisting(c) ==
  /\ call[c].step = "find"
  /\ IF FindByPlayerAndCurrencyAndProvider(call[c].owner) # {}
     THEN Answer(c, "duplicate")
     ELSE Goto(c, "insert")
  /\ UNCHANGED <<tables, calls, faults>>

Entry(dir, amount, before, after, created) ==
  [dir |-> dir, amount |-> amount, before |-> before, after |-> after, created |-> created]

\* Mutant: the OPENING entry is forgotten.
MutantNoOpening(amount) == <<>>

\* the OPENING ledger entry, which a balance of zero does without
OpeningLedger(amount) ==
  IF amount = 0 THEN <<>> ELSE <<Entry("CREDIT", amount, 0, amount, begun + 1)>>

\* CreateWalletTx, CreateOpeningTx, CreateLedgerEntryTx, the events and commit
InsertWallet(c) ==
  /\ begun < MaxTransactions
  /\ begun' = begun + 1
  /\ wallets' = Append(wallets, [owner |-> call[c].owner, balance |-> call[c].amount])
  /\ ledger' = Append(ledger, OpeningLedger(call[c].amount))
  /\ UNCHANGED open

\* Mutant: no UNIQUE (player_id, currency, provider_id).
MutantNoOwnerIndex(o) == FALSE

\* wallets_player_id_currency_provider_id_key
OwnerTaken(o) == FindByPlayerAndCurrencyAndProvider(o) # {}

CreateWallet(c) ==
  /\ call[c].step = "insert"
  /\ IF OwnerTaken(call[c].owner)
     THEN Answer(c, "duplicate") /\ UNCHANGED tables
     ELSE Answer(c, "created") /\ InsertWallet(c)
  /\ UNCHANGED <<calls, faults>>

\* a failed statement rolls everything back; the answer to Commit may be lost
CreateFails(c) ==
  /\ call[c].step \in {"find", "insert"}
  /\ Fault
  /\ Answer(c, "error")
  /\ \/ UNCHANGED tables
     \/ call[c].step = "insert" /\ ~OwnerTaken(call[c].owner) /\ InsertWallet(c)
  /\ UNCHANGED calls

-----------------------------------------------------------------------------
(***************************************************************************)
(* GetLedger and Reconcile.                                                *)
(***************************************************************************)
RequestRead(c, op, w) ==
  /\ call[c].step \in {"idle", "done"} /\ calls < MaxCalls
  /\ calls' = calls + 1
  /\ SetCall(c, [NoCall EXCEPT !.op = op, !.wallet = w, !.step = "authorise"])
  /\ UNCHANGED <<tables, faults>>

FirstRead(c) == IF call[c].op = "ledger" THEN "page" ELSE "readWallet"

\* the handler reads the wallet to compare its provider with the token's; a
\* token without provider_id is let through
Authorise(c) ==
  /\ call[c].step = "authorise"
  /\ IF Provider[c] = NoProvider THEN Goto(c, FirstRead(c))
     ELSE IF call[c].wallet \notin DOMAIN wallets THEN Answer(c, "not found")
     ELSE IF wallets[call[c].wallet].owner.provider # Provider[c] THEN Answer(c, "forbidden")
     ELSE Goto(c, FirstRead(c))
  /\ UNCHANGED <<tables, calls, faults>>

\* Reconcile: the stored balance first ...
ReadWallet(c) ==
  /\ call[c].step = "readWallet"
  /\ IF call[c].wallet \notin DOMAIN wallets
     THEN Answer(c, "not found")
     ELSE SetCall(c, [call[c] EXCEPT !.step = "sum", !.stored = wallets[call[c].wallet].balance])
  /\ UNCHANGED <<tables, calls, faults>>

\* Mutant: the sum forgets the debits.
MutantCreditsOnly(e) == IF e.dir = "CREDIT" THEN e.amount ELSE 0

\* what an entry adds to the sum
Signed(e) == IF e.dir = "CREDIT" THEN e.amount ELSE -e.amount

\* SUM of the credits minus SUM of the debits, entry by entry
RunningSum(entries) ==
  LET sum[n \in 0..Len(entries)] == IF n = 0 THEN 0 ELSE sum[n - 1] + Signed(entries[n])
  IN sum

SumByWalletID(entries) == RunningSum(entries)[Len(entries)]

\* ... then the sum of the ledger, in another statement
SumLedger(c) ==
  /\ call[c].step = "sum"
  /\ SetCall(c, [call[c] EXCEPT !.step = "page", !.sum = SumByWalletID(ledger[call[c].wallet])])
  /\ UNCHANGED <<tables, calls, faults>>

\* the cursor is RFC3339Nano time, colon, id: here the pieces between colons
CursorOf(e) == <<"date and hour", "minute", "second", e.created>>

\* strings.SplitN(cursor, ":", 2), and time.Parse of its first part
CursorTime(cursor) == SubSeq(cursor, 1, 1)
ParsesAsTime(text) == Len(text) = 3

EntriesAfter(w, cursor) ==
  {i \in DOMAIN ledger[w] : cursor = NoCursor \/ ledger[w][i].created > cursor[Len(cursor)]}

\* ORDER BY created_at, id LIMIT: the entries with fewer than n before them
FirstBy(w, S, n) ==
  {i \in S : Cardinality({j \in S : ledger[w][j].created < ledger[w][i].created}) < n}

LastOf(w, S) == CHOOSE i \in S : \A j \in S : ledger[w][j].created <= ledger[w][i].created

Outcome(r) ==
  IF r.op = "ledger" THEN "listed"
  ELSE IF r.stored = r.sum THEN "consistent" ELSE "divergent"

\* FindByWalletID: a page, and the cursor of the next one if there is more.
\* Reconcile loops over the pages; a client of GetLedger asks for the next.
ReadPage(c) ==
  LET w     == call[c].wallet
      known == w \in DOMAIN wallets
      rest  == IF known THEN EntriesAfter(w, call[c].cursor) ELSE {}
      page  == IF known THEN FirstBy(w, rest, PageSize) ELSE {}
      read  == [call[c] EXCEPT !.checked = @ + Cardinality(page)]
  IN /\ call[c].step = "page"
     /\ IF call[c].cursor # NoCursor /\ ~ParsesAsTime(CursorTime(call[c].cursor))
        THEN Answer(c, "error")
        ELSE IF rest # page
        THEN SetCall(c, [read EXCEPT !.cursor = CursorOf(ledger[w][LastOf(w, page)])])
        ELSE SetCall(c, [read EXCEPT !.step = "done", !.result = Outcome(read)])
     /\ UNCHANGED <<tables, calls, faults>>

ReadFails(c) ==
  /\ call[c].step \in {"authorise", "readWallet", "sum", "page"}
  /\ Fault
  /\ Answer(c, "error")
  /\ UNCHANGED <<tables, calls>>

-----------------------------------------------------------------------------
(***************************************************************************)
(* Settlements, as WagerService commits them.                              *)
(***************************************************************************)
Begin(w) ==
  /\ begun < MaxTransactions
  /\ begun' = begun + 1
  /\ open' = open \cup {[wallet |-> w, created |-> begun + 1]}
  /\ UNCHANGED <<wallets, ledger, call, calls, faults>>

Settle(m, dir, amount) ==
  LET before == wallets[m.wallet].balance
      after  == IF dir = "CREDIT" THEN before + amount ELSE before - amount
  IN /\ after >= 0
     /\ wallets' = [wallets EXCEPT ![m.wallet].balance = after]
     /\ ledger' = [ledger EXCEPT ![m.wallet] =
                     Append(@, Entry(dir, amount, before, after, m.created))]
     /\ open' = open \ {m}
     /\ UNCHANGED <<begun, call, calls, faults>>

WalletInit ==
  /\ wallets = <<>> /\ ledger = <<>> /\ begun = 0 /\ open = {}
  /\ call = [c \in Callers |-> NoCall]
  /\ calls = 0 /\ faults = 0

\* nobody has anything to do, but for a wallet beyond the bound on transactions
Waiting == (\A c \in Callers : call[c].step \in {"idle", "done", "insert"}) /\ UNCHANGED wvars

WalletNext ==
  \/ \E c \in Callers :
       \/ \E o \in Owners, b \in InitialBalances : RequestCreate(c, o, b)
       \/ \E op \in {"ledger", "reconcile"}, w \in 1..Cardinality(Owners) : RequestRead(c, op, w)
       \/ FindExisting(c) \/ CreateWallet(c) \/ CreateFails(c)
       \/ Authorise(c) \/ ReadWallet(c) \/ SumLedger(c) \/ ReadPage(c) \/ ReadFails(c)
  \/ \E w \in DOMAIN wallets : Begin(w)
  \/ \E m \in open, dir \in {"CREDIT", "DEBIT"}, a \in Amounts : Settle(m, dir, a)
  \/ Waiting

WalletSpec == WalletInit /\ [][WalletNext]_wvars

-----------------------------------------------------------------------------
\* However creations race, fail half-way or lose their answer, a player has one
\* wallet per provider and currency, and whoever is told "created" owns it
\* with the balance asked for in its first ledger entry.
WalletPerOwner ==
  /\ \A v, w \in DOMAIN wallets : wallets[v].owner = wallets[w].owner => v = w
  /\ \A c \in Callers : call[c].result = "created" =>
       \E w \in FindByPlayerAndCurrencyAndProvider(call[c].owner) :
         call[c].amount # 0 => ledger[w][1].after = call[c].amount

\* Every wallet is reconcilable at every moment: the sum SumByWalletID computes
\* is the stored balance, the OPENING entry included.
SumIsBalance ==
  \A w \in DOMAIN wallets : SumByWalletID(ledger[w]) = wallets[w].balance

BalanceAt(w, i) == IF i = 0 THEN 0 ELSE ledger[w][i].after

\* What a finished reconciliation compares are two balances the wallet really
\* had, the sum no older than the stored one: its reads are separate
\* statements, but neither sees half a settlement.
ReconcilesRealBalances ==
  \A c \in Callers :
    call[c].op = "reconcile" /\ call[c].result \in {"consistent", "divergent"} =>
      \E i, j \in 0..Len(ledger[call[c].wallet]) :
        /\ i <= j
        /\ call[c].stored = BalanceAt(call[c].wallet, i)
        /\ call[c].sum = BalanceAt(call[c].wallet, j)
=============================================================================

------------------------- MODULE WagerServiceProofs -------------------------
(***************************************************************************)
(* Proofs about WagerService, for every set of requests, handlers and      *)
(* wallets and every value of the bounds.  First what a handler has while  *)
(* it works: types, locks and the ledger.  Then what the handlers decide:  *)
(* a check made at one round trip still holds at the commit many round     *)
(* trips later, so every transaction settles, refuses, reverses, answers   *)
(* and publishes exactly what its row says, and the whole implements the   *)
(* abstract ledger.                                                        *)
(***************************************************************************)
EXTENDS WagerService, SequenceTheorems, FiniteSetTheorems, TLAPS

\* handler u is not touched by the step
Same(u) ==
  /\ pc'[u] = pc[u] /\ req'[u] = req[u] /\ ref'[u] = ref[u]
  /\ change'[u] = change[u] /\ code'[u] = code[u] /\ out'[u] = out[u]

OthersSame(t) == \A u \in Threads \ {t} : Same(u)

\* the rows that are there stay, as far as requests are concerned
RowsGrow ==
  /\ Len(rows') >= Len(rows)
  /\ \A i \in DOMAIN rows : rows'[i].req = rows[i].req

-----------------------------------------------------------------------------
\* A step of another handler leaves a handler's part of the invariant alone when
\* rows are only added and the wallet it holds is not touched.
LEMMA OtherHandler ==
  ASSUME IndInv, NEW u \in Threads, Same(u), RowsGrow, rows' \in Seq(RowType),
         pc[u] \in OwnerSteps => /\ lock'[req[u].wallet] = u
                                 /\ balance'[req[u].wallet] = balance[req[u].wallet]
                                 /\ version'[req[u].wallet] = version[req[u].wallet]
  PROVE  HandlerOK(u)'
<1> USE DEF IndInv
<1>1. HandlerOK(u) /\ TypeOK
  OBVIOUS
<1>2. DOMAIN rows \subseteq DOMAIN rows' /\ Len(rows) \in Nat /\ Len(rows') \in Nat
  BY <1>1 DEF TypeOK, TablesTyped, RowsGrow
<1>3. ref[u] \in 0..Len(rows) /\ ref'[u] \in 0..Len(rows')
  BY <1>1, <1>2 DEF HandlerOK, Same, RowsGrow
<1>4. RefKind(u)' = RefKind(u)
  BY <1>1, <1>2, <1>3 DEF RefKind, Same, RowsGrow, NoRow, TypeOK, TablesTyped
<1>5. pc[u] \in OwnerSteps => OwnerOK(u)'
  BY <1>1 DEF HandlerOK, OwnerOK, Same
<1>6. pc[u] = "lockWallet" => Direction(req[u].kind, RefKind(u))' \in Directions
  BY <1>1, <1>4 DEF HandlerOK, Same, Direction
<1>7. pc[u] = "reportBalance" => out'[u].tx \in DOMAIN rows'
  BY <1>1, <1>2 DEF HandlerOK, Same
<1> QED
  BY <1>1, <1>3, <1>5, <1>6, <1>7 DEF HandlerOK, Same

\* A step that changes one handler and no table.
LEMMA LocalStep ==
  ASSUME IndInv, NEW t \in Threads, UNCHANGED dbVars, OthersSame(t),
         HandlersTyped', CountersTyped', HandlerOK(t)',
         pc[t] \in OwnerSteps => pc'[t] \in OwnerSteps /\ req'[t] = req[t]
  PROVE  IndInv'
<1>1. TypeOK'
  BY DEF IndInv, TypeOK, TablesTyped, dbVars
<1>2. RowsGrow
  BY DEF IndInv, TypeOK, TablesTyped, dbVars, RowsGrow
<1>3. ASSUME NEW u \in Threads \ {t} PROVE HandlerOK(u)'
  <2>1. HandlerOK(u)
    BY DEF IndInv
  <2> QED
    BY <1>1, <1>2, <2>1, OtherHandler DEF OthersSame, dbVars, TypeOK, TablesTyped, HandlerOK, OwnerOK
<1>4. LocksOwned'
  <2> SUFFICES ASSUME NEW w \in Wallets, lock[w] \in Threads
               PROVE  pc'[lock[w]] \in OwnerSteps /\ req'[lock[w]].wallet = w
    BY DEF LocksOwned, dbVars
  <2>1. lock[w] \in Threads /\ pc[lock[w]] \in OwnerSteps /\ req[lock[w]].wallet = w
    BY DEF IndInv, TypeOK, TablesTyped, LocksOwned
  <2> QED
    BY <2>1 DEF OthersSame, Same
<1>5. RowsNameWallets'
  BY DEF IndInv, RowsNameWallets, dbVars
<1>6. LedgerExplainsBalance'
  BY DEF IndInv, LedgerExplainsBalance, BalanceAfter, dbVars
<1> QED
  BY <1>1, <1>3, <1>4, <1>5, <1>6 DEF IndInv

\* A rollback: the handler's wallet lock goes, nothing else changes.
LEMMA ReleaseStep ==
  ASSUME IndInv, NEW t \in Threads, lock' = Released(t),
         UNCHANGED <<balance, version, rows, ledger, outbox, inbox>>, OthersSame(t),
         HandlersTyped', CountersTyped', HandlerOK(t)'
  PROVE  IndInv'
<1>1. TypeOK'
  BY DEF IndInv, TypeOK, TablesTyped, Released
<1>2. RowsGrow
  BY DEF IndInv, TypeOK, TablesTyped, RowsGrow
<1>3. ASSUME NEW u \in Threads \ {t} PROVE HandlerOK(u)'
  <2>1. HandlerOK(u)
    BY DEF IndInv
  <2>2. pc[u] \in OwnerSteps => lock'[req[u].wallet] = u
    BY <2>1 DEF HandlerOK, OwnerOK, Released
  <2> QED
    BY <1>1, <1>2, <2>2, OtherHandler DEF OthersSame, TypeOK, TablesTyped
<1>4. LocksOwned'
  <2> SUFFICES ASSUME NEW w \in Wallets, lock'[w] \in Threads
               PROVE  pc'[lock'[w]] \in OwnerSteps /\ req'[lock'[w]].wallet = w
    BY DEF LocksOwned
  <2>1. lock'[w] = lock[w] /\ lock[w] # t /\ lock[w] \in Threads
    BY NoThreadAssumption DEF Released
  <2>2. lock[w] \in Threads /\ pc[lock[w]] \in OwnerSteps /\ req[lock[w]].wallet = w
    BY <2>1 DEF IndInv, TypeOK, TablesTyped, LocksOwned
  <2> QED
    BY <2>1, <2>2 DEF OthersSame, Same
<1>5. RowsNameWallets'
  BY DEF IndInv, RowsNameWallets
<1>6. LedgerExplainsBalance'
  BY DEF IndInv, LedgerExplainsBalance, BalanceAfter
<1> QED
  BY <1>1, <1>3, <1>4, <1>5, <1>6 DEF IndInv

\* A committed row without money.
LEMMA InsertStep ==
  ASSUME IndInv, NEW t \in Threads, NEW row \in RowType, row.req.wallet \in Wallets,
         rows' = Append(rows, row), outbox' \in Seq(EventType),
         inbox' \subseteq {r.message : r \in Requests},
         UNCHANGED <<balance, version, lock, ledger>>, OthersSame(t),
         pc[t] \notin OwnerSteps,
         HandlersTyped', CountersTyped', HandlerOK(t)'
  PROVE  IndInv'
<1>0. rows \in Seq(RowType)
  BY DEF IndInv, TypeOK, TablesTyped
<1>1. TypeOK'
  BY <1>0 DEF IndInv, TypeOK, TablesTyped
<1>2. RowsGrow
  BY <1>0 DEF RowsGrow
<1>3. ASSUME NEW u \in Threads \ {t} PROVE HandlerOK(u)'
  <2>1. HandlerOK(u)
    BY DEF IndInv
  <2> QED
    BY <1>1, <1>2, <2>1, OtherHandler DEF OthersSame, TypeOK, TablesTyped, HandlerOK, OwnerOK
<1>4. LocksOwned'
  <2> SUFFICES ASSUME NEW w \in Wallets, lock[w] \in Threads
               PROVE  pc'[lock[w]] \in OwnerSteps /\ req'[lock[w]].wallet = w
    BY DEF LocksOwned
  <2>1. lock[w] \in Threads /\ pc[lock[w]] \in OwnerSteps /\ req[lock[w]].wallet = w
    BY DEF IndInv, TypeOK, TablesTyped, LocksOwned
  <2> QED
    BY <2>1 DEF OthersSame, Same
<1>5. RowsNameWallets'
  BY <1>0 DEF IndInv, RowsNameWallets
<1>6. LedgerExplainsBalance'
  BY DEF IndInv, LedgerExplainsBalance, BalanceAfter
<1> QED
  BY <1>1, <1>3, <1>4, <1>5, <1>6 DEF IndInv
-----------------------------------------------------------------------------
(***************************************************************************)
(* What the decision tables of the service return.                         *)
(***************************************************************************)

\* The failure codes; only a lack of money gets another code than WALLET_ERROR.
LEMMA FailureCodeFacts ==
  ASSUME NEW kind, NEW err
  PROVE  /\ FailureCode(kind, err) \in FailureCodes
         /\ FailureCode(kind, err) # "WALLET_ERROR" => err = "INSUFFICIENT"
         /\ ReturnedError(kind, err) \in Errors
  BY DEF FailureCode, FailureCodes, ReturnedError, Errors

\* Every kind moves money in one direction or in none; BET and WIN always do.
LEMMA DirectionFacts ==
  ASSUME NEW kind, NEW refKind
  PROVE  /\ Direction(kind, refKind) \in Directions \cup {"none"}
         /\ kind \in {"BET", "WIN"} => Direction(kind, refKind) \in Directions
  BY DEF Direction, Directions

\* What a request that passed the validation looks like.
LEMMA ValidationFacts ==
  ASSUME NEW r \in Requests
  PROVE  /\ ValidationError(r) \in Errors
         /\ ValidationError(r) = "" => r.kind \in Kinds /\ r.amount \in Balances
  BY RequestsAssumption, WalletsAssumption DEF ValidationError, Errors, Balances

\* The mismatches of a reference are failure codes.
LEMMA MismatchFacts ==
  ASSUME NEW r, NEW p
  PROVE  ReferenceMismatch(r, p) \in FailureCodes /\ WinReferenceError(r, p) \in FailureCodes
  BY DEF ReferenceMismatch, WinReferenceError, FailureCodes

\* the balance a change leaves behind
Moved(c, amount) == IF c.dir = "DEBIT" THEN c.before - amount ELSE c.before + amount

\* A wallet that does not refuse can carry the change: the balance stays within
\* what Money holds.
LEMMA MovedFacts ==
  ASSUME NEW c, c.before \in Balances, c.dir \in Directions, NEW amount \in Balances,
         WalletError(c.before, c.dir, amount) = ""
  PROVE  Moved(c, amount) \in Balances
  BY WalletsAssumption DEF WalletError, Directions, Balances, Moved

\* The BalanceChange of Wallet.Debit and Wallet.Credit.
LEMMA AppliedFacts ==
  ASSUME NEW c \in ChangeType, NEW amount, Moved(c, amount) \in Balances
  PROVE  /\ Applied(c, amount) \in ChangeType
         /\ Applied(c, amount).before = c.before
         /\ Applied(c, amount).dir = c.dir
         /\ Applied(c, amount).version = c.version + 1
         /\ Applied(c, amount).after = Moved(c, amount)
<1>1. Applied(c, amount) = [before |-> c.before, dir |-> c.dir, version |-> c.version + 1,
                            after |-> Moved(c, amount)]
  BY DEF Applied, Moved
<1>2. c.before \in Balances /\ c.version + 1 \in Nat /\ c.dir \in Directions \cup {"none"}
  BY DEF ChangeType
<1>3. Applied(c, amount) \in ChangeType
  BY <1>1, <1>2 DEF ChangeType, MaybeBalances
<1> QED
  BY <1>1, <1>3

-----------------------------------------------------------------------------
(***************************************************************************)
(* The moves of a handler: types, the other handlers, its own invariant.   *)
(***************************************************************************)

\* the outcome of a move that LocalStep, ReleaseStep, InsertStep and
\* SettleStep ask for
Moves(t) == HandlersTyped' /\ OthersSame(t) /\ HandlerOK(t)'

\* ProcessTransaction returns a response.
LEMMA ReturnFacts ==
  ASSUME IndInv, NEW t \in Threads, NEW resp \in ResponseType, Return(t, resp),
         pc[t] # "idle", rows' \in Seq(RowType)
  PROVE  Moves(t)
<1>1. NoChange \in ChangeType /\ "" \in FailureCodes /\ "done" \in Steps /\ NoRow \in Nat
  BY WalletsAssumption DEF NoChange, ChangeType, Balances, MaybeBalances, FailureCodes, Steps, NoRow
<1>2. HandlersTyped
  BY DEF IndInv, TypeOK
<1>3. HandlersTyped' /\ OthersSame(t) /\ pc'[t] = "done" /\ ref'[t] = NoRow /\ req'[t] = req[t]
  BY <1>1, <1>2 DEF HandlersTyped, Return, Goto, OthersSame, Same
<1>4. req[t] \in Requests
  BY DEF IndInv, HandlerOK
<1>5. Len(rows') \in Nat
  OBVIOUS
<1>6. HandlerOK(t)'
  BY <1>3, <1>4, <1>5 DEF HandlerOK, NoRow, ValidSteps, OwnerSteps
<1> QED
  BY <1>3, <1>6 DEF Moves

\* It goes on to read the balance it reports with a committed transaction.
LEMMA ReportFacts ==
  ASSUME IndInv, NEW t \in Threads, NEW tx \in Nat, NEW status \in Statuses, NEW replay \in BOOLEAN,
         ReportBalanceOf(t, tx, status, replay),
         pc[t] # "idle", rows' \in Seq(RowType), tx \in DOMAIN rows', Len(rows') >= Len(rows)
  PROVE  Moves(t)
<1> DEFINE resp == Response("", tx, status, NoBalance, replay)
<1>1. resp \in ResponseType
  BY DEF Response, ResponseType, MaybeBalances, Errors
<1>2. resp.tx = tx
  BY DEF Response
<1> HIDE DEF resp
<1>3. HandlersTyped /\ req[t] \in Requests /\ ref[t] \in 0..Len(rows) /\ Len(rows) \in Nat
  BY DEF IndInv, TypeOK, TablesTyped, HandlerOK
<1>4. "reportBalance" \in Steps
  BY DEF Steps
<1>5. pc' = [pc EXCEPT ![t] = "reportBalance"] /\ out' = [out EXCEPT ![t] = resp] /\ UNCHANGED localVars
  BY DEF ReportBalanceOf, Goto, resp
<1>6. HandlersTyped' /\ OthersSame(t) /\ pc'[t] = "reportBalance" /\ out'[t] = resp
      /\ ref'[t] = ref[t] /\ req'[t] = req[t]
  BY <1>1, <1>3, <1>4, <1>5 DEF HandlersTyped, localVars, OthersSame, Same
<1>7. HandlerOK(t)'
  BY <1>2, <1>3, <1>6 DEF HandlerOK, ValidSteps, OwnerSteps
<1> QED
  BY <1>6, <1>7 DEF Moves

\* It goes on to record a rejection.
LEMMA RejectFacts ==
  ASSUME IndInv, NEW t \in Threads, NEW c \in FailureCodes, RejectWith(t, c),
         pc[t] # "idle", req[t].amount \in Balances, rows' = rows
  PROVE  Moves(t)
<1>1. HandlersTyped /\ req[t] \in Requests /\ ref[t] \in 0..Len(rows)
  BY DEF IndInv, TypeOK, HandlerOK
<1>2. "reject" \in Steps
  BY DEF Steps
<1>3. HandlersTyped' /\ OthersSame(t) /\ pc'[t] = "reject" /\ ref'[t] = ref[t] /\ req'[t] = req[t]
  BY <1>1, <1>2 DEF HandlersTyped, RejectWith, Goto, OthersSame, Same
<1>4. HandlerOK(t)'
  BY <1>1, <1>3 DEF HandlerOK, ValidSteps, OwnerSteps
<1> QED
  BY <1>3, <1>4 DEF Moves

\* It goes on to another step with the locals it has.
LEMMA GotoFacts ==
  ASSUME IndInv, NEW t \in Threads, NEW step \in Steps, Goto(t, step), UNCHANGED <<localVars, out>>,
         pc[t] # "idle", rows' = rows, step \notin OwnerSteps \cup {"reportBalance"},
         step \in ValidSteps => req[t].amount \in Balances,
         step = "findReference" => req[t].kind \in {"WIN", "REFUND", "ROLLBACK"},
         step = "checkReversal" => ref[t] # NoRow,
         step = "lockWallet" => /\ Direction(req[t].kind, RefKind(t)) \in Directions
                                /\ req[t].kind \in ReversalKinds => ref[t] # NoRow,
         step = "pendingReference" => req[t].kind \in ReversalKinds,
         step \in {"lossBalance", "commitLoss"} => req[t].kind = "LOSS",
         step \in {"failureBalance", "commitLoss"} => req[t].wallet \in Wallets
  PROVE  Moves(t)
<1>1. HandlersTyped /\ req[t] \in Requests /\ ref[t] \in 0..Len(rows)
  BY DEF IndInv, TypeOK, HandlerOK
<1>2. HandlersTyped' /\ OthersSame(t) /\ pc'[t] = step /\ ref' = ref /\ req' = req
  BY <1>1 DEF HandlersTyped, Goto, localVars, OthersSame, Same
<1>3. RefKind(t)' = RefKind(t)
  BY <1>2 DEF RefKind
<1>4. HandlerOK(t)'
  <2>1. pc'[t] = "lockWallet" => Direction(req[t].kind, RefKind(t))' \in Directions
    BY <1>2, <1>3 DEF Direction
  <2> QED
    BY <1>1, <1>2, <2>1 DEF HandlerOK
<1> QED
  BY <1>2, <1>4 DEF Moves

-----------------------------------------------------------------------------
(***************************************************************************)
(* The transactions that end a request.                                    *)
(***************************************************************************)

\* The row a handler inserts is well-formed and carries its request.
LEMMA RowFacts ==
  ASSUME IndInv, NEW t \in Threads, pc[t] # "idle"
  PROVE  RowToInsert(t) \in RowType /\ RowToInsert(t).req = req[t]
<1>1. /\ req[t] \in Requests /\ ref[t] \in Nat /\ code[t] \in FailureCodes
      /\ change[t] \in ChangeType
  BY DEF IndInv, TypeOK, HandlersTyped, HandlerOK
<1>2. change[t].after \in MaybeBalances
  BY <1>1 DEF ChangeType
<1>3. /\ NoBalance \in MaybeBalances /\ NoRow \in Nat /\ "" \in FailureCodes
      /\ {"PROCESSED", "PENDING_REFERENCE", "REJECTED"} \subseteq Statuses
  BY DEF MaybeBalances, NoRow, FailureCodes, Statuses
<1>4. ASSUME NEW s \in Statuses, NEW fc \in FailureCodes, NEW ir \in Nat, NEW rb \in MaybeBalances
      PROVE  Row(req[t], s, fc, ir, rb) \in RowType /\ Row(req[t], s, fc, ir, rb).req = req[t]
  BY <1>1 DEF Row, RowType
<1>5. (IF req[t].kind \in ReversalKinds THEN ref[t] ELSE NoRow) \in Nat
  BY <1>1, <1>3
<1>6. CASE pc[t] \in {"commit", "commitLoss"}
  BY <1>2, <1>3, <1>4, <1>5, <1>6 DEF RowToInsert
<1>7. CASE pc[t] \notin {"commit", "commitLoss"} /\ pc[t] = "pendingReference"
  BY <1>3, <1>4, <1>7 DEF RowToInsert
<1>8. CASE pc[t] \notin {"commit", "commitLoss"} /\ pc[t] # "pendingReference"
  BY <1>1, <1>2, <1>3, <1>4, <1>8 DEF RowToInsert
<1> QED
  BY <1>6, <1>7, <1>8

\* NewId is the id of the appended row.
LEMMA NewIdFacts ==
  ASSUME IndInv, NEW row \in RowType, rows' = Append(rows, row)
  PROVE  /\ NewId \in Nat /\ NewId \in DOMAIN rows' /\ rows' \in Seq(RowType)
         /\ Len(rows') >= Len(rows)
<1>1. rows \in Seq(RowType)
  BY DEF IndInv, TypeOK, TablesTyped
<1> QED
  BY <1>1 DEF NewId

\* A row committed without money.
LEMMA InsertRowStep ==
  ASSUME IndInv, NEW t \in Threads, pc[t] # "idle", pc[t] \notin OwnerSteps,
         CanInsert(RowToInsert(t)), InsertRow(t),
         inbox' \subseteq {r.message : r \in Requests}, Moves(t), CountersTyped'
  PROVE  IndInv'
<1> DEFINE row == RowToInsert(t)
           ev  == Event(TransactionEvent(row.status), NewId, row.req.wallet, NoBalance, 0)
<1>1. row \in RowType /\ row.req.wallet \in Wallets
  BY RowFacts DEF CanInsert
<1>2. NewId \in Nat /\ outbox \in Seq(EventType)
  BY DEF IndInv, TypeOK, TablesTyped, NewId
<1>3. TransactionEvent(row.status) \in EventTypes
  BY DEF TransactionEvent, EventTypes
<1>4. ev \in EventType
  BY <1>1, <1>2, <1>3 DEF Event, EventType, MaybeBalances
<1>5. rows' = Append(rows, row) /\ outbox' = Append(outbox, ev) /\ UNCHANGED <<balance, version, lock, ledger>>
  BY DEF InsertRow
<1> HIDE DEF row, ev
<1> QED
  BY <1>1, <1>2, <1>4, <1>5, InsertStep DEF Moves

\* An entry that continues the chain of its ledger, written with the balance it
\* leaves behind.
LEMMA LedgerAppend ==
  ASSUME TablesTyped, LedgerExplainsBalance, NEW w \in Wallets, NEW e \in EntryType,
         e.before = balance[w],
         e.after = IF e.dir = "DEBIT" THEN e.before - e.amount ELSE e.before + e.amount,
         balance' = [balance EXCEPT ![w] = e.after],
         ledger' = [ledger EXCEPT ![w] = Append(@, e)]
  PROVE  LedgerExplainsBalance'
<1> SUFFICES ASSUME NEW x \in Wallets
             PROVE  /\ \A i \in DOMAIN ledger'[x] :
                         /\ ledger'[x][i].before = BalanceAfter(x, i - 1)'
                         /\ ledger'[x][i].after = IF ledger'[x][i].dir = "DEBIT"
                                                  THEN ledger'[x][i].before - ledger'[x][i].amount
                                                  ELSE ledger'[x][i].before + ledger'[x][i].amount
                    /\ balance'[x] = BalanceAfter(x, Len(ledger[x]))'
  BY DEF LedgerExplainsBalance
<1>1. /\ \A i \in DOMAIN ledger[x] :
           /\ ledger[x][i].before = BalanceAfter(x, i - 1)
           /\ ledger[x][i].after = IF ledger[x][i].dir = "DEBIT"
                                    THEN ledger[x][i].before - ledger[x][i].amount
                                    ELSE ledger[x][i].before + ledger[x][i].amount
      /\ balance[x] = BalanceAfter(x, Len(ledger[x]))
      /\ ledger[x] \in Seq(EntryType)
  BY DEF LedgerExplainsBalance, TablesTyped
<1>2. CASE x # w
  BY <1>1, <1>2 DEF TablesTyped, BalanceAfter
<1>3. CASE x = w
  <2> DEFINE n == Len(ledger[x])
  <2>1. ledger'[x] = Append(ledger[x], e) /\ balance'[x] = e.after
    BY <1>3 DEF TablesTyped
  <2>2. /\ n \in Nat /\ DOMAIN ledger[x] = 1..n /\ DOMAIN ledger'[x] = 1..(n + 1) /\ Len(ledger'[x]) = n + 1
        /\ ledger'[x][n + 1] = e
        /\ \A i \in 1..n : ledger'[x][i] = ledger[x][i]
    BY <1>1, <2>1
  <2>3. \A i \in 0..n : BalanceAfter(x, i)' = BalanceAfter(x, i)
    BY <2>2 DEF BalanceAfter
  <2>4. e.before = BalanceAfter(x, n)
    BY <1>1, <1>3
  <2>5. BalanceAfter(x, Len(ledger[x]))' = e.after
    BY <2>2 DEF BalanceAfter
  <2>6. ASSUME NEW i \in 1..(n + 1)
        PROVE  /\ ledger'[x][i].before = BalanceAfter(x, i - 1)'
               /\ ledger'[x][i].after = IF ledger'[x][i].dir = "DEBIT"
                                         THEN ledger'[x][i].before - ledger'[x][i].amount
                                         ELSE ledger'[x][i].before + ledger'[x][i].amount
    <3>1. CASE i \in 1..n
      <4>1. i - 1 \in 0..n /\ ledger'[x][i] = ledger[x][i]
        BY <2>2, <3>1
      <4> QED
        BY <1>1, <2>2, <2>3, <3>1, <4>1
    <3>2. CASE i = n + 1
      <4>1. i - 1 = n /\ ledger'[x][i] = e /\ n \in 0..n
        BY <2>2, <3>2
      <4> QED
        BY <2>3, <2>4, <4>1
    <3> QED
      BY <2>2, <3>1, <3>2
  <2> QED
    BY <2>1, <2>2, <2>5, <2>6
<1> QED
  BY <1>2, <1>3

\* A settlement: the wallet, the row, the ledger entry and the events.
LEMMA SettleStep ==
  ASSUME IndInv, NEW t \in Threads, pc[t] = "commit", InsertSettlement(t),
         inbox' \subseteq {r.message : r \in Requests}, Moves(t), CountersTyped',
         pc'[t] \notin OwnerSteps
  PROVE  IndInv'
<1> DEFINE w == req[t].wallet
           c == change[t]
           e == Entry(NewId, c.dir, req[t].amount, c.before, c.after)
           ev1 == Event("WagerTransactionProcessed", NewId, w, NoBalance, 0)
           ev2 == Event("WalletBalanceChanged", NewId, w, c.after, c.version)
           row == RowToInsert(t)
<1>1. OwnerOK(t) /\ req[t].amount \in Balances /\ c \in ChangeType /\ w \in Wallets
  BY DEF IndInv, TypeOK, HandlersTyped, HandlerOK, OwnerOK, OwnerSteps, ValidSteps
<1>2. /\ lock[w] = t /\ c.before = balance[w] /\ c.dir \in Directions
      /\ c.after \in Balances /\ c.version \in Nat
      /\ c.after = IF c.dir = "DEBIT" THEN c.before - req[t].amount ELSE c.before + req[t].amount
  BY <1>1 DEF OwnerOK, ChangeType
<1>3. TablesTyped /\ NewId \in Nat
  BY DEF IndInv, TypeOK, TablesTyped, NewId
<1>4. row \in RowType /\ row.req.wallet \in Wallets
  BY <1>1, RowFacts
<1>5. e \in EntryType /\ e.before = c.before /\ e.after = c.after /\ e.dir = c.dir /\ e.amount = req[t].amount
  BY <1>1, <1>2, <1>3 DEF Entry, EntryType, ChangeType
<1>6. ev1 \in EventType /\ ev2 \in EventType
  BY <1>1, <1>2, <1>3 DEF Event, EventType, EventTypes, MaybeBalances
<1>7. /\ balance' = [balance EXCEPT ![w] = c.after]
      /\ version' = [version EXCEPT ![w] = c.version]
      /\ lock' = Released(t)
      /\ rows' = Append(rows, row)
      /\ ledger' = [ledger EXCEPT ![w] = Append(@, e)]
      /\ outbox' = outbox \o <<ev1, ev2>>
  BY DEF InsertSettlement, WriteLedgerEntry
<1> HIDE DEF row, e, ev1, ev2
<1>8. rows' \in Seq(RowType) /\ RowsGrow
  BY <1>3, <1>4, <1>7 DEF TablesTyped, RowsGrow
<1>9. TypeOK'
  <2>1. outbox' \in Seq(EventType)
    BY <1>3, <1>6, <1>7 DEF TablesTyped
  <2>2. balance' \in [Wallets -> Balances] /\ version' \in [Wallets -> Nat]
    BY <1>2, <1>3, <1>7 DEF TablesTyped
  <2>3. lock' \in [Wallets -> Threads \cup Workers \cup {NoThread}]
    BY <1>3, <1>7 DEF TablesTyped, Released
  <2>4. ledger' \in [Wallets -> Seq(EntryType)]
    <3>1. ledger \in [Wallets -> Seq(EntryType)]
      BY <1>3 DEF TablesTyped
    <3>2. Append(ledger[w], e) \in Seq(EntryType)
      BY <1>1, <1>5, <3>1
    <3> QED
      BY <1>7, <3>1, <3>2
  <2> QED
    BY <1>8, <2>1, <2>2, <2>3, <2>4 DEF TypeOK, TablesTyped, Moves
<1>10. ASSUME NEW u \in Threads PROVE HandlerOK(u)'
  <2>1. CASE u = t
    BY <2>1 DEF Moves
  <2>2. CASE u # t
    <3>1. HandlerOK(u)
      BY DEF IndInv
    <3>2. pc[u] \in OwnerSteps => /\ lock'[req[u].wallet] = u
                                  /\ balance'[req[u].wallet] = balance[req[u].wallet]
                                  /\ version'[req[u].wallet] = version[req[u].wallet]
      BY <1>2, <1>3, <1>7, <2>2, <3>1 DEF HandlerOK, OwnerOK, Released, TablesTyped
    <3>3. Same(u)
      BY <2>2 DEF Moves, OthersSame
    <3> QED
      BY <1>8, <3>2, <3>3, OtherHandler
  <2> QED
    BY <2>1, <2>2
<1>11. LocksOwned'
  <2> SUFFICES ASSUME NEW x \in Wallets, lock'[x] \in Threads
               PROVE  pc'[lock'[x]] \in OwnerSteps /\ req'[lock'[x]].wallet = x
    BY DEF LocksOwned
  <2>1. lock'[x] = lock[x] /\ lock[x] # t /\ lock[x] \in Threads
    BY <1>7, NoThreadAssumption DEF Released
  <2>2. lock[x] \in Threads /\ pc[lock[x]] \in OwnerSteps /\ req[lock[x]].wallet = x
    BY <1>3, <2>1 DEF IndInv, TablesTyped, LocksOwned
  <2> QED
    BY <2>1, <2>2 DEF Moves, OthersSame, Same
<1>12. RowsNameWallets'
  BY <1>3, <1>4, <1>7 DEF IndInv, RowsNameWallets, TablesTyped
<1>13. LedgerExplainsBalance'
  BY <1>1, <1>2, <1>3, <1>5, <1>7, LedgerAppend DEF IndInv
<1> QED
  BY <1>9, <1>10, <1>11, <1>12, <1>13 DEF IndInv

-----------------------------------------------------------------------------
(***************************************************************************)
(* One lemma per action, or per group of actions of the same shape.        *)
(***************************************************************************)

\* A failed call is counted; any other step leaves the counters alone.
LEMMA CounterFacts ==
  ASSUME IndInv
  PROVE  /\ Fault /\ UNCHANGED received => CountersTyped'
         /\ UNCHANGED <<received, faults>> => CountersTyped'
  BY BoundsAssumption DEF IndInv, TypeOK, CountersTyped, Fault

\* The responses handlers build are responses.
LEMMA FailureFacts ==
  ASSUME NEW err \in Errors
  PROVE  Failure(err) \in ResponseType
  BY DEF Failure, Response, ResponseType, MaybeBalances, NoRow

\* Errors that are named in the actions.
LEMMA NamedErrors ==
  /\ {"", "INTERNAL", "PAYLOAD_CONFLICT", "EXTERNAL_ID_REUSE", "DOUBLE_REVERSAL",
      "IDEMPOTENT_DUPLICATE"} \subseteq Errors
  /\ {"MISSING_REFERENCE", "REFERENCE_NOT_FOUND", "REFERENCE_NOT_SUCCESSFUL", "DOUBLE_REVERSAL",
      "REVERSAL_VALUE_MISMATCH", "INVALID_REFERENCE_TYPE"} \subseteq FailureCodes
  BY DEF Errors, FailureCodes

\* A handler returns and no table changes.
LEMMA ReturnStep ==
  ASSUME IndInv, NEW t \in Threads, NEW resp \in ResponseType, Return(t, resp),
         pc[t] \notin {"idle"} \cup OwnerSteps, UNCHANGED dbVars, CountersTyped'
  PROVE  IndInv'
<1>1. rows' \in Seq(RowType)
  BY DEF IndInv, TypeOK, TablesTyped, dbVars
<1>2. Moves(t)
  BY <1>1, ReturnFacts
<1> QED
  BY <1>2, LocalStep DEF Moves

\* A handler decides to record a rejection and no table changes.
LEMMA RejectStep ==
  ASSUME IndInv, NEW t \in Threads, NEW c \in FailureCodes, RejectWith(t, c),
         pc[t] \notin {"idle"} \cup OwnerSteps, req[t].amount \in Balances,
         UNCHANGED dbVars, CountersTyped'
  PROVE  IndInv'
<1>1. rows' = rows
  BY DEF dbVars
<1>2. Moves(t)
  BY <1>1, RejectFacts
<1> QED
  BY <1>2, LocalStep DEF Moves

\* Receive preserves the invariant.
LEMMA ReceiveInv ==
  ASSUME IndInv, NEW t \in Threads, NEW r \in Requests, Receive(t, r)
  PROVE  IndInv'
<1>1. Failure("") \in ResponseType /\ "checkKey" \in Steps
  BY FailureFacts, NamedErrors DEF Steps
<1>2. HandlersTyped /\ ref[t] \in 0..Len(rows)
  BY DEF IndInv, TypeOK, HandlerOK
<1>3. HandlersTyped' /\ OthersSame(t) /\ pc'[t] = "checkKey" /\ req'[t] = r /\ ref' = ref
  BY <1>1, <1>2 DEF HandlersTyped, Receive, Goto, OthersSame, Same
<1>4. HandlerOK(t)'
  BY <1>2, <1>3 DEF HandlerOK, Receive, ValidSteps, OwnerSteps, dbVars
<1>5. CountersTyped'
  <2>1. received \in 0..MaxDeliveries /\ faults \in 0..MaxFaults
    BY DEF IndInv, TypeOK, CountersTyped
  <2>2. received < MaxDeliveries /\ received' = received + 1 /\ faults' = faults
    BY DEF Receive
  <2> QED
    BY <2>1, <2>2, BoundsAssumption DEF CountersTyped
<1>6. UNCHANGED dbVars /\ pc[t] \notin OwnerSteps
  BY DEF Receive, OwnerSteps
<1> QED
  BY <1>3, <1>4, <1>5, <1>6, LocalStep

\* A replay only reads.
LEMMA ReplayStep ==
  ASSUME IndInv, NEW t \in Threads, NEW id \in DOMAIN rows, HandleReplay(t, id),
         pc[t] \notin {"idle"} \cup OwnerSteps, UNCHANGED dbVars, CountersTyped'
  PROVE  IndInv'
<1>1. rows \in Seq(RowType) /\ rows' = rows
  BY DEF IndInv, TypeOK, TablesTyped, dbVars
<1>2. rows[id] \in RowType /\ id \in Nat
  BY <1>1
<1>3. rows[id].status \in Statuses /\ rows[id].resultBalance \in MaybeBalances
  BY <1>2 DEF RowType
<1>4. CASE rows[id].resultBalance # NoBalance
  <2>1. Response("", id, rows[id].status, rows[id].resultBalance, TRUE) \in ResponseType
    BY <1>2, <1>3 DEF Response, ResponseType, Errors
  <2> QED
    BY <1>4, <2>1, ReturnStep DEF HandleReplay
<1>5. CASE rows[id].resultBalance = NoBalance
  <2>1. Len(rows') >= Len(rows)
    BY <1>1
  <2>2. Moves(t)
    BY <1>1, <1>2, <1>3, <1>5, <2>1, ReportFacts DEF HandleReplay
  <2> QED
    BY <2>2, LocalStep DEF Moves
<1> QED
  BY <1>4, <1>5

\* CheckIdempotency preserves the invariant.
LEMMA CheckIdempotencyInv ==
  ASSUME IndInv, NEW t \in Threads, CheckIdempotency(t)
  PROVE  IndInv'
<1>1. /\ pc[t] \notin {"idle"} \cup OwnerSteps /\ UNCHANGED dbVars /\ CountersTyped'
      /\ rows' = rows /\ pc[t] = "checkKey"
  BY CounterFacts DEF CheckIdempotency, OwnerSteps, dbVars
<1>2. CASE FindByIdempotencyKey(req[t]) = {}
  <2>1. Goto(t, "checkExternal") /\ UNCHANGED <<localVars, out>> /\ "checkExternal" \in Steps
    BY <1>2 DEF CheckIdempotency, Steps
  <2>2. Moves(t)
    BY <1>1, <2>1, GotoFacts DEF ValidSteps, OwnerSteps
  <2> QED
    BY <1>1, <2>2, LocalStep DEF Moves
<1>3. CASE FindByIdempotencyKey(req[t]) # {}
  <2>1. PICK id \in FindByIdempotencyKey(req[t]) :
          IF rows[id].req.hash # req[t].hash
          THEN Return(t, Failure("PAYLOAD_CONFLICT"))
          ELSE HandleReplay(t, id)
    BY <1>3 DEF CheckIdempotency
  <2>2. id \in DOMAIN rows
    BY DEF FindByIdempotencyKey
  <2>3. Failure("PAYLOAD_CONFLICT") \in ResponseType
    BY FailureFacts, NamedErrors
  <2> QED
    BY <1>1, <2>1, <2>2, <2>3, ReturnStep, ReplayStep
<1> QED
  BY <1>2, <1>3

\* CheckExternalId preserves the invariant.
LEMMA CheckExternalIdInv ==
  ASSUME IndInv, NEW t \in Threads, CheckExternalId(t)
  PROVE  IndInv'
<1>1. /\ pc[t] \notin {"idle"} \cup OwnerSteps /\ UNCHANGED dbVars /\ CountersTyped'
      /\ rows' = rows /\ pc[t] = "checkExternal"
  BY CounterFacts DEF CheckExternalId, OwnerSteps, dbVars
<1>2. req[t] \in Requests
  BY <1>1 DEF IndInv, HandlerOK
<1>3. CASE ExternalTransactionExists(req[t])
  BY <1>1, <1>3, FailureFacts, NamedErrors, ReturnStep DEF CheckExternalId
<1>4. CASE ~ExternalTransactionExists(req[t]) /\ ValidationError(req[t]) # ""
  BY <1>1, <1>2, <1>4, FailureFacts, ValidationFacts, ReturnStep DEF CheckExternalId
<1>5. CASE ~ExternalTransactionExists(req[t]) /\ ValidationError(req[t]) = ""
  <2>1. req[t].kind \in Kinds /\ req[t].amount \in Balances
    BY <1>2, <1>5, ValidationFacts
  <2>2. CASE req[t].kind \in ReversalKinds /\ req[t].ref = NoRef
    BY <1>1, <1>5, <2>1, <2>2, NamedErrors, RejectStep DEF CheckExternalId
  <2>3. CASE ~(req[t].kind \in ReversalKinds /\ req[t].ref = NoRef)
    <3>1. Goto(t, Dispatch(t)) /\ UNCHANGED <<localVars, out>>
      BY <1>5, <2>3 DEF CheckExternalId
    <3>2. /\ Dispatch(t) \in {"lossBalance", "findReference", "lockWallet"}
          /\ Dispatch(t) = "findReference" => req[t].kind \in {"WIN", "REFUND", "ROLLBACK"}
          /\ Dispatch(t) = "lockWallet" => req[t].kind \in {"BET", "WIN"} \ ReversalKinds
          /\ Dispatch(t) = "lossBalance" => req[t].kind = "LOSS"
      BY <2>1, <2>3 DEF Dispatch, Kinds, ReversalKinds
    <3>3. Dispatch(t) = "lockWallet" => Direction(req[t].kind, RefKind(t)) \in Directions
      BY <3>2, DirectionFacts
    <3>4. Moves(t)
      BY <1>1, <2>1, <3>1, <3>2, <3>3, GotoFacts DEF Steps, OwnerSteps
    <3> QED
      BY <1>1, <3>4, LocalStep DEF Moves
  <2> QED
    BY <2>2, <2>3
<1> QED
  BY <1>3, <1>4, <1>5

\* FindReference preserves the invariant.
LEMMA FindReferenceInv ==
  ASSUME IndInv, NEW t \in Threads, FindReference(t)
  PROVE  IndInv'
<1>1. /\ pc[t] \notin {"idle"} \cup OwnerSteps /\ UNCHANGED dbVars /\ CountersTyped'
      /\ rows' = rows /\ pc[t] = "findReference"
  BY CounterFacts DEF FindReference, OwnerSteps, dbVars
<1>2. HandlerOK(t) /\ HandlersTyped /\ rows \in Seq(RowType)
  BY DEF IndInv, TypeOK, TablesTyped
<1>3. req[t].amount \in Balances /\ req[t].kind \in {"WIN", "REFUND", "ROLLBACK"}
  BY <1>1, <1>2 DEF HandlerOK, ValidSteps
<1>4. CASE FindByProviderAndExternalID(req[t].provider, req[t].ref) = {}
  BY <1>1, <1>3, <1>4, NamedErrors, RejectStep DEF FindReference
<1>5. CASE FindByProviderAndExternalID(req[t].provider, req[t].ref) # {}
  <2>1. PICK id \in FindByProviderAndExternalID(req[t].provider, req[t].ref) :
          IF req[t].kind = "WIN" THEN WinReference(t, id) ELSE ReversalReference(t, id)
    BY <1>5 DEF FindReference
  <2>2. id \in DOMAIN rows /\ DOMAIN rows = 1..Len(rows) /\ Len(rows) \in Nat
    BY <1>2 DEF FindByProviderAndExternalID
  <2>3. CASE req[t].kind = "WIN" /\ WinReferenceError(req[t], rows[id].req) # ""
    BY <1>1, <1>3, <2>1, <2>3, MismatchFacts, RejectStep DEF WinReference
  <2>4. CASE req[t].kind = "WIN" /\ WinReferenceError(req[t], rows[id].req) = ""
    <3>1. Goto(t, "lockWallet") /\ UNCHANGED <<localVars, out>> /\ "lockWallet" \in Steps
      BY <2>1, <2>4 DEF WinReference, Steps
    <3>2. Direction(req[t].kind, RefKind(t)) \in Directions
      BY <2>4, DirectionFacts
    <3>3. Moves(t)
      BY <1>1, <1>3, <2>4, <3>1, <3>2, GotoFacts DEF OwnerSteps, ReversalKinds
    <3> QED
      BY <1>1, <3>3, LocalStep DEF Moves
  <2>5. CASE req[t].kind # "WIN"
    <3>1. ReversalReference(t, id)
      BY <2>1, <2>5
    <3>2. CASE ReferenceMismatch(req[t], rows[id].req) # "" /\ RejectWith(t, ReferenceMismatch(req[t], rows[id].req))
      BY <1>1, <1>3, <3>2, MismatchFacts, RejectStep
    <3>3. CASE Goto(t, "pendingReference") /\ UNCHANGED <<localVars, out>>
      <4>1. "pendingReference" \in Steps \ OwnerSteps
        BY DEF Steps, OwnerSteps
      <4>2. req[t].kind \in ReversalKinds
        BY <1>1, <1>2, <2>5 DEF HandlerOK, ReversalKinds
      <4>3. Moves(t)
        BY <1>1, <1>3, <3>3, <4>1, <4>2, GotoFacts
      <4> QED
        BY <1>1, <4>3, LocalStep DEF Moves
    <3>4. CASE RejectWith(t, "REFERENCE_NOT_SUCCESSFUL")
      BY <1>1, <1>3, <3>4, NamedErrors, RejectStep
    <3>5. CASE /\ Goto(t, "checkReversal")
               /\ ref' = [ref EXCEPT ![t] = id]
               /\ UNCHANGED <<req, change, code, out>>
      <4>1. "checkReversal" \in Steps /\ id \in Nat /\ id # NoRow
        BY <2>2 DEF Steps, NoRow
      <4>2. HandlersTyped' /\ OthersSame(t) /\ pc'[t] = "checkReversal" /\ ref'[t] = id /\ req' = req
        BY <1>2, <3>5, <4>1 DEF HandlersTyped, Goto, OthersSame, Same
      <4>3. HandlerOK(t)'
        BY <1>1, <1>2, <1>3, <2>2, <4>1, <4>2 DEF HandlerOK, ValidSteps, OwnerSteps
      <4> QED
        BY <1>1, <4>2, <4>3, LocalStep
    <3> QED
      BY <3>1, <3>2, <3>3, <3>4, <3>5 DEF ReversalReference
  <2> QED
    BY <2>3, <2>4, <2>5
<1> QED
  BY <1>4, <1>5

\* The value and type checks of a reversal preserve the invariant.
LEMMA AfterReversalCheckInv ==
  ASSUME IndInv, NEW t \in Threads, pc[t] = "checkReversal", AfterReversalCheck(t),
         UNCHANGED dbVars, CountersTyped'
  PROVE  IndInv'
<1>1. pc[t] \notin {"idle"} \cup OwnerSteps /\ rows' = rows
  BY DEF OwnerSteps, dbVars
<1>2. req[t].amount \in Balances /\ ref[t] # NoRow
  BY DEF IndInv, HandlerOK, ValidSteps
<1>3. CASE RejectWith(t, "REVERSAL_VALUE_MISMATCH")
  BY <1>1, <1>2, <1>3, NamedErrors, RejectStep
<1>4. CASE RejectWith(t, "INVALID_REFERENCE_TYPE")
  BY <1>1, <1>2, <1>4, NamedErrors, RejectStep
<1>5. CASE /\ Direction(req[t].kind, RefKind(t)) # "none"
           /\ Goto(t, "lockWallet") /\ UNCHANGED <<localVars, out>>
  <2>1. Direction(req[t].kind, RefKind(t)) \in Directions
    BY <1>5, DirectionFacts
  <2>2. "lockWallet" \in Steps \ OwnerSteps
    BY DEF Steps, OwnerSteps
  <2>3. Moves(t)
    BY <1>1, <1>2, <1>5, <2>1, <2>2, GotoFacts
  <2> QED
    BY <1>1, <2>3, LocalStep DEF Moves
<1> QED
  BY <1>3, <1>4, <1>5 DEF AfterReversalCheck

\* CheckReversal and CheckReversalFails preserve the invariant.
LEMMA CheckReversalInv ==
  ASSUME IndInv, NEW t \in Threads, CheckReversal(t) \/ CheckReversalFails(t)
  PROVE  IndInv'
<1>1. pc[t] = "checkReversal" /\ UNCHANGED dbVars /\ CountersTyped'
  BY CounterFacts DEF CheckReversal, CheckReversalFails
<1>2. pc[t] \notin {"idle"} \cup OwnerSteps /\ req[t].amount \in Balances
  BY <1>1 DEF OwnerSteps, IndInv, HandlerOK, ValidSteps
<1>3. RejectWith(t, "DOUBLE_REVERSAL") \/ AfterReversalCheck(t)
  BY DEF CheckReversal, CheckReversalFails
<1> QED
  BY <1>1, <1>2, <1>3, NamedErrors, RejectStep, AfterReversalCheckInv

\* A wallet error: the transaction is rolled back and the handler goes on.
LEMMA WalletFailsStep ==
  ASSUME IndInv, NEW t \in Threads, pc[t] \in {"lockWallet", "updateBalance"}, NEW err,
         err = "INSUFFICIENT" => req[t].wallet \in Wallets, WalletFails(t, err), CountersTyped'
  PROVE  IndInv'
<1> DEFINE fc == FailureCode(req[t].kind, err)
           step == IF fc = "WALLET_ERROR" THEN "createAndReject" ELSE "failureBalance"
           resp == Failure(ReturnedError(req[t].kind, err))
<1>1. fc \in FailureCodes /\ (fc # "WALLET_ERROR" => req[t].wallet \in Wallets) /\ resp \in ResponseType
  BY FailureCodeFacts, FailureFacts
<1>2. step \in {"createAndReject", "failureBalance"} /\ step \in Steps
      /\ (step = "failureBalance" => req[t].wallet \in Wallets)
  BY <1>1 DEF Steps
<1>3. NoChange \in ChangeType
  BY WalletsAssumption DEF NoChange, ChangeType, Balances, MaybeBalances
<1>4. HandlersTyped /\ HandlerOK(t)
  BY DEF IndInv, TypeOK
<1>5. /\ lock' = Released(t) /\ code' = [code EXCEPT ![t] = fc] /\ out' = [out EXCEPT ![t] = resp]
      /\ change' = [change EXCEPT ![t] = NoChange] /\ pc' = [pc EXCEPT ![t] = step]
      /\ UNCHANGED <<balance, version, rows, ledger, outbox, inbox, req, ref>>
  BY DEF WalletFails, Goto
<1> HIDE DEF fc, step, resp
<1>6. HandlersTyped' /\ OthersSame(t) /\ pc'[t] = step
  BY <1>1, <1>2, <1>3, <1>4, <1>5 DEF HandlersTyped, OthersSame, Same
<1>7. HandlerOK(t)'
  BY <1>2, <1>4, <1>5, <1>6 DEF HandlerOK, ValidSteps, OwnerSteps
<1> QED
  BY <1>5, <1>6, <1>7, ReleaseStep

\* LockWallet preserves the invariant: the lock was free, so nobody else's
\* snapshot of the wallet is touched.
LEMMA LockWalletInv ==
  ASSUME IndInv, NEW t \in Threads, LockWallet(t)
  PROVE  IndInv'
<1> DEFINE w == req[t].wallet
           d == Direction(req[t].kind, RefKind(t))
           c == [before |-> balance[w], after |-> NoBalance, version |-> version[w], dir |-> d]
<1>1. pc[t] = "lockWallet" /\ CountersTyped'
  BY CounterFacts DEF LockWallet
<1>2. HandlerOK(t) /\ HandlersTyped /\ TablesTyped
  BY DEF IndInv, TypeOK
<1>3. CASE w \notin Wallets /\ WalletFails(t, "NOT_FOUND")
  BY <1>1, <1>3, WalletFailsStep
<1>4. CASE /\ Lockable(w)
           /\ lock' = [lock EXCEPT ![w] = t]
           /\ change' = [change EXCEPT ![t] = c]
           /\ Goto(t, "updateBalance")
           /\ UNCHANGED <<balance, version, rows, ledger, outbox, inbox, req, ref, code, out>>
  <2>1. w \in Wallets /\ lock[w] = NoThread
    BY <1>4 DEF Lockable
  <2>2. d \in Directions /\ balance[w] \in Balances /\ version[w] \in Nat
    BY <1>1, <1>2, <2>1 DEF HandlerOK, TablesTyped
  <2>3. c \in ChangeType /\ c.before = balance[w] /\ c.version = version[w] /\ c.dir = d
    BY <2>2 DEF ChangeType, MaybeBalances
  <2> HIDE DEF d, c
  <2>4. TypeOK'
    <3>1. "updateBalance" \in Steps
      BY DEF Steps
    <3>2. HandlersTyped'
      BY <1>2, <1>4, <2>3, <3>1 DEF HandlersTyped, Goto
    <3>3. TablesTyped'
      BY <1>2, <1>4 DEF TablesTyped
    <3> QED
      BY <1>1, <3>2, <3>3 DEF TypeOK
  <2>5. OthersSame(t) /\ pc'[t] = "updateBalance" /\ change'[t] = c
    BY <1>2, <1>4 DEF HandlersTyped, Goto, OthersSame, Same
  <2>6. HandlerOK(t)'
    <3>1. OwnerOK(t)'
      BY <1>2, <1>4, <2>1, <2>2, <2>3, <2>5 DEF OwnerOK, TablesTyped
    <3> QED
      BY <1>1, <1>2, <1>4, <2>5, <3>1 DEF HandlerOK, ValidSteps, OwnerSteps
  <2>7. ASSUME NEW u \in Threads \ {t} PROVE HandlerOK(u)'
    <3>1. HandlerOK(u)
      BY DEF IndInv
    <3>2. pc[u] \in OwnerSteps => lock'[req[u].wallet] = u
      BY <1>2, <1>4, <2>1, <3>1, NoThreadAssumption DEF HandlerOK, OwnerOK, TablesTyped
    <3>3. RowsGrow /\ rows' \in Seq(RowType)
      BY <1>2, <1>4 DEF RowsGrow, TablesTyped
    <3> QED
      BY <1>4, <2>5, <3>2, <3>3, OtherHandler DEF OthersSame
  <2>8. LocksOwned'
    <3> SUFFICES ASSUME NEW x \in Wallets, lock'[x] \in Threads
                 PROVE  pc'[lock'[x]] \in OwnerSteps /\ req'[lock'[x]].wallet = x
      BY DEF LocksOwned
    <3>1. CASE x = w
      BY <1>2, <1>4, <2>1, <2>5, <3>1 DEF TablesTyped, OwnerSteps
    <3>2. CASE x # w
      <4>1. lock'[x] = lock[x] /\ lock[x] \in Threads
        BY <1>2, <1>4, <3>2 DEF TablesTyped
      <4>2. pc[lock[x]] \in OwnerSteps /\ req[lock[x]].wallet = x
        BY <4>1 DEF IndInv, LocksOwned
      <4>3. lock[x] # t
        BY <1>1, <4>2 DEF OwnerSteps
      <4> QED
        BY <4>1, <4>2, <4>3, <2>5 DEF OthersSame, Same
    <3> QED
      BY <3>1, <3>2
  <2>9. RowsNameWallets' /\ LedgerExplainsBalance'
    BY <1>4 DEF IndInv, RowsNameWallets, LedgerExplainsBalance, BalanceAfter
  <2> QED
    BY <2>4, <2>6, <2>7, <2>8, <2>9 DEF IndInv
<1> QED
  BY <1>3, <1>4 DEF LockWallet

\* UpdateBalance preserves the invariant.
LEMMA UpdateBalanceInv ==
  ASSUME IndInv, NEW t \in Threads, UpdateBalance(t)
  PROVE  IndInv'
<1> DEFINE c == change[t]
           amt == req[t].amount
           err == WalletError(c.before, c.dir, amt)
<1>1. pc[t] = "updateBalance" /\ CountersTyped' /\ pc[t] \in OwnerSteps
  BY CounterFacts DEF UpdateBalance, OwnerSteps
<1>2. HandlerOK(t) /\ HandlersTyped /\ TablesTyped /\ OwnerOK(t)
  BY <1>1 DEF IndInv, TypeOK, HandlerOK
<1>3. /\ req[t].wallet \in Wallets /\ amt \in Balances /\ c \in ChangeType /\ c.dir \in Directions
      /\ c.before \in Balances /\ c.version = version[req[t].wallet]
  BY <1>1, <1>2 DEF HandlerOK, OwnerOK, HandlersTyped, ChangeType, ValidSteps
<1>4. CASE err # "" /\ WalletFails(t, err)
  BY <1>1, <1>3, <1>4, WalletFailsStep
<1>5. CASE WalletFails(t, "CONCURRENT")
  BY <1>1, <1>3, <1>5, WalletFailsStep
<1>6. CASE /\ err = ""
           /\ change' = [change EXCEPT ![t] = Applied(c, amt)]
           /\ Goto(t, "commit")
           /\ UNCHANGED <<dbVars, req, ref, code, out>>
  <2> DEFINE a == Applied(c, amt)
  <2>1. Moved(c, amt) \in Balances
    BY <1>3, <1>6, MovedFacts
  <2>2. a \in ChangeType /\ a.before = c.before /\ a.dir = c.dir /\ a.version = c.version + 1
        /\ a.after = Moved(c, amt)
    BY <1>3, <2>1, AppliedFacts
  <2> HIDE DEF a
  <2>3. "commit" \in Steps /\ change' = [change EXCEPT ![t] = a]
    BY <1>6 DEF Steps, a
  <2>4. HandlersTyped' /\ OthersSame(t) /\ pc'[t] = "commit" /\ change'[t] = a
    BY <1>2, <1>6, <2>2, <2>3 DEF HandlersTyped, Goto, OthersSame, Same
  <2>5. OwnerOK(t)'
    BY <1>2, <1>3, <1>6, <2>1, <2>2, <2>4 DEF OwnerOK, Moved, dbVars
  <2>6. HandlerOK(t)'
    BY <1>1, <1>2, <1>3, <1>6, <2>4, <2>5 DEF HandlerOK, dbVars, OwnerSteps
  <2>7. pc'[t] \in OwnerSteps /\ req'[t] = req[t] /\ UNCHANGED dbVars
    BY <1>6, <2>4 DEF OwnerSteps
  <2> QED
    BY <1>1, <2>4, <2>6, <2>7, LocalStep
<1> QED
  BY <1>4, <1>5, <1>6 DEF UpdateBalance

\* The reads of a balance into the transaction's row preserve the invariant.
LEMMA BalanceReadInv ==
  ASSUME IndInv, NEW t \in Threads, ReadFailureBalance(t) \/ LossBalance(t)
  PROVE  IndInv'
<1>1. /\ pc[t] \notin {"idle"} \cup OwnerSteps /\ UNCHANGED dbVars /\ CountersTyped'
      /\ pc[t] \in {"failureBalance", "lossBalance"}
  BY CounterFacts DEF ReadFailureBalance, LossBalance, OwnerSteps
<1>2. HandlerOK(t) /\ HandlersTyped /\ TablesTyped
  BY DEF IndInv, TypeOK
<1>3. CASE Return(t, Failure("INTERNAL"))
  BY <1>1, <1>3, FailureFacts, NamedErrors, ReturnStep
<1>4. ASSUME NEW step \in {"createAndReject", "commitLoss"}, req[t].wallet \in Wallets,
             change' = [change EXCEPT ![t].after = balance[req[t].wallet]], Goto(t, step),
             step = "commitLoss" => pc[t] = "lossBalance",
             UNCHANGED <<req, ref, code, out>>
      PROVE  IndInv'
  <2>1. balance[req[t].wallet] \in MaybeBalances /\ step \in Steps
    BY <1>2, <1>4 DEF TablesTyped, MaybeBalances, Steps
  <2>2. change' \in [Threads -> ChangeType]
    BY <1>2, <1>4, <2>1 DEF HandlersTyped, ChangeType
  <2>3. HandlersTyped' /\ OthersSame(t) /\ pc'[t] = step
    BY <1>2, <1>4, <2>1, <2>2 DEF HandlersTyped, Goto, OthersSame, Same
  <2>4. HandlerOK(t)'
    BY <1>1, <1>2, <1>4, <2>3 DEF HandlerOK, dbVars, ValidSteps, OwnerSteps
  <2> QED
    BY <1>1, <2>3, <2>4, LocalStep
<1> QED
  BY <1>1, <1>2, <1>3, <1>4 DEF ReadFailureBalance, LossBalance, HandlerOK

\* The inbox holds message ids of requests.
LEMMA InboxFacts ==
  ASSUME IndInv, NEW t \in Threads, pc[t] # "idle", CompleteInbox(t) \/ UNCHANGED inbox
  PROVE  inbox' \subseteq {r.message : r \in Requests}
  BY DEF IndInv, TypeOK, TablesTyped, HandlerOK, CompleteInbox

\* CommitWithLedger preserves the invariant.
LEMMA CommitWithLedgerInv ==
  ASSUME IndInv, NEW t \in Threads, CommitWithLedger(t)
  PROVE  IndInv'
<1>1. pc[t] = "commit" /\ CountersTyped' /\ pc[t] # "idle"
  BY CounterFacts DEF CommitWithLedger
<1>2. HandlerOK(t) /\ HandlersTyped /\ TablesTyped
  BY DEF IndInv, TypeOK
<1>3. CASE UniqueViolation(RowToInsert(t))
  <2>1. /\ lock' = Released(t) /\ UNCHANGED <<balance, version, rows, ledger, outbox, inbox>>
        /\ \/ Return(t, Failure("DOUBLE_REVERSAL"))
           \/ Goto(t, "findDuplicate") /\ UNCHANGED <<localVars, out>>
    BY <1>3 DEF CommitWithLedger
  <2>2. rows' = rows /\ rows' \in Seq(RowType)
    BY <1>2, <2>1 DEF TablesTyped
  <2>3. "findDuplicate" \in Steps \ (OwnerSteps \cup ValidSteps)
    BY DEF Steps, OwnerSteps, ValidSteps
  <2>4. Moves(t)
    BY <1>1, <2>1, <2>2, <2>3, FailureFacts, NamedErrors, ReturnFacts, GotoFacts
  <2> QED
    BY <1>1, <2>1, <2>4, ReleaseStep DEF Moves
<1>4. CASE ~UniqueViolation(RowToInsert(t))
  <2> DEFINE resp == Response("", NewId, "PROCESSED", change[t].after, FALSE)
  <2>1. InsertSettlement(t) /\ CompleteInbox(t) /\ Return(t, resp)
    BY <1>4 DEF CommitWithLedger
  <2>2. RowToInsert(t) \in RowType /\ rows' = Append(rows, RowToInsert(t))
    BY <1>1, <2>1, RowFacts DEF InsertSettlement
  <2>3. NewId \in Nat /\ rows' \in Seq(RowType)
    BY <2>2, NewIdFacts
  <2>4. change[t].after \in MaybeBalances
    BY <1>2 DEF HandlersTyped, ChangeType
  <2>5. resp \in ResponseType
    BY <2>3, <2>4 DEF Response, ResponseType, Errors, Statuses
  <2> HIDE DEF resp
  <2>6. Moves(t)
    BY <1>1, <2>1, <2>3, <2>5, ReturnFacts
  <2>7. pc'[t] \notin OwnerSteps
    BY <1>2, <2>1 DEF Return, Goto, HandlersTyped, OwnerSteps
  <2> QED
    BY <1>1, <2>1, <2>6, <2>7, InboxFacts, SettleStep
<1> QED
  BY <1>3, <1>4

\* The inserts without money preserve the invariant.
LEMMA InsertsInv ==
  ASSUME IndInv, NEW t \in Threads,
         CreateAndReject(t) \/ Reject(t) \/ InsertPendingReference(t) \/ CommitLoss(t)
  PROVE  IndInv'
<1>1. /\ CountersTyped' /\ pc[t] # "idle" /\ pc[t] \notin OwnerSteps
  BY CounterFacts DEF CreateAndReject, Reject, InsertPendingReference, CommitLoss, OwnerSteps
<1>2. HandlersTyped /\ TablesTyped /\ out[t] \in ResponseType
  BY DEF IndInv, TypeOK, HandlersTyped
<1>3. Failure("INTERNAL") \in ResponseType
  BY FailureFacts, NamedErrors
<1>4. CASE ~CanInsert(RowToInsert(t))
  <2>1. (Return(t, out[t]) \/ Return(t, Failure("INTERNAL"))) /\ UNCHANGED dbVars
    BY <1>4 DEF CreateAndReject, Reject, InsertPendingReference, CommitLoss, NoInsert, dbVars
  <2> QED
    BY <1>1, <1>2, <1>3, <2>1, ReturnStep
<1>5. CASE CanInsert(RowToInsert(t))
  <2>1. /\ InsertRow(t)
        /\ CompleteInbox(t) \/ UNCHANGED inbox
        /\ \/ Return(t, out[t])
           \/ Return(t, Response("", NewId, "PENDING_REFERENCE", 0, FALSE))
           \/ ReportBalanceOf(t, NewId, "REJECTED", FALSE)
           \/ ReportBalanceOf(t, NewId, "PROCESSED", FALSE)
    BY <1>5 DEF CreateAndReject, Reject, InsertPendingReference, CommitLoss
  <2>2. RowToInsert(t) \in RowType /\ rows' = Append(rows, RowToInsert(t))
    BY <1>1, <2>1, RowFacts DEF InsertRow
  <2>3. NewId \in Nat /\ NewId \in DOMAIN rows' /\ rows' \in Seq(RowType) /\ Len(rows') >= Len(rows)
    BY <2>2, NewIdFacts
  <2>4. Response("", NewId, "PENDING_REFERENCE", 0, FALSE) \in ResponseType
    BY <2>3, WalletsAssumption DEF Response, ResponseType, Errors, Statuses, MaybeBalances, Balances
  <2>5. {"REJECTED", "PROCESSED"} \subseteq Statuses
    BY DEF Statuses
  <2>6. Moves(t)
    <3>1. CASE Return(t, out[t])
      BY <1>1, <1>2, <2>3, <3>1, ReturnFacts
    <3>2. CASE Return(t, Response("", NewId, "PENDING_REFERENCE", 0, FALSE))
      BY <1>1, <2>3, <2>4, <3>2, ReturnFacts
    <3>3. CASE ReportBalanceOf(t, NewId, "REJECTED", FALSE)
      BY <1>1, <2>3, <2>5, <3>3, ReportFacts
    <3>4. CASE ReportBalanceOf(t, NewId, "PROCESSED", FALSE)
      BY <1>1, <2>3, <2>5, <3>4, ReportFacts
    <3> QED
      BY <2>1, <3>1, <3>2, <3>3, <3>4
  <2> QED
    BY <1>1, <1>5, <2>1, <2>6, InboxFacts, InsertRowStep
<1> QED
  BY <1>4, <1>5

\* FindDuplicate preserves the invariant.
LEMMA FindDuplicateInv ==
  ASSUME IndInv, NEW t \in Threads, FindDuplicate(t)
  PROVE  IndInv'
<1>1. pc[t] \notin {"idle"} \cup OwnerSteps /\ UNCHANGED dbVars /\ CountersTyped'
  BY CounterFacts DEF FindDuplicate, OwnerSteps
<1>2. PICK id \in FindByIdempotencyKey(req[t]) : HandleReplay(t, id)
  BY DEF FindDuplicate
<1>3. id \in DOMAIN rows
  BY DEF FindByIdempotencyKey
<1> QED
  BY <1>1, <1>2, <1>3, ReplayStep

\* ReportBalance and ReportBalanceFails preserve the invariant.
LEMMA ReportBalanceInv ==
  ASSUME IndInv, NEW t \in Threads, ReportBalance(t) \/ ReportBalanceFails(t)
  PROVE  IndInv'
<1>1. /\ pc[t] \notin {"idle"} \cup OwnerSteps /\ UNCHANGED dbVars /\ CountersTyped'
      /\ pc[t] = "reportBalance"
  BY CounterFacts DEF ReportBalance, ReportBalanceFails, OwnerSteps
<1>2. out[t] \in ResponseType /\ TablesTyped /\ out[t].tx \in DOMAIN rows
  BY <1>1 DEF IndInv, TypeOK, HandlersTyped, HandlerOK
<1>3. rows[out[t].tx].req.wallet \in Wallets
  BY <1>2 DEF IndInv, RowsNameWallets
<1>4. balance[rows[out[t].tx].req.wallet] \in MaybeBalances /\ 0 \in MaybeBalances
  BY <1>2, <1>3, WalletsAssumption DEF TablesTyped, MaybeBalances, Balances
<1>5. \A b \in MaybeBalances : [out[t] EXCEPT !.balance = b] \in ResponseType
  BY <1>2 DEF ResponseType
<1>6. \E resp \in ResponseType : Return(t, resp)
  BY <1>4, <1>5, FailureFacts, NamedErrors DEF ReportBalance, ReportBalanceFails
<1> QED
  BY <1>1, <1>6, ReturnStep

-----------------------------------------------------------------------------
(***************************************************************************)
(* The failures.                                                           *)
(***************************************************************************)

\* Failed reads preserve the invariant.
LEMMA ReadFailsInv ==
  ASSUME IndInv, NEW t \in Threads, ReadFails(t) \/ FindDuplicateFails(t)
  PROVE  IndInv'
<1>1. pc[t] \notin {"idle"} \cup OwnerSteps /\ UNCHANGED dbVars /\ CountersTyped'
  BY CounterFacts DEF ReadFails, FindDuplicateFails, OwnerSteps
<1> QED
  BY <1>1, FailureFacts, NamedErrors, ReturnStep DEF ReadFails, FindDuplicateFails

\* A failed balance read on the way to a rejection preserves the invariant.
LEMMA FailureBalanceFailsInv ==
  ASSUME IndInv, NEW t \in Threads, FailureBalanceFails(t)
  PROVE  IndInv'
<1>1. /\ pc[t] \notin {"idle"} \cup OwnerSteps /\ UNCHANGED dbVars /\ CountersTyped'
      /\ rows' = rows /\ pc[t] = "failureBalance"
      /\ Goto(t, "createAndReject") /\ UNCHANGED <<localVars, out>>
  BY CounterFacts DEF FailureBalanceFails, OwnerSteps, dbVars
<1>2. req[t].amount \in Balances
  BY <1>1 DEF IndInv, HandlerOK, ValidSteps
<1>3. "createAndReject" \in Steps \ OwnerSteps
  BY DEF Steps, OwnerSteps
<1>4. Moves(t)
  BY <1>1, <1>2, <1>3, GotoFacts
<1> QED
  BY <1>1, <1>4, LocalStep DEF Moves

\* A failed call inside the wallet service preserves the invariant.
LEMMA WalletCallFailsInv ==
  ASSUME IndInv, NEW t \in Threads, WalletCallFails(t)
  PROVE  IndInv'
<1>1. /\ pc[t] \in {"lockWallet", "updateBalance"} /\ CountersTyped'
      /\ WalletFails(t, "DATABASE")
  BY CounterFacts DEF WalletCallFails
<1> QED
  BY <1>1, WalletFailsStep

\* A rolled-back transaction and a crash preserve the invariant.
LEMMA RollbackInv ==
  ASSUME IndInv, NEW t \in Threads, TransactionFails(t) \/ Crash(t)
  PROVE  IndInv'
<1>1. /\ lock' = Released(t) /\ UNCHANGED <<balance, version, rows, ledger, outbox, inbox>>
      /\ CountersTyped' /\ pc[t] # "idle"
  BY CounterFacts DEF TransactionFails, Crash, InsertSteps
<1>2. HandlersTyped /\ TablesTyped /\ out[t] \in ResponseType
  BY DEF IndInv, TypeOK, HandlersTyped
<1>3. rows' \in Seq(RowType) /\ Len(rows') \in Nat
  BY <1>1, <1>2 DEF TablesTyped
<1>4. CASE TransactionFails(t)
  <2>1. \E resp \in ResponseType : Return(t, resp)
    BY <1>2, <1>4, FailureFacts, NamedErrors DEF TransactionFails
  <2>2. Moves(t)
    BY <1>1, <1>3, <2>1, ReturnFacts
  <2> QED
    BY <1>1, <2>2, ReleaseStep DEF Moves
<1>5. CASE Crash(t)
  <2>1. /\ NoChange \in ChangeType /\ "" \in FailureCodes /\ "idle" \in Steps /\ NoRow \in Nat
        /\ NoRequest \in Requests \cup {NoRequest} /\ Failure("") \in ResponseType
    <3>1. NoChange \in ChangeType
      BY WalletsAssumption DEF NoChange, ChangeType, Balances, MaybeBalances
    <3>2. "" \in FailureCodes /\ "idle" \in Steps /\ NoRow \in Nat
      BY DEF FailureCodes, Steps, NoRow
    <3>3. Failure("") \in ResponseType
      BY FailureFacts, NamedErrors
    <3> QED
      BY <3>1, <3>2, <3>3
  <2>2. HandlersTyped' /\ OthersSame(t) /\ pc'[t] = "idle" /\ ref'[t] = NoRow
    BY <1>2, <1>5, <2>1 DEF HandlersTyped, Crash, Goto, OthersSame, Same
  <2>3. HandlerOK(t)'
    BY <1>3, <2>2 DEF HandlerOK, NoRow, ValidSteps, OwnerSteps
  <2> QED
    BY <1>1, <2>2, <2>3, ReleaseStep
<1> QED
  BY <1>4, <1>5

\* A commit whose answer is lost preserves the invariant.
LEMMA CommitAnswerLostInv ==
  ASSUME IndInv, NEW t \in Threads, CommitAnswerLost(t)
  PROVE  IndInv'
<1>1. /\ CanInsert(RowToInsert(t)) /\ CountersTyped' /\ pc[t] # "idle" /\ pc[t] \in InsertSteps
      /\ Return(t, Failure("INTERNAL")) /\ (CompleteInbox(t) \/ UNCHANGED inbox)
      /\ IF pc[t] = "commit" THEN InsertSettlement(t) ELSE InsertRow(t)
  BY CounterFacts DEF CommitAnswerLost, InsertSteps
<1>2. RowToInsert(t) \in RowType /\ rows' = Append(rows, RowToInsert(t))
  BY <1>1, RowFacts DEF InsertSettlement, InsertRow
<1>3. rows' \in Seq(RowType)
  BY <1>2, NewIdFacts
<1>4. Moves(t)
  BY <1>1, <1>3, FailureFacts, NamedErrors, ReturnFacts
<1>5. pc'[t] \notin OwnerSteps
  BY <1>1 DEF Return, Goto, IndInv, TypeOK, HandlersTyped, OwnerSteps
<1>6. CASE pc[t] = "commit"
  BY <1>1, <1>4, <1>5, <1>6, InboxFacts, SettleStep
<1>7. CASE pc[t] # "commit"
  <2>1. pc[t] \notin OwnerSteps
    BY <1>1, <1>7 DEF InsertSteps, OwnerSteps
  <2> QED
    BY <1>1, <1>4, <1>7, <2>1, InboxFacts, InsertRowStep
<1> QED
  BY <1>6, <1>7

-----------------------------------------------------------------------------
(***************************************************************************)
(* The theorems.                                                           *)
(***************************************************************************)

\* The initial states satisfy the invariant.
LEMMA InitInv == Init => IndInv
<1> SUFFICES ASSUME Init PROVE IndInv
  OBVIOUS
<1> DEFINE Opening(w) == IF OpeningBalance[w] = 0 THEN <<>>
                         ELSE <<Entry(OpeningTx, "CREDIT", OpeningBalance[w], 0, OpeningBalance[w])>>
<1>t. /\ balance = OpeningBalance
      /\ version = [w \in Wallets |-> 1]
      /\ lock = [w \in Wallets |-> NoThread]
      /\ rows = <<>> /\ outbox = <<>> /\ inbox = {}
      /\ received = 0 /\ faults = 0
  BY DEF Init
<1>l. ledger = [w \in Wallets |-> Opening(w)]
  BY DEF Init
<1>h. /\ pc = [t \in Threads |-> "idle"]
      /\ req = [t \in Threads |-> NoRequest]
      /\ ref = [t \in Threads |-> NoRow]
      /\ change = [t \in Threads |-> NoChange]
      /\ code = [t \in Threads |-> ""]
      /\ out = [t \in Threads |-> Failure("")]
  BY DEF Init
<1>1. ASSUME NEW w \in Wallets
      PROVE  /\ OpeningBalance[w] \in Balances
             /\ OpeningBalance[w] # 0 =>
                  <<Entry(OpeningTx, "CREDIT", OpeningBalance[w], 0, OpeningBalance[w])>> \in Seq(EntryType)
  <2>1. OpeningBalance[w] \in Balances /\ 0 \in Balances
    BY WalletsAssumption DEF Balances
  <2>2. Entry(OpeningTx, "CREDIT", OpeningBalance[w], 0, OpeningBalance[w]) \in EntryType
    BY <2>1 DEF Entry, EntryType, OpeningTx, Directions
  <2> QED
    BY <2>1, <2>2
<1>2. TablesTyped
  <2>1. balance \in [Wallets -> Balances]
    BY <1>t, WalletsAssumption DEF Balances
  <2>2. ledger \in [Wallets -> Seq(EntryType)]
    BY <1>1, <1>l
  <2>3. rows \in Seq(RowType) /\ outbox \in Seq(EventType)
    BY <1>t
  <2>4. version \in [Wallets -> Nat] /\ lock \in [Wallets -> Threads \cup Workers \cup {NoThread}]
    BY <1>t
  <2>5. inbox \subseteq {r.message : r \in Requests}
    BY <1>t
  <2> QED
    BY <2>1, <2>2, <2>3, <2>4, <2>5 DEF TablesTyped
<1>3. HandlersTyped
  <2>1. NoChange \in ChangeType
    BY WalletsAssumption DEF NoChange, ChangeType, Balances, MaybeBalances
  <2>2. Failure("") \in ResponseType
    BY FailureFacts, NamedErrors
  <2>3. "" \in FailureCodes /\ "idle" \in Steps /\ NoRow \in Nat
    BY DEF FailureCodes, Steps, NoRow
  <2> QED
    BY <1>h, <2>1, <2>2, <2>3 DEF HandlersTyped
<1>4. CountersTyped
  BY <1>t, BoundsAssumption DEF CountersTyped
<1>5. \A t \in Threads : HandlerOK(t)
  <2>1. Len(rows) = 0
    BY <1>t
  <2>2. \A t \in Threads : pc[t] = "idle" /\ ref[t] = 0
    BY <1>h DEF NoRow
  <2> QED
    BY <2>1, <2>2 DEF HandlerOK, ValidSteps, OwnerSteps
<1>6. LocksOwned /\ RowsNameWallets
  BY <1>t, NoThreadAssumption DEF LocksOwned, RowsNameWallets
<1>7. LedgerExplainsBalance
  <2> SUFFICES ASSUME NEW w \in Wallets
               PROVE  /\ \A i \in DOMAIN ledger[w] :
                           /\ ledger[w][i].before = BalanceAfter(w, i - 1)
                           /\ ledger[w][i].after = IF ledger[w][i].dir = "DEBIT"
                                                    THEN ledger[w][i].before - ledger[w][i].amount
                                                    ELSE ledger[w][i].before + ledger[w][i].amount
                      /\ balance[w] = BalanceAfter(w, Len(ledger[w]))
    BY DEF LedgerExplainsBalance
  <2>1. OpeningBalance[w] \in Int
    BY WalletsAssumption
  <2>2. CASE OpeningBalance[w] = 0
    <3>1. ledger[w] = <<>> /\ balance[w] = 0
      BY <1>t, <1>l, <2>2
    <3> QED
      BY <3>1 DEF BalanceAfter
  <2>3. CASE OpeningBalance[w] # 0
    <3> DEFINE e == Entry(OpeningTx, "CREDIT", OpeningBalance[w], 0, OpeningBalance[w])
    <3>1. ledger[w] = <<e>> /\ balance[w] = OpeningBalance[w]
      BY <1>t, <1>l, <2>3
    <3>2. e.before = 0 /\ e.after = OpeningBalance[w] /\ e.amount = OpeningBalance[w] /\ e.dir = "CREDIT"
      BY DEF Entry
    <3> HIDE DEF e
    <3>3. DOMAIN ledger[w] = {1} /\ Len(ledger[w]) = 1 /\ ledger[w][1] = e
      BY <3>1
    <3>4. BalanceAfter(w, 0) = 0 /\ BalanceAfter(w, 1) = e.after
      BY <3>3 DEF BalanceAfter
    <3> QED
      BY <2>1, <3>1, <3>2, <3>3, <3>4
  <2> QED
    BY <2>2, <2>3
<1> QED
  BY <1>2, <1>3, <1>4, <1>5, <1>6, <1>7 DEF IndInv, TypeOK

\* A step that changes nothing keeps the invariant.
LEMMA StutterInv ==
  ASSUME IndInv, UNCHANGED vars
  PROVE  IndInv'
<1>1. TypeOK'
  BY DEF IndInv, TypeOK, TablesTyped, HandlersTyped, CountersTyped, vars, dbVars, localVars
<1>2. \A t \in Threads : HandlerOK(t)'
  BY DEF IndInv, HandlerOK, OwnerOK, RefKind, vars, dbVars, localVars
<1>3. LocksOwned' /\ RowsNameWallets' /\ LedgerExplainsBalance'
  BY DEF IndInv, LocksOwned, RowsNameWallets, LedgerExplainsBalance, BalanceAfter, vars, dbVars, localVars
<1> QED
  BY <1>1, <1>2, <1>3 DEF IndInv

\* Every step keeps the invariant.
LEMMA NextInv == IndInv /\ [Next]_vars => IndInv'
<1> SUFFICES ASSUME IndInv, [Next]_vars PROVE IndInv'
  OBVIOUS
<1>1. CASE UNCHANGED vars
  BY <1>1, StutterInv
<1>2. CASE Next
  <2>1. ASSUME NEW t \in Threads, NEW r \in Requests, Receive(t, r) PROVE IndInv'
    BY <2>1, ReceiveInv
  <2>2. ASSUME NEW t \in Threads, Step(t) PROVE IndInv'
    BY <2>2, CheckIdempotencyInv, CheckExternalIdInv, FindReferenceInv, CheckReversalInv, LockWalletInv,
       UpdateBalanceInv, BalanceReadInv, CommitWithLedgerInv, FindDuplicateInv, InsertsInv, ReportBalanceInv
       DEF Step
  <2>3. ASSUME NEW t \in Threads, FaultStep(t) PROVE IndInv'
    BY <2>3, CheckReversalInv, ReadFailsInv, WalletCallFailsInv, FailureBalanceFailsInv, ReportBalanceInv,
       RollbackInv, CommitAnswerLostInv
       DEF FaultStep
  <2>4. CASE Quiescent
    BY <2>4, StutterInv DEF Quiescent
  <2> QED
    BY <1>2, <2>1, <2>2, <2>3, <2>4 DEF Next
<1> QED
  BY <1>1, <1>2

\* The inductive invariant holds in every reachable state.
THEOREM Invariance == Spec => []IndInv
  BY InitInv, NextInv, PTL DEF Spec

\* Type correctness: in particular no interleaving, failure or crash makes a
\* stored or computed balance negative or larger than money.Money holds.
THEOREM TypeCorrect == Spec => []TypeOK
<1>1. IndInv => TypeOK
  BY DEF IndInv
<1> QED
  BY <1>1, Invariance, PTL

\* A handler that holds a wallet works on the balance and version it has now.
LEMMA OwnersCurrent == IndInv => WalletSnapshotCurrent
<1> SUFFICES ASSUME IndInv, NEW t \in Threads, pc[t] \in {"updateBalance", "commit"}
             PROVE  /\ req[t].wallet \in Wallets
                    /\ lock[req[t].wallet] = t
                    /\ change[t].before = balance[req[t].wallet]
                    /\ change[t].version =
                         version[req[t].wallet] + (IF pc[t] = "commit" THEN 1 ELSE 0)
  BY DEF WalletSnapshotCurrent
<1>1. OwnerOK(t)
  BY DEF IndInv, HandlerOK, OwnerSteps
<1>2. version[req[t].wallet] \in Nat
  BY <1>1 DEF IndInv, TypeOK, TablesTyped, OwnerOK
<1> QED
  BY <1>1, <1>2 DEF OwnerOK

\* Between FindByIDForUpdate and the commit, the wallet a handler read is the
\* committed one: the optimistic version test of UpdateBalanceTx is redundant
\* behind the row lock, for any number of handlers.
THEOREM SnapshotCurrent == Spec => []WalletSnapshotCurrent
  BY OwnersCurrent, Invariance, PTL

\* The ledger of every wallet is an unbroken chain that ends at its balance.
THEOREM LedgerSound == Spec => []LedgerExplainsBalance
<1>1. IndInv => LedgerExplainsBalance
  BY DEF IndInv
<1> QED
  BY <1>1, Invariance, PTL

-----------------------------------------------------------------------------
(***************************************************************************)
(* The table of transactions: rows are only added, and only the ones the   *)
(* unique indexes admit.                                                   *)
(***************************************************************************)

\* handler t commits its row
Adds(t) ==
  /\ pc[t] \in InsertSteps
  /\ rows' = Append(rows, RowToInsert(t))
  /\ ~UniqueViolation(RowToInsert(t))

\* Every step leaves the table alone or commits the row of one handler.
LEMMA RowsStep ==
  ASSUME [Next]_vars
  PROVE  rows' = rows \/ \E t \in Threads : Adds(t)
<1>1. CASE UNCHANGED vars \/ Quiescent
  BY <1>1 DEF Quiescent, vars, dbVars
<1>2. ASSUME NEW t \in Threads, NEW r \in Requests, Receive(t, r)
      PROVE  rows' = rows
  BY <1>2 DEF Receive, dbVars
<1>3. ASSUME NEW t \in Threads, WalletCallFails(t) \/ LockWallet(t) \/ UpdateBalance(t)
      PROVE  rows' = rows
  BY <1>3 DEF WalletCallFails, LockWallet, UpdateBalance, WalletFails, dbVars
<1>4. ASSUME NEW t \in Threads,
             \/ CheckIdempotency(t) \/ CheckExternalId(t) \/ FindReference(t) \/ CheckReversal(t)
             \/ ReadFailureBalance(t) \/ FindDuplicate(t) \/ LossBalance(t) \/ ReportBalance(t)
             \/ CheckReversalFails(t) \/ ReadFails(t) \/ FindDuplicateFails(t)
             \/ FailureBalanceFails(t) \/ ReportBalanceFails(t) \/ TransactionFails(t) \/ Crash(t)
      PROVE  rows' = rows
  BY <1>4 DEF CheckIdempotency, CheckExternalId, FindReference, CheckReversal, ReadFailureBalance,
     FindDuplicate, LossBalance, ReportBalance, CheckReversalFails, ReadFails, FindDuplicateFails,
     FailureBalanceFails, ReportBalanceFails, TransactionFails, Crash, dbVars
<1>5. ASSUME NEW t \in Threads, CommitWithLedger(t) \/ CommitAnswerLost(t)
      PROVE  rows' = rows \/ Adds(t)
  BY <1>5 DEF CommitWithLedger, CommitAnswerLost, InsertSettlement, InsertRow, CanInsert, Adds, InsertSteps
<1>6. ASSUME NEW t \in Threads,
             CreateAndReject(t) \/ Reject(t) \/ InsertPendingReference(t) \/ CommitLoss(t)
      PROVE  rows' = rows \/ Adds(t)
  BY <1>6 DEF CreateAndReject, Reject, InsertPendingReference, CommitLoss, InsertRow, NoInsert,
     CanInsert, Adds, InsertSteps, dbVars
<1>7. ASSUME NEW t \in Threads, Step(t) \/ FaultStep(t)
      PROVE  rows' = rows \/ Adds(t)
  BY <1>3, <1>4, <1>5, <1>6, <1>7 DEF Step, FaultStep
<1>8. CASE Next
  BY <1>1, <1>2, <1>7, <1>8 DEF Next
<1> QED
  BY <1>1, <1>8

\* An insert that the unique index lets through brings a key of its own.
LEMMA InsertKeepsKeys ==
  ASSUME IndInv, OneRowPerKey, NEW t \in Threads, Adds(t)
  PROVE  OneRowPerKey'
<1> DEFINE row == RowToInsert(t)
           n == Len(rows)
<1>1. rows \in Seq(RowType) /\ row \in RowType
  BY RowFacts DEF IndInv, TypeOK, TablesTyped, Adds, InsertSteps
<1>2. \A i \in DOMAIN rows : ~(rows[i].req.provider = row.req.provider /\ rows[i].req.key = row.req.key)
  BY DEF Adds, UniqueViolation, FindByIdempotencyKey
<1>3. /\ n \in Nat /\ DOMAIN rows = 1..n /\ DOMAIN rows' = 1..(n + 1) /\ rows'[n + 1] = row
      /\ \A i \in 1..n : rows'[i] = rows[i]
  BY <1>1 DEF Adds
<1> HIDE DEF row, n
<1> QED
  BY <1>2, <1>3 DEF OneRowPerKey

\* One transaction per provider and idempotency key, however often a request
\* is delivered and whoever handles it.
THEOREM OneRow == Spec => []OneRowPerKey
<1>1. Init => OneRowPerKey
  <2>1. Init => rows = <<>>
    BY DEF Init
  <2>2. rows = <<>> => OneRowPerKey
    BY DEF OneRowPerKey
  <2> QED
    BY <2>1, <2>2
<1>2. ASSUME IndInv, OneRowPerKey, [Next]_vars PROVE OneRowPerKey'
  <2>1. CASE rows' = rows
    BY <1>2, <2>1 DEF OneRowPerKey
  <2>2. ASSUME NEW t \in Threads, Adds(t) PROVE OneRowPerKey'
    BY <1>2, <2>2, InsertKeepsKeys
  <2> QED
    BY <1>2, <2>1, <2>2, RowsStep
<1> QED
  BY <1>1, <1>2, Invariance, PTL DEF Spec

-----------------------------------------------------------------------------
(***************************************************************************)
(* The decisions of the handlers.                                          *)
(***************************************************************************)

\* the step commits nothing
NoCommit == UNCHANGED <<balance, version, rows, ledger, outbox, inbox>>

\* handler t commits a row without money
Records(t) ==
  /\ pc[t] \in InsertSteps \ {"commit"}
  /\ CanInsert(RowToInsert(t))
  /\ InsertRow(t)
  /\ IF pc[t] = "commitLoss" THEN CompleteInbox(t) ELSE UNCHANGED inbox

\* handler t commits a row and its money
Settles(t) ==
  /\ pc[t] = "commit"
  /\ CanInsert(RowToInsert(t))
  /\ InsertSettlement(t)
  /\ CompleteInbox(t)

Commits(t) == NoCommit \/ Records(t) \/ Settles(t)

\* committed rows and ledger entries stay as they are
TablesGrow ==
  /\ Len(rows') >= Len(rows)
  /\ \A i \in DOMAIN rows : rows'[i] = rows[i]
  /\ \A w \in Wallets : /\ Len(ledger'[w]) >= Len(ledger[w])
                        /\ \A i \in DOMAIN ledger[w] : ledger'[w][i] = ledger[w][i]

\* a step of handler t
ActsFor(t) == (\E r \in Requests : Receive(t, r)) \/ Step(t) \/ FaultStep(t)

-----------------------------------------------------------------------------
(***************************************************************************)
(* What a step of a handler can do to the tables and to the others.        *)
(***************************************************************************)

\* Every step of a handler commits nothing, one row, or one settlement.
LEMMA CommitForms ==
  ASSUME IndInv, NEW t \in Threads, ActsFor(t)
  PROVE  Commits(t)
<1>1. ASSUME NEW r \in Requests, Receive(t, r) PROVE Commits(t)
  BY <1>1 DEF Receive, dbVars, Commits, NoCommit
<1>2. CASE WalletCallFails(t) \/ LockWallet(t) \/ UpdateBalance(t)
  BY <1>2 DEF WalletCallFails, LockWallet, UpdateBalance, WalletFails, dbVars, Commits, NoCommit
<1>3. CASE \/ CheckIdempotency(t) \/ CheckExternalId(t) \/ FindReference(t) \/ CheckReversal(t)
           \/ ReadFailureBalance(t) \/ FindDuplicate(t) \/ LossBalance(t) \/ ReportBalance(t)
           \/ CheckReversalFails(t) \/ ReadFails(t) \/ FindDuplicateFails(t)
           \/ FailureBalanceFails(t) \/ ReportBalanceFails(t) \/ TransactionFails(t) \/ Crash(t)
  BY <1>3 DEF CheckIdempotency, CheckExternalId, FindReference, CheckReversal, ReadFailureBalance,
     FindDuplicate, LossBalance, ReportBalance, CheckReversalFails, ReadFails, FindDuplicateFails,
     FailureBalanceFails, ReportBalanceFails, TransactionFails, Crash, dbVars, Commits, NoCommit
<1>4. CASE CommitWithLedger(t)
  <2>1. pc[t] = "commit" /\ RowToInsert(t).req = req[t] /\ req[t].wallet \in Wallets
    BY <1>4, RowFacts DEF CommitWithLedger, IndInv, HandlerOK, OwnerSteps, OwnerOK
  <2>2. CASE UniqueViolation(RowToInsert(t))
    BY <1>4, <2>2 DEF CommitWithLedger, Commits, NoCommit
  <2>3. CASE ~UniqueViolation(RowToInsert(t))
    BY <1>4, <2>1, <2>3 DEF CommitWithLedger, Commits, Settles, CanInsert
  <2> QED
    BY <2>2, <2>3
<1>5. CASE CommitAnswerLost(t)
  BY <1>5 DEF CommitAnswerLost, Commits, Records, Settles
<1>6. CASE CreateAndReject(t) \/ Reject(t)
  BY <1>6 DEF CreateAndReject, Reject, NoInsert, InsertSteps, Commits, NoCommit, Records
<1>7. CASE CommitLoss(t)
  BY <1>7 DEF CommitLoss, InsertSteps, dbVars, Commits, NoCommit, Records
<1> QED
  BY <1>1, <1>2, <1>3, <1>4, <1>5, <1>6, <1>7 DEF ActsFor, Step, FaultStep

\* A commit only adds: what was committed before it stays.
LEMMA CommitsGrow ==
  ASSUME IndInv, NEW t \in Threads, Commits(t)
  PROVE  TablesGrow
<1>1. rows \in Seq(RowType) /\ ledger \in [Wallets -> Seq(EntryType)]
  BY DEF IndInv, TypeOK, TablesTyped
<1>2. CASE NoCommit
  BY <1>1, <1>2 DEF NoCommit, TablesGrow
<1>3. ASSUME NEW row, rows' = Append(rows, row)
      PROVE  Len(rows') >= Len(rows) /\ \A i \in DOMAIN rows : rows'[i] = rows[i]
  BY <1>1, <1>3
<1>4. CASE Records(t)
  BY <1>1, <1>3, <1>4 DEF Records, InsertRow, TablesGrow
<1>5. CASE Settles(t)
  <2> DEFINE x == req[t].wallet
             e == Entry(NewId, change[t].dir, req[t].amount, change[t].before, change[t].after)
  <2>1. rows' = Append(rows, RowToInsert(t)) /\ ledger' = [ledger EXCEPT ![x] = Append(@, e)]
    BY <1>5 DEF Settles, InsertSettlement, WriteLedgerEntry
  <2> HIDE DEF e
  <2>2. ASSUME NEW w \in Wallets
        PROVE  Len(ledger'[w]) >= Len(ledger[w]) /\ \A i \in DOMAIN ledger[w] : ledger'[w][i] = ledger[w][i]
    <3>1. ledger'[w] = ledger[w] \/ ledger'[w] = Append(ledger[w], e)
      BY <1>1, <2>1
    <3> QED
      BY <1>1, <3>1
  <2> QED
    BY <1>3, <2>1, <2>2 DEF TablesGrow
<1> QED
  BY <1>2, <1>4, <1>5 DEF Commits

\* A handler's step leaves the locals of the other handlers alone.
LEMMA OneHandlerMoves ==
  ASSUME IndInv, NEW t \in Threads, ActsFor(t)
  PROVE  OthersSame(t)
<1>1. HandlersTyped
  BY DEF IndInv, TypeOK
<1>2. ASSUME NEW resp, Return(t, resp) PROVE OthersSame(t)
  BY <1>1, <1>2 DEF HandlersTyped, Return, Goto, OthersSame, Same
<1>3. ASSUME NEW tx, NEW status, NEW replay, ReportBalanceOf(t, tx, status, replay) PROVE OthersSame(t)
  BY <1>1, <1>3 DEF HandlersTyped, ReportBalanceOf, Goto, localVars, OthersSame, Same
<1>4. ASSUME NEW c, RejectWith(t, c) PROVE OthersSame(t)
  BY <1>1, <1>4 DEF HandlersTyped, RejectWith, Goto, OthersSame, Same
<1>5. ASSUME NEW step, Goto(t, step), UNCHANGED <<localVars, out>> PROVE OthersSame(t)
  BY <1>1, <1>5 DEF HandlersTyped, Goto, localVars, OthersSame, Same
<1>6. ASSUME NEW step, Goto(t, step), NEW c, change' = [change EXCEPT ![t] = c],
             UNCHANGED <<req, ref, code, out>>
      PROVE  OthersSame(t)
  BY <1>1, <1>6 DEF HandlersTyped, Goto, OthersSame, Same
<1>7. ASSUME NEW err, WalletFails(t, err) PROVE OthersSame(t)
  BY <1>1, <1>7 DEF HandlersTyped, WalletFails, Goto, OthersSame, Same
<1>8. ASSUME NEW id, HandleReplay(t, id) PROVE OthersSame(t)
  BY <1>2, <1>3, <1>8 DEF HandleReplay
<1>9. ASSUME NEW r \in Requests, Receive(t, r) PROVE OthersSame(t)
  BY <1>1, <1>9 DEF HandlersTyped, Receive, Goto, OthersSame, Same
<1>10. CASE CheckIdempotency(t) \/ FindDuplicate(t)
  BY <1>2, <1>5, <1>8, <1>10 DEF CheckIdempotency, FindDuplicate
<1>11. CASE CheckExternalId(t)
  BY <1>2, <1>4, <1>5, <1>11 DEF CheckExternalId
<1>12. CASE FindReference(t)
  <2>1. ASSUME NEW id, WinReference(t, id) PROVE OthersSame(t)
    BY <1>4, <1>5, <2>1 DEF WinReference
  <2>2. ASSUME NEW id, ReversalReference(t, id) PROVE OthersSame(t)
    <3>1. CASE \E c : RejectWith(t, c)
      BY <1>4, <3>1
    <3>2. CASE Goto(t, "pendingReference") /\ UNCHANGED <<localVars, out>>
      BY <1>5, <3>2
    <3>3. CASE Goto(t, "checkReversal") /\ ref' = [ref EXCEPT ![t] = id] /\ UNCHANGED <<req, change, code, out>>
      BY <1>1, <3>3 DEF HandlersTyped, Goto, OthersSame, Same
    <3> QED
      BY <2>2, <3>1, <3>2, <3>3 DEF ReversalReference
  <2> QED
    BY <1>4, <1>12, <2>1, <2>2 DEF FindReference
<1>13. CASE CheckReversal(t) \/ CheckReversalFails(t)
  BY <1>4, <1>5, <1>13 DEF CheckReversal, CheckReversalFails, AfterReversalCheck
<1>14. CASE LockWallet(t)
  BY <1>6, <1>7, <1>14 DEF LockWallet
<1>15. CASE UpdateBalance(t)
  BY <1>6, <1>7, <1>15 DEF UpdateBalance
<1>16. CASE ReadFailureBalance(t) \/ LossBalance(t)
  BY <1>1, <1>2, <1>16 DEF ReadFailureBalance, LossBalance, HandlersTyped, Goto, OthersSame, Same
<1>17. CASE CommitWithLedger(t)
  BY <1>2, <1>5, <1>17 DEF CommitWithLedger
<1>18. CASE CreateAndReject(t) \/ Reject(t) \/ CommitLoss(t) \/ ReportBalance(t)
  BY <1>2, <1>3, <1>18 DEF CreateAndReject, Reject, CommitLoss, ReportBalance
<1>19. CASE \/ ReadFails(t) \/ FindDuplicateFails(t) \/ ReportBalanceFails(t) \/ TransactionFails(t)
            \/ CommitAnswerLost(t)
  BY <1>2, <1>19 DEF ReadFails, FindDuplicateFails, ReportBalanceFails, TransactionFails, CommitAnswerLost
<1>20. CASE WalletCallFails(t)
  BY <1>7, <1>20 DEF WalletCallFails
<1>21. CASE FailureBalanceFails(t)
  BY <1>5, <1>21 DEF FailureBalanceFails
<1>22. CASE Crash(t)
  BY <1>1, <1>22 DEF Crash, HandlersTyped, Goto, OthersSame, Same
<1> QED
  BY <1>9, <1>10, <1>11, <1>12, <1>13, <1>14, <1>15, <1>16, <1>17, <1>18, <1>19, <1>20, <1>21, <1>22
     DEF ActsFor, Step, FaultStep

-----------------------------------------------------------------------------
(***************************************************************************)
(* The handlers.                                                           *)
(***************************************************************************)

\* The balances a wallet has had stay balances it has had.
LEMMA PastBalancesGrow ==
  ASSUME TypeOK, TypeOK', TablesGrow
  PROVE  \A w \in Wallets : PastBalances(w) \subseteq PastBalances(w)'
<1> SUFFICES ASSUME NEW w \in Wallets, NEW b \in PastBalances(w) PROVE b \in PastBalances(w)'
  OBVIOUS
<1>1. ledger[w] \in Seq(EntryType) /\ ledger'[w] \in Seq(EntryType)
  BY DEF TypeOK, TablesTyped
<1>2. PICK i \in Openings(w)..Len(ledger[w]) : b = BalanceAfter(w, i)
  BY DEF PastBalances
<1>3. Openings(w)' = Openings(w) /\ Openings(w) \in Nat
  BY DEF Openings
<1>4. i \in Openings(w)..Len(ledger'[w]) /\ Len(ledger[w]) \in Nat
  BY <1>1, <1>3 DEF TablesGrow
<1>5. BalanceAfter(w, i)' = BalanceAfter(w, i)
  BY <1>1, <1>3, <1>4 DEF BalanceAfter, TablesGrow
<1> QED
  BY <1>2, <1>3, <1>4, <1>5 DEF PastBalances

\* What a handler knows, in one formula.
Knows(t) == Informed(t) /\ Refusing(t) /\ Answering(t)

\* What a handler knows about committed rows and entries outlives every commit
\* of another handler.
LEMMA OthersKnow ==
  ASSUME DecisionInv, NEW u \in Threads, Same(u), TablesGrow, TypeOK'
  PROVE  Knows(u)'
<1>1. Informed(u) /\ Refusing(u) /\ Answering(u) /\ HandlerOK(u) /\ RowsNameWallets
  BY DEF DecisionInv, IndInv
<1>2. rows \in Seq(RowType) /\ rows' \in Seq(RowType)
      /\ ledger \in [Wallets -> Seq(EntryType)] /\ ledger' \in [Wallets -> Seq(EntryType)]
  BY DEF DecisionInv, IndInv, TypeOK, TablesTyped
<1>3. /\ Len(rows) \in Nat /\ DOMAIN rows = 1..Len(rows)
      /\ \A i \in DOMAIN rows : i \in DOMAIN rows' /\ rows'[i] = rows[i]
      /\ \A w \in Wallets : \A i \in DOMAIN ledger[w] : i \in DOMAIN ledger'[w] /\ ledger'[w][i] = ledger[w][i]
  BY <1>2 DEF TablesGrow
<1>4. ref[u] \in 0..Len(rows)
  BY <1>1 DEF HandlerOK
<1>5. RefKind(u)' = RefKind(u)
  BY <1>3, <1>4 DEF RefKind, NoRow, Same
<1>6. Informed(u)'
  <2>1. pc[u] = "checkReversal" => req[u].kind \in ReversalKinds /\ Reverses(req[u], ref[u])'
    BY <1>1, <1>3 DEF Informed, Reverses, Same, Ledger!Names
  <2>2. pc[u] \in MoneySteps =>
          /\ req[u].kind # "LOSS"
          /\ req[u].kind \in ReversalKinds =>
               Reverses(req[u], ref[u])' /\ rows'[ref[u]].req.amount = req[u].amount
    BY <1>1, <1>3 DEF Informed, Reverses, Same, Ledger!Names
  <2>3. pc[u] \in MoneySteps /\ req[u].kind = "WIN" /\ req[u].ref # NoRef =>
          \E id \in DOMAIN rows' : rows'[id].req.kind = "BET" /\ Ledger!Names(req[u], rows'[id].req)
    BY <1>1, <1>3 DEF Informed, Ledger!Names
  <2>4. pc[u] \in OwnerSteps => change[u].dir = Direction(req[u].kind, RefKind(u))
    BY <1>1 DEF Informed
  <2>5. pc[u] \in OwnerSteps => change'[u].dir = Direction(req'[u].kind, RefKind(u)')
    BY <1>5, <2>4 DEF Same
  <2>6. /\ pc'[u] # "pendingReference"
        /\ pc'[u] \in ValidSteps => ValidationError(req'[u]) = ""
        /\ pc'[u] \in {"lossBalance", "commitLoss"} => req'[u].kind = "LOSS"
    BY <1>1 DEF Informed, Same
  <2> QED
    BY <2>1, <2>2, <2>3, <2>5, <2>6 DEF Informed, Same
<1>7. Refusing(u)'
  <2>1. \A w \in Wallets : PastBalances(w) \subseteq PastBalances(w)'
    BY PastBalancesGrow DEF DecisionInv, IndInv
  <2> QED
    BY <1>1, <2>1 DEF Refusing, Same
<1>8. Answering(u)'
  <2>1. ASSUME out[u].tx \in FindByIdempotencyKey(req[u])
        PROVE  /\ out[u].tx \in DOMAIN rows /\ rows'[out[u].tx] = rows[out[u].tx]
               /\ out'[u].tx \in FindByIdempotencyKey(req[u])'
    BY <1>3, <2>1 DEF FindByIdempotencyKey, Same
  <2>2. pc[u] = "done" /\ out[u].err = "" => AnswerCommitted(u)'
    <3> SUFFICES ASSUME pc[u] = "done" /\ out[u].err = "" PROVE AnswerCommitted(u)'
      OBVIOUS
    <3>1. AnswerCommitted(u)
      BY <1>1 DEF Answering
    <3> DEFINE tx == out[u].tx
               w  == rows[tx].req.wallet
    <3>2. /\ tx \in DOMAIN rows /\ rows'[tx] = rows[tx] /\ out'[u] = out[u]
          /\ out'[u].tx \in FindByIdempotencyKey(req[u])'
      BY <2>1, <3>1 DEF AnswerCommitted, Same
    <3>3. w \in Wallets /\ out[u].status = rows[tx].status
      BY <1>1, <3>1, <3>2 DEF AnswerCommitted, RowsNameWallets
    <3>4. rows[tx].status = "PROCESSED" /\ rows[tx].req.kind # "LOSS" =>
            \E i \in DOMAIN ledger'[w] : ledger'[w][i].tx = tx /\ ledger'[w][i].after = out[u].balance
      BY <1>3, <3>1, <3>3 DEF AnswerCommitted
    <3>5. req'[u] = req[u]
      BY DEF Same
    <3> HIDE DEF w
    <3> QED
      BY <3>2, <3>3, <3>4, <3>5 DEF AnswerCommitted, w
  <2> QED
    BY <1>1, <2>1, <2>2 DEF Answering, Same
<1> QED
  BY <1>6, <1>7, <1>8 DEF Knows

\* A handler that has just received its request, or whose process died, knows
\* nothing yet.
LEMMA PlainStepKnows ==
  ASSUME NEW t \in Threads, pc'[t] \in {"idle", "checkKey", "checkExternal", "findDuplicate"}
  PROVE  Knows(t)'
  BY DEF Knows, Informed, Refusing, Answering, ValidSteps, OwnerSteps, MoneySteps

\* A handler that returns owes only the truth of its answer.
LEMMA ReturnKnows ==
  ASSUME DecisionInv, NEW t \in Threads, NEW resp, Return(t, resp),
         resp.err = "" => AnswerCommitted(t)'
  PROVE  Knows(t)'
<1>1. pc'[t] = "done" /\ out'[t] = resp
  BY DEF DecisionInv, IndInv, TypeOK, HandlersTyped, Return, Goto
<1> QED
  BY <1>1 DEF Knows, Informed, Refusing, Answering, ValidSteps, OwnerSteps, MoneySteps

\* A handler that returns an error has nothing to show.
LEMMA FailureKnows ==
  ASSUME DecisionInv, NEW t \in Threads, NEW err, Return(t, Failure(err)), err # ""
  PROVE  Knows(t)'
<1>1. Failure(err).err = err
  BY DEF Failure, Response
<1> QED
  BY <1>1, ReturnKnows

\* A refusal decided before the wallet was read is not about money.
LEMMA RejectKnows ==
  ASSUME DecisionInv, NEW t \in Threads, NEW c, RejectWith(t, c), c \notin ShortOfMoney,
         ValidationError(req[t]) = ""
  PROVE  Knows(t)'
<1>1. pc'[t] = "reject" /\ code'[t] = c /\ req'[t] = req[t]
  BY DEF DecisionInv, IndInv, TypeOK, HandlersTyped, RejectWith, Goto
<1> QED
  BY <1>1 DEF Knows, Informed, Refusing, Answering, ValidSteps, OwnerSteps, MoneySteps

\* A handler that goes on to read the balance for its answer has the row.
LEMMA ReportKnows ==
  ASSUME DecisionInv, NEW t \in Threads, NEW tx, NEW status, NEW replay,
         ReportBalanceOf(t, tx, status, replay),
         tx \in FindByIdempotencyKey(req[t])', status = rows'[tx].status,
         ~(status = "PROCESSED" /\ rows'[tx].req.kind # "LOSS")
  PROVE  Knows(t)'
<1> DEFINE resp == Response("", tx, status, NoBalance, replay)
<1>1. resp.err = "" /\ resp.tx = tx /\ resp.status = status
  BY DEF Response
<1> HIDE DEF resp
<1>2. pc'[t] = "reportBalance" /\ out'[t] = resp /\ req'[t] = req[t]
  BY DEF DecisionInv, IndInv, TypeOK, HandlersTyped, ReportBalanceOf, Goto, localVars, resp
<1> QED
  BY <1>1, <1>2 DEF Knows, Informed, Refusing, Answering, ValidSteps, OwnerSteps, MoneySteps

\* A replay answers with the stored balance, which is the one of the ledger
\* entry, or reads the balance of now for a row that moved no money.
LEMMA ReplayKnows ==
  ASSUME DecisionInv, NEW t \in Threads, NEW id \in FindByIdempotencyKey(req[t]),
         HandleReplay(t, id), UNCHANGED <<rows, ledger>>
  PROVE  Knows(t)'
<1>1. id \in DOMAIN rows /\ HandlersTyped
  BY DEF FindByIdempotencyKey, DecisionInv, IndInv, TypeOK
<1>2. req' = req
  BY DEF HandleReplay, Return, ReportBalanceOf, localVars
<1>3. id \in FindByIdempotencyKey(req[t])'
  BY <1>2 DEF FindByIdempotencyKey
<1>4. rows[id].status = "PROCESSED" /\ rows[id].req.kind # "LOSS" =>
        /\ rows[id].resultBalance # NoBalance
        /\ \E i \in DOMAIN ledger[rows[id].req.wallet] :
             /\ ledger[rows[id].req.wallet][i].tx = id
             /\ ledger[rows[id].req.wallet][i].after = rows[id].resultBalance
  BY <1>1 DEF DecisionInv, RowsDecided
<1>5. CASE rows[id].resultBalance # NoBalance
  <2> DEFINE resp == Response("", id, rows[id].status, rows[id].resultBalance, TRUE)
  <2>1. resp.tx = id /\ resp.status = rows[id].status /\ resp.balance = rows[id].resultBalance
    BY DEF Response
  <2> HIDE DEF resp
  <2>2. Return(t, resp)
    BY <1>5 DEF HandleReplay, resp
  <2>3. out'[t] = resp
    BY <1>1, <2>2 DEF HandlersTyped, Return
  <2>4. AnswerCommitted(t)'
    BY <1>2, <1>3, <1>4, <2>1, <2>3 DEF AnswerCommitted
  <2> QED
    BY <2>2, <2>4, ReturnKnows
<1>6. CASE rows[id].resultBalance = NoBalance
  <2>1. ReportBalanceOf(t, id, rows[id].status, TRUE)
    BY <1>6 DEF HandleReplay
  <2> QED
    BY <1>3, <1>4, <1>6, <2>1, ReportKnows
<1> QED
  BY <1>5, <1>6

\* A failed wallet call: the codes that speak of money are used only when the
\* committed balance, read under the lock, is below the amount.
LEMMA WalletFailsKnows ==
  ASSUME DecisionInv, NEW t \in Threads, NEW err, WalletFails(t, err), pc[t] \in MoneySteps,
         err = "INSUFFICIENT" => /\ req[t].wallet \in Wallets
                                 /\ balance[req[t].wallet] < req[t].amount
  PROVE  Knows(t)'
<1> DEFINE w  == req[t].wallet
           fc == FailureCode(req[t].kind, err)
           re == ReturnedError(req[t].kind, err)
<1>1. ValidationError(req[t]) = "" /\ HandlersTyped
  BY DEF DecisionInv, Informed, MoneySteps, OwnerSteps, ValidSteps, IndInv, TypeOK
<1>2. Failure(re).err = re /\ re # ""
  BY DEF Failure, Response, ReturnedError
<1>3. fc \in ShortOfMoney => err = "INSUFFICIENT"
  BY DEF FailureCode, ShortOfMoney
<1> HIDE DEF fc, re
<1>4. /\ pc'[t] \in {"failureBalance", "createAndReject"}
      /\ code'[t] = fc /\ out'[t].err # "" /\ req' = req /\ ledger' = ledger
  BY <1>1, <1>2 DEF HandlersTyped, WalletFails, Goto, fc, re
<1>5. Informed(t)'
  BY <1>1, <1>4 DEF Informed, OwnerSteps, MoneySteps
<1>6. Answering(t)'
  BY <1>4 DEF Answering
<1>7. Refusing(t)'
  <2> SUFFICES ASSUME fc \in ShortOfMoney
               PROVE  w \in Wallets /\ \E b \in PastBalances(w)' : b < req[t].amount
    BY <1>4 DEF Refusing
  <2>1. w \in Wallets /\ balance[w] < req[t].amount
    BY <1>3
  <2>2. balance[w] = BalanceAfter(w, Len(ledger[w])) /\ Len(ledger[w]) \in Openings(w)..Len(ledger[w])
    BY <2>1 DEF DecisionInv, IndInv, LedgerExplainsBalance, EntriesNumbered, Openings
  <2>3. balance[w] \in PastBalances(w)
    BY <2>2 DEF PastBalances
  <2>4. PastBalances(w)' = PastBalances(w)
    BY <1>4 DEF PastBalances, BalanceAfter, Openings
  <2> QED
    BY <2>1, <2>3, <2>4
<1> QED
  BY <1>5, <1>6, <1>7 DEF Knows

-----------------------------------------------------------------------------
(***************************************************************************)
(* One lemma per action, or per group of actions of the same shape.        *)
(***************************************************************************)

\* The idempotency check and the replay of a duplicate.
LEMMA ReplaysKnow ==
  ASSUME DecisionInv, NEW t \in Threads, CheckIdempotency(t) \/ FindDuplicate(t)
  PROVE  Knows(t)'
<1>1. UNCHANGED <<rows, ledger>>
  BY DEF CheckIdempotency, FindDuplicate, dbVars
<1>2. CASE Goto(t, "checkExternal")
  <2>1. pc'[t] = "checkExternal"
    BY <1>2 DEF Goto, DecisionInv, IndInv, TypeOK, HandlersTyped
  <2> QED
    BY <2>1, PlainStepKnows
<1>3. CASE Return(t, Failure("PAYLOAD_CONFLICT"))
  BY <1>3, FailureKnows
<1>4. CASE \E id \in FindByIdempotencyKey(req[t]) : HandleReplay(t, id)
  BY <1>1, <1>4, ReplayKnows
<1> QED
  BY <1>2, <1>3, <1>4 DEF CheckIdempotency, FindDuplicate

\* The external id check, the validation of the request and the dispatch.
LEMMA CheckExternalIdKnows ==
  ASSUME DecisionInv, NEW t \in Threads, CheckExternalId(t)
  PROVE  Knows(t)'
<1>1. HandlersTyped /\ req[t] \in Requests
  BY DEF DecisionInv, IndInv, TypeOK, HandlerOK, CheckExternalId
<1>2. CASE ExternalTransactionExists(req[t]) \/ ValidationError(req[t]) # ""
  BY <1>2, FailureKnows DEF CheckExternalId
<1>3. CASE RejectWith(t, "MISSING_REFERENCE") /\ ValidationError(req[t]) = ""
  BY <1>3, RejectKnows DEF ShortOfMoney
<1>4. CASE /\ ValidationError(req[t]) = "" /\ ~(req[t].kind \in ReversalKinds /\ req[t].ref = NoRef)
           /\ Goto(t, Dispatch(t)) /\ UNCHANGED <<localVars, out>>
  <2>1. pc'[t] = Dispatch(t) /\ req' = req
    BY <1>1, <1>4 DEF HandlersTyped, Goto, localVars
  <2>2. req[t].kind \in Kinds
    BY <1>1, <1>4, ValidationFacts
  <2>3. /\ Dispatch(t) \in {"lossBalance", "findReference", "lockWallet"}
        /\ Dispatch(t) = "lossBalance" => req[t].kind = "LOSS"
        /\ Dispatch(t) = "lockWallet" =>
             req[t].kind \in {"BET", "WIN"} /\ (req[t].kind = "WIN" => req[t].ref = NoRef)
    BY <1>4, <2>2 DEF Dispatch, Kinds, ReversalKinds
  <2>4. Informed(t)'
    BY <1>4, <2>1, <2>3 DEF Informed, MoneySteps, OwnerSteps, ReversalKinds
  <2> QED
    BY <2>1, <2>3, <2>4 DEF Knows, Refusing, Answering
<1> QED
  BY <1>2, <1>3, <1>4 DEF CheckExternalId

\* The referenced transaction: a WIN goes on with a BET it names, a reversal
\* with a processed transaction it names.
LEMMA FindReferenceKnows ==
  ASSUME DecisionInv, NEW t \in Threads, FindReference(t)
  PROVE  Knows(t)'
<1>0. pc[t] = "findReference" /\ UNCHANGED rows
  BY DEF FindReference, dbVars
<1>1. /\ HandlersTyped /\ pc[t] = "findReference" /\ ValidationError(req[t]) = "" /\ UNCHANGED rows
      /\ req[t].kind \in {"WIN", "REFUND", "ROLLBACK"}
  BY <1>0 DEF DecisionInv, Informed, IndInv, TypeOK, HandlerOK, ValidSteps
<1>2. ASSUME NEW c, RejectWith(t, c), c \notin ShortOfMoney PROVE Knows(t)'
  BY <1>1, <1>2, RejectKnows
<1>3. CASE FindByProviderAndExternalID(req[t].provider, req[t].ref) = {}
  BY <1>2, <1>3 DEF FindReference, ShortOfMoney
<1>4. CASE FindByProviderAndExternalID(req[t].provider, req[t].ref) # {}
  <2>1. PICK id \in FindByProviderAndExternalID(req[t].provider, req[t].ref) :
          IF req[t].kind = "WIN" THEN WinReference(t, id) ELSE ReversalReference(t, id)
    BY <1>4 DEF FindReference
  <2>2. id \in DOMAIN rows /\ rows[id].req.provider = req[t].provider /\ rows[id].req.ext = req[t].ref
    BY DEF FindByProviderAndExternalID
  <2>3. /\ WinReferenceError(req[t], rows[id].req) \notin ShortOfMoney
        /\ ReferenceMismatch(req[t], rows[id].req) \notin ShortOfMoney
    BY DEF WinReferenceError, ReferenceMismatch, ShortOfMoney
  <2>4. ReferenceMismatch(req[t], rows[id].req) = "" => Ledger!Names(req[t], rows[id].req)
    BY <2>2 DEF ReferenceMismatch, Ledger!Names
  <2>5. CASE req[t].kind = "WIN"
    <3>1. WinReference(t, id)
      BY <2>1, <2>5
    <3>2. CASE WinReferenceError(req[t], rows[id].req) # ""
      BY <1>2, <2>3, <3>1, <3>2 DEF WinReference
    <3>3. CASE WinReferenceError(req[t], rows[id].req) = ""
      <4>1. pc'[t] = "lockWallet" /\ req' = req
        BY <1>1, <3>1, <3>3 DEF WinReference, Goto, HandlersTyped, localVars
      <4>2. rows[id].req.kind = "BET" /\ Ledger!Names(req[t], rows[id].req)
        BY <2>4, <3>3 DEF WinReferenceError
      <4>3. \E i \in DOMAIN rows' : rows'[i].req.kind = "BET" /\ Ledger!Names(req[t], rows'[i].req)
        BY <1>1, <2>2, <4>2
      <4>4. Informed(t)'
        BY <1>1, <2>5, <4>1, <4>3 DEF Informed, OwnerSteps, ReversalKinds
      <4> QED
        BY <4>1, <4>4 DEF Knows, Refusing, Answering
    <3> QED
      BY <3>2, <3>3
  <2>6. CASE req[t].kind # "WIN"
    <3>1. ReversalReference(t, id) /\ req[t].kind \in ReversalKinds
      BY <1>1, <2>1, <2>6 DEF ReversalKinds
    <3>2. rows[id].status \in {"PROCESSED", "REJECTED"}
      BY <2>2 DEF DecisionInv, RowsDecided
    <3>3. CASE ReferenceMismatch(req[t], rows[id].req) # "" /\ RejectWith(t, ReferenceMismatch(req[t], rows[id].req))
      BY <1>2, <2>3, <3>3
    <3>4. CASE RejectWith(t, "REFERENCE_NOT_SUCCESSFUL")
      BY <1>2, <3>4 DEF ShortOfMoney
    <3>5. CASE /\ ReferenceMismatch(req[t], rows[id].req) = "" /\ rows[id].status = "PROCESSED"
               /\ Goto(t, "checkReversal") /\ ref' = [ref EXCEPT ![t] = id]
               /\ UNCHANGED <<req, change, code, out>>
      <4>1. pc'[t] = "checkReversal" /\ ref'[t] = id /\ req' = req
        BY <1>1, <3>5 DEF HandlersTyped, Goto
      <4>2. Reverses(req[t], ref[t])'
        BY <1>1, <2>2, <2>4, <3>5, <4>1 DEF Reverses, Ledger!Names
      <4>3. Informed(t)'
        BY <1>1, <3>1, <4>1, <4>2 DEF Informed, OwnerSteps, MoneySteps
      <4> QED
        BY <4>1, <4>3 DEF Knows, Refusing, Answering
    <3> QED
      BY <3>1, <3>2, <3>3, <3>4, <3>5 DEF ReversalReference
  <2> QED
    BY <2>5, <2>6
<1> QED
  BY <1>3, <1>4

\* The reversal check, answered or failed, and the value check behind it.
LEMMA CheckReversalKnows ==
  ASSUME DecisionInv, NEW t \in Threads, CheckReversal(t) \/ CheckReversalFails(t)
  PROVE  Knows(t)'
<1>1. /\ HandlersTyped /\ pc[t] = "checkReversal" /\ ValidationError(req[t]) = "" /\ UNCHANGED rows
      /\ req[t].kind \in ReversalKinds /\ Reverses(req[t], ref[t])
  BY DEF DecisionInv, Informed, IndInv, TypeOK, ValidSteps, CheckReversal, CheckReversalFails, dbVars
<1>2. ASSUME NEW c, RejectWith(t, c), c \notin ShortOfMoney PROVE Knows(t)'
  BY <1>1, <1>2, RejectKnows
<1>3. CASE RejectWith(t, "DOUBLE_REVERSAL")
  BY <1>2, <1>3 DEF ShortOfMoney
<1>4. CASE AfterReversalCheck(t)
  <2>1. CASE RejectWith(t, "REVERSAL_VALUE_MISMATCH") \/ RejectWith(t, "INVALID_REFERENCE_TYPE")
    BY <1>2, <2>1 DEF ShortOfMoney
  <2>2. CASE /\ req[t].amount = rows[ref[t]].req.amount
             /\ Goto(t, "lockWallet") /\ UNCHANGED <<localVars, out>>
    <3>1. pc'[t] = "lockWallet" /\ req' = req /\ ref' = ref
      BY <1>1, <2>2 DEF HandlersTyped, Goto, localVars
    <3>2. Reverses(req[t], ref[t])' /\ rows'[ref'[t]].req.amount = req'[t].amount
      BY <1>1, <2>2, <3>1 DEF Reverses, Ledger!Names
    <3>3. Informed(t)'
      BY <1>1, <3>1, <3>2 DEF Informed, OwnerSteps, ReversalKinds
    <3> QED
      BY <3>1, <3>3 DEF Knows, Refusing, Answering
  <2> QED
    BY <1>4, <2>1, <2>2 DEF AfterReversalCheck
<1> QED
  BY <1>3, <1>4 DEF CheckReversal, CheckReversalFails

\* The wallet calls: the direction is fixed when the wallet is locked.
LEMMA WalletCallsKnow ==
  ASSUME DecisionInv, NEW t \in Threads, LockWallet(t) \/ UpdateBalance(t) \/ WalletCallFails(t)
  PROVE  Knows(t)'
<1>1. /\ HandlersTyped /\ pc[t] \in {"lockWallet", "updateBalance"} /\ UNCHANGED rows
      /\ Informed(t)
  BY DEF DecisionInv, IndInv, TypeOK, LockWallet, UpdateBalance, WalletCallFails, WalletFails, dbVars
<1>2. pc[t] \in MoneySteps
  BY <1>1 DEF MoneySteps, OwnerSteps
<1>3. ASSUME NEW err, WalletFails(t, err), err # "INSUFFICIENT" PROVE Knows(t)'
  BY <1>2, <1>3, WalletFailsKnows
<1>4. CASE WalletCallFails(t)
  BY <1>3, <1>4 DEF WalletCallFails
<1>5. ASSUME UNCHANGED <<req, ref>>, pc'[t] \in OwnerSteps,
             change'[t].dir = Direction(req[t].kind, RefKind(t))
      PROVE  Knows(t)'
  <2>1. RefKind(t)' = RefKind(t)
    BY <1>1, <1>5 DEF RefKind
  <2>2. change'[t].dir = Direction(req'[t].kind, RefKind(t)')
    BY <1>5, <2>1
  <2>3. /\ ValidationError(req[t]) = "" /\ req[t].kind # "LOSS"
        /\ req[t].kind \in ReversalKinds =>
             Reverses(req[t], ref[t]) /\ rows[ref[t]].req.amount = req[t].amount
        /\ req[t].kind = "WIN" /\ req[t].ref # NoRef =>
             \E id \in DOMAIN rows : rows[id].req.kind = "BET" /\ Ledger!Names(req[t], rows[id].req)
    BY <1>1, <1>2 DEF Informed, ValidSteps, OwnerSteps
  <2>4. Reverses(req[t], ref[t])' = Reverses(req[t], ref[t])
    BY <1>1, <1>5 DEF Reverses, Ledger!Names
  <2>5. Informed(t)'
    BY <1>1, <1>5, <2>2, <2>3, <2>4 DEF Informed, OwnerSteps
  <2> QED
    BY <1>5, <2>5 DEF Knows, Refusing, Answering, OwnerSteps
<1>6. CASE LockWallet(t)
  <2>1. CASE WalletFails(t, "NOT_FOUND")
    BY <1>3, <2>1
  <2> DEFINE c == [before |-> balance[req[t].wallet], after |-> NoBalance, version |-> version[req[t].wallet],
                   dir |-> Direction(req[t].kind, RefKind(t))]
  <2>2. c.dir = Direction(req[t].kind, RefKind(t))
    OBVIOUS
  <2> HIDE DEF c
  <2>3. CASE change' = [change EXCEPT ![t] = c] /\ Goto(t, "updateBalance") /\ UNCHANGED <<req, ref>>
    <3>1. change'[t] = c /\ pc'[t] \in OwnerSteps
      BY <1>1, <2>3 DEF HandlersTyped, Goto, OwnerSteps
    <3> QED
      BY <1>5, <2>2, <2>3, <3>1
  <2> QED
    BY <1>6, <2>1, <2>3 DEF LockWallet, c
<1>7. CASE UpdateBalance(t)
  <2> DEFINE c == change[t]
             amt == req[t].amount
  <2>1. pc[t] = "updateBalance" /\ OwnerOK(t)
    BY <1>7 DEF UpdateBalance, DecisionInv, IndInv, HandlerOK, OwnerSteps
  <2>2. CASE WalletError(c.before, c.dir, amt) # ""
    <3>1. WalletFails(t, WalletError(c.before, c.dir, amt))
      BY <1>7, <2>2 DEF UpdateBalance
    <3>2. WalletError(c.before, c.dir, amt) = "INSUFFICIENT" =>
            req[t].wallet \in Wallets /\ balance[req[t].wallet] < req[t].amount
      BY <2>1 DEF WalletError, OwnerOK
    <3> QED
      BY <1>2, <3>1, <3>2, WalletFailsKnows
  <2>3. CASE WalletFails(t, "CONCURRENT")
    BY <1>3, <2>3
  <2>4. CASE change' = [change EXCEPT ![t] = Applied(c, amt)] /\ Goto(t, "commit") /\ UNCHANGED <<req, ref>>
    <3>1. change'[t] = Applied(c, amt) /\ pc'[t] \in OwnerSteps
      BY <1>1, <2>4 DEF HandlersTyped, Goto, OwnerSteps
    <3>2. Applied(c, amt).dir = c.dir
      BY DEF Applied
    <3>3. c.dir = Direction(req[t].kind, RefKind(t))
      BY <1>1, <2>1 DEF Informed, OwnerSteps
    <3> QED
      BY <1>5, <2>4, <3>1, <3>2, <3>3
  <2> QED
    BY <1>7, <2>2, <2>3, <2>4 DEF UpdateBalance
<1> QED
  BY <1>4, <1>6, <1>7

\* The balance of a refusal and of a LOSS, and a failed read of the first.
LEMMA BalanceReadsKnow ==
  ASSUME DecisionInv, NEW t \in Threads,
         ReadFailureBalance(t) \/ FailureBalanceFails(t) \/ LossBalance(t)
  PROVE  Knows(t)'
<1>1. HandlersTyped /\ Informed(t) /\ Refusing(t) /\ Answering(t) /\ UNCHANGED ledger
  BY DEF DecisionInv, IndInv, TypeOK, ReadFailureBalance, FailureBalanceFails, LossBalance, dbVars
<1>2. CASE ReadFailureBalance(t) \/ FailureBalanceFails(t)
  <2>1. /\ pc[t] = "failureBalance" /\ pc'[t] = "createAndReject"
        /\ req' = req /\ code' = code /\ out' = out
    BY <1>1, <1>2 DEF ReadFailureBalance, FailureBalanceFails, HandlersTyped, Goto, localVars
  <2>2. PastBalances(req[t].wallet)' = PastBalances(req[t].wallet)
    BY <1>1, <2>1 DEF PastBalances, BalanceAfter, Openings
  <2>3. Refusing(t)'
    BY <1>1, <2>1, <2>2 DEF Refusing
  <2>4. Informed(t)' /\ Answering(t)'
    BY <1>1, <2>1 DEF Informed, Answering, ValidSteps, MoneySteps, OwnerSteps
  <2> QED
    BY <2>3, <2>4 DEF Knows
<1>3. CASE LossBalance(t) /\ Goto(t, "commitLoss") /\ req' = req
  <2>1. pc[t] = "lossBalance" /\ pc'[t] = "commitLoss"
    BY <1>1, <1>3 DEF LossBalance, HandlersTyped, Goto
  <2> QED
    BY <1>1, <1>3, <2>1 DEF Knows, Informed, Refusing, Answering, ValidSteps, MoneySteps, OwnerSteps
<1>4. CASE LossBalance(t) /\ Return(t, Failure("INTERNAL"))
  BY <1>4, FailureKnows
<1> QED
  BY <1>2, <1>3, <1>4 DEF LossBalance

\* The row a handler commits: its request, its status and what it stores.
LEMMA RowFields ==
  ASSUME NEW t \in Threads
  PROVE  /\ RowToInsert(t).req = req[t]
         /\ pc[t] \in {"commit", "commitLoss"} =>
              /\ RowToInsert(t).status = "PROCESSED"
              /\ RowToInsert(t).failureCode = ""
              /\ RowToInsert(t).resultBalance = change[t].after
              /\ RowToInsert(t).internalRef = IF req[t].kind \in ReversalKinds THEN ref[t] ELSE NoRow
         /\ pc[t] \in {"reject", "createAndReject"} =>
              /\ RowToInsert(t).status = "REJECTED"
              /\ RowToInsert(t).failureCode = code[t]
              /\ RowToInsert(t).internalRef = NoRow
  BY DEF RowToInsert, Row

\* A committed row is found under the key of its request.
LEMMA NewRowFound ==
  ASSUME IndInv, NEW t \in Threads, rows' = Append(rows, RowToInsert(t)), req'[t] = req[t]
  PROVE  /\ rows'[NewId] = RowToInsert(t)
         /\ NewId \in DOMAIN rows'
         /\ NewId \in FindByIdempotencyKey(req[t])'
<1>1. rows \in Seq(RowType)
  BY DEF IndInv, TypeOK, TablesTyped
<1>2. rows'[NewId] = RowToInsert(t) /\ NewId \in DOMAIN rows'
  BY <1>1 DEF NewId
<1> QED
  BY <1>2, RowFields DEF FindByIdempotencyKey

\* The settlement: the answer is the entry it has just written.
LEMMA CommitWithLedgerKnows ==
  ASSUME DecisionInv, NEW t \in Threads, CommitWithLedger(t)
  PROVE  Knows(t)'
<1>1. pc[t] = "commit" /\ HandlersTyped /\ IndInv
  BY DEF CommitWithLedger, DecisionInv, IndInv, TypeOK
<1>2. CASE Goto(t, "findDuplicate")
  BY <1>1, <1>2, PlainStepKnows DEF Goto, HandlersTyped
<1>3. CASE Return(t, Failure("DOUBLE_REVERSAL"))
  BY <1>3, FailureKnows
<1>4. CASE InsertSettlement(t) /\ Return(t, Response("", NewId, "PROCESSED", change[t].after, FALSE))
  <2> DEFINE resp == Response("", NewId, "PROCESSED", change[t].after, FALSE)
             w == req[t].wallet
             e == Entry(NewId, change[t].dir, req[t].amount, change[t].before, change[t].after)
  <2>1. resp.tx = NewId /\ resp.status = "PROCESSED" /\ resp.balance = change[t].after
    BY DEF Response
  <2>2. e.tx = NewId /\ e.after = change[t].after
    BY DEF Entry
  <2>3. ledger' = [ledger EXCEPT ![w] = Append(@, e)] /\ rows' = Append(rows, RowToInsert(t)) /\ w \in Wallets
    BY <1>1, <1>4 DEF InsertSettlement, WriteLedgerEntry, IndInv, HandlerOK, OwnerSteps, OwnerOK
  <2> HIDE DEF e, resp
  <2>4. Return(t, resp)
    BY <1>4 DEF resp
  <2>5. out'[t] = resp /\ req' = req
    BY <1>1, <2>4 DEF Return, HandlersTyped
  <2>6. ledger \in [Wallets -> Seq(EntryType)]
    BY <1>1 DEF IndInv, TypeOK, TablesTyped
  <2>7. ledger'[w] = Append(ledger[w], e)
    BY <2>3, <2>6
  <2>8. \E i \in DOMAIN ledger'[w] : ledger'[w][i].tx = NewId /\ ledger'[w][i].after = change[t].after
    <3>1. Len(ledger[w]) + 1 \in DOMAIN ledger'[w] /\ ledger'[w][Len(ledger[w]) + 1] = e
      BY <2>3, <2>6, <2>7
    <3> QED
      BY <2>2, <3>1
  <2>9. rows'[NewId] = RowToInsert(t) /\ NewId \in FindByIdempotencyKey(req[t])'
    BY <1>1, <2>3, <2>5, NewRowFound
  <2>10. RowToInsert(t).req = req[t] /\ RowToInsert(t).status = "PROCESSED"
    BY <1>1, RowFields
  <2>11. AnswerCommitted(t)'
    BY <2>1, <2>5, <2>8, <2>9, <2>10 DEF AnswerCommitted
  <2> QED
    BY <2>4, <2>11, ReturnKnows
<1> QED
  BY <1>2, <1>3, <1>4 DEF CommitWithLedger

\* The transactions without money.
LEMMA RecordsKnow ==
  ASSUME DecisionInv, NEW t \in Threads, CreateAndReject(t) \/ Reject(t) \/ CommitLoss(t)
  PROVE  Knows(t)'
<1>1. HandlersTyped /\ IndInv /\ Informed(t) /\ Answering(t)
  BY DEF DecisionInv, IndInv, TypeOK
<1>2. CASE CreateAndReject(t)
  <2>1. out[t].err # "" /\ Return(t, out[t])
    BY <1>1, <1>2 DEF CreateAndReject, Answering
  <2> QED
    BY <2>1, ReturnKnows
<1>3. CASE Return(t, Failure("INTERNAL"))
  BY <1>3, FailureKnows
<1>4. CASE pc[t] = "reject" /\ InsertRow(t) /\ ReportBalanceOf(t, NewId, "REJECTED", FALSE)
  <2>1. rows' = Append(rows, RowToInsert(t)) /\ req' = req
    BY <1>4 DEF InsertRow, ReportBalanceOf, localVars
  <2>2. rows'[NewId] = RowToInsert(t) /\ NewId \in FindByIdempotencyKey(req[t])'
    BY <1>1, <2>1, NewRowFound
  <2>3. RowToInsert(t).status = "REJECTED"
    BY <1>4, RowFields
  <2> QED
    BY <1>4, <2>2, <2>3, ReportKnows
<1>5. CASE pc[t] = "commitLoss" /\ InsertRow(t) /\ ReportBalanceOf(t, NewId, "PROCESSED", FALSE)
  <2>1. rows' = Append(rows, RowToInsert(t)) /\ req' = req
    BY <1>5 DEF InsertRow, ReportBalanceOf, localVars
  <2>2. rows'[NewId] = RowToInsert(t) /\ NewId \in FindByIdempotencyKey(req[t])'
    BY <1>1, <2>1, NewRowFound
  <2>3. RowToInsert(t).status = "PROCESSED" /\ RowToInsert(t).req.kind = "LOSS"
    BY <1>1, <1>5, RowFields DEF Informed
  <2> QED
    BY <1>5, <2>2, <2>3, ReportKnows
<1> QED
  BY <1>2, <1>3, <1>4, <1>5 DEF Reject, CommitLoss

\* The balance read for an answer, and a failed read of it.
LEMMA ReportsKnow ==
  ASSUME DecisionInv, NEW t \in Threads, ReportBalance(t) \/ ReportBalanceFails(t)
  PROVE  Knows(t)'
<1>1. /\ pc[t] = "reportBalance" /\ HandlersTyped /\ Answering(t) /\ UNCHANGED <<rows, ledger>>
  BY DEF ReportBalance, ReportBalanceFails, dbVars, DecisionInv, IndInv, TypeOK
<1>2. CASE Return(t, Failure("INTERNAL"))
  BY <1>2, FailureKnows
<1>3. ASSUME NEW b, Return(t, [out[t] EXCEPT !.balance = b]) PROVE Knows(t)'
  <2> DEFINE resp == [out[t] EXCEPT !.balance = b]
  <2>1. out[t] \in ResponseType
    BY <1>1 DEF HandlersTyped
  <2>2. resp.tx = out[t].tx /\ resp.status = out[t].status
    BY <2>1 DEF ResponseType
  <2> HIDE DEF resp
  <2>3. Return(t, resp)
    BY <1>3 DEF resp
  <2>4. out'[t] = resp /\ req' = req
    BY <1>1, <2>3 DEF HandlersTyped, Return
  <2>5. /\ out[t].tx \in FindByIdempotencyKey(req[t]) /\ out[t].status = rows[out[t].tx].status
        /\ ~(out[t].status = "PROCESSED" /\ rows[out[t].tx].req.kind # "LOSS")
    BY <1>1 DEF Answering
  <2>6. out[t].tx \in FindByIdempotencyKey(req[t])'
    BY <1>1, <2>4, <2>5 DEF FindByIdempotencyKey
  <2>7. AnswerCommitted(t)'
    BY <1>1, <2>2, <2>4, <2>5, <2>6 DEF AnswerCommitted
  <2> QED
    BY <2>3, <2>7, ReturnKnows
<1>4. CASE ReportBalance(t)
  BY <1>3, <1>4 DEF ReportBalance
<1>5. CASE ReportBalanceFails(t)
  BY <1>2, <1>3, <1>5 DEF ReportBalanceFails
<1> QED
  BY <1>4, <1>5

\* Failed calls whose error is returned, and crashes.
LEMMA FaultsKnow ==
  ASSUME DecisionInv, NEW t \in Threads,
         \/ ReadFails(t) \/ FindDuplicateFails(t) \/ TransactionFails(t) \/ CommitAnswerLost(t) \/ Crash(t)
  PROVE  Knows(t)'
<1>1. HandlersTyped /\ Answering(t)
  BY DEF DecisionInv, IndInv, TypeOK
<1>2. CASE Return(t, Failure("INTERNAL")) \/ Return(t, Failure("IDEMPOTENT_DUPLICATE"))
  BY <1>2, FailureKnows
<1>3. CASE pc[t] = "createAndReject" /\ Return(t, out[t])
  <2>1. out[t].err # ""
    BY <1>1, <1>3 DEF Answering
  <2> QED
    BY <1>3, <2>1, ReturnKnows
<1>4. CASE Crash(t)
  BY <1>1, <1>4, PlainStepKnows DEF Crash, Goto, HandlersTyped
<1> QED
  BY <1>2, <1>3, <1>4 DEF ReadFails, FindDuplicateFails, TransactionFails, CommitAnswerLost

-----------------------------------------------------------------------------
(***************************************************************************)
(* The tables.                                                             *)
(***************************************************************************)

\* A settlement: one row and one ledger entry that names it.
LEMMA SettlementFacts ==
  ASSUME IndInv, NEW t \in Threads, Settles(t)
  PROVE  /\ req[t].wallet \in Wallets
         /\ change[t].after \in Balances
         /\ rows' = Append(rows, RowToInsert(t))
         /\ \E e \in EntryType :
              /\ e.tx = NewId /\ e.after = change[t].after /\ e.amount = req[t].amount
              /\ ledger'[req[t].wallet] = Append(ledger[req[t].wallet], e)
         /\ \A w \in Wallets \ {req[t].wallet} : ledger'[w] = ledger[w]
<1> DEFINE w == req[t].wallet
           e == Entry(NewId, change[t].dir, req[t].amount, change[t].before, change[t].after)
<1>1. OwnerOK(t) /\ pc[t] = "commit" /\ change[t] \in ChangeType /\ req[t].amount \in Balances
  BY DEF Settles, IndInv, TypeOK, HandlersTyped, HandlerOK, OwnerSteps, ValidSteps
<1>2. /\ w \in Wallets /\ change[t].after \in Balances /\ change[t].before \in Balances
      /\ change[t].dir \in Directions
  BY <1>1 DEF OwnerOK, ChangeType
<1>3. NewId \in Nat /\ ledger \in [Wallets -> Seq(EntryType)]
  BY DEF IndInv, TypeOK, TablesTyped, NewId
<1>4. e \in EntryType /\ e.tx = NewId /\ e.after = change[t].after /\ e.amount = req[t].amount
  BY <1>1, <1>2, <1>3 DEF Entry, EntryType
<1>5. rows' = Append(rows, RowToInsert(t)) /\ ledger' = [ledger EXCEPT ![w] = Append(@, e)]
  BY DEF Settles, InsertSettlement, WriteLedgerEntry
<1> HIDE DEF e
<1> QED
  BY <1>2, <1>3, <1>4, <1>5

\* What is appended, and where.
LEMMA AppendFacts ==
  ASSUME NEW S, NEW s \in Seq(S), NEW x, NEW s1, s1 = Append(s, x)
  PROVE  /\ Len(s) \in Nat /\ DOMAIN s = 1..Len(s)
         /\ Len(s1) = Len(s) + 1 /\ DOMAIN s1 = 1..(Len(s) + 1)
         /\ \A i \in 1..Len(s) : s1[i] = s[i]
         /\ s1[Len(s) + 1] = x
  OBVIOUS

\* Every entry still belongs to a row after a commit.
LEMMA EntriesStep ==
  ASSUME DecisionInv, NEW t \in Threads, Commits(t)
  PROVE  EntriesNumbered'
<1>1. rows \in Seq(RowType) /\ ledger \in [Wallets -> Seq(EntryType)] /\ IndInv
  BY DEF DecisionInv, IndInv, TypeOK, TablesTyped
<1>2. \A w \in Wallets : Openings(w)' = Openings(w) /\ Openings(w) \in Nat
  BY DEF Openings
<1>3. \A w \in Wallets : /\ Len(ledger[w]) \in Openings(w)..(Len(rows) + 1)
                         /\ \A i \in DOMAIN ledger[w] : ledger[w][i].tx \in 0..Len(rows)
  BY DEF DecisionInv, EntriesNumbered
<1>4. CASE NoCommit
  BY <1>2, <1>3, <1>4 DEF NoCommit, EntriesNumbered
<1>5. CASE Records(t)
  <2>1. Len(rows') = Len(rows) + 1 /\ Len(rows) \in Nat /\ ledger' = ledger
    BY <1>1, <1>5, AppendFacts DEF Records, InsertRow
  <2> QED
    BY <1>1, <1>2, <1>3, <2>1 DEF EntriesNumbered
<1>6. CASE Settles(t)
  <2>1. Len(rows') = Len(rows) + 1 /\ Len(rows) \in Nat /\ NewId = Len(rows) + 1
    BY <1>1, <1>6, SettlementFacts, AppendFacts DEF NewId
  <2> SUFFICES ASSUME NEW w \in Wallets
               PROVE  /\ Len(ledger'[w]) \in Openings(w)..(Len(rows') + 1)
                      /\ \A i \in DOMAIN ledger'[w] : ledger'[w][i].tx \in 0..Len(rows')
    BY <1>2 DEF EntriesNumbered
  <2>2. CASE w # req[t].wallet
    BY <1>1, <1>2, <1>3, <1>6, <2>1, <2>2, SettlementFacts
  <2>3. CASE w = req[t].wallet
    <3>1. PICK e \in EntryType : e.tx = NewId /\ ledger'[w] = Append(ledger[w], e)
      BY <1>1, <1>6, <2>3, SettlementFacts
    <3>2. /\ DOMAIN ledger'[w] = 1..(Len(ledger[w]) + 1) /\ Len(ledger'[w]) = Len(ledger[w]) + 1
          /\ \A i \in 1..Len(ledger[w]) : ledger'[w][i] = ledger[w][i]
          /\ ledger'[w][Len(ledger[w]) + 1] = e /\ Len(ledger[w]) \in Nat /\ DOMAIN ledger[w] = 1..Len(ledger[w])
      BY <1>1, <3>1, AppendFacts
    <3> QED
      BY <1>2, <1>3, <2>1, <3>1, <3>2
  <2> QED
    BY <2>2, <2>3
<1> QED
  BY <1>4, <1>5, <1>6 DEF Commits

\* A row that is committed is decided, and stores the balance of its entry.
LEMMA RowsDecidedStep ==
  ASSUME DecisionInv, NEW t \in Threads, Commits(t)
  PROVE  RowsDecided'
<1>1. rows \in Seq(RowType) /\ ledger \in [Wallets -> Seq(EntryType)] /\ IndInv /\ Informed(t)
  BY DEF DecisionInv, IndInv, TypeOK, TablesTyped
<1>2. CASE NoCommit
  BY <1>2 DEF NoCommit, DecisionInv, RowsDecided
<1>3. CASE Records(t) \/ Settles(t)
  <2> DEFINE row == RowToInsert(t)
             n == Len(rows)
             Decided(id) ==
               /\ rows'[id].status \in {"PROCESSED", "REJECTED"}
               /\ rows'[id].status = "PROCESSED" /\ rows'[id].req.kind # "LOSS" =>
                    /\ rows'[id].resultBalance # NoBalance
                    /\ \E i \in DOMAIN ledger'[rows'[id].req.wallet] :
                         /\ ledger'[rows'[id].req.wallet][i].tx = id
                         /\ ledger'[rows'[id].req.wallet][i].after = rows'[id].resultBalance
  <2>1. rows' = Append(rows, row)
    BY <1>1, <1>3, SettlementFacts DEF Records, InsertRow
  <2>2. /\ n \in Nat /\ DOMAIN rows = 1..n /\ DOMAIN rows' = 1..(n + 1) /\ rows'[n + 1] = row
        /\ \A i \in 1..n : rows'[i] = rows[i]
    BY <1>1, <2>1, AppendFacts
  <2>3. TablesGrow
    BY <1>1, <1>3, CommitsGrow
  <2>4. ASSUME NEW id \in 1..n PROVE Decided(id)
    <3>1. /\ rows[id].status \in {"PROCESSED", "REJECTED"}
          /\ rows[id].status = "PROCESSED" /\ rows[id].req.kind # "LOSS" =>
               /\ rows[id].resultBalance # NoBalance
               /\ \E i \in DOMAIN ledger[rows[id].req.wallet] :
                    /\ ledger[rows[id].req.wallet][i].tx = id
                    /\ ledger[rows[id].req.wallet][i].after = rows[id].resultBalance
      BY <2>2 DEF DecisionInv, RowsDecided
    <3>2. rows[id].req.wallet \in Wallets
      BY <1>1, <2>2 DEF IndInv, RowsNameWallets
    <3>3. \A i \in DOMAIN ledger[rows[id].req.wallet] :
            /\ i \in DOMAIN ledger'[rows[id].req.wallet]
            /\ ledger'[rows[id].req.wallet][i] = ledger[rows[id].req.wallet][i]
      <4>1. ledger' \in [Wallets -> Seq(EntryType)]
        <5>1. CASE Records(t)
          BY <1>1, <5>1 DEF Records, InsertRow
        <5>2. CASE Settles(t)
          <6> DEFINE e == Entry(NewId, change[t].dir, req[t].amount, change[t].before, change[t].after)
          <6>1. ledger' = [ledger EXCEPT ![req[t].wallet] = Append(@, e)]
            BY <5>2 DEF Settles, InsertSettlement, WriteLedgerEntry
          <6>2. Append(ledger[req[t].wallet], e) \in Seq(EntryType)
            BY <1>1, <5>2, <6>1, SettlementFacts
          <6> QED
            BY <1>1, <6>1, <6>2
        <5> QED
          BY <1>3, <5>1, <5>2
      <4> QED
        BY <1>1, <2>3, <3>2, <4>1 DEF TablesGrow
    <3> QED
      BY <2>2, <3>1, <3>2, <3>3
  <2>5. Decided(n + 1)
    <3>1. CASE Settles(t)
      <4>1. /\ row.status = "PROCESSED" /\ row.req = req[t] /\ row.resultBalance = change[t].after
            /\ change[t].after \in Balances
        BY <1>1, <3>1, RowFields, SettlementFacts DEF Settles
      <4>2. row.resultBalance # NoBalance
        BY <4>1 DEF Balances, NoBalance
      <4>3. PICK e \in EntryType : /\ e.tx = NewId /\ e.after = change[t].after
                                   /\ ledger'[req[t].wallet] = Append(ledger[req[t].wallet], e)
        BY <1>1, <3>1, SettlementFacts
      <4>4. /\ Len(ledger[req[t].wallet]) + 1 \in DOMAIN ledger'[req[t].wallet]
            /\ ledger'[req[t].wallet][Len(ledger[req[t].wallet]) + 1] = e
        BY <1>1, <3>1, <4>3, SettlementFacts, AppendFacts
      <4> QED
        BY <2>2, <4>1, <4>2, <4>3, <4>4 DEF NewId
    <3>2. CASE Records(t)
      <4>1. pc[t] \in {"commitLoss", "reject", "createAndReject"}
        BY <1>1, <3>2 DEF Records, InsertSteps, Informed
      <4>2. row.status \in {"PROCESSED", "REJECTED"} /\ (row.status = "PROCESSED" => row.req.kind = "LOSS")
        BY <1>1, <4>1, RowFields DEF Informed
      <4> QED
        BY <2>2, <4>2
    <3> QED
      BY <1>3, <3>1, <3>2
  <2> QED
    BY <2>2, <2>4, <2>5 DEF RowsDecided
<1> QED
  BY <1>2, <1>3 DEF Commits

\* A refusal for want of money is recorded by a handler that met the balance.
LEMMA RefusalsStep ==
  ASSUME DecisionInv, NEW t \in Threads, Commits(t), TypeOK'
  PROVE  RefusalsJustified'
<1>1. rows \in Seq(RowType) /\ IndInv /\ Informed(t) /\ Refusing(t) /\ TypeOK
  BY DEF DecisionInv, IndInv, TypeOK, TablesTyped
<1>2. TablesGrow
  BY <1>1, CommitsGrow
<1>3. \A w \in Wallets : PastBalances(w) \subseteq PastBalances(w)'
  BY <1>1, <1>2, PastBalancesGrow
<1>4. ASSUME NEW id \in DOMAIN rows, rows[id].failureCode \in ShortOfMoney,
             NEW w, w = rows[id].req.wallet
      PROVE  \E b \in PastBalances(w)' : b < rows[id].req.amount
  <2>1. w \in Wallets
    BY <1>1, <1>4 DEF IndInv, RowsNameWallets
  <2>2. \E b \in PastBalances(w) : b < rows[id].req.amount
    BY <1>4 DEF DecisionInv, RefusalsJustified
  <2> QED
    BY <1>3, <2>1, <2>2
<1>5. CASE NoCommit
  <2> SUFFICES ASSUME NEW id \in DOMAIN rows, rows[id].failureCode \in ShortOfMoney,
                      NEW w, w = rows[id].req.wallet
               PROVE  \E b \in PastBalances(w)' : b < rows[id].req.amount
    BY <1>5 DEF NoCommit, RefusalsJustified
  <2> QED
    BY <1>4
<1>6. CASE Records(t) \/ Settles(t)
  <2> DEFINE row == RowToInsert(t)
             n == Len(rows)
  <2>1. rows' = Append(rows, row)
    BY <1>1, <1>6, SettlementFacts DEF Records, InsertRow
  <2>2. /\ n \in Nat /\ DOMAIN rows = 1..n /\ DOMAIN rows' = 1..(n + 1) /\ rows'[n + 1] = row
        /\ \A i \in 1..n : rows'[i] = rows[i]
    BY <1>1, <2>1, AppendFacts
  <2>3. ASSUME row.failureCode \in ShortOfMoney, NEW w, w = row.req.wallet
        PROVE  \E b \in PastBalances(w)' : b < row.req.amount
    <3>1. pc[t] \in {"commit", "commitLoss", "reject", "createAndReject"}
      BY <1>1, <1>6 DEF Records, Settles, InsertSteps, Informed
    <3>2. pc[t] = "createAndReject" /\ code[t] \in ShortOfMoney /\ row.req = req[t]
      BY <1>1, <2>3, <3>1, RowFields DEF Refusing, ShortOfMoney
    <3>3. w \in Wallets /\ \E b \in PastBalances(w) : b < req[t].amount
      BY <1>1, <2>3, <3>2 DEF Refusing
    <3> QED
      BY <1>3, <3>2, <3>3
  <2>4. SUFFICES ASSUME NEW id \in DOMAIN rows', rows'[id].failureCode \in ShortOfMoney,
                        NEW w, w = rows'[id].req.wallet
                 PROVE  \E b \in PastBalances(w)' : b < rows'[id].req.amount
    BY DEF RefusalsJustified
  <2>5. CASE id \in 1..n
    BY <1>4, <2>2, <2>4, <2>5
  <2>6. CASE id = n + 1
    BY <2>2, <2>3, <2>4, <2>6
  <2> QED
    BY <2>2, <2>5, <2>6
<1> QED
  BY <1>5, <1>6 DEF Commits

-----------------------------------------------------------------------------
(***************************************************************************)
(* The invariant, and what it says of answers and refusals.                *)
(***************************************************************************)

\* Nothing is decided initially.
LEMMA InitDecision == Init => DecisionInv
<1> SUFFICES ASSUME Init PROVE DecisionInv
  OBVIOUS
<1>1. IndInv
  BY InitInv
<1>2. rows = <<>> /\ \A t \in Threads : pc[t] = "idle"
  BY DEF Init
<1>3. \A t \in Threads : Informed(t) /\ Refusing(t) /\ Answering(t)
  BY <1>2 DEF Informed, Refusing, Answering, ValidSteps, OwnerSteps, MoneySteps
<1>4. RowsDecided /\ RefusalsJustified
  BY <1>2 DEF RowsDecided, RefusalsJustified
<1>5. EntriesNumbered
  <2> SUFFICES ASSUME NEW w \in Wallets
               PROVE  /\ Len(ledger[w]) \in Openings(w)..(Len(rows) + 1)
                      /\ \A i \in DOMAIN ledger[w] : ledger[w][i].tx \in 0..Len(rows)
    BY DEF EntriesNumbered
  <2>1. Len(rows) = 0
    BY <1>2
  <2>2. CASE OpeningBalance[w] = 0
    <3>1. ledger[w] = <<>> /\ Openings(w) = 0
      BY <2>2 DEF Init, Openings
    <3> QED
      BY <2>1, <3>1
  <2>3. CASE OpeningBalance[w] # 0
    <3> DEFINE e == Entry(OpeningTx, "CREDIT", OpeningBalance[w], 0, OpeningBalance[w])
    <3>1. ledger[w] = <<e>> /\ Openings(w) = 1
      BY <2>3 DEF Init, Openings
    <3>2. e.tx = 0
      BY DEF Entry, OpeningTx
    <3> HIDE DEF e
    <3>3. Len(ledger[w]) = 1 /\ DOMAIN ledger[w] = {1} /\ ledger[w][1] = e
      BY <3>1
    <3> QED
      BY <2>1, <3>1, <3>2, <3>3
  <2> QED
    BY <2>2, <2>3
<1> QED
  BY <1>1, <1>3, <1>4, <1>5 DEF DecisionInv

\* A step that changes nothing keeps what is known.
LEMMA StutterDecision ==
  ASSUME DecisionInv, UNCHANGED vars
  PROVE  DecisionInv'
<1>1. IndInv'
  BY StutterInv DEF DecisionInv
<1>2. TablesGrow /\ \A t \in Threads : Same(t)
  BY DEF vars, dbVars, localVars, TablesGrow, Same, DecisionInv, IndInv, TypeOK, TablesTyped
<1>3. \A t \in Threads : Knows(t)'
  BY <1>1, <1>2, OthersKnow DEF IndInv
<1>4. UNCHANGED <<rows, ledger>>
  BY DEF vars, dbVars
<1>5. RowsDecided' /\ EntriesNumbered' /\ RefusalsJustified'
  BY <1>4 DEF DecisionInv, RowsDecided, EntriesNumbered, RefusalsJustified, PastBalances, BalanceAfter, Openings
<1> QED
  BY <1>1, <1>3, <1>5 DEF DecisionInv, Knows

\* Every step keeps what is known and what is recorded.
LEMMA NextDecision == DecisionInv /\ [Next]_vars => DecisionInv'
<1> SUFFICES ASSUME DecisionInv, [Next]_vars PROVE DecisionInv'
  OBVIOUS
<1>1. IndInv /\ IndInv'
  BY NextInv DEF DecisionInv
<1>2. CASE UNCHANGED vars \/ Quiescent
  BY <1>2, StutterDecision DEF Quiescent
<1>3. ASSUME NEW t \in Threads, ActsFor(t) PROVE DecisionInv'
  <2>1. Commits(t) /\ TablesGrow /\ OthersSame(t)
    BY <1>1, <1>3, CommitForms, CommitsGrow, OneHandlerMoves
  <2>2. ASSUME NEW u \in Threads \ {t} PROVE Knows(u)'
    BY <1>1, <2>1, OthersKnow DEF IndInv, OthersSame
  <2>3. Knows(t)'
    <3>1. ASSUME NEW r \in Requests, Receive(t, r) PROVE Knows(t)'
      <4>1. pc'[t] = "checkKey"
        BY <1>1, <3>1 DEF Receive, Goto, IndInv, TypeOK, HandlersTyped
      <4> QED
        BY <4>1, PlainStepKnows
    <3>2. CASE Step(t)
      BY <3>2, ReplaysKnow, CheckExternalIdKnows, FindReferenceKnows, CheckReversalKnows, WalletCallsKnow,
         BalanceReadsKnow, CommitWithLedgerKnows, RecordsKnow, ReportsKnow DEF Step
    <3>3. CASE FaultStep(t)
      BY <3>3, CheckReversalKnows, WalletCallsKnow, BalanceReadsKnow, ReportsKnow, FaultsKnow DEF FaultStep
    <3> QED
      BY <1>3, <3>1, <3>2, <3>3 DEF ActsFor
  <2>4. RowsDecided' /\ EntriesNumbered' /\ RefusalsJustified'
    BY <1>1, <2>1, RowsDecidedStep, EntriesStep, RefusalsStep DEF IndInv
  <2> QED
    BY <1>1, <2>2, <2>3, <2>4 DEF DecisionInv, Knows
<1> QED
  BY <1>2, <1>3 DEF Next, ActsFor

\* DecisionInv holds in every reachable state: however many handlers interleave,
\* fail and crash, nothing a handler checked has become untrue at its commit.
THEOREM DecisionInvariance == Spec => []DecisionInv
  BY InitDecision, NextDecision, PTL DEF Spec

\* An answer without error is about a committed row of the request's key, with
\* its status and the balance its ledger entry left, on every path of
\* ProcessTransaction: first answers, replays and lost races.
THEOREM AnswersTrue == Spec => []AnswersAreCommitted
<1>1. DecisionInv => AnswersAreCommitted
  BY DEF DecisionInv, Answering, AnswersAreCommitted
<1> QED
  BY <1>1, DecisionInvariance, PTL

\* A recorded lack of money was one of a committed balance.
THEOREM RefusalsTrue == Spec => []RefusalsJustified
<1>1. DecisionInv => RefusalsJustified
  BY DEF DecisionInv
<1> QED
  BY <1>1, DecisionInvariance, PTL

-----------------------------------------------------------------------------
(***************************************************************************)
(* What commits do to the tables, seen without the handlers.               *)
(***************************************************************************)

\* Every step commits nothing, or the row of one handler, with or without
\* money.
LEMMA StepCommits ==
  ASSUME IndInv, [Next]_vars
  PROVE  NoCommit \/ \E t \in Threads : Records(t) \/ Settles(t)
<1>1. CASE UNCHANGED vars \/ Quiescent
  BY <1>1 DEF Quiescent, vars, dbVars, NoCommit
<1>2. ASSUME NEW t \in Threads, ActsFor(t) PROVE NoCommit \/ Records(t) \/ Settles(t)
  BY <1>2, CommitForms DEF Commits
<1> QED
  BY <1>1, <1>2 DEF Next, ActsFor

\* The committed row is the last one; it has the fields its handler gave it.
LEMMA NewRow ==
  ASSUME DecisionInv, NEW t \in Threads, Records(t) \/ Settles(t)
  PROVE  /\ Len(rows) \in Nat /\ DOMAIN rows = 1..Len(rows)
         /\ DOMAIN rows' = 1..(Len(rows) + 1) /\ NewId = Len(rows) + 1
         /\ \A i \in DOMAIN rows : rows'[i] = rows[i]
         /\ rows'[NewId] = RowToInsert(t)
         /\ RowToInsert(t).req = req[t]
         /\ ~UniqueViolation(RowToInsert(t))
         /\ req[t] \in Requests
         /\ Settles(t) => RowToInsert(t).status = "PROCESSED" /\ req[t].kind # "LOSS"
         /\ Records(t) => IF pc[t] = "commitLoss"
                          THEN RowToInsert(t).status = "PROCESSED" /\ req[t].kind = "LOSS"
                          ELSE RowToInsert(t).status = "REJECTED"
<1>1. rows \in Seq(RowType) /\ IndInv /\ Informed(t)
  BY DEF DecisionInv, IndInv, TypeOK, TablesTyped
<1>2. rows' = Append(rows, RowToInsert(t))
  BY <1>1, SettlementFacts DEF Records, InsertRow
<1>3. /\ Len(rows) \in Nat /\ DOMAIN rows = 1..Len(rows) /\ NewId = Len(rows) + 1
      /\ DOMAIN rows' = 1..(Len(rows) + 1)
      /\ \A i \in DOMAIN rows : rows'[i] = rows[i]
      /\ rows'[NewId] = RowToInsert(t)
  BY <1>1, <1>2, AppendFacts DEF NewId
<1>4. ~UniqueViolation(RowToInsert(t))
  BY DEF Records, Settles, CanInsert
<1>5. pc[t] \in InsertSteps /\ req[t] \in Requests
  BY <1>1 DEF Records, Settles, InsertSteps, IndInv, HandlerOK
<1>6. Settles(t) => RowToInsert(t).status = "PROCESSED" /\ req[t].kind # "LOSS"
  BY <1>1, RowFields DEF Settles, Informed, MoneySteps, OwnerSteps
<1>7. Records(t) => IF pc[t] = "commitLoss"
                    THEN RowToInsert(t).status = "PROCESSED" /\ req[t].kind = "LOSS"
                    ELSE RowToInsert(t).status = "REJECTED"
  BY <1>1, RowFields DEF Records, InsertSteps, Informed
<1> QED
  BY <1>3, <1>4, <1>5, <1>6, <1>7, RowFields

\* A transaction is reversed at most once, by a reversal of its amount and its
\* wallet: the index wager_transactions_one_successful_reversal_uq closes the
\* window between HasSuccessfulReversal and the commit, also when that check
\* failed and its error was ignored.
THEOREM ReversalsOnce == Spec => []ReversedAtMostOnce
<1> DEFINE Reversal(row) == row.req.kind \in ReversalKinds /\ row.status = "PROCESSED"
<1>1. Init => ReversedAtMostOnce
  <2>1. Init => rows = <<>>
    BY DEF Init
  <2>2. rows = <<>> => ReversedAtMostOnce
    BY DEF ReversedAtMostOnce
  <2> QED
    BY <2>1, <2>2
<1>2. ASSUME DecisionInv, ReversedAtMostOnce, [Next]_vars PROVE ReversedAtMostOnce'
  <2>1. CASE rows' = rows
    BY <1>2, <2>1 DEF ReversedAtMostOnce
  <2>2. ASSUME NEW t \in Threads, Records(t) \/ Settles(t) PROVE ReversedAtMostOnce'
    <3> DEFINE n == Len(rows)
               row == RowToInsert(t)
    <3>1. /\ n \in Nat /\ DOMAIN rows = 1..n /\ DOMAIN rows' = 1..(n + 1)
          /\ \A i \in 1..n : rows'[i] = rows[i]
          /\ rows'[n + 1] = row /\ row.req = req[t] /\ ~UniqueViolation(row)
      BY <1>2, <2>2, NewRow
    <3>2. Reversal(row) => Settles(t)
      BY <1>2, <2>2, NewRow DEF ReversalKinds
    <3>3. Reversal(row) =>
            /\ row.internalRef = ref[t] /\ ref[t] \in 1..n
            /\ rows[ref[t]].status = "PROCESSED"
            /\ rows[ref[t]].req.wallet = req[t].wallet
            /\ rows[ref[t]].req.amount = req[t].amount
      <4> SUFFICES ASSUME Reversal(row)
                   PROVE  /\ row.internalRef = ref[t] /\ ref[t] \in 1..n
                          /\ rows[ref[t]].status = "PROCESSED"
                          /\ rows[ref[t]].req.wallet = req[t].wallet
                          /\ rows[ref[t]].req.amount = req[t].amount
        OBVIOUS
      <4>1. pc[t] = "commit" /\ req[t].kind \in ReversalKinds
        BY <3>1, <3>2 DEF Settles
      <4>2. row.internalRef = ref[t]
        BY <4>1, RowFields
      <4>3. Reverses(req[t], ref[t]) /\ rows[ref[t]].req.amount = req[t].amount
        BY <1>2, <4>1 DEF DecisionInv, Informed, MoneySteps, OwnerSteps
      <4> QED
        BY <3>1, <4>2, <4>3 DEF Reverses, Ledger!Names
    <3>4. Reversal(row) => ~HasSuccessfulReversal(ref[t])
      BY <3>1, <3>3 DEF UniqueViolation, NoRow
    <3>5. Reversal(row) => \A j \in 1..n : ~(Reversal(rows[j]) /\ rows[j].internalRef = ref[t])
      BY <3>1, <3>4 DEF HasSuccessfulReversal
    <3> HIDE DEF n, row
    <3> SUFFICES ASSUME NEW i \in 1..(n + 1), Reversal(rows'[i])
                 PROVE  /\ rows'[i].internalRef \in 1..(i - 1)
                        /\ rows'[rows'[i].internalRef].status = "PROCESSED"
                        /\ rows'[rows'[i].internalRef].req.wallet = rows'[i].req.wallet
                        /\ rows'[rows'[i].internalRef].req.amount = rows'[i].req.amount
                        /\ \A j \in 1..(n + 1) :
                             Reversal(rows'[j]) /\ rows'[j].internalRef = rows'[i].internalRef => j = i
      BY <3>1 DEF ReversedAtMostOnce
    <3>6. CASE i = n + 1
      BY <3>1, <3>3, <3>5, <3>6
    <3>7. CASE i \in 1..n
      <4> DEFINE p == rows[i].internalRef
      <4>1. rows'[i] = rows[i] /\ Reversal(rows[i])
        BY <3>1, <3>7
      <4>2. /\ p \in 1..(i - 1) /\ rows[p].status = "PROCESSED"
            /\ rows[p].req.wallet = rows[i].req.wallet /\ rows[p].req.amount = rows[i].req.amount
            /\ \A j \in 1..n : Reversal(rows[j]) /\ rows[j].internalRef = p => j = i
        BY <1>2, <3>1, <3>7, <4>1 DEF ReversedAtMostOnce
      <4>3. p \in 1..n /\ rows'[p] = rows[p]
        BY <3>1, <3>7, <4>2
      <4>4. ~(Reversal(row) /\ row.internalRef = p)
        BY <3>3, <3>5, <3>7, <4>1
      <4> HIDE DEF p
      <4> QED
        BY <3>1, <3>7, <4>1, <4>2, <4>3, <4>4 DEF p
    <3> QED
      BY <3>1, <3>6, <3>7
  <2> QED
    BY <1>2, <2>1, <2>2, StepCommits DEF NoCommit, DecisionInv
<1> QED
  BY <1>1, <1>2, DecisionInvariance, PTL DEF Spec

\* An inbox message is complete exactly when its transaction was processed: the
\* mark is written in the transaction that commits the row, and by no other.
THEOREM InboxTrue == Spec => []InboxTellsProcessed
<1>1. Init => InboxTellsProcessed
  <2>1. Init => rows = <<>> /\ inbox = {}
    BY DEF Init
  <2>2. rows = <<>> /\ inbox = {} => InboxTellsProcessed
    BY DEF InboxTellsProcessed
  <2> QED
    BY <2>1, <2>2
<1>2. ASSUME DecisionInv, InboxTellsProcessed, [Next]_vars PROVE InboxTellsProcessed'
  <2>1. CASE NoCommit
    BY <1>2, <2>1 DEF NoCommit, InboxTellsProcessed
  <2>2. ASSUME NEW t \in Threads, Records(t) \/ Settles(t) PROVE InboxTellsProcessed'
    <3> DEFINE n == Len(rows)
               row == RowToInsert(t)
    <3>1. /\ n \in Nat /\ DOMAIN rows = 1..n /\ DOMAIN rows' = 1..(n + 1)
          /\ \A i \in 1..n : rows'[i] = rows[i]
          /\ rows'[n + 1] = row /\ row.req = req[t]
      BY <1>2, <2>2, NewRow
    <3>2. IF row.status = "PROCESSED" THEN inbox' = inbox \cup ({req[t].message} \ {NoMessage})
                                      ELSE inbox' = inbox
      BY <1>2, <2>2, NewRow DEF Records, Settles, CompleteInbox
    <3> HIDE DEF n, row
    <3> SUFFICES ASSUME NEW m \in {r.message : r \in Requests} \ {NoMessage}
                 PROVE  m \in inbox' <=> \E id \in 1..(n + 1) : rows'[id].req.message = m /\ rows'[id].status = "PROCESSED"
      BY <3>1 DEF InboxTellsProcessed
    <3>3. m \in inbox <=> \E id \in 1..n : rows[id].req.message = m /\ rows[id].status = "PROCESSED"
      BY <1>2, <3>1 DEF InboxTellsProcessed
    <3>4. m \in inbox' <=> m \in inbox \/ (row.req.message = m /\ row.status = "PROCESSED")
      BY <3>1, <3>2
    <3>5. (\E id \in 1..(n + 1) : rows'[id].req.message = m /\ rows'[id].status = "PROCESSED")
          <=> \/ \E id \in 1..n : rows[id].req.message = m /\ rows[id].status = "PROCESSED"
              \/ row.req.message = m /\ row.status = "PROCESSED"
      BY <3>1
    <3> QED
      BY <3>3, <3>4, <3>5
  <2> QED
    BY <1>2, <2>1, <2>2, StepCommits DEF DecisionInv
<1> QED
  BY <1>1, <1>2, DecisionInvariance, PTL DEF Spec

\* Every processed transaction has exactly one ledger entry, in its wallet and
\* of its amount, and no other row has any.
THEOREM SettledOnce == Spec => []SettledExactlyOnce
<1> DEFINE Paid(row) == row.status = "PROCESSED" /\ row.req.kind # "LOSS"
<1>1. Init => SettledExactlyOnce
  <2>1. Init => rows = <<>>
    BY DEF Init
  <2>2. rows = <<>> => SettledExactlyOnce
    BY DEF SettledExactlyOnce
  <2> QED
    BY <2>1, <2>2
<1>2. ASSUME DecisionInv, SettledExactlyOnce, [Next]_vars PROVE SettledExactlyOnce'
  <2>1. CASE NoCommit
    BY <1>2, <2>1 DEF NoCommit, SettledExactlyOnce, EntriesOf
  <2>2. ASSUME NEW t \in Threads, Records(t) \/ Settles(t) PROVE SettledExactlyOnce'
    <3> DEFINE row == RowToInsert(t)
    <3>0. PICK n, w0 : n = Len(rows) /\ w0 = req[t].wallet
      OBVIOUS
    <3>1. /\ n \in Nat /\ DOMAIN rows = 1..n /\ DOMAIN rows' = 1..(n + 1) /\ NewId = n + 1
          /\ \A i \in 1..n : rows'[i] = rows[i]
          /\ rows'[n + 1] = row /\ row.req = req[t]
          /\ Paid(row) <=> Settles(t)
      BY <1>2, <2>2, <3>0, NewRow DEF Records, Settles
    <3>2. IndInv /\ rows \in Seq(RowType) /\ ledger \in [Wallets -> Seq(EntryType)]
      BY <1>2 DEF DecisionInv, IndInv, TypeOK, TablesTyped
    <3>3. \A w \in Wallets : /\ Len(ledger[w]) \in Nat /\ DOMAIN ledger[w] = 1..Len(ledger[w])
                             /\ Len(ledger[w]) <= n + 1
                             /\ \A i \in DOMAIN ledger[w] : ledger[w][i].tx \in 0..n
      BY <1>2, <3>0, <3>2 DEF DecisionInv, EntriesNumbered, Openings
    <3>4. Len(rows') = n + 1
      BY <2>2, <3>0, <3>2, SettlementFacts, AppendFacts DEF Records, InsertRow
    <3>5. CASE Settles(t)
      <4>1. PICK e \in EntryType : e.tx = n + 1 /\ e.amount = req[t].amount /\ ledger'[w0] = Append(ledger[w0], e)
        BY <3>0, <3>1, <3>2, <3>5, SettlementFacts
      <4>k. PICK k : k = Len(ledger[w0]) + 1
        OBVIOUS
      <4> DEFINE new == <<w0, k>>
      <4>2. w0 \in Wallets /\ \A w \in Wallets \ {w0} : ledger'[w] = ledger[w]
        BY <3>0, <3>2, <3>5, SettlementFacts
      <4>3. /\ DOMAIN ledger'[w0] = 1..k /\ ledger'[w0][k] = e /\ k \in Nat /\ k \in 1..(n + 2)
            /\ \A i \in 1..(k - 1) : ledger'[w0][i] = ledger[w0][i]
            /\ DOMAIN ledger[w0] = 1..(k - 1) /\ k - 1 <= n + 1
        BY <3>1, <3>2, <3>3, <4>1, <4>2, <4>k, AppendFacts
      <4>4. ASSUME NEW id \in 1..n
            PROVE  /\ EntriesOf(id)' = EntriesOf(id)
                   /\ \A p \in EntriesOf(id) : ledger'[p[1]][p[2]] = ledger[p[1]][p[2]]
        <5>1. ASSUME NEW w \in Wallets, NEW i
              PROVE  /\ i \in DOMAIN ledger[w] /\ ledger[w][i].tx = id
                          => i \in DOMAIN ledger'[w] /\ ledger'[w][i] = ledger[w][i] /\ i \in 1..(n + 1)
                     /\ i \in DOMAIN ledger'[w] /\ ledger'[w][i].tx = id
                          => i \in DOMAIN ledger[w] /\ ledger[w][i] = ledger'[w][i] /\ i \in 1..(n + 1)
          <6>1. CASE w # w0
            BY <3>1, <3>3, <4>2, <6>1
          <6>2. CASE w = w0
            BY <3>1, <3>3, <4>1, <4>2, <4>3, <6>2
          <6> QED
            BY <6>1, <6>2
        <5>2. 1..Len(rows) + 1 \subseteq 1..Len(rows') + 1
          BY <3>0, <3>1, <3>4
        <5>3. /\ EntriesOf(id)' = {p \in Wallets \X (1..Len(rows') + 1) :
                                     p[2] \in DOMAIN ledger'[p[1]] /\ ledger'[p[1]][p[2]].tx = id}
              /\ EntriesOf(id) = {p \in Wallets \X (1..Len(rows) + 1) :
                                    p[2] \in DOMAIN ledger[p[1]] /\ ledger[p[1]][p[2]].tx = id}
          BY DEF EntriesOf
        <5> QED
          BY <3>0, <5>1, <5>2, <5>3
      <4>5. EntriesOf(n + 1)' = {new}
        <5>1. ASSUME NEW w \in Wallets, NEW i \in DOMAIN ledger'[w], ledger'[w][i].tx = n + 1
              PROVE  w = w0 /\ i = k
          <6>1. CASE w # w0
            BY <3>1, <3>3, <4>2, <5>1, <6>1
          <6>2. CASE w = w0
            <7>1. \A j \in 1..(k - 1) : ledger'[w0][j].tx \in 0..n
              BY <3>3, <4>2, <4>3
            <7>2. i \in 1..k /\ i \notin 1..(k - 1)
              BY <3>1, <4>3, <5>1, <6>2, <7>1
            <7> QED
              BY <4>3, <6>2, <7>2
          <6> QED
            BY <6>1, <6>2
        <5>2. new \in Wallets \X (1..Len(rows') + 1)
          BY <3>1, <3>4, <4>2, <4>3
        <5>3. EntriesOf(n + 1)' = {p \in Wallets \X (1..Len(rows') + 1) :
                                     p[2] \in DOMAIN ledger'[p[1]] /\ ledger'[p[1]][p[2]].tx = n + 1}
          BY <3>1 DEF EntriesOf
        <5>4. new[1] = w0 /\ new[2] = k /\ k \in DOMAIN ledger'[w0] /\ ledger'[w0][k].tx = n + 1
          BY <4>1, <4>3
        <5>5. new \in EntriesOf(n + 1)'
          BY <5>2, <5>3, <5>4
        <5>6. ASSUME NEW p \in EntriesOf(n + 1)' PROVE p = new
          <6>1. p \in Wallets \X (1..Len(rows') + 1) /\ p[2] \in DOMAIN ledger'[p[1]] /\ ledger'[p[1]][p[2]].tx = n + 1
            BY <5>3
          <6>2. p = <<p[1], p[2]>> /\ p[1] \in Wallets
            BY <6>1
          <6>3. p[1] = w0 /\ p[2] = k
            BY <5>1, <6>1, <6>2
          <6> QED
            BY <6>2, <6>3
        <5> QED
          BY <5>5, <5>6
      <4>6. Cardinality({new}) = 1
        BY FS_Singleton
      <4>7. ledger'[new[1]][new[2]].amount = rows'[n + 1].req.amount /\ new[1] = rows'[n + 1].req.wallet
        BY <3>0, <3>1, <4>1, <4>3
      <4>8. SUFFICES ASSUME NEW id \in 1..(n + 1)
                     PROVE  IF Paid(rows'[id])
                            THEN /\ Cardinality(EntriesOf(id)') = 1
                                 /\ \A p \in EntriesOf(id)' : /\ p[1] = rows'[id].req.wallet
                                                              /\ ledger'[p[1]][p[2]].amount = rows'[id].req.amount
                            ELSE EntriesOf(id)' = {}
        BY <3>1 DEF SettledExactlyOnce
      <4>9. CASE id \in 1..n
        <5>1. IF Paid(rows[id])
              THEN /\ Cardinality(EntriesOf(id)) = 1
                   /\ \A p \in EntriesOf(id) : /\ p[1] = rows[id].req.wallet
                                               /\ ledger[p[1]][p[2]].amount = rows[id].req.amount
              ELSE EntriesOf(id) = {}
          BY <1>2, <3>1, <4>9 DEF SettledExactlyOnce
        <5>2. rows'[id] = rows[id]
          BY <3>1, <4>9
        <5> QED
          BY <4>4, <4>9, <5>1, <5>2
      <4>10. CASE id = n + 1
        <5>1. Paid(rows'[id])
          BY <3>1, <3>5, <4>10
        <5> HIDE DEF new
        <5> QED
          BY <4>5, <4>6, <4>7, <4>10, <5>1
      <4> QED
        BY <3>1, <4>9, <4>10
    <3>6. CASE Records(t)
      <4>1. ledger' = ledger /\ ~Paid(row)
        BY <3>1, <3>6 DEF Records, InsertRow, Settles
      <4>2. ASSUME NEW id \in 1..n PROVE EntriesOf(id)' = EntriesOf(id)
        <5>1. /\ EntriesOf(id)' = {p \in Wallets \X (1..Len(rows') + 1) :
                                     p[2] \in DOMAIN ledger'[p[1]] /\ ledger'[p[1]][p[2]].tx = id}
              /\ EntriesOf(id) = {p \in Wallets \X (1..Len(rows) + 1) :
                                    p[2] \in DOMAIN ledger[p[1]] /\ ledger[p[1]][p[2]].tx = id}
          BY DEF EntriesOf
        <5> QED
          BY <3>0, <3>1, <3>3, <3>4, <4>1, <5>1
      <4>3. EntriesOf(n + 1)' = {}
        <5>1. \A w \in Wallets : \A i \in DOMAIN ledger'[w] : ledger'[w][i].tx # n + 1
          BY <3>1, <3>3, <4>1
        <5>2. EntriesOf(n + 1)' = {p \in Wallets \X (1..Len(rows') + 1) :
                                     p[2] \in DOMAIN ledger'[p[1]] /\ ledger'[p[1]][p[2]].tx = n + 1}
          BY <3>1 DEF EntriesOf
        <5> QED
          BY <5>1, <5>2
      <4> QED
        BY <1>2, <3>1, <4>1, <4>2, <4>3 DEF SettledExactlyOnce
    <3> QED
      BY <2>2, <3>5, <3>6
  <2> QED
    BY <1>2, <2>1, <2>2, StepCommits DEF DecisionInv
<1> QED
  BY <1>1, <1>2, DecisionInvariance, PTL DEF Spec

\* what EventsMirrorLedger says of one wallet
Mirror(w, ver, entries, events, evs) ==
  /\ ver = Len(entries) - Openings(w) + 1
  /\ \A v \in 2..ver : \E i \in evs : events[i].version = v
  /\ \A i \in evs : /\ events[i].version \in 2..ver
                    /\ events[i].tx = entries[events[i].version - 1 + Openings(w)].tx
                    /\ events[i].after = entries[events[i].version - 1 + Openings(w)].after
  /\ \A i, j \in evs : i < j => events[i].version < events[j].version

\* no wallet goes back before its first version
Versioned == \A w \in Wallets : version[w] >= 1

\* The property, wallet by wallet, before and after a step.
LEMMA MirrorIs ==
  /\ EventsMirrorLedger <=> \A w \in Wallets : Mirror(w, version[w], ledger[w], outbox, BalanceEvents(w))
  /\ EventsMirrorLedger' <=> \A w \in Wallets : Mirror(w, version'[w], ledger'[w], outbox', BalanceEvents(w)')
<1>1. \A w : Openings(w)' = Openings(w)
  BY DEF Openings
<1> QED
  BY <1>1 DEF EventsMirrorLedger, Mirror

\* A fresh wallet: at most the entry of its creation, and no event.
LEMMA MirrorInit == Init => EventsMirrorLedger
<1> SUFFICES ASSUME Init, NEW w \in Wallets PROVE Mirror(w, version[w], ledger[w], outbox, BalanceEvents(w))
  BY MirrorIs
<1>1. version[w] = 1 /\ BalanceEvents(w) = {}
  <2>1. outbox = <<>> /\ version[w] = 1
    BY DEF Init
  <2> QED
    BY <2>1 DEF BalanceEvents
<1>2. Len(ledger[w]) = Openings(w) /\ Openings(w) \in Nat
  <2>1. CASE OpeningBalance[w] = 0
    BY <2>1 DEF Init, Openings
  <2>2. CASE OpeningBalance[w] # 0
    <3> DEFINE e == Entry(OpeningTx, "CREDIT", OpeningBalance[w], 0, OpeningBalance[w])
    <3>1. ledger[w] = <<e>>
      BY <2>2 DEF Init
    <3> HIDE DEF e
    <3> QED
      BY <2>2, <3>1 DEF Openings
  <2> QED
    BY <2>1, <2>2
<1> QED
  BY <1>1, <1>2 DEF Mirror

\* A step that moves no money appends at most an event of another type.
LEMMA MirrorQuiet ==
  ASSUME outbox \in Seq(EventType), EventsMirrorLedger, version' = version, ledger' = ledger,
         \/ outbox' = outbox
         \/ \E ev : ev.type # "WalletBalanceChanged" /\ outbox' = Append(outbox, ev)
  PROVE  EventsMirrorLedger'
<1>1. ASSUME NEW w \in Wallets
      PROVE  /\ BalanceEvents(w)' = BalanceEvents(w)
             /\ \A i \in BalanceEvents(w) : outbox'[i] = outbox[i]
  <2>1. CASE outbox' = outbox
    BY <2>1 DEF BalanceEvents
  <2>2. ASSUME NEW ev, ev.type # "WalletBalanceChanged", outbox' = Append(outbox, ev)
        PROVE  /\ BalanceEvents(w)' = BalanceEvents(w)
               /\ \A i \in BalanceEvents(w) : outbox'[i] = outbox[i]
    <3>1. /\ Len(outbox) \in Nat /\ DOMAIN outbox = 1..Len(outbox) /\ DOMAIN outbox' = 1..(Len(outbox) + 1)
          /\ \A i \in 1..Len(outbox) : outbox'[i] = outbox[i]
          /\ outbox'[Len(outbox) + 1] = ev
      BY <2>2, AppendFacts
    <3>2. ev.type # "WalletBalanceChanged"
      BY <2>2
    <3> HIDE <2>2
    <3> QED
      BY <3>1, <3>2 DEF BalanceEvents
  <2> QED
    BY <2>1, <2>2
<1>2. ASSUME NEW w \in Wallets PROVE Mirror(w, version'[w], ledger'[w], outbox', BalanceEvents(w)')
  <2>1. Mirror(w, version[w], ledger[w], outbox, BalanceEvents(w))
    BY MirrorIs
  <2>2. /\ BalanceEvents(w)' = BalanceEvents(w)
        /\ \A i \in BalanceEvents(w) : outbox'[i] = outbox[i]
    BY <1>1
  <2> QED
    BY <2>1, <2>2 DEF Mirror
<1> QED
  BY <1>2, MirrorIs

\* entry e moves the balance of wallet w, and makes its next version
EntryMade(w, e) ==
  /\ ledger'[w] = Append(ledger[w], e)
  /\ \A v \in Wallets \ {w} : ledger'[v] = ledger[v]
  /\ version' = [version EXCEPT ![w] = version[w] + 1]
  /\ balance' = [balance EXCEPT ![w] = e.after]
  /\ e.before = balance[w]
  /\ e.after = IF e.dir = "DEBIT" THEN e.before - e.amount ELSE e.before + e.amount

\* money moves in wallet w: entry e, and the two events of its transaction
MovesMoney(w, e, ev1, ev2) ==
  /\ EntryMade(w, e)
  /\ outbox' = outbox \o <<ev1, ev2>>
  /\ ev1.type # "WalletBalanceChanged"
  /\ ev2.type = "WalletBalanceChanged" /\ ev2.wallet = w
  /\ ev2.tx = e.tx /\ ev2.after = e.after /\ ev2.version = version[w] + 1

\* Money that moves in one wallet takes one version, one entry and one event.
LEMMA MirrorMove ==
  ASSUME TablesTyped /\ EventsMirrorLedger /\ Versioned, NEW w0 \in Wallets,
         NEW e \in EntryType, NEW ev1, NEW ev2, MovesMoney(w0, e, ev1, ev2)
  PROVE  EventsMirrorLedger' /\ Versioned'
<1> DEFINE m == Len(outbox)
<1>1. version[w0] \in Nat /\ version[w0] >= 1 /\ ledger \in [Wallets -> Seq(EntryType)]
      /\ version \in [Wallets -> Nat] /\ outbox \in Seq(EventType) /\ e \in EntryType
  BY DEF TablesTyped, Versioned
<1>2. /\ m \in Nat /\ DOMAIN outbox = 1..m /\ DOMAIN outbox' = 1..(m + 2)
      /\ \A i \in 1..m : outbox'[i] = outbox[i]
      /\ outbox'[m + 1] = ev1 /\ outbox'[m + 2] = ev2
  BY <1>1 DEF MovesMoney
<1>3. \A w \in Wallets \ {w0} : ledger'[w] = ledger[w] /\ version'[w] = version[w]
  BY <1>1 DEF MovesMoney, EntryMade
<1> HIDE DEF m
<1>4. ASSUME NEW w \in Wallets \ {w0} PROVE Mirror(w, version'[w], ledger'[w], outbox', BalanceEvents(w)')
  <2>1. /\ BalanceEvents(w)' = BalanceEvents(w)
        /\ \A i \in BalanceEvents(w) : outbox'[i] = outbox[i]
    <3>1. ev1.type # "WalletBalanceChanged" /\ ev2.wallet # w
      BY DEF MovesMoney
    <3> QED
      BY <1>2, <3>1 DEF BalanceEvents
  <2>2. Mirror(w, version[w], ledger[w], outbox, BalanceEvents(w))
    BY MirrorIs
  <2> QED
    BY <1>3, <2>1, <2>2 DEF Mirror
<1>5. Mirror(w0, version'[w0], ledger'[w0], outbox', BalanceEvents(w0)')
  <2> DEFINE k == Len(ledger[w0])
             o == Openings(w0)
  <2>1. Mirror(w0, version[w0], ledger[w0], outbox, BalanceEvents(w0))
    BY MirrorIs
  <2>2. o \in Nat
    BY DEF Openings
  <2>3. /\ k \in Nat /\ Len(ledger'[w0]) = k + 1 /\ ledger'[w0][k + 1] = e
        /\ \A i \in 1..k : ledger'[w0][i] = ledger[w0][i]
    BY <1>1, AppendFacts DEF MovesMoney, EntryMade
  <2>4. version'[w0] = version[w0] + 1 /\ version[w0] = k - o + 1
    BY <1>1, <2>1 DEF MovesMoney, EntryMade, Mirror
  <2>5. /\ BalanceEvents(w0)' = BalanceEvents(w0) \cup {m + 2}
        /\ \A i \in BalanceEvents(w0) : outbox'[i] = outbox[i] /\ i \in 1..m
    BY <1>2 DEF BalanceEvents, MovesMoney
  <2>6. outbox'[m + 2].version = version[w0] + 1 /\ outbox'[m + 2].tx = e.tx /\ outbox'[m + 2].after = e.after
    BY <1>2 DEF MovesMoney
  <2> DEFINE B == BalanceEvents(w0)
  <2>7. ASSUME NEW i \in B
        PROVE  /\ outbox'[i].version \in 2..version[w0]
               /\ outbox'[i].tx = ledger'[w0][outbox'[i].version - 1 + o].tx
               /\ outbox'[i].after = ledger'[w0][outbox'[i].version - 1 + o].after
    <3>1. /\ outbox[i].version \in 2..version[w0] /\ outbox'[i] = outbox[i]
          /\ outbox[i].tx = ledger[w0][outbox[i].version - 1 + o].tx
          /\ outbox[i].after = ledger[w0][outbox[i].version - 1 + o].after
      BY <2>1, <2>5 DEF Mirror
    <3>2. outbox[i].version - 1 + o \in 1..k
      <4>1. outbox[i].version \in 2..(k - o + 1)
        BY <2>4, <3>1
      <4> HIDE DEF k, o
      <4> QED
        BY <2>2, <2>3, <4>1
    <3> QED
      BY <2>3, <3>1, <3>2
  <2>8. \A v \in 2..version[w0] : \E i \in B : outbox'[i].version = v
    BY <2>1, <2>5 DEF Mirror
  <2>9. \A i, j \in B : i < j => outbox'[i].version < outbox'[j].version
    BY <2>1, <2>5 DEF Mirror
  <2>10. version[w0] + 1 - 1 + o = k + 1
    BY <1>1, <2>2, <2>3, <2>4
  <2> HIDE DEF B, k, o
  <2>11. BalanceEvents(w0)' = B \cup {m + 2} /\ \A i \in B : i \in 1..m
    BY <2>5 DEF B
  <2>12. \A v \in 2..(version[w0] + 1) : \E i \in B \cup {m + 2} : outbox'[i].version = v
    <3>1. ASSUME NEW v \in 2..(version[w0] + 1) PROVE v \in 2..version[w0] \/ v = version[w0] + 1
      BY <1>1
    <3> QED
      BY <2>6, <2>8, <3>1
  <2>13. \A i \in B \cup {m + 2} : /\ outbox'[i].version \in 2..(version[w0] + 1)
                                   /\ outbox'[i].tx = ledger'[w0][outbox'[i].version - 1 + o].tx
                                   /\ outbox'[i].after = ledger'[w0][outbox'[i].version - 1 + o].after
    <3>1. version[w0] + 1 \in 2..(version[w0] + 1)
      BY <1>1
    <3>2. ASSUME NEW i \in B PROVE outbox'[i].version \in 2..(version[w0] + 1)
      BY <1>1, <2>7
    <3>3. /\ outbox'[m + 2].version \in 2..(version[w0] + 1)
          /\ outbox'[m + 2].tx = ledger'[w0][outbox'[m + 2].version - 1 + o].tx
          /\ outbox'[m + 2].after = ledger'[w0][outbox'[m + 2].version - 1 + o].after
      <4>1. ASSUME NEW v, v = outbox'[m + 2].version
            PROVE  v \in 2..(version[w0] + 1) /\ ledger'[w0][v - 1 + o] = e
        <5>1. v = version[w0] + 1
          BY <2>6, <4>1
        <5> QED
          <6>1. v - 1 + o = k + 1
            BY <1>1, <2>2, <2>10, <5>1
          <6> QED
            BY <2>3, <3>1, <5>1, <6>1
      <4> QED
        BY <2>6, <4>1
    <3>4. ASSUME NEW i \in B
          PROVE  /\ outbox'[i].version \in 2..(version[w0] + 1)
                 /\ outbox'[i].tx = ledger'[w0][outbox'[i].version - 1 + o].tx
                 /\ outbox'[i].after = ledger'[w0][outbox'[i].version - 1 + o].after
      BY <2>7, <3>2
    <3> QED
      BY <3>3, <3>4
  <2>14. \A i, j \in B \cup {m + 2} : i < j => outbox'[i].version < outbox'[j].version
    <3>1. ASSUME NEW i \in B PROVE outbox'[i].version < version[w0] + 1 /\ ~(m + 2 < i)
      BY <1>1, <1>2, <2>7, <2>11
    <3>2. ~(m + 2 < m + 2)
      BY <1>2
    <3> QED
      BY <2>6, <2>9, <3>1, <3>2
  <2>15. version'[w0] = Len(ledger'[w0]) - o + 1
    BY <1>1, <2>2, <2>3, <2>4 DEF k, o
  <2>16. version'[w0] = version[w0] + 1
    BY <2>4
  <2> QED
    BY <2>11, <2>12, <2>13, <2>14, <2>15, <2>16 DEF o, Mirror
<1>6. Versioned'
  BY <1>1 DEF Versioned, MovesMoney, EntryMade
<1> QED
  BY <1>4, <1>5, <1>6, MirrorIs

\* The settlement of a handler moves money: its entry was computed from the
\* balance and the version the wallet still has.
LEMMA SettlesMoney ==
  ASSUME IndInv, NEW t \in Threads, Settles(t)
  PROVE  \E w \in Wallets, e \in EntryType : \E ev1, ev2 : MovesMoney(w, e, ev1, ev2)
<1>1. PICK w : w = req[t].wallet
  OBVIOUS
<1> DEFINE c == change[t]
           amt == req[t].amount
           e == Entry(NewId, c.dir, amt, c.before, c.after)
           ev1 == Event("WagerTransactionProcessed", NewId, w, NoBalance, 0)
           ev2 == Event("WalletBalanceChanged", NewId, w, c.after, c.version)
<1>2. /\ pc[t] = "commit" /\ OwnerOK(t) /\ c \in ChangeType /\ amt \in Balances
      /\ ledger \in [Wallets -> Seq(EntryType)]
  BY DEF Settles, IndInv, TypeOK, TablesTyped, HandlersTyped, HandlerOK, OwnerSteps, ValidSteps
<1>3. /\ w \in Wallets /\ c.version = version[w] + 1 /\ c.before = balance[w] /\ c.dir \in Directions
      /\ c.after = (IF c.dir = "DEBIT" THEN c.before - amt ELSE c.before + amt)
      /\ c.after \in Balances /\ c.before \in Balances
  BY <1>1, <1>2 DEF OwnerOK, ChangeType
<1>4. /\ e \in EntryType /\ e.tx = NewId /\ e.after = c.after /\ e.before = c.before
      /\ e.dir = c.dir /\ e.amount = amt
  <2>1. NewId \in Nat
    BY DEF IndInv, TypeOK, TablesTyped, NewId
  <2> QED
    BY <1>2, <1>3, <2>1 DEF Entry, EntryType
<1>5. /\ balance' = [balance EXCEPT ![w] = c.after]
      /\ version' = [version EXCEPT ![w] = c.version]
      /\ ledger' = [ledger EXCEPT ![w] = Append(@, e)]
      /\ outbox' = outbox \o <<ev1, ev2>>
  BY <1>1 DEF Settles, InsertSettlement, WriteLedgerEntry
<1>6. ev1.type # "WalletBalanceChanged" /\ ev2.type = "WalletBalanceChanged" /\ ev2.wallet = w
      /\ ev2.tx = NewId /\ ev2.after = c.after /\ ev2.version = c.version
  BY DEF Event
<1> HIDE DEF c, amt, e, ev1, ev2
<1>7. ledger'[w] = Append(ledger[w], e) /\ \A v \in Wallets \ {w} : ledger'[v] = ledger[v]
  BY <1>2, <1>3, <1>5
<1>8. EntryMade(w, e)
  BY <1>3, <1>4, <1>5, <1>7 DEF EntryMade
<1>9. MovesMoney(w, e, ev1, ev2)
  BY <1>3, <1>4, <1>5, <1>6, <1>8 DEF MovesMoney
<1> QED
  BY <1>3, <1>4, <1>9

\* The events keep telling the ledgers through every commit of a handler.
LEMMA CommitMirrors ==
  ASSUME IndInv, EventsMirrorLedger, Versioned, NEW t \in Threads, Commits(t)
  PROVE  EventsMirrorLedger' /\ Versioned'
<1>1. TablesTyped /\ outbox \in Seq(EventType) /\ version \in [Wallets -> Nat]
  BY DEF IndInv, TypeOK, TablesTyped
<1>2. CASE NoCommit
  BY <1>1, <1>2, MirrorQuiet DEF NoCommit, Versioned
<1>3. CASE Records(t)
  <2> DEFINE ev == Event(TransactionEvent(RowToInsert(t).status), NewId, RowToInsert(t).req.wallet, NoBalance, 0)
  <2>1. outbox' = Append(outbox, ev) /\ version' = version /\ ledger' = ledger
    BY <1>3 DEF Records, InsertRow
  <2>2. ev.type # "WalletBalanceChanged"
    BY DEF Event, TransactionEvent
  <2> HIDE DEF ev
  <2> QED
    BY <1>1, <2>1, <2>2, MirrorQuiet DEF Versioned
<1>4. CASE Settles(t)
  BY <1>1, <1>4, SettlesMoney, MirrorMove
<1> QED
  BY <1>2, <1>3, <1>4 DEF Commits

\* The WalletBalanceChanged events of a wallet are its ledger, entry by entry
\* and version by version, although the version of an event is computed in
\* memory and never read back.
THEOREM EventsTrue == Spec => []EventsMirrorLedger
<1>1. Init => EventsMirrorLedger /\ Versioned
  <2>1. Init => Versioned
    <3>1. Init => version = [w \in Wallets |-> 1]
      BY DEF Init
    <3> QED
      BY <3>1 DEF Versioned
  <2> QED
    BY <2>1, MirrorInit
<1>2. ASSUME IndInv, EventsMirrorLedger, Versioned, [Next]_vars PROVE EventsMirrorLedger' /\ Versioned'
  <2>1. CASE UNCHANGED vars
    BY <1>2, <2>1, MirrorQuiet DEF vars, dbVars, Versioned, IndInv, TypeOK, TablesTyped
  <2>2. CASE Quiescent
    BY <1>2, <2>2, MirrorQuiet DEF Quiescent, vars, dbVars, Versioned, IndInv, TypeOK, TablesTyped
  <2>3. ASSUME NEW t \in Threads, ActsFor(t) PROVE EventsMirrorLedger' /\ Versioned'
    BY <1>2, <2>3, CommitForms, CommitMirrors
  <2> QED
    BY <1>2, <2>1, <2>2, <2>3 DEF Next, ActsFor
<1> QED
  BY <1>1, <1>2, Invariance, PTL DEF Spec

-----------------------------------------------------------------------------
(***************************************************************************)
(* WagerService implements WagerLedger: every commit of ProcessTransaction *)
(* is one decision about one order, and every other step of the handlers,  *)
(* their locks, retries, faults and crashes is invisible in the ledger.    *)
(***************************************************************************)


\* the tables seen as the state of WagerLedger, as the INSTANCE has them
Settled == RequestsOf(RowsWith("PROCESSED"))
Refused == RequestsOf(RowsWith("REJECTED"))
Undone  == RequestsOf({rows[id].internalRef :
                         id \in {i \in RowsWith("PROCESSED") : rows[i].req.kind \in ReversalKinds}})

\* what the refinement knows in every state
RefinementInv == DecisionInv /\ OneRowPerKey /\ ReversedAtMostOnce

\* The set views, element by element.
LEMMA ViewElements ==
  /\ \A r : r \in Settled <=> \E id \in DOMAIN rows : rows[id].status = "PROCESSED" /\ r = rows[id].req
  /\ \A r : r \in Refused <=> \E id \in DOMAIN rows : rows[id].status = "REJECTED" /\ r = rows[id].req
  /\ \A r : r \in Undone <=> \E id \in DOMAIN rows : /\ rows[id].status = "PROCESSED"
                                                     /\ rows[id].req.kind \in ReversalKinds
                                                     /\ r = rows[rows[id].internalRef].req
  BY DEF Settled, Refused, Undone, RequestsOf, RowsWith

\* The same for the state after a step.
LEMMA ViewElementsNext ==
  /\ \A r : r \in Settled' <=> \E id \in DOMAIN rows' : rows'[id].status = "PROCESSED" /\ r = rows'[id].req
  /\ \A r : r \in Refused' <=> \E id \in DOMAIN rows' : rows'[id].status = "REJECTED" /\ r = rows'[id].req
  /\ \A r : r \in Undone' <=> \E id \in DOMAIN rows' : /\ rows'[id].status = "PROCESSED"
                                                       /\ rows'[id].req.kind \in ReversalKinds
                                                       /\ r = rows'[rows'[id].internalRef].req
  BY DEF Settled, Refused, Undone, RequestsOf, RowsWith

\* A committed row joins the settled or the refused orders; a reversal among
\* them undoes the order it refers to.
LEMMA ViewsAfterCommit ==
  ASSUME RefinementInv, NEW t \in Threads, Records(t) \/ Settles(t)
  PROVE  LET row == RowToInsert(t) IN
         /\ Settled' = IF row.status = "PROCESSED" THEN Settled \cup {req[t]} ELSE Settled
         /\ Refused' = IF row.status = "REJECTED" THEN Refused \cup {req[t]} ELSE Refused
         /\ Undone' = IF row.status = "PROCESSED" /\ req[t].kind \in ReversalKinds
                      THEN Undone \cup {rows[ref[t]].req} ELSE Undone
<1> DEFINE row == RowToInsert(t)
           n == Len(rows)
           Reversal(r) == r.status = "PROCESSED" /\ r.req.kind \in ReversalKinds
<1>1. /\ n \in Nat /\ DOMAIN rows = 1..n /\ DOMAIN rows' = 1..(n + 1)
      /\ \A i \in 1..n : rows'[i] = rows[i]
      /\ rows'[n + 1] = row /\ row.req = req[t]
  BY NewRow DEF RefinementInv
<1>2. \A i \in 1..n : Reversal(rows[i]) => rows[i].internalRef \in 1..n
  BY <1>1 DEF RefinementInv, ReversedAtMostOnce
<1>3. Reversal(row) => row.internalRef = ref[t] /\ ref[t] \in 1..n
  <2> SUFFICES ASSUME Reversal(row) PROVE row.internalRef = ref[t] /\ ref[t] \in 1..n
    OBVIOUS
  <2>1. pc[t] = "commit" /\ req[t].kind \in ReversalKinds
    BY <1>1, NewRow DEF RefinementInv, ReversalKinds, Settles
  <2> QED
    BY <1>1, <2>1, RowFields DEF RefinementInv, DecisionInv, Informed, MoneySteps, OwnerSteps, Reverses
<1> HIDE DEF n, row
<1>4. Settled' = IF row.status = "PROCESSED" THEN Settled \cup {req[t]} ELSE Settled
  <2>1. \A r : r \in Settled' <=> r \in Settled \/ (row.status = "PROCESSED" /\ r = req[t])
    BY <1>1, ViewElements, ViewElementsNext
  <2> QED
    BY <2>1
<1>5. Refused' = IF row.status = "REJECTED" THEN Refused \cup {req[t]} ELSE Refused
  <2>1. \A r : r \in Refused' <=> r \in Refused \/ (row.status = "REJECTED" /\ r = req[t])
    BY <1>1, ViewElements, ViewElementsNext
  <2> QED
    BY <2>1
<1>6. Undone' = IF row.status = "PROCESSED" /\ req[t].kind \in ReversalKinds
                THEN Undone \cup {rows[ref[t]].req} ELSE Undone
  <2>1. \A i \in 1..n : Reversal(rows'[i]) <=> Reversal(rows[i])
    BY <1>1
  <2>2. \A i \in 1..n : Reversal(rows[i]) => rows'[rows'[i].internalRef].req = rows[rows[i].internalRef].req
    BY <1>1, <1>2
  <2>3. Reversal(row) => rows'[rows'[n + 1].internalRef].req = rows[ref[t]].req
    BY <1>1, <1>3
  <2>4. \A r : r \in Undone <=> \E id \in 1..n : Reversal(rows[id]) /\ r = rows[rows[id].internalRef].req
    BY <1>1, ViewElements
  <2>5. \A r : r \in Undone' <=> \E id \in 1..(n + 1) : Reversal(rows'[id]) /\ r = rows'[rows'[id].internalRef].req
    BY <1>1, ViewElementsNext
  <2>6. \A r : r \in Undone' <=> r \in Undone \/ (Reversal(row) /\ r = rows[ref[t]].req)
    BY <1>1, <2>1, <2>2, <2>3, <2>4, <2>5
  <2>7. Reversal(row) <=> row.status = "PROCESSED" /\ req[t].kind \in ReversalKinds
    BY <1>1
  <2> QED
    BY <2>6, <2>7
<1> QED
  BY <1>4, <1>5, <1>6 DEF row

\* The unique index on provider and idempotency key: an order a handler may
\* commit is one nobody has decided.
LEMMA CommittedWasUndecided ==
  ASSUME RefinementInv, NEW t \in Threads, Records(t) \/ Settles(t)
  PROVE  \A d \in Settled \cup Refused : ~(d.provider = req[t].provider /\ d.key = req[t].key)
<1>1. RowToInsert(t).req = req[t] /\ ~UniqueViolation(RowToInsert(t))
  BY NewRow DEF RefinementInv
<1>2. \A id \in DOMAIN rows : ~(rows[id].req.provider = req[t].provider /\ rows[id].req.key = req[t].key)
  BY <1>1 DEF UniqueViolation, FindByIdempotencyKey
<1> QED
  BY <1>2, ViewElements

\* What an order that is about to be paid looks like: a positive amount, one of
\* the four kinds that move money, and the balance its change leaves.
LEMMA PaymentFacts ==
  ASSUME RefinementInv, NEW t \in Threads, Settles(t)
  PROVE  /\ req[t].wallet \in Wallets
         /\ req[t].amount > 0 /\ req[t].amount \in Int
         /\ req[t].kind \in {"BET", "WIN", "REFUND", "ROLLBACK"}
         /\ change[t].dir = Direction(req[t].kind, RefKind(t)) /\ change[t].dir \in Directions
         /\ change[t].after \in 0..MaxAmount
         /\ change[t].after = balance[req[t].wallet]
                              + (IF change[t].dir = "DEBIT" THEN -req[t].amount ELSE req[t].amount)
         /\ balance' = [balance EXCEPT ![req[t].wallet] = change[t].after]
<1>1. IndInv /\ Informed(t) /\ pc[t] = "commit"
  BY DEF RefinementInv, DecisionInv, Settles
<1>2. OwnerOK(t) /\ req[t] \in Requests /\ balance \in [Wallets -> Balances]
  BY <1>1 DEF IndInv, HandlerOK, OwnerSteps, TypeOK, TablesTyped
<1>3. /\ ValidationError(req[t]) = "" /\ req[t].kind # "LOSS"
      /\ change[t].dir = Direction(req[t].kind, RefKind(t))
  BY <1>1 DEF Informed, ValidSteps, OwnerSteps, MoneySteps
<1>4. req[t].amount \in Int /\ req[t].amount > 0 /\ req[t].kind \in {"BET", "WIN", "REFUND", "ROLLBACK"}
  BY <1>2, <1>3, RequestsAssumption DEF ValidationError, Kinds
<1>5. /\ req[t].wallet \in Wallets /\ change[t].dir \in Directions /\ change[t].after \in Balances
      /\ balance[req[t].wallet] \in Balances
      /\ change[t].after = IF change[t].dir = "DEBIT" THEN balance[req[t].wallet] - req[t].amount
                                                      ELSE balance[req[t].wallet] + req[t].amount
  BY <1>1, <1>2 DEF OwnerOK
<1>6. change[t].after = balance[req[t].wallet]
                        + (IF change[t].dir = "DEBIT" THEN -req[t].amount ELSE req[t].amount)
  BY <1>4, <1>5, WalletsAssumption DEF Balances
<1>7. balance' = [balance EXCEPT ![req[t].wallet] = change[t].after]
  BY DEF Settles, InsertSettlement
<1> QED
  BY <1>3, <1>4, <1>5, <1>6, <1>7 DEF Balances

\* A reversal that commits reverses a settled order that nobody undid: the
\* unique index repeats HasSuccessfulReversal at the commit.
LEMMA ReversalFacts ==
  ASSUME RefinementInv, NEW t \in Threads, Settles(t), req[t].kind \in ReversalKinds
  PROVE  LET p == rows[ref[t]].req IN
         /\ p \in Settled /\ p \notin Undone
         /\ Ledger!Names(req[t], p) /\ p.amount = req[t].amount
         /\ RefKind(t) = p.kind
<1> DEFINE p == rows[ref[t]].req
<1>1. /\ Reverses(req[t], ref[t]) /\ p.amount = req[t].amount /\ pc[t] = "commit"
  BY DEF RefinementInv, DecisionInv, Settles, Informed, MoneySteps, OwnerSteps
<1>2. ref[t] \in DOMAIN rows /\ rows[ref[t]].status = "PROCESSED" /\ Ledger!Names(req[t], p)
  BY <1>1 DEF Reverses
<1>3. DOMAIN rows = 1..Len(rows) /\ Len(rows) \in Nat
  BY DEF RefinementInv, DecisionInv, IndInv, TypeOK, TablesTyped
<1>4. ref[t] # NoRow
  BY <1>2, <1>3 DEF NoRow
<1>5. ~HasSuccessfulReversal(ref[t])
  <2>1. /\ RowToInsert(t).req = req[t] /\ RowToInsert(t).status = "PROCESSED"
        /\ RowToInsert(t).internalRef = ref[t]
    BY <1>1, RowFields
  <2>2. ~UniqueViolation(RowToInsert(t))
    BY NewRow DEF RefinementInv
  <2> QED
    BY <1>4, <2>1, <2>2 DEF UniqueViolation
<1>6. p \in Settled
  BY <1>2, ViewElements
<1>7. p \notin Undone
  <2> SUFFICES ASSUME p \in Undone PROVE FALSE
    OBVIOUS
  <2>1. PICK id \in DOMAIN rows : /\ rows[id].status = "PROCESSED" /\ rows[id].req.kind \in ReversalKinds
                                  /\ p = rows[rows[id].internalRef].req
    BY ViewElements
  <2>2. rows[id].internalRef \in DOMAIN rows
    BY <1>3, <2>1 DEF RefinementInv, ReversedAtMostOnce
  <2>3. rows[id].internalRef = ref[t]
    BY <1>2, <2>1, <2>2 DEF RefinementInv, OneRowPerKey
  <2> QED
    BY <1>5, <2>1, <2>3 DEF HasSuccessfulReversal
<1>8. RefKind(t) = p.kind
  BY <1>4 DEF RefKind
<1> QED
  BY <1>1, <1>2, <1>6, <1>7, <1>8

\* A WIN that names a BET names one that was decided.
LEMMA WinFacts ==
  ASSUME RefinementInv, NEW t \in Threads, Settles(t), req[t].kind = "WIN", req[t].ref # NoRef
  PROVE  \E p \in Settled \cup Refused : p.kind = "BET" /\ Ledger!Names(req[t], p)
<1>1. PICK id \in DOMAIN rows : rows[id].req.kind = "BET" /\ Ledger!Names(req[t], rows[id].req)
  BY DEF RefinementInv, DecisionInv, Settles, Informed, MoneySteps, OwnerSteps
<1>2. rows[id].status \in {"PROCESSED", "REJECTED"}
  BY DEF RefinementInv, DecisionInv, RowsDecided
<1>3. rows[id].req \in Settled \cup Refused
  BY <1>2, ViewElements
<1> QED
  BY <1>1, <1>3

\* A commit with money settles one order of the ledger.
LEMMA SettlesImplements ==
  ASSUME RefinementInv, NEW t \in Threads, Settles(t)
  PROVE  Ledger!Next
<1> DEFINE o == req[t]
           p == rows[ref[t]].req
<1>1. o \in Requests
  BY NewRow DEF RefinementInv
<1>2. Ledger!Undecided(o)
  BY CommittedWasUndecided DEF Ledger!Undecided, Settled, Refused
<1>3. /\ Settled' = Settled \cup {o} /\ Refused' = Refused
      /\ Undone' = IF o.kind \in ReversalKinds THEN Undone \cup {p} ELSE Undone
  BY ViewsAfterCommit, NewRow DEF RefinementInv
<1>4. /\ o.wallet \in Wallets /\ o.amount > 0 /\ o.amount \in Int
      /\ o.kind \in {"BET", "WIN", "REFUND", "ROLLBACK"}
      /\ change[t].dir = Direction(o.kind, RefKind(t)) /\ change[t].dir \in Directions
      /\ change[t].after \in 0..MaxAmount
      /\ change[t].after = balance[o.wallet] + (IF change[t].dir = "DEBIT" THEN -o.amount ELSE o.amount)
      /\ balance' = [balance EXCEPT ![o.wallet] = change[t].after]
  BY PaymentFacts
<1>5. ASSUME NEW delta, delta = IF change[t].dir = "DEBIT" THEN -o.amount ELSE o.amount
      PROVE  Ledger!Pay(o, delta)
  <2>1. balance[o.wallet] + delta = change[t].after
    BY <1>4, <1>5
  <2>2. balance' = [balance EXCEPT ![o.wallet] = @ + delta]
    BY <1>4, <2>1
  <2>3. Settled' = Settled \cup {o} /\ Refused' = Refused
    BY <1>3
  <2> QED
    BY <1>4, <2>1, <2>2, <2>3 DEF Ledger!Pay, Settled, Refused
<1> SUFFICES \/ Ledger!SettleBet(o) \/ Ledger!SettleWin(o)
             \/ \E q \in Settled : Ledger!SettleReversal(o, q)
  BY <1>1, <1>2 DEF Ledger!Next, Settled
<1>6. CASE o.kind = "BET"
  <2>1. change[t].dir = "DEBIT" /\ Undone' = Undone
    BY <1>3, <1>4, <1>6 DEF Direction, ReversalKinds
  <2>2. Ledger!Pay(o, -o.amount)
    BY <1>5, <2>1
  <2> QED
    BY <1>6, <2>1, <2>2 DEF Ledger!SettleBet, Undone
<1>7. CASE o.kind = "WIN"
  <2>1. change[t].dir = "CREDIT" /\ Undone' = Undone
    BY <1>3, <1>4, <1>7 DEF Direction, ReversalKinds
  <2>2. Ledger!Pay(o, o.amount)
    BY <1>5, <2>1
  <2>3. o.ref # NoRef => \E q \in Settled \cup Refused : q.kind = "BET" /\ Ledger!Names(o, q)
    BY <1>7, WinFacts
  <2> QED
    BY <1>7, <2>1, <2>2, <2>3 DEF Ledger!SettleWin, Settled, Refused, Undone
<1>8. CASE o.kind \in ReversalKinds
  <2>1. /\ p \in Settled /\ p \notin Undone /\ Ledger!Names(o, p) /\ p.amount = o.amount
        /\ RefKind(t) = p.kind
    BY <1>8, ReversalFacts
  <2>2. Undone' = Undone \cup {p}
    BY <1>3, <1>8
  <2>3. change[t].dir = IF o.kind = "ROLLBACK" /\ p.kind # "BET" THEN "DEBIT" ELSE "CREDIT"
    BY <1>4, <1>8, <2>1 DEF Direction, Directions, ReversalKinds
  <2>4. Ledger!Pay(o, IF o.kind = "ROLLBACK" /\ p.kind # "BET" THEN -o.amount ELSE o.amount)
    BY <1>5, <2>3
  <2>5. /\ o.kind \in {"REFUND", "ROLLBACK"}
        /\ o.kind = "ROLLBACK" => p.kind \in {"BET", "WIN", "REFUND"}
    BY <1>4, <1>8, <2>1 DEF Direction, Directions, ReversalKinds
  <2>6. Ledger!SettleReversal(o, p)
    BY <2>1, <2>2, <2>4, <2>5 DEF Ledger!SettleReversal, Settled, Undone
  <2> QED
    BY <2>1, <2>6
<1> QED
  BY <1>4, <1>6, <1>7, <1>8 DEF ReversalKinds

\* A commit without money settles a LOSS or refuses an order.
LEMMA RecordsImplements ==
  ASSUME RefinementInv, NEW t \in Threads, Records(t)
  PROVE  Ledger!Next
<1> DEFINE o == req[t]
           row == RowToInsert(t)
<1>1. o \in Requests /\ row.req = o
  BY NewRow DEF RefinementInv
<1>2. Ledger!Undecided(o)
  BY CommittedWasUndecided DEF Ledger!Undecided, Settled, Refused
<1>3. balance' = balance /\ o.wallet \in Wallets
  BY <1>1 DEF Records, InsertRow, CanInsert
<1>4. CASE pc[t] = "commitLoss"
  <2>1. row.status = "PROCESSED" /\ o.kind = "LOSS"
    BY <1>4, NewRow DEF RefinementInv
  <2>2. Settled' = Settled \cup {o} /\ Refused' = Refused /\ Undone' = Undone
    BY <2>1, ViewsAfterCommit DEF ReversalKinds
  <2>3. Ledger!SettleLoss(o)
    BY <1>3, <2>1, <2>2 DEF Ledger!SettleLoss, Settled, Refused, Undone
  <2> QED
    BY <1>1, <1>2, <2>3 DEF Ledger!Next
<1>5. CASE pc[t] # "commitLoss"
  <2>1. row.status = "REJECTED"
    BY <1>5, NewRow DEF RefinementInv
  <2>2. Settled' = Settled /\ Refused' = Refused \cup {o} /\ Undone' = Undone
    BY <2>1, ViewsAfterCommit
  <2>3. Ledger!Refuse(o)
    BY <1>3, <2>2 DEF Ledger!Refuse, Settled, Refused, Undone
  <2> QED
    BY <1>1, <1>2, <2>3 DEF Ledger!Next
<1> QED
  BY <1>4, <1>5

\* The handlers implement the ledger: seen as balances and sets of settled,
\* refused and undone orders, ProcessTransaction decides one order at a time,
\* pays it once and in its direction, and undoes an order at most once, for any
\* number of handlers, wallets and requests.
THEOREM ServiceImplementsLedger == Spec => ImplementsLedger
<1>1. Init => Ledger!Init
  <2> SUFFICES ASSUME Init PROVE Ledger!Init
    OBVIOUS
  <2>1. rows = <<>> /\ balance = OpeningBalance
    BY DEF Init
  <2>2. Settled = {} /\ Refused = {} /\ Undone = {}
    BY <2>1 DEF Settled, Refused, Undone, RequestsOf, RowsWith
  <2> QED
    BY <2>1, <2>2 DEF Ledger!Init, Settled, Refused, Undone
<1>2. RefinementInv /\ [Next]_vars => [Ledger!Next]_(Ledger!vars)
  <2> SUFFICES ASSUME RefinementInv, [Next]_vars PROVE [Ledger!Next]_(Ledger!vars)
    OBVIOUS
  <2>1. CASE NoCommit
    <3>1. rows' = rows /\ balance' = balance
      BY <2>1 DEF NoCommit
    <3>2. UNCHANGED Ledger!vars
      BY <3>1 DEF Ledger!vars, RequestsOf, RowsWith
    <3> QED
      BY <3>2
  <2>2. ASSUME NEW t \in Threads, Records(t) \/ Settles(t) PROVE Ledger!Next
    BY <2>2, RecordsImplements, SettlesImplements
  <2> QED
    BY <2>1, <2>2, StepCommits DEF RefinementInv, DecisionInv
<1>3. Spec => []RefinementInv
  BY DecisionInvariance, OneRow, ReversalsOnce, PTL DEF RefinementInv
<1> QED
  BY <1>1, <1>2, <1>3, PTL DEF Spec, ImplementsLedger, Ledger!Spec
=============================================================================

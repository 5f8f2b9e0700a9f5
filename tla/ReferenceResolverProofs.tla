---------------------- MODULE ReferenceResolverProofs ----------------------
(***************************************************************************)
(* Reference workers beside the handlers of WagerService, for any number   *)
(* of either: the workers keep the handlers' invariant, a waiting reversal *)
(* is claimed by one worker at a time and settled at most once, and what   *)
(* they count stays within its limit.                                      *)
(***************************************************************************)
EXTENDS ReferenceResolver, WagerServiceProofs

RefSteps == {"checkReversal", "lockWallet"} \cup OwnerSteps

\* a worker that holds the wallet has the committed row in its hands
WorkerOwns(k) ==
  LET w == Job(k).wallet
      c == job[k].change
  IN /\ lock[w] = k
     /\ c.before = balance[w]
     /\ c.dir \in Directions
     /\ job[k].step = "updateBalance" => c.version = version[w]
     /\ job[k].step = "commit" => /\ c.version = version[w] + 1
                                  /\ c.after \in Balances
                                  /\ c.after = Moved(c, Job(k).amount)

\* what a worker knows of its row: while it has the claim, the row waits
JobOK(k) ==
  /\ job[k].step # "rest" => /\ job[k].id \in DOMAIN rows
                             /\ Job(k).kind \in ReversalKinds
                             /\ Job(k).amount \in Balances
  /\ job[k].step \in ClaimSteps => rows[job[k].id].status = "PENDING_REFERENCE"
  /\ job[k].step \in RefSteps => job[k].ref \in DOMAIN rows
  /\ job[k].step \in {"lockWallet"} \cup OwnerSteps => JobDirection(k) \in Directions
  /\ job[k].step \in OwnerSteps => WorkerOwns(k)

ClaimsApart ==
  \A k, l \in Workers :
    job[k].step \in ClaimSteps /\ job[l].step \in ClaimSteps /\ job[k].id = job[l].id => k = l

JobsTyped == job \in [Workers -> JobType] /\ holds \in 0..MaxHolds

\* only reversals wait for a reference, and none is set back to PENDING
WaitingRows ==
  \A id \in DOMAIN rows :
    /\ id \in Reversals => rows[id].status \in {"PENDING_REFERENCE", "PROCESSED", "REJECTED"}
    /\ rows[id].status = "PENDING_REFERENCE" => id \in Reversals /\ rows[id].req.amount \in Balances

\* every transaction is entered at one place of one ledger at most
EnteredOnce ==
  \A v, w \in Wallets : \A i \in DOMAIN ledger[v], j \in DOMAIN ledger[w] :
    /\ ledger[v][i].tx \in 0..Len(rows)
    /\ ledger[v][i].tx = OpeningTx => i = 1
    /\ ledger[v][i].tx = ledger[w][j].tx /\ ledger[v][i].tx # OpeningTx => v = w /\ i = j

Entered(id) == \E w \in Wallets : \E i \in DOMAIN ledger[w] : ledger[w][i].tx = id

ReversalsEntered ==
  \A id \in Reversals : /\ rows[id].status = "PROCESSED" => Entered(id)
                        /\ rows[id].status = "PENDING_REFERENCE" => ~Entered(id)

\* the unique index on successful reversals
ReversalIndex ==
  \A i, j \in Reversals :
    /\ rows[i].status = "PROCESSED" /\ rows[j].status = "PROCESSED"
    /\ rows[i].internalRef = rows[j].internalRef
    => i = j

\* the workers that will count an attempt of row id, if they find no reference
Counting(id) ==
  {k \in Workers : /\ job[k].id = id /\ job[k].step \in {"claim", "lookup"}
                   /\ job[k].attempts < MaxRefAttempts}

AttemptsLeft ==
  \A id \in DOMAIN rows :
    rows[id].attempts + Cardinality(Counting(id)) <= MaxRefAttempts + Cardinality(Workers) - 1

\* what the rows and the ledgers say of reversals
ReversalsInv == WaitingRows /\ EnteredOnce /\ ReversalsEntered /\ ReversalIndex

ResolverInv ==
  /\ IndInv
  /\ JobsTyped
  /\ \A k \in Workers : JobOK(k)
  /\ ClaimsApart
  /\ ReversalsInv
  /\ AttemptsLeft

-----------------------------------------------------------------------------
(***************************************************************************)
(* The jobs: what a step of somebody else leaves alone.                    *)
(***************************************************************************)

\* What a worker knows of its row outlives a step of another process that adds
\* rows, keeps the status of the row it claimed and does not touch its wallet.
LEMMA JobKept ==
  ASSUME ResolverInv, NEW l \in Workers, job'[l] = job[l], RowsGrow, rows' \in Seq(RowType),
         job[l].step \in ClaimSteps => rows'[job[l].id].status = rows[job[l].id].status,
         job[l].step \in OwnerSteps => /\ lock'[Job(l).wallet] = lock[Job(l).wallet]
                                       /\ balance'[Job(l).wallet] = balance[Job(l).wallet]
                                       /\ version'[Job(l).wallet] = version[Job(l).wallet]
  PROVE  JobOK(l)'
<1>1. JobOK(l) /\ rows \in Seq(RowType)
  BY DEF ResolverInv, IndInv, TypeOK, TablesTyped
<1>2. DOMAIN rows \subseteq DOMAIN rows'
  BY <1>1 DEF RowsGrow
<1>3. job[l].step # "rest" => /\ job[l].id \in DOMAIN rows' /\ Job(l)' = Job(l)
                              /\ Job(l).kind \in ReversalKinds /\ Job(l).amount \in Balances
  BY <1>1, <1>2 DEF JobOK, Job, RowsGrow
<1>4. job[l].step \in RefSteps => /\ job[l].ref \in DOMAIN rows'
                                  /\ rows'[job[l].ref].req = rows[job[l].ref].req
  BY <1>1, <1>2 DEF JobOK, RowsGrow
<1>5. job[l].step \in {"lockWallet"} \cup OwnerSteps => JobDirection(l)' = JobDirection(l)
  BY <1>3, <1>4 DEF JobDirection, RefSteps, OwnerSteps, Direction
<1>6. job[l].step \in OwnerSteps => WorkerOwns(l)'
  BY <1>1, <1>3 DEF JobOK, WorkerOwns, OwnerSteps, Moved
<1> QED
  BY <1>1, <1>3, <1>4, <1>5, <1>6 DEF JobOK, ClaimSteps

\* A worker holds the wallet of its row from its lock to its commit.
LEMMA WorkerHolds ==
  ASSUME ResolverInv, NEW l \in Workers, job[l].step \in OwnerSteps
  PROVE  Job(l).wallet \in Wallets /\ lock[Job(l).wallet] = l
<1>1. JobOK(l) /\ RowsNameWallets
  BY DEF ResolverInv, IndInv
<1> QED
  BY <1>1 DEF JobOK, WorkerOwns, OwnerSteps, RowsNameWallets, Job

-----------------------------------------------------------------------------
(***************************************************************************)
(* The rows and the ledgers.                                               *)
(***************************************************************************)

\* An entry of a transaction that has none yet is its only one.
LEMMA NewEntry ==
  ASSUME ledger \in [Wallets -> Seq(EntryType)], rows \in Seq(RowType), rows' \in Seq(RowType),
         Len(rows') >= Len(rows), EnteredOnce,
         NEW w \in Wallets, NEW e, e.tx \in 1..Len(rows'), ~Entered(e.tx),
         ledger' = [ledger EXCEPT ![w] = Append(@, e)]
  PROVE  EnteredOnce' /\ \A id : Entered(id)' <=> Entered(id) \/ id = e.tx
<1> DEFINE n == Len(ledger[w])
<1>1. /\ ledger[w] \in Seq(EntryType) /\ n \in Nat /\ DOMAIN ledger[w] = 1..n
      /\ ledger'[w] = Append(ledger[w], e)
  OBVIOUS
<1>2. /\ DOMAIN ledger'[w] = 1..(n + 1) /\ ledger'[w][n + 1] = e
      /\ \A i \in 1..n : ledger'[w][i] = ledger[w][i]
  BY <1>1
<1>3. \A v \in Wallets \ {w} : ledger'[v] = ledger[v]
  OBVIOUS
<1> HIDE DEF n
<1>4. \A v \in Wallets : \A i \in DOMAIN ledger[v] : ledger[v][i].tx # e.tx
  BY DEF Entered
<1>5. Len(rows) \in Nat /\ Len(rows') \in Nat /\ e.tx # OpeningTx /\ e.tx \in 0..Len(rows')
  BY DEF OpeningTx
<1>6. ASSUME NEW v \in Wallets, NEW i \in DOMAIN ledger'[v]
      PROVE  \/ v = w /\ i = n + 1 /\ ledger'[v][i] = e
             \/ i \in DOMAIN ledger[v] /\ ledger'[v][i] = ledger[v][i] /\ ~(v = w /\ i = n + 1)
  BY <1>1, <1>2, <1>3
<1>7. EnteredOnce'
  <2> SUFFICES ASSUME NEW v \in Wallets, NEW x \in Wallets,
                      NEW i \in DOMAIN ledger'[v], NEW j \in DOMAIN ledger'[x]
               PROVE  /\ ledger'[v][i].tx \in 0..Len(rows')
                      /\ ledger'[v][i].tx = OpeningTx => i = 1
                      /\ ledger'[v][i].tx = ledger'[x][j].tx /\ ledger'[v][i].tx # OpeningTx => v = x /\ i = j
    BY DEF EnteredOnce
  <2>1. \A y \in Wallets : \A m \in DOMAIN ledger[y] :
          /\ ledger[y][m].tx \in 0..Len(rows')
          /\ ledger[y][m].tx = OpeningTx => m = 1
    BY <1>5 DEF EnteredOnce
  <2>2. CASE v = w /\ i = n + 1 /\ ledger'[v][i] = e
    BY <1>4, <1>5, <1>6, <2>2
  <2>3. CASE i \in DOMAIN ledger[v] /\ ledger'[v][i] = ledger[v][i] /\ ~(v = w /\ i = n + 1)
    <3>1. CASE x = w /\ j = n + 1 /\ ledger'[x][j] = e
      BY <1>4, <2>1, <2>3, <3>1
    <3>2. CASE j \in DOMAIN ledger[x] /\ ledger'[x][j] = ledger[x][j]
      BY <2>1, <2>3, <3>2 DEF EnteredOnce
    <3> QED
      BY <1>6, <3>1, <3>2
  <2> QED
    BY <1>6, <2>2, <2>3
<1>8. ASSUME NEW id PROVE Entered(id)' <=> Entered(id) \/ id = e.tx
  <2>1. ASSUME Entered(id)' PROVE Entered(id) \/ id = e.tx
    BY <1>6, <2>1 DEF Entered
  <2>2. ASSUME Entered(id) PROVE Entered(id)'
    <3>1. PICK v \in Wallets : \E i \in DOMAIN ledger[v] : ledger[v][i].tx = id
      BY <2>2 DEF Entered
    <3>2. PICK i \in DOMAIN ledger[v] : ledger[v][i].tx = id
      BY <3>1
    <3>3. i \in DOMAIN ledger'[v] /\ ledger'[v][i] = ledger[v][i]
      BY <1>1, <1>2, <1>3
    <3> QED
      BY <3>2, <3>3 DEF Entered
  <2>3. Entered(e.tx)'
    <3>1. n + 1 \in DOMAIN ledger'[w] /\ ledger'[w][n + 1].tx = e.tx
      BY <1>1, <1>2
    <3> QED
      BY <3>1 DEF Entered
  <2> QED
    BY <2>1, <2>2, <2>3
<1> QED
  BY <1>7, <1>8

\* A step that writes no ledger entry and, of statuses, at most rejects a
\* reversal or changes that of another transaction.
LEMMA StatusStep ==
  ASSUME ReversalsInv, rows \in Seq(RowType), rows' \in Seq(RowType), Len(rows') = Len(rows), ledger' = ledger,
         \A i \in DOMAIN rows :
           /\ rows'[i].req = rows[i].req /\ rows'[i].internalRef = rows[i].internalRef
           /\ \/ rows'[i].status = rows[i].status
              \/ i \in Reversals /\ rows'[i].status = "REJECTED"
              \/ i \notin Reversals /\ rows'[i].status # "PENDING_REFERENCE"
  PROVE  ReversalsInv'
<1>1. DOMAIN rows' = DOMAIN rows
  OBVIOUS
<1>2. Reversals' = Reversals /\ Reversals \subseteq DOMAIN rows
  BY <1>1 DEF Reversals
<1>3. WaitingRows'
  BY <1>1, <1>2 DEF ReversalsInv, WaitingRows
<1>4. EnteredOnce'
  BY DEF ReversalsInv, EnteredOnce
<1>5. \A id : Entered(id)' <=> Entered(id)
  BY DEF Entered
<1>6. ReversalsEntered'
  BY <1>1, <1>2, <1>5 DEF ReversalsInv, ReversalsEntered
<1>7. ReversalIndex'
  BY <1>1, <1>2 DEF ReversalsInv, ReversalIndex
<1> QED
  BY <1>3, <1>4, <1>6, <1>7 DEF ReversalsInv

\* A row that the unique indexes admit.
LEMMA InsertedRow ==
  ASSUME ReversalsInv, rows \in Seq(RowType), NEW row \in RowType, rows' = Append(rows, row),
         row.req.kind \in ReversalKinds => row.status \in {"PENDING_REFERENCE", "PROCESSED", "REJECTED"},
         row.status = "PENDING_REFERENCE" => row.req.kind \in ReversalKinds /\ row.req.amount \in Balances,
         row.req.kind \in ReversalKinds /\ row.status = "PROCESSED" => ~HasSuccessfulReversal(row.internalRef),
         EnteredOnce', \A id \in DOMAIN rows : Entered(id)' <=> Entered(id),
         \A id : id = NewId /\ row.req.kind \in ReversalKinds =>
           /\ row.status = "PROCESSED" => Entered(id)'
           /\ row.status = "PENDING_REFERENCE" => ~Entered(id)'
  PROVE  ReversalsInv'
<1>1. /\ Len(rows) \in Nat /\ DOMAIN rows = 1..Len(rows) /\ DOMAIN rows' = 1..(Len(rows) + 1)
      /\ \A i \in 1..Len(rows) : rows'[i] = rows[i]
      /\ rows'[NewId] = row /\ NewId = Len(rows) + 1
  BY AppendFacts DEF NewId
<1>2. \A i \in DOMAIN rows' : i = NewId \/ (i \in DOMAIN rows /\ rows'[i] = rows[i])
  BY <1>1
<1>3. ASSUME NEW i \in Reversals'
      PROVE  \/ i = NewId /\ rows'[i] = row /\ row.req.kind \in ReversalKinds
             \/ i \in Reversals /\ i \in DOMAIN rows /\ rows'[i] = rows[i]
  <2>1. i \in DOMAIN rows' /\ rows'[i].req.kind \in ReversalKinds
    BY DEF Reversals
  <2>2. CASE i = NewId
    BY <1>1, <2>1, <2>2
  <2>3. CASE i \in DOMAIN rows /\ rows'[i] = rows[i]
    BY <2>1, <2>3 DEF Reversals
  <2> QED
    BY <1>2, <2>1, <2>2, <2>3
<1>4. WaitingRows'
  <2> SUFFICES ASSUME NEW id \in DOMAIN rows'
               PROVE  /\ id \in Reversals' => rows'[id].status \in {"PENDING_REFERENCE", "PROCESSED", "REJECTED"}
                      /\ rows'[id].status = "PENDING_REFERENCE" =>
                           id \in Reversals' /\ rows'[id].req.amount \in Balances
    BY DEF WaitingRows
  <2>1. CASE id = NewId
    BY <1>1, <2>1 DEF Reversals
  <2>2. CASE id \in DOMAIN rows /\ rows'[id] = rows[id]
    BY <2>2 DEF Reversals, ReversalsInv, WaitingRows
  <2> QED
    BY <1>2, <2>1, <2>2
<1>5. ReversalsEntered'
  BY <1>1, <1>3 DEF ReversalsInv, ReversalsEntered
<1>6. ReversalIndex'
  <2> SUFFICES ASSUME NEW i \in Reversals', NEW j \in Reversals',
                      rows'[i].status = "PROCESSED", rows'[j].status = "PROCESSED",
                      rows'[i].internalRef = rows'[j].internalRef
               PROVE  i = j
    BY DEF ReversalIndex
  <2>1. ASSUME NEW l \in Reversals, l \in DOMAIN rows, rows[l].status = "PROCESSED",
               row.req.kind \in ReversalKinds, row.status = "PROCESSED"
        PROVE  rows[l].internalRef # row.internalRef
    BY <2>1 DEF HasSuccessfulReversal, Reversals
  <2> QED
    BY <1>3, <2>1 DEF ReversalsInv, ReversalIndex
<1> QED
  BY <1>4, <1>5, <1>6 DEF ReversalsInv

\* No entry names a transaction that is still to be inserted.
LEMMA NewIdFree ==
  ASSUME EnteredOnce, rows \in Seq(RowType)
  PROVE  ~Entered(NewId)
<1>1. Len(rows) \in Nat /\ NewId = Len(rows) + 1
  BY DEF NewId
<1>2. \A w \in Wallets : \A i \in DOMAIN ledger[w] : ledger[w][i].tx \in 0..Len(rows)
  BY DEF EnteredOnce
<1> QED
  BY <1>1, <1>2 DEF Entered

-----------------------------------------------------------------------------
(***************************************************************************)
(* The handlers' steps, InsertPendingReference included.                   *)
(***************************************************************************)
HandlerActs(t) == ActsFor(t) \/ InsertPendingReference(t)

\* Storing a pending reversal is a commit like the others.
LEMMA HandlerCommits ==
  ASSUME IndInv, NEW t \in Threads, HandlerActs(t)
  PROVE  Commits(t) /\ IndInv'
<1>1. CASE ActsFor(t)
  <2>1. Next
    BY <1>1 DEF ActsFor, Next
  <2> QED
    BY <1>1, <2>1, CommitForms, NextInv
<1>2. CASE InsertPendingReference(t)
  BY <1>2, InsertsInv DEF InsertPendingReference, NoInsert, InsertSteps, Commits, NoCommit, Records
<1> QED
  BY <1>1, <1>2 DEF HandlerActs

\* A handler takes a free wallet, gives its own back, or leaves the locks alone.
LEMMA HandlerLocks ==
  ASSUME IndInv, NEW t \in Threads, HandlerActs(t)
  PROVE  \/ lock' = lock \/ lock' = Released(t)
         \/ \E v \in Wallets : lock[v] = NoThread /\ lock' = [lock EXCEPT ![v] = t]
<1>1. ASSUME NEW r \in Requests, Receive(t, r) PROVE lock' = lock
  BY <1>1 DEF Receive, dbVars
<1>2. CASE LockWallet(t)
  BY <1>2 DEF LockWallet, Lockable, WalletFails
<1>3. CASE WalletCallFails(t) \/ UpdateBalance(t)
  BY <1>3 DEF WalletCallFails, UpdateBalance, WalletFails, dbVars
<1>4. CASE \/ CheckIdempotency(t) \/ CheckExternalId(t) \/ FindReference(t) \/ CheckReversal(t)
           \/ ReadFailureBalance(t) \/ FindDuplicate(t) \/ LossBalance(t) \/ ReportBalance(t)
           \/ CheckReversalFails(t) \/ ReadFails(t) \/ FindDuplicateFails(t)
           \/ FailureBalanceFails(t) \/ ReportBalanceFails(t) \/ TransactionFails(t) \/ Crash(t)
  BY <1>4 DEF CheckIdempotency, CheckExternalId, FindReference, CheckReversal, ReadFailureBalance,
     FindDuplicate, LossBalance, ReportBalance, CheckReversalFails, ReadFails, FindDuplicateFails,
     FailureBalanceFails, ReportBalanceFails, TransactionFails, Crash, dbVars
<1>5. CASE CommitWithLedger(t) \/ CommitAnswerLost(t)
  BY <1>5 DEF CommitWithLedger, CommitAnswerLost, InsertSettlement, InsertRow
<1>6. CASE CreateAndReject(t) \/ Reject(t) \/ InsertPendingReference(t) \/ CommitLoss(t)
  BY <1>6 DEF CreateAndReject, Reject, InsertPendingReference, CommitLoss, InsertRow, NoInsert, dbVars
<1> QED
  BY <1>1, <1>2, <1>3, <1>4, <1>5, <1>6 DEF HandlerActs, ActsFor, Step, FaultStep

\* A handler cannot touch a wallet that a worker holds.
LEMMA HandlerLeavesWallet ==
  ASSUME IndInv, NEW t \in Threads, HandlerActs(t), NEW w \in Wallets, lock[w] \in Workers
  PROVE  lock'[w] = lock[w] /\ balance'[w] = balance[w] /\ version'[w] = version[w]
<1>1. TablesTyped /\ lock[w] # t /\ lock[w] # NoThread
  BY NoThreadAssumption DEF IndInv, TypeOK
<1>2. lock'[w] = lock[w]
  BY <1>1, HandlerLocks DEF Released, TablesTyped
<1>3. CASE NoCommit
  BY <1>2, <1>3 DEF NoCommit
<1>4. CASE Records(t)
  BY <1>2, <1>4 DEF Records, InsertRow
<1>5. CASE Settles(t)
  <2>1. req[t].wallet \in Wallets /\ lock[req[t].wallet] = t
    BY <1>5 DEF Settles, IndInv, HandlerOK, OwnerOK, OwnerSteps
  <2>2. /\ balance' = [balance EXCEPT ![req[t].wallet] = change[t].after]
        /\ version' = [version EXCEPT ![req[t].wallet] = change[t].version]
    BY <1>5 DEF Settles, InsertSettlement
  <2> QED
    BY <1>1, <1>2, <2>1, <2>2 DEF TablesTyped
<1> QED
  BY <1>3, <1>4, <1>5, HandlerCommits DEF Commits

\* What a handler commits keeps the reversals in order.
LEMMA HandlerReversals ==
  ASSUME IndInv, ReversalsInv, NEW t \in Threads, Commits(t)
  PROVE  ReversalsInv'
<1> DEFINE row == RowToInsert(t)
<1>1. rows \in Seq(RowType) /\ ledger \in [Wallets -> Seq(EntryType)] /\ HandlerOK(t)
  BY DEF IndInv, TypeOK, TablesTyped
<1>2. CASE NoCommit
  <2>1. rows' = rows /\ ledger' = ledger
    BY <1>2 DEF NoCommit
  <2> QED
    BY <1>1, <2>1, StatusStep
<1>3. ASSUME Records(t) \/ Settles(t)
      PROVE  /\ row \in RowType /\ row.req = req[t] /\ rows' = Append(rows, row)
             /\ ~UniqueViolation(row) /\ rows' \in Seq(RowType) /\ Len(rows') = NewId
             /\ NewId \in 1..Len(rows') /\ NewId \notin DOMAIN rows
  <2>1. pc[t] # "idle" /\ rows' = Append(rows, row) /\ ~UniqueViolation(row)
    BY <1>3 DEF Records, Settles, InsertRow, InsertSettlement, CanInsert, InsertSteps
  <2>2. row \in RowType /\ row.req = req[t]
    BY <2>1, RowFacts
  <2> HIDE DEF row
  <2> QED
    BY <1>1, <2>1, <2>2 DEF NewId
<1>4. CASE Records(t)
  <2>1. pc[t] \in {"commitLoss", "reject", "pendingReference", "createAndReject"} /\ ledger' = ledger
    BY <1>4 DEF Records, InsertSteps, InsertRow
  <2>2. /\ pc[t] = "commitLoss" => req[t].kind = "LOSS"
        /\ pc[t] = "pendingReference" => req[t].kind \in ReversalKinds /\ req[t].amount \in Balances
    BY <1>1 DEF HandlerOK, ValidSteps
  <2>3. /\ pc[t] = "commitLoss" => row.status = "PROCESSED"
        /\ pc[t] = "pendingReference" => row.status = "PENDING_REFERENCE"
        /\ pc[t] \in {"reject", "createAndReject"} => row.status = "REJECTED"
    BY DEF RowToInsert, Row
  <2>4. /\ req[t].kind \in ReversalKinds => row.status \in {"PENDING_REFERENCE", "REJECTED"}
        /\ row.status = "PENDING_REFERENCE" => req[t].kind \in ReversalKinds /\ req[t].amount \in Balances
    BY <2>1, <2>2, <2>3 DEF ReversalKinds
  <2>5. \A id : Entered(id)' <=> Entered(id)
    BY <2>1 DEF Entered
  <2>6. ~Entered(NewId)
    BY <1>1, NewIdFree DEF ReversalsInv
  <2>7. \A id : id = NewId => ~Entered(id)'
    BY <2>5, <2>6
  <2>8. EnteredOnce'
    <3>1. Len(rows) \in Nat /\ Len(rows') \in Nat /\ Len(rows') >= Len(rows)
      BY <1>1, <1>3, <1>4 DEF NewId
    <3>2. EnteredOnce
      BY DEF ReversalsInv
    <3>3. \A m \in 0..Len(rows) : m \in 0..Len(rows')
      BY <3>1
    <3> QED
      BY <2>1, <3>2, <3>3 DEF EnteredOnce
  <2> HIDE DEF row
  <2> QED
    BY <1>1, <1>3, <1>4, <2>4, <2>5, <2>7, <2>8, InsertedRow
<1>5. CASE Settles(t)
  <2> DEFINE w == req[t].wallet
             e == Entry(NewId, change[t].dir, req[t].amount, change[t].before, change[t].after)
  <2>1. pc[t] = "commit" /\ ledger' = [ledger EXCEPT ![w] = Append(@, e)] /\ w \in Wallets
    BY <1>1, <1>5 DEF Settles, InsertSettlement, WriteLedgerEntry, HandlerOK, OwnerOK, OwnerSteps
  <2>2. /\ row.status = "PROCESSED"
        /\ req[t].kind \in ReversalKinds => row.internalRef = ref[t] /\ ref[t] # NoRow
    BY <1>1, <2>1, RowFields DEF HandlerOK, OwnerSteps
  <2>3. e.tx = NewId
    BY DEF Entry
  <2> HIDE DEF row, e
  <2>4. req[t].kind \in ReversalKinds => ~HasSuccessfulReversal(row.internalRef)
    BY <1>3, <1>5, <2>2 DEF UniqueViolation
  <2>5. ~Entered(NewId) /\ EnteredOnce
    BY <1>1, NewIdFree DEF ReversalsInv
  <2>6. Len(rows') >= Len(rows)
    BY <1>1, <1>3, <1>5 DEF NewId
  <2>7. EnteredOnce' /\ \A id : Entered(id)' <=> Entered(id) \/ id = NewId
    BY <1>1, <1>3, <1>5, <2>1, <2>3, <2>5, <2>6, NewEntry
  <2>8. \A id \in DOMAIN rows : Entered(id)' <=> Entered(id)
    BY <1>3, <1>5, <2>7
  <2> QED
    BY <1>1, <1>3, <1>5, <2>2, <2>4, <2>7, <2>8, InsertedRow
<1> QED
  BY <1>2, <1>4, <1>5 DEF Commits

-----------------------------------------------------------------------------
(***************************************************************************)
(* The attempts.                                                           *)
(***************************************************************************)

\* The workers that may still count an attempt of a row are finitely many.
LEMMA CountingFacts ==
  ASSUME NEW id
  PROVE  /\ Cardinality(Workers) \in Nat
         /\ Counting(id) \subseteq Workers /\ IsFiniteSet(Counting(id))
         /\ Cardinality(Counting(id)) \in Nat
         /\ Cardinality(Counting(id)) <= Cardinality(Workers)
<1>1. IsFiniteSet(Workers) /\ Counting(id) \in SUBSET Workers
  BY ResolverAssumption DEF Counting
<1> QED
  BY <1>1, FS_Subset, FS_CardinalityType

\* A step that counts no attempt and gives no worker a row to count for.
LEMMA AttemptsSame ==
  ASSUME AttemptsLeft, rows \in Seq(RowType), rows' \in Seq(RowType),
         \A id \in DOMAIN rows' :
           \/ /\ id \in DOMAIN rows
              /\ rows'[id].attempts = rows[id].attempts
              /\ Counting(id)' \subseteq Counting(id)
           \/ rows'[id].attempts = 0 /\ Counting(id)' = {}
  PROVE  AttemptsLeft'
<1> SUFFICES ASSUME NEW id \in DOMAIN rows'
             PROVE  rows'[id].attempts + Cardinality(Counting(id)') <= MaxRefAttempts + Cardinality(Workers) - 1
  BY DEF AttemptsLeft
<1>1. Cardinality(Workers) \in Nat /\ MaxRefAttempts \in Nat \ {0}
  BY CountingFacts, ResolverAssumption
<1>2. CASE /\ id \in DOMAIN rows
           /\ rows'[id].attempts = rows[id].attempts
           /\ Counting(id)' \subseteq Counting(id)
  <2>1. rows[id].attempts + Cardinality(Counting(id)) <= MaxRefAttempts + Cardinality(Workers) - 1
    BY <1>2 DEF AttemptsLeft
  <2>2. rows[id].attempts \in Nat
    <3>1. rows[id] \in RowType
      BY <1>2
    <3> QED
      BY <3>1 DEF RowType
  <2>3. /\ Cardinality(Counting(id)) \in Nat /\ Cardinality(Counting(id)') \in Nat
        /\ Cardinality(Counting(id)') <= Cardinality(Counting(id))
    <3>1. IsFiniteSet(Counting(id)) /\ Counting(id)' \in SUBSET Counting(id)
      BY <1>2, CountingFacts
    <3>2. IsFiniteSet(Counting(id)') /\ Cardinality(Counting(id)') <= Cardinality(Counting(id))
      BY <3>1, FS_Subset
    <3> QED
      BY <3>1, <3>2, FS_CardinalityType
  <2> QED
    BY <1>1, <1>2, <2>1, <2>2, <2>3
<1>3. CASE rows'[id].attempts = 0 /\ Counting(id)' = {}
  <2>1. Cardinality({}) = 0
    BY FS_EmptySet
  <2> QED
    BY <1>1, <1>3, <2>1
<1> QED
  BY <1>2, <1>3

\* The handlers keep the invariant of the workers, whatever they commit.
LEMMA HandlerStepInv ==
  ASSUME ResolverInv, NEW t \in Threads, HandlerActs(t), UNCHANGED <<job, holds>>
  PROVE  ResolverInv'
<1>1. IndInv /\ JobsTyped /\ ClaimsApart /\ ReversalsInv /\ AttemptsLeft /\ rows \in Seq(RowType)
  BY DEF ResolverInv, IndInv, TypeOK, TablesTyped
<1>2. Commits(t) /\ IndInv' /\ rows' \in Seq(RowType)
  BY <1>1, HandlerCommits DEF IndInv, TypeOK, TablesTyped
<1>3. TablesGrow
  BY <1>1, <1>2, CommitsGrow
<1>4. RowsGrow
  BY <1>3 DEF TablesGrow, RowsGrow
<1>5. ASSUME NEW l \in Workers PROVE JobOK(l)'
  <2>1. JobOK(l)
    BY DEF ResolverInv
  <2>2. job[l].step \in ClaimSteps => rows'[job[l].id].status = rows[job[l].id].status
    BY <1>3, <2>1 DEF JobOK, ClaimSteps, TablesGrow
  <2>3. job[l].step \in OwnerSteps => /\ lock'[Job(l).wallet] = lock[Job(l).wallet]
                                      /\ balance'[Job(l).wallet] = balance[Job(l).wallet]
                                      /\ version'[Job(l).wallet] = version[Job(l).wallet]
    BY <1>1, WorkerHolds, HandlerLeavesWallet
  <2> QED
    BY <1>2, <1>4, <2>2, <2>3, JobKept
<1>6. JobsTyped' /\ ClaimsApart'
  BY <1>1 DEF JobsTyped, ClaimsApart
<1>7. ReversalsInv'
  BY <1>1, <1>2, HandlerReversals
<1>8. AttemptsLeft'
  <2>1. \A id : Counting(id)' = Counting(id)
    BY DEF Counting
  <2>2. CASE rows' = rows
    BY <1>1, <2>1, <2>2, AttemptsSame
  <2>3. CASE rows' = Append(rows, RowToInsert(t))
    <3>1. /\ Len(rows) \in Nat /\ DOMAIN rows = 1..Len(rows) /\ DOMAIN rows' = 1..(Len(rows) + 1)
          /\ \A i \in 1..Len(rows) : rows'[i] = rows[i]
          /\ rows'[Len(rows) + 1] = RowToInsert(t)
      BY <1>1, <2>3, AppendFacts
    <3>2. RowToInsert(t).attempts = 0
      BY DEF RowToInsert, Row
    <3>3. \A l \in Workers : job[l].step \in {"claim", "lookup"} => job[l].id \in DOMAIN rows
      BY DEF ResolverInv, JobOK
    <3>4. Counting(Len(rows) + 1) = {}
      BY <3>1, <3>3 DEF Counting
    <3>5. ASSUME NEW id \in DOMAIN rows'
          PROVE  \/ /\ id \in DOMAIN rows
                    /\ rows'[id].attempts = rows[id].attempts
                    /\ Counting(id)' \subseteq Counting(id)
                 \/ rows'[id].attempts = 0 /\ Counting(id)' = {}
      <4>1. CASE id \in 1..Len(rows)
        BY <2>1, <3>1, <4>1
      <4>2. CASE id = Len(rows) + 1
        <5>1. Counting(id) = {}
          BY <3>4, <4>2
        <5> QED
          BY <2>1, <3>1, <3>2, <4>2, <5>1
      <4> QED
        BY <3>1, <4>1, <4>2
    <3> QED
      BY <1>1, <1>2, <3>5, AttemptsSame
  <2> QED
    BY <1>2, <2>2, <2>3 DEF Commits, NoCommit, Records, Settles, InsertRow, InsertSettlement
<1> QED
  BY <1>2, <1>5, <1>6, <1>7, <1>8 DEF ResolverInv

-----------------------------------------------------------------------------
(***************************************************************************)
(* The steps outside the handlers: the workers' and the external writer's. *)
(***************************************************************************)

\* k touches no wallet that somebody else has locked
WalletsApart(k) ==
  \A w \in Wallets :
    /\ lock'[w] \in {lock[w], k, NoThread}
    /\ lock[w] \notin {k, NoThread} => /\ lock'[w] = lock[w]
                                       /\ balance'[w] = balance[w]
                                       /\ version'[w] = version[w]

\* the other workers keep their jobs, and the status of the rows they claimed
JobsApart(k) ==
  \A l \in Workers \ {k} :
    /\ job'[l] = job[l]
    /\ job[l].step \in ClaimSteps => rows'[job[l].id].status = rows[job[l].id].status

\* worker k has a claim only if it had it, or the row was free
ClaimsFree(k) ==
  job'[k].step \in ClaimSteps =>
    \/ job[k].step \in ClaimSteps /\ job'[k].id = job[k].id
    \/ \A l \in Workers : job[l].id = job'[k].id => job[l].step \notin ClaimSteps

\* Whoever is no handler and keeps apart keeps the invariant, if its own job,
\* the ledgers, the reversals and the attempts are in order.
LEMMA OutsideStep ==
  ASSUME ResolverInv, NEW k, k \notin Threads, UNCHANGED <<pc, localVars, out>>,
         TablesTyped', CountersTyped', JobsTyped',
         RowsGrow, Len(rows') = Len(rows), WalletsApart(k), JobsApart(k), LedgerExplainsBalance',
         k \in Workers => JobOK(k)' /\ ClaimsFree(k),
         ReversalsInv', AttemptsLeft'
  PROVE  ResolverInv'
<1>1. IndInv /\ ClaimsApart /\ HandlersTyped /\ rows \in Seq(RowType) /\ TablesTyped
  BY DEF ResolverInv, IndInv, TypeOK, TablesTyped
<1>2. rows' \in Seq(RowType) /\ DOMAIN rows' = DOMAIN rows
  BY <1>1 DEF TablesTyped
<1>3. TypeOK'
  BY <1>1 DEF TypeOK, HandlersTyped, localVars
<1>4. ASSUME NEW u \in Threads PROVE HandlerOK(u)'
  <2>1. HandlerOK(u) /\ u # k /\ u # NoThread
    BY <1>1, NoThreadAssumption DEF IndInv
  <2>2. Same(u)
    BY DEF Same, localVars
  <2>3. pc[u] \in OwnerSteps => /\ lock'[req[u].wallet] = u
                                /\ balance'[req[u].wallet] = balance[req[u].wallet]
                                /\ version'[req[u].wallet] = version[req[u].wallet]
    BY <2>1 DEF HandlerOK, OwnerOK, WalletsApart
  <2> QED
    BY <1>1, <1>2, <2>2, <2>3, OtherHandler
<1>5. LocksOwned'
  <2> SUFFICES ASSUME NEW w \in Wallets, lock'[w] \in Threads
               PROVE  pc'[lock'[w]] \in OwnerSteps /\ req'[lock'[w]].wallet = w
    BY DEF LocksOwned
  <2>1. lock'[w] = lock[w]
    BY NoThreadAssumption DEF WalletsApart
  <2> QED
    BY <1>1, <2>1 DEF IndInv, LocksOwned, localVars
<1>6. RowsNameWallets'
  BY <1>1, <1>2 DEF IndInv, RowsNameWallets, RowsGrow
<1>7. ASSUME NEW l \in Workers PROVE JobOK(l)'
  <2>1. CASE l = k
    BY <2>1
  <2>2. CASE l # k
    <3>1. job[l].step \in OwnerSteps => /\ lock'[Job(l).wallet] = lock[Job(l).wallet]
                                        /\ balance'[Job(l).wallet] = balance[Job(l).wallet]
                                        /\ version'[Job(l).wallet] = version[Job(l).wallet]
      BY <2>2, WorkerHolds, NoThreadAssumption DEF WalletsApart
    <3> QED
      BY <1>2, <2>2, <3>1, JobKept DEF JobsApart
  <2> QED
    BY <2>1, <2>2
<1>8. ClaimsApart'
  <2> SUFFICES ASSUME NEW l \in Workers, NEW m \in Workers,
                      job'[l].step \in ClaimSteps, job'[m].step \in ClaimSteps, job'[l].id = job'[m].id
               PROVE  l = m
    BY DEF ClaimsApart
  <2>1. CASE l # k /\ m # k
    BY <1>1, <2>1 DEF ClaimsApart, JobsApart
  <2>2. CASE l = k /\ m # k
    BY <1>1, <2>2 DEF ClaimsApart, JobsApart, ClaimsFree
  <2>3. CASE l # k /\ m = k
    BY <1>1, <2>3 DEF ClaimsApart, JobsApart, ClaimsFree
  <2> QED
    BY <2>1, <2>2, <2>3
<1> QED
  BY <1>3, <1>4, <1>5, <1>6, <1>7, <1>8 DEF ResolverInv, IndInv

\* A worker that moves on or gives up is no longer among those who may count.
LEMMA FewerCount ==
  ASSUME JobsTyped, NEW k \in Workers, NEW j, job' = [job EXCEPT ![k] = j],
         j.step \in {"claim", "lookup"} =>
           job[k].step \in {"claim", "lookup"} /\ j.id = job[k].id /\ j.attempts = job[k].attempts
  PROVE  \A id : Counting(id)' \subseteq Counting(id)
<1>1. job'[k] = j /\ \A l \in Workers \ {k} : job'[l] = job[l]
  BY DEF JobsTyped
<1> SUFFICES ASSUME NEW id, NEW l \in Counting(id)' PROVE l \in Counting(id)
  OBVIOUS
<1>2. /\ l \in Workers /\ job'[l].id = id /\ job'[l].step \in {"claim", "lookup"}
      /\ job'[l].attempts < MaxRefAttempts
  BY DEF Counting
<1> QED
  BY <1>1, <1>2 DEF Counting

\* the step changes only worker k's job, to j
Works(k, j) ==
  /\ job' = [job EXCEPT ![k] = j]
  /\ UNCHANGED handlerVars
  /\ CountersTyped'

\* What a change of one job leaves alone.
LEMMA WorksFacts ==
  ASSUME ResolverInv, NEW k \in Workers, NEW j \in JobType, Works(k, j)
  PROVE  /\ k \notin Threads /\ k # NoThread
         /\ UNCHANGED <<pc, localVars, out>> /\ CountersTyped' /\ JobsTyped'
         /\ job'[k] = j /\ \A l \in Workers \ {k} : job'[l] = job[l]
<1>1. job \in [Workers -> JobType] /\ holds \in 0..MaxHolds
  BY DEF ResolverInv, JobsTyped
<1>2. job' \in [Workers -> JobType] /\ job'[k] = j /\ \A l \in Workers \ {k} : job'[l] = job[l]
  BY <1>1 DEF Works
<1> QED
  BY <1>1, <1>2, NoThreadAssumption DEF Works, handlerVars, JobsTyped

\* A step of a worker that writes nothing.
LEMMA ReadingStep ==
  ASSUME ResolverInv, NEW k \in Workers, NEW j \in JobType, Works(k, j), UNCHANGED dbVars,
         JobOK(k)', ClaimsFree(k), AttemptsLeft'
  PROVE  ResolverInv'
<1>1. TablesTyped /\ ReversalsInv /\ LedgerExplainsBalance /\ rows \in Seq(RowType)
  BY DEF ResolverInv, IndInv, TypeOK, TablesTyped
<1>2. /\ balance' = balance /\ version' = version /\ lock' = lock /\ rows' = rows /\ ledger' = ledger
      /\ outbox' = outbox /\ inbox' = inbox
  BY DEF dbVars
<1>3. TablesTyped' /\ LedgerExplainsBalance'
  BY <1>1, <1>2 DEF TablesTyped, LedgerExplainsBalance, BalanceAfter
<1>4. ReversalsInv'
  BY <1>1, <1>2, StatusStep
<1>5. WalletsApart(k) /\ JobsApart(k) /\ RowsGrow
  BY <1>1, <1>2, WorksFacts DEF WalletsApart, JobsApart, RowsGrow
<1> QED
  BY <1>2, <1>3, <1>4, <1>5, WorksFacts, OutsideStep

\* A worker's transaction is rolled back.
LEMMA RollbackStep ==
  ASSUME ResolverInv, NEW k \in Workers, NEW j \in JobType, Works(k, j), lock' = Released(k),
         UNCHANGED <<balance, version, rows, ledger, outbox, inbox>>,
         j.step \in {"rest", "rejectAgain"}, JobOK(k)'
  PROVE  ResolverInv'
<1>1. TablesTyped /\ ReversalsInv /\ LedgerExplainsBalance /\ rows \in Seq(RowType) /\ JobsTyped /\ AttemptsLeft
  BY DEF ResolverInv, IndInv, TypeOK, TablesTyped
<1>2. TablesTyped' /\ LedgerExplainsBalance'
  BY <1>1 DEF TablesTyped, LedgerExplainsBalance, BalanceAfter, Released
<1>3. ReversalsInv'
  BY <1>1, StatusStep
<1>4. WalletsApart(k) /\ JobsApart(k) /\ RowsGrow
  BY <1>1, WorksFacts DEF WalletsApart, JobsApart, RowsGrow, Released
<1>5. ClaimsFree(k)
  BY WorksFacts DEF ClaimsFree, ClaimSteps
<1>6. \A id : Counting(id)' \subseteq Counting(id)
  BY <1>1, FewerCount DEF Works
<1>7. AttemptsLeft'
  BY <1>1, <1>6, AttemptsSame
<1> QED
  BY <1>2, <1>3, <1>4, <1>5, <1>7, WorksFacts, OutsideStep

\* An UPDATE of one row.
LEMMA UpdatedRow ==
  ASSUME rows \in Seq(RowType), NEW id \in DOMAIN rows, NEW r \in RowType, r.req = rows[id].req,
         rows' = [rows EXCEPT ![id] = r]
  PROVE  /\ rows' \in Seq(RowType) /\ Len(rows') = Len(rows) /\ DOMAIN rows' = DOMAIN rows
         /\ rows'[id] = r /\ \A i \in DOMAIN rows \ {id} : rows'[i] = rows[i]
         /\ RowsGrow
<1>1. Len(rows) \in Nat /\ DOMAIN rows = 1..Len(rows) /\ rows \in [1..Len(rows) -> RowType]
  OBVIOUS
<1>2. rows' \in [1..Len(rows) -> RowType]
  BY <1>1
<1>3. rows' \in Seq(RowType) /\ Len(rows') = Len(rows)
  BY <1>1, <1>2
<1> QED
  BY <1>1, <1>3 DEF RowsGrow

\* A worker at rest owes nothing.
LEMMA RestOK ==
  /\ NoJob \in JobType /\ NoJob.step = "rest"
  /\ \A k \in Workers : job'[k] = NoJob => JobOK(k)'
<1>1. NoJob.step = "rest"
  BY DEF NoJob
<1>2. NoChange \in ChangeType
  BY WalletsAssumption DEF NoChange, ChangeType, Balances, MaybeBalances
<1>3. NoJob \in JobType
  BY <1>2 DEF NoJob, JobType, NoRow, FailureCodes
<1> QED
  BY <1>1, <1>3 DEF JobOK, ClaimSteps, RefSteps, OwnerSteps

\* While a worker has the claim of a row, or finds it free, no other worker has.
LEMMA OnlyClaim ==
  ASSUME ResolverInv, NEW k \in Workers, job[k].step \in ClaimSteps \/ RowFree(job[k].id),
         NEW l \in Workers \ {k}, job[l].step \in ClaimSteps
  PROVE  job[l].id # job[k].id /\ job[l].id \in DOMAIN rows
<1>1. ClaimsApart /\ JobOK(l)
  BY DEF ResolverInv
<1> QED
  BY <1>1 DEF ClaimsApart, RowFree, JobOK, ClaimSteps

\* A worker rejects the row it claimed, or one that nobody has claimed.
LEMMA RejectRowStep ==
  ASSUME ResolverInv, NEW k \in Workers, job[k].step # "rest", NEW fc \in FailureCodes, RejectRow(k, fc),
         UNCHANGED <<balance, version, lock, ledger, inbox>>, UNCHANGED handlerVars, CountersTyped',
         job[k].step \in ClaimSteps \/ RowFree(job[k].id)
  PROVE  ResolverInv'
<1> DEFINE id == job[k].id
           r  == [rows[id] EXCEPT !.status = "REJECTED", !.failureCode = fc]
           ev == Event("WagerTransactionRejected", id, Job(k).wallet, NoBalance, 0)
<1>1. /\ TablesTyped /\ ReversalsInv /\ LedgerExplainsBalance /\ rows \in Seq(RowType) /\ JobsTyped /\ AttemptsLeft
      /\ RowsNameWallets /\ JobOK(k)
  BY DEF ResolverInv, IndInv, TypeOK, TablesTyped
<1>2. id \in DOMAIN rows /\ id \in Reversals /\ id \in Nat
  BY <1>1 DEF JobOK, Job, Reversals
<1>3. rows[id] \in RowType
  BY <1>1, <1>2
<1>4. /\ r \in RowType /\ r.req = rows[id].req /\ r.internalRef = rows[id].internalRef
      /\ r.attempts = rows[id].attempts /\ r.status = "REJECTED"
  BY <1>3 DEF RowType, Statuses
<1>5. rows' = [rows EXCEPT ![id] = r] /\ outbox' = Append(outbox, ev) /\ Works(k, NoJob)
  BY <1>2 DEF RejectRow, JobDone, SetJob, Works
<1>6. ev \in EventType
  BY <1>1, <1>2 DEF Event, EventType, EventTypes, MaybeBalances, RowsNameWallets, Job
<1> HIDE DEF r, ev
<1>7. /\ rows' \in Seq(RowType) /\ Len(rows') = Len(rows) /\ DOMAIN rows' = DOMAIN rows
      /\ rows'[id] = r /\ (\A i \in DOMAIN rows \ {id} : rows'[i] = rows[i]) /\ RowsGrow
  BY <1>1, <1>2, <1>4, <1>5, UpdatedRow
<1>8. TablesTyped' /\ LedgerExplainsBalance'
  <2>1. outbox' \in Seq(EventType)
    BY <1>1, <1>5, <1>6 DEF TablesTyped
  <2> QED
    BY <1>1, <1>7, <2>1 DEF TablesTyped, LedgerExplainsBalance, BalanceAfter
<1>9. ReversalsInv'
  BY <1>1, <1>2, <1>4, <1>7, StatusStep
<1>10. /\ k \notin Threads /\ UNCHANGED <<pc, localVars, out>> /\ JobsTyped'
       /\ job'[k] = NoJob /\ \A l \in Workers \ {k} : job'[l] = job[l]
  BY <1>5, RestOK, WorksFacts
<1>11. WalletsApart(k)
  BY DEF WalletsApart
<1>12. JobsApart(k)
  BY <1>7, <1>10, OnlyClaim DEF JobsApart
<1>13. JobOK(k)' /\ ClaimsFree(k)
  BY <1>10, RestOK DEF ClaimsFree, ClaimSteps
<1>14. AttemptsLeft'
  <2>1. \A i : Counting(i)' \subseteq Counting(i)
    BY <1>1, <1>5, RestOK, FewerCount DEF Works
  <2>2. \A i \in DOMAIN rows' : i \in DOMAIN rows /\ rows'[i].attempts = rows[i].attempts
    BY <1>4, <1>7
  <2> QED
    BY <1>1, <1>7, <2>1, <2>2, AttemptsSame
<1> QED
  BY <1>7, <1>8, <1>9, <1>10, <1>11, <1>12, <1>13, <1>14, OutsideStep

\* A worker counts an attempt of the row it claimed and gives the claim back.
LEMMA IncrementStep ==
  ASSUME ResolverInv, NEW k \in Workers, job[k].step = "lookup", ~AttemptsExhausted(k),
         IncrementRefAttempts(k), NEW j \in JobType, Works(k, j),
         j.step \in {"rest", "rejectAgain"}, JobOK(k)'
  PROVE  ResolverInv'
<1> DEFINE id == job[k].id
           r  == [rows[id] EXCEPT !.attempts = rows[id].attempts + 1]
<1>1. /\ TablesTyped /\ ReversalsInv /\ LedgerExplainsBalance /\ rows \in Seq(RowType) /\ JobsTyped /\ AttemptsLeft
      /\ JobOK(k)
  BY DEF ResolverInv, IndInv, TypeOK, TablesTyped
<1>2. id \in DOMAIN rows
  BY <1>1 DEF JobOK
<1>3. rows[id] \in RowType
  BY <1>1, <1>2
<1>4. /\ r \in RowType /\ r.req = rows[id].req /\ r.internalRef = rows[id].internalRef
      /\ r.attempts = rows[id].attempts + 1 /\ r.status = rows[id].status /\ rows[id].attempts \in Nat
  BY <1>3 DEF RowType
<1>5. rows' = [rows EXCEPT ![id] = r] /\ UNCHANGED <<balance, version, lock, ledger, outbox, inbox>>
  BY <1>2 DEF IncrementRefAttempts
<1> HIDE DEF r
<1>6. /\ rows' \in Seq(RowType) /\ Len(rows') = Len(rows) /\ DOMAIN rows' = DOMAIN rows
      /\ rows'[id] = r /\ (\A i \in DOMAIN rows \ {id} : rows'[i] = rows[i]) /\ RowsGrow
  BY <1>1, <1>2, <1>4, <1>5, UpdatedRow
<1>7. TablesTyped' /\ LedgerExplainsBalance'
  BY <1>1, <1>5, <1>6 DEF TablesTyped, LedgerExplainsBalance, BalanceAfter
<1>8. \A i \in DOMAIN rows : /\ rows'[i].req = rows[i].req /\ rows'[i].internalRef = rows[i].internalRef
                             /\ rows'[i].status = rows[i].status
  BY <1>4, <1>6
<1>9. ReversalsInv'
  BY <1>1, <1>5, <1>6, <1>8, StatusStep
<1>10. /\ k \notin Threads /\ UNCHANGED <<pc, localVars, out>> /\ JobsTyped' /\ CountersTyped'
       /\ job'[k] = j /\ \A l \in Workers \ {k} : job'[l] = job[l]
  BY WorksFacts
<1>11. WalletsApart(k)
  BY <1>5 DEF WalletsApart
<1>12. JobsApart(k)
  BY <1>6, <1>10, OnlyClaim DEF JobsApart, ClaimSteps
<1>13. ClaimsFree(k)
  BY <1>10 DEF ClaimsFree, ClaimSteps
<1>14. AttemptsLeft'
  <2>1. \A i : Counting(i)' \subseteq Counting(i)
    BY <1>1, FewerCount DEF Works
  <2> SUFFICES ASSUME NEW i \in DOMAIN rows'
               PROVE  rows'[i].attempts + Cardinality(Counting(i)') <= MaxRefAttempts + Cardinality(Workers) - 1
    BY DEF AttemptsLeft
  <2>2. i \in DOMAIN rows /\ rows[i] \in RowType
    BY <1>1, <1>6
  <2>3. rows[i].attempts + Cardinality(Counting(i)) <= MaxRefAttempts + Cardinality(Workers) - 1
    BY <1>1, <2>2 DEF AttemptsLeft
  <2>4. /\ rows[i].attempts \in Nat /\ MaxRefAttempts \in Nat /\ Cardinality(Workers) \in Nat
        /\ Cardinality(Counting(i)) \in Nat /\ IsFiniteSet(Counting(i))
    BY <2>2, CountingFacts, ResolverAssumption DEF RowType
  <2>5. CASE i # id
    <3>1. Cardinality(Counting(i)') <= Cardinality(Counting(i)) /\ Cardinality(Counting(i)') \in Nat
      BY <2>1, <2>4, FS_Subset, FS_CardinalityType
    <3>2. rows'[i].attempts = rows[i].attempts
      BY <1>6, <2>2, <2>5
    <3> QED
      BY <2>3, <2>4, <3>1, <3>2
  <2>6. CASE i = id
    <3>1. k \in Counting(i)
      <4>1. job[k] \in JobType
        BY <1>1 DEF JobsTyped
      <4>2. job[k].attempts \in Nat
        BY <4>1 DEF JobType
      <4>3. job[k].attempts < MaxRefAttempts
        BY <2>4, <4>2 DEF AttemptsExhausted
      <4> QED
        BY <2>6, <4>3 DEF Counting
    <3>2. Counting(i)' \in SUBSET (Counting(i) \ {k})
      BY <1>10, <2>1 DEF Counting
    <3>3. IsFiniteSet(Counting(i) \ {k}) /\ Cardinality(Counting(i) \ {k}) = Cardinality(Counting(i)) - 1
      BY <2>4, <3>1, FS_RemoveElement
    <3>4. Cardinality(Counting(i)') <= Cardinality(Counting(i)) - 1 /\ Cardinality(Counting(i)') \in Nat
      BY <3>2, <3>3, FS_Subset, FS_CardinalityType
    <3>5. rows'[i].attempts = rows[i].attempts + 1
      BY <1>4, <1>6, <2>6
    <3> QED
      BY <2>3, <2>4, <3>4, <3>5
  <2> QED
    BY <2>5, <2>6
<1> QED
  BY <1>6, <1>7, <1>9, <1>10, <1>11, <1>12, <1>13, <1>14, OutsideStep

\* A worker settles the row it claimed: it has no entry yet, and no other
\* successful reversal names the same transaction.
LEMMA SettledRow ==
  ASSUME ReversalsInv, rows \in Seq(RowType), ledger \in [Wallets -> Seq(EntryType)],
         NEW id \in Reversals, rows[id].status = "PENDING_REFERENCE",
         NEW r \in RowType, r.req = rows[id].req, r.status = "PROCESSED",
         ~HasSuccessfulReversal(r.internalRef), rows' = [rows EXCEPT ![id] = r],
         NEW w \in Wallets, NEW e, e.tx = id, ledger' = [ledger EXCEPT ![w] = Append(@, e)]
  PROVE  ReversalsInv'
<1>0. id \in DOMAIN rows /\ r.req.kind \in ReversalKinds
  BY DEF Reversals
<1>1. /\ rows' \in Seq(RowType) /\ Len(rows') = Len(rows) /\ DOMAIN rows' = DOMAIN rows
      /\ rows'[id] = r /\ (\A i \in DOMAIN rows \ {id} : rows'[i] = rows[i]) /\ RowsGrow
  BY <1>0, UpdatedRow
<1>2. Reversals' = Reversals /\ Reversals \subseteq DOMAIN rows
  <2>1. \A i \in DOMAIN rows : rows'[i].req = rows[i].req
    BY <1>1
  <2> QED
    BY <1>1, <2>1 DEF Reversals
<1>3. EnteredOnce /\ ~Entered(id) /\ id \in 1..Len(rows')
  BY <1>0, <1>1 DEF ReversalsInv, ReversalsEntered
<1>4. EnteredOnce' /\ \A i : Entered(i)' <=> Entered(i) \/ i = id
  <2>1. Len(rows') >= Len(rows)
    BY <1>1
  <2> QED
    BY <1>1, <1>3, <2>1, NewEntry
<1>5. WaitingRows'
  <2> SUFFICES ASSUME NEW i \in DOMAIN rows'
               PROVE  /\ i \in Reversals' => rows'[i].status \in {"PENDING_REFERENCE", "PROCESSED", "REJECTED"}
                      /\ rows'[i].status = "PENDING_REFERENCE" =>
                           i \in Reversals' /\ rows'[i].req.amount \in Balances
    BY DEF WaitingRows
  <2>1. CASE i = id
    BY <1>1, <2>1
  <2>2. CASE i # id
    <3>1. i \in DOMAIN rows /\ rows'[i] = rows[i]
      BY <1>1, <2>2
    <3> QED
      BY <1>2, <3>1 DEF ReversalsInv, WaitingRows
  <2> QED
    BY <2>1, <2>2
<1>6. ReversalsEntered'
  <2> SUFFICES ASSUME NEW i \in Reversals
               PROVE  /\ rows'[i].status = "PROCESSED" => Entered(i)'
                      /\ rows'[i].status = "PENDING_REFERENCE" => ~Entered(i)'
    BY <1>2 DEF ReversalsEntered
  <2>1. CASE i = id
    BY <1>1, <1>4, <2>1
  <2>2. CASE i # id
    <3>1. rows'[i] = rows[i]
      BY <1>1, <1>2, <2>2
    <3> QED
      BY <1>4, <2>2, <3>1 DEF ReversalsInv, ReversalsEntered
  <2> QED
    BY <2>1, <2>2
<1>7. ReversalIndex'
  <2> SUFFICES ASSUME NEW i \in Reversals, NEW j \in Reversals,
                      rows'[i].status = "PROCESSED", rows'[j].status = "PROCESSED",
                      rows'[i].internalRef = rows'[j].internalRef
               PROVE  i = j
    BY <1>2 DEF ReversalIndex
  <2>1. \A l \in Reversals : rows[l].status = "PROCESSED" => rows[l].internalRef # r.internalRef
    BY DEF HasSuccessfulReversal, Reversals
  <2>2. \A l \in Reversals : l = id \/ rows'[l] = rows[l]
    BY <1>1, <1>2
  <2> QED
    BY <1>1, <2>1, <2>2 DEF ReversalsInv, ReversalIndex
<1> QED
  BY <1>4, <1>5, <1>6, <1>7 DEF ReversalsInv

\* The commit of a worker keeps the invariant.
LEMMA ResolverCommitInv ==
  ASSUME ResolverInv, NEW k \in Workers, ResolverCommit(k)
  PROVE  ResolverInv'
<1> DEFINE id == job[k].id
           w  == Job(k).wallet
           c  == job[k].change
           amt == Job(k).amount
           r  == [rows[id] EXCEPT !.status = "PROCESSED", !.failureCode = "", !.internalRef = job[k].ref]
           e  == Entry(id, c.dir, amt, c.before, c.after)
           ev1 == Event("WagerTransactionProcessed", id, w, NoBalance, 0)
           ev2 == Event("WalletBalanceChanged", id, w, c.after, c.version)
<1>1. /\ TablesTyped /\ ReversalsInv /\ LedgerExplainsBalance /\ rows \in Seq(RowType) /\ JobsTyped /\ AttemptsLeft
      /\ RowsNameWallets /\ JobOK(k) /\ ledger \in [Wallets -> Seq(EntryType)] /\ IndInv
  BY DEF ResolverInv, IndInv, TypeOK, TablesTyped
<1>2. Works(k, NoJob) /\ job[k].step = "commit" /\ lock' = Released(k)
  BY <1>1, CounterFacts DEF ResolverCommit, JobDone, SetJob, Works, handlerVars
<1>3. CASE ReversalRefused(k)
  <2>1. UNCHANGED <<balance, version, rows, ledger, outbox, inbox>>
    BY <1>3 DEF ResolverCommit
  <2>2. JobOK(k)'
    BY <1>2, RestOK, WorksFacts
  <2> QED
    BY <1>2, <2>1, <2>2, RestOK, RollbackStep
<1>4. CASE ~ReversalRefused(k)
  <2>1. /\ id \in DOMAIN rows /\ id \in Reversals /\ rows[id].status = "PENDING_REFERENCE"
        /\ job[k].ref \in DOMAIN rows /\ WorkerOwns(k) /\ amt \in Balances /\ w \in Wallets
    BY <1>1, <1>2 DEF JobOK, Job, Reversals, ClaimSteps, RefSteps, OwnerSteps, RowsNameWallets
  <2>2. rows[id] \in RowType /\ id \in Nat /\ job[k].ref \in Nat /\ c \in ChangeType
    <3>1. job[k] \in JobType
      BY <1>1 DEF JobsTyped
    <3> QED
      BY <1>1, <2>1, <3>1 DEF JobType
  <2>3. /\ lock[w] = k /\ c.before = balance[w] /\ c.dir \in Directions /\ c.after \in Balances
        /\ c.version \in Nat /\ c.after = Moved(c, amt) /\ c.before \in Balances
    BY <1>2, <2>1, <2>2 DEF WorkerOwns, ChangeType
  <2>4. /\ r \in RowType /\ r.req = rows[id].req /\ r.internalRef = job[k].ref
        /\ r.attempts = rows[id].attempts /\ r.status = "PROCESSED"
    BY <2>2 DEF RowType, Statuses, FailureCodes
  <2>5. /\ e \in EntryType /\ e.tx = id /\ e.before = c.before /\ e.after = c.after /\ e.dir = c.dir
        /\ e.amount = amt
    BY <2>1, <2>2, <2>3 DEF Entry, EntryType
  <2>6. ev1 \in EventType /\ ev2 \in EventType
    BY <2>1, <2>2, <2>3 DEF Event, EventType, EventTypes, MaybeBalances
  <2>7. /\ balance' = [balance EXCEPT ![w] = c.after]
        /\ version' = [version EXCEPT ![w] = c.version]
        /\ rows' = ResolvedRows(k)
        /\ ledger' = [ledger EXCEPT ![w] = Append(@, e)]
        /\ outbox' = outbox \o <<ev1, ev2>>
        /\ UNCHANGED inbox
    BY <1>4 DEF ResolverCommit
  <2>8. rows' = [rows EXCEPT ![id] = r]
    BY <2>1, <2>7 DEF ResolvedRows
  <2> HIDE DEF r, e, ev1, ev2
  <2>9. /\ rows' \in Seq(RowType) /\ Len(rows') = Len(rows) /\ DOMAIN rows' = DOMAIN rows
        /\ rows'[id] = r /\ (\A i \in DOMAIN rows \ {id} : rows'[i] = rows[i]) /\ RowsGrow
    BY <1>1, <2>1, <2>4, <2>8, UpdatedRow
  <2>10. TablesTyped'
    <3>1. outbox' \in Seq(EventType)
      BY <1>1, <2>6, <2>7 DEF TablesTyped
    <3>2. balance' \in [Wallets -> Balances] /\ version' \in [Wallets -> Nat]
      BY <1>1, <2>3, <2>7 DEF TablesTyped
    <3>3. lock' \in [Wallets -> Threads \cup Workers \cup {NoThread}]
      BY <1>1, <1>2 DEF TablesTyped, Released
    <3>4. Append(ledger[w], e) \in Seq(EntryType)
      BY <1>1, <2>1, <2>5
    <3>5. ledger' \in [Wallets -> Seq(EntryType)]
      BY <1>1, <2>7, <3>4
    <3> QED
      BY <1>1, <2>7, <2>9, <3>1, <3>2, <3>3, <3>5 DEF TablesTyped
  <2>11. LedgerExplainsBalance'
    BY <1>1, <2>1, <2>3, <2>5, <2>7, LedgerAppend DEF Moved
  <2>12. ReversalsInv'
    BY <1>1, <1>4, <2>1, <2>4, <2>5, <2>7, <2>8, SettledRow DEF ReversalRefused
  <2>13. /\ k \notin Threads /\ UNCHANGED <<pc, localVars, out>> /\ JobsTyped' /\ CountersTyped'
         /\ job'[k] = NoJob /\ k # NoThread /\ \A l \in Workers \ {k} : job'[l] = job[l]
    BY <1>2, RestOK, WorksFacts
  <2>14. WalletsApart(k)
    BY <1>1, <1>2, <2>3, <2>7 DEF WalletsApart, Released, TablesTyped
  <2>15. JobsApart(k)
    BY <1>2, <2>9, <2>13, OnlyClaim DEF JobsApart, ClaimSteps
  <2>16. JobOK(k)' /\ ClaimsFree(k)
    BY <2>13, RestOK DEF ClaimsFree, ClaimSteps
  <2>17. AttemptsLeft'
    <3>1. \A i : Counting(i)' \subseteq Counting(i)
      BY <1>1, <1>2, RestOK, FewerCount DEF Works
    <3>2. \A i \in DOMAIN rows' : i \in DOMAIN rows /\ rows'[i].attempts = rows[i].attempts
      BY <2>4, <2>9
    <3> QED
      BY <1>1, <2>9, <3>1, <3>2, AttemptsSame
  <2> QED
    BY <2>9, <2>10, <2>11, <2>12, <2>13, <2>14, <2>15, <2>16, <2>17, OutsideStep
<1> QED
  BY <1>3, <1>4

\* The external writer holds and settles bets and wins, never a reversal.
LEMMA ExternalInv ==
  ASSUME ResolverInv, NEW id \in DOMAIN rows, Hold(id) \/ Settle(id)
  PROVE  ResolverInv'
<1>1. /\ TablesTyped /\ ReversalsInv /\ LedgerExplainsBalance /\ rows \in Seq(RowType) /\ JobsTyped /\ AttemptsLeft
      /\ IndInv
  BY DEF ResolverInv, IndInv, TypeOK, TablesTyped
<1>2. PICK s \in {"PENDING", "PROCESSED", "REJECTED"} : rows' = [rows EXCEPT ![id].status = s]
  BY DEF Hold, Settle
<1>3. id \notin Reversals
  <2>1. CASE Hold(id)
    BY <2>1 DEF Hold, Reversals, ReversalKinds
  <2>2. CASE Settle(id)
    BY <1>1, <2>2 DEF Settle, ReversalsInv, WaitingRows
  <2> QED
    BY <2>1, <2>2
<1>4. rows[id].status # "PENDING_REFERENCE"
  BY DEF Hold, Settle
<1>5. /\ UNCHANGED <<balance, version, lock, ledger, outbox, inbox, pc, localVars, out, job>>
      /\ CountersTyped' /\ JobsTyped'
  <2>1. UNCHANGED <<balance, version, lock, ledger, outbox, inbox, pc, localVars, out, job, received, faults>>
    BY DEF Hold, Settle, handlerVars
  <2>2. holds' \in 0..MaxHolds
    BY <1>1, ResolverAssumption DEF Hold, Settle, handlerVars, JobsTyped
  <2> QED
    BY <1>1, <2>1, <2>2, CounterFacts DEF JobsTyped
<1> DEFINE r == [rows[id] EXCEPT !.status = s]
<1>6. /\ r \in RowType /\ r.req = rows[id].req /\ r.internalRef = rows[id].internalRef
      /\ r.attempts = rows[id].attempts /\ r.status = s /\ rows' = [rows EXCEPT ![id] = r]
  <2>1. rows[id] \in RowType
    BY <1>1
  <2> QED
    BY <1>2, <2>1 DEF RowType, Statuses
<1> HIDE DEF r
<1>7. /\ rows' \in Seq(RowType) /\ Len(rows') = Len(rows) /\ DOMAIN rows' = DOMAIN rows
      /\ rows'[id] = r /\ (\A i \in DOMAIN rows \ {id} : rows'[i] = rows[i]) /\ RowsGrow
  BY <1>1, <1>6, UpdatedRow
<1>8. TablesTyped' /\ LedgerExplainsBalance'
  BY <1>1, <1>5, <1>7 DEF TablesTyped, LedgerExplainsBalance, BalanceAfter
<1>9. ReversalsInv'
  <2>1. \A i \in DOMAIN rows :
           /\ rows'[i].req = rows[i].req /\ rows'[i].internalRef = rows[i].internalRef
           /\ \/ rows'[i].status = rows[i].status
              \/ i \notin Reversals /\ rows'[i].status # "PENDING_REFERENCE"
    BY <1>3, <1>6, <1>7
  <2> QED
    BY <1>1, <1>5, <1>7, <2>1, StatusStep
<1>10. WalletsApart(NoThread)
  BY <1>5 DEF WalletsApart
<1>11. JobsApart(NoThread)
  <2>1. ASSUME NEW l \in Workers, job[l].step \in ClaimSteps
        PROVE  rows'[job[l].id].status = rows[job[l].id].status
    <3>1. job[l].id \in DOMAIN rows /\ rows[job[l].id].status = "PENDING_REFERENCE"
      BY <2>1 DEF ResolverInv, JobOK, ClaimSteps
    <3> QED
      BY <1>4, <1>7, <3>1
  <2> QED
    BY <1>5, <2>1 DEF JobsApart
<1>12. AttemptsLeft'
  <2>1. \A i : Counting(i)' \subseteq Counting(i)
    BY <1>5 DEF Counting
  <2>2. \A i \in DOMAIN rows' : i \in DOMAIN rows /\ rows'[i].attempts = rows[i].attempts
    BY <1>6, <1>7
  <2> QED
    BY <1>1, <1>7, <2>1, <2>2, AttemptsSame
<1>13. NoThread \notin Threads /\ NoThread \notin Workers
  BY NoThreadAssumption
<1> QED
  BY <1>5, <1>7, <1>8, <1>9, <1>10, <1>11, <1>12, <1>13, OutsideStep

-----------------------------------------------------------------------------
(***************************************************************************)
(* One lemma per action of a worker, or per group of the same shape.       *)
(***************************************************************************)

\* What a worker that is at work knows, in the types of its job.
LEMMA JobFacts ==
  ASSUME ResolverInv, NEW k \in Workers, job[k].step # "rest"
  PROVE  /\ job[k] \in JobType /\ JobOK(k) /\ IndInv
         /\ rows \in Seq(RowType) /\ job[k].id \in DOMAIN rows /\ rows[job[k].id] \in RowType
         /\ Job(k).wallet \in Wallets /\ Job(k).kind \in ReversalKinds /\ Job(k).amount \in Balances
<1>1. JobOK(k) /\ IndInv /\ rows \in Seq(RowType) /\ RowsNameWallets /\ job[k] \in JobType
  BY DEF ResolverInv, JobsTyped, IndInv, TypeOK, TablesTyped
<1>2. job[k].id \in DOMAIN rows /\ Job(k).kind \in ReversalKinds /\ Job(k).amount \in Balances
  BY <1>1 DEF JobOK
<1> QED
  BY <1>1, <1>2 DEF RowsNameWallets, Job

\* A worker that writes nothing and keeps the attempts it read.
LEMMA MovesOn ==
  ASSUME ResolverInv, NEW k \in Workers, NEW j \in JobType, Works(k, j), UNCHANGED dbVars,
         JobOK(k)', ClaimsFree(k),
         j.step \in {"claim", "lookup"} =>
           job[k].step \in {"claim", "lookup"} /\ j.id = job[k].id /\ j.attempts = job[k].attempts
  PROVE  ResolverInv'
<1>1. JobsTyped /\ AttemptsLeft /\ rows \in Seq(RowType)
  BY DEF ResolverInv, IndInv, TypeOK, TablesTyped
<1>2. \A id : Counting(id)' \subseteq Counting(id)
  BY <1>1, FewerCount DEF Works
<1>3. rows' = rows
  BY DEF dbVars
<1>4. AttemptsLeft'
  BY <1>1, <1>2, <1>3, AttemptsSame
<1> QED
  BY <1>4, ReadingStep

\* A worker that finds nothing to do goes to rest.
LEMMA GoesToRest ==
  ASSUME ResolverInv, NEW k \in Workers, JobDone(k), UNCHANGED dbVars, UNCHANGED handlerVars, CountersTyped'
  PROVE  ResolverInv'
<1>1. Works(k, NoJob)
  BY DEF JobDone, SetJob, Works
<1>2. JobOK(k)' /\ ClaimsFree(k)
  BY <1>1, RestOK, WorksFacts DEF ClaimsFree, ClaimSteps
<1> QED
  BY <1>1, <1>2, RestOK, MovesOn

\* TakePending preserves the invariant.
LEMMA TakePendingInv ==
  ASSUME ResolverInv, NEW k \in Workers, TakePending(k)
  PROVE  ResolverInv'
<1>1. PICK id \in DOMAIN rows : /\ rows[id].status = "PENDING_REFERENCE"
                                /\ SetJob(k, [NoJob EXCEPT !.step = "find", !.id = id])
  BY DEF TakePending
<1> DEFINE j == [NoJob EXCEPT !.step = "find", !.id = id]
<1>2. rows \in Seq(RowType) /\ IndInv /\ WaitingRows
  BY DEF ResolverInv, IndInv, TypeOK, TablesTyped, ReversalsInv
<1>3. id \in Nat /\ rows[id].req.kind \in ReversalKinds /\ rows[id].req.amount \in Balances
  BY <1>1, <1>2 DEF WaitingRows, Reversals
<1>4. j \in JobType /\ j.step = "find" /\ j.id = id
  BY <1>3, RestOK DEF JobType, NoJob
<1> HIDE DEF j
<1>5. Works(k, j) /\ UNCHANGED dbVars
  BY <1>1, <1>2, CounterFacts DEF TakePending, SetJob, Works, handlerVars, j
<1>6. job'[k] = j /\ rows' = rows
  BY <1>4, <1>5, WorksFacts DEF dbVars
<1>7. JobOK(k)'
  BY <1>1, <1>3, <1>4, <1>6 DEF JobOK, Job, ClaimSteps, RefSteps, OwnerSteps
<1>8. ClaimsFree(k)
  BY <1>4, <1>6 DEF ClaimsFree, ClaimSteps
<1> QED
  BY <1>4, <1>5, <1>7, <1>8, MovesOn

\* FindPending preserves the invariant: one more worker may count an attempt,
\* but only if the attempts it read are below the limit.
LEMMA FindPendingInv ==
  ASSUME ResolverInv, NEW k \in Workers, FindPending(k)
  PROVE  ResolverInv'
<1> DEFINE id == job[k].id
           j  == [job[k] EXCEPT !.step = "claim", !.attempts = rows[id].attempts]
<1>1. /\ job[k].step = "find" /\ job[k] \in JobType /\ JobOK(k) /\ rows \in Seq(RowType) /\ id \in DOMAIN rows
      /\ rows[id].attempts \in Nat /\ IndInv
  <2>1. job[k].step = "find"
    BY DEF FindPending
  <2> QED
    BY <2>1, JobFacts DEF RowType
<1>2. UNCHANGED dbVars /\ UNCHANGED handlerVars /\ CountersTyped' /\ rows' = rows
  BY <1>1, CounterFacts DEF FindPending, handlerVars, dbVars
<1>3. CASE JobDone(k)
  BY <1>2, <1>3, GoesToRest
<1>4. CASE SetJob(k, j)
  <2>1. j \in JobType /\ j.step = "claim" /\ j.id = id /\ j.attempts = rows[id].attempts
    BY <1>1 DEF JobType
  <2> HIDE DEF j
  <2>2. Works(k, j) /\ job' = [job EXCEPT ![k] = j]
    BY <1>2, <1>4 DEF SetJob, Works
  <2>3. job'[k] = j /\ \A l \in Workers \ {k} : job'[l] = job[l]
    BY <2>1, <2>2, WorksFacts
  <2>4. JobOK(k)'
    BY <1>1, <1>2, <2>1, <2>3 DEF JobOK, Job, ClaimSteps, RefSteps, OwnerSteps
  <2>5. ClaimsFree(k)
    BY <2>1, <2>3 DEF ClaimsFree, ClaimSteps
  <2>6. AttemptsLeft'
    <3> SUFFICES ASSUME NEW i \in DOMAIN rows
                 PROVE  rows[i].attempts + Cardinality(Counting(i)') <= MaxRefAttempts + Cardinality(Workers) - 1
      BY <1>2 DEF AttemptsLeft
    <3>1. rows[i].attempts + Cardinality(Counting(i)) <= MaxRefAttempts + Cardinality(Workers) - 1
      BY DEF ResolverInv, AttemptsLeft
    <3>2. /\ rows[i].attempts \in Nat /\ MaxRefAttempts \in Nat /\ Cardinality(Workers) \in Nat
          /\ Cardinality(Counting(i)) \in Nat /\ IsFiniteSet(Counting(i)) /\ IsFiniteSet(Workers)
      <4>1. rows[i] \in RowType
        BY <1>1
      <4> QED
        BY <4>1, CountingFacts, ResolverAssumption DEF RowType
    <3>3. CASE i = id /\ rows[i].attempts < MaxRefAttempts
      <4>1. Counting(i)' \in SUBSET Workers
        BY DEF Counting
      <4>2. Cardinality(Counting(i)') <= Cardinality(Workers) /\ Cardinality(Counting(i)') \in Nat
        BY <3>2, <4>1, FS_Subset, FS_CardinalityType
      <4> QED
        BY <3>2, <3>3, <4>2
    <3>4. CASE ~(i = id /\ rows[i].attempts < MaxRefAttempts)
      <4>1. Counting(i)' \in SUBSET Counting(i)
        BY <2>1, <2>3, <3>4 DEF Counting
      <4>2. Cardinality(Counting(i)') <= Cardinality(Counting(i)) /\ Cardinality(Counting(i)') \in Nat
        BY <3>2, <4>1, FS_Subset, FS_CardinalityType
      <4> QED
        BY <3>1, <3>2, <4>2
    <3> QED
      BY <3>3, <3>4
  <2> QED
    BY <1>2, <2>1, <2>2, <2>4, <2>5, <2>6, ReadingStep
<1> QED
  BY <1>3, <1>4 DEF FindPending

\* Claim preserves the invariant: the row was free and waits.
LEMMA ClaimInv ==
  ASSUME ResolverInv, NEW k \in Workers, Claim(k)
  PROVE  ResolverInv'
<1> DEFINE j == [job[k] EXCEPT !.step = "lookup"]
<1>1. /\ job[k].step = "claim" /\ job[k] \in JobType /\ JobOK(k) /\ IndInv
  BY JobFacts DEF Claim
<1>2. UNCHANGED dbVars /\ UNCHANGED handlerVars /\ CountersTyped' /\ rows' = rows /\ RowFree(job[k].id)
  BY <1>1, CounterFacts DEF Claim, handlerVars, dbVars
<1>3. CASE JobDone(k)
  BY <1>2, <1>3, GoesToRest
<1>4. CASE StillPending(job[k].id) /\ JobStep(k, "lookup")
  <2>1. j \in JobType /\ j.step = "lookup" /\ j.id = job[k].id /\ j.attempts = job[k].attempts
    BY <1>1 DEF JobType, ClaimSteps
  <2>2. Works(k, j)
    BY <1>2, <1>4 DEF JobStep, Works
  <2> HIDE DEF j
  <2>3. job'[k] = j
    BY <2>1, <2>2, WorksFacts
  <2>4. JobOK(k)'
    BY <1>1, <1>2, <1>4, <2>1, <2>3 DEF JobOK, Job, StillPending, ClaimSteps, RefSteps, OwnerSteps
  <2>5. ClaimsFree(k)
    BY <1>2, <2>1, <2>3 DEF ClaimsFree, RowFree
  <2> QED
    BY <1>1, <1>2, <2>1, <2>2, <2>4, <2>5, MovesOn
<1> QED
  BY <1>3, <1>4 DEF Claim

\* LookupReference preserves the invariant.
LEMMA LookupReferenceInv ==
  ASSUME ResolverInv, NEW k \in Workers, LookupReference(k)
  PROVE  ResolverInv'
<1>1. /\ job[k].step = "lookup" /\ job[k] \in JobType /\ JobOK(k) /\ IndInv /\ rows \in Seq(RowType)
      /\ job[k].id \in DOMAIN rows
  BY JobFacts DEF LookupReference
<1>2. UNCHANGED handlerVars /\ CountersTyped' /\ job[k].step \in ClaimSteps /\ job[k].step # "rest"
  BY <1>1, CounterFacts DEF LookupReference, handlerVars, ClaimSteps
<1>3. ASSUME NEW fc \in FailureCodes, ResolveReject(k, fc) PROVE ResolverInv'
  BY <1>2, <1>3, RejectRowStep DEF ResolveReject
<1>4. {"REFERENCE_NOT_FOUND", "REFERENCE_NOT_SUCCESSFUL"} \subseteq FailureCodes
  BY DEF FailureCodes
<1>5. CASE /\ ~AttemptsExhausted(k) /\ IncrementRefAttempts(k)
           /\ SetJob(k, [job[k] EXCEPT !.step = "rejectAgain", !.code = "REFERENCE_NOT_FOUND"])
  <2> DEFINE j == [job[k] EXCEPT !.step = "rejectAgain", !.code = "REFERENCE_NOT_FOUND"]
  <2>1. j \in JobType /\ j.step = "rejectAgain" /\ j.id = job[k].id
    BY <1>1, <1>4 DEF JobType
  <2>2. Works(k, j)
    BY <1>2, <1>5 DEF SetJob, Works
  <2> HIDE DEF j
  <2>3. job'[k] = j
    BY <2>1, <2>2, WorksFacts
  <2>4. DOMAIN rows' = DOMAIN rows /\ rows'[job[k].id].req = rows[job[k].id].req
    <3> DEFINE r == [rows[job[k].id] EXCEPT !.attempts = rows[job[k].id].attempts + 1]
    <3>1. rows[job[k].id] \in RowType
      BY <1>1
    <3>2. r.req = rows[job[k].id].req
      BY <3>1 DEF RowType
    <3>3. rows' = [rows EXCEPT ![job[k].id] = r]
      BY <1>5 DEF IncrementRefAttempts
    <3> HIDE DEF r
    <3> QED
      BY <1>1, <3>2, <3>3
  <2>5. JobOK(k)'
    BY <1>1, <2>1, <2>3, <2>4 DEF JobOK, Job, ClaimSteps, RefSteps, OwnerSteps
  <2> QED
    BY <1>1, <1>5, <2>1, <2>2, <2>5, IncrementStep
<1>6. CASE ~AttemptsExhausted(k) /\ IncrementRefAttempts(k) /\ JobDone(k)
  <2>1. Works(k, NoJob)
    BY <1>2, <1>6 DEF JobDone, SetJob, Works
  <2>2. JobOK(k)'
    BY <2>1, RestOK, WorksFacts
  <2> QED
    BY <1>1, <1>6, <2>1, <2>2, RestOK, IncrementStep
<1>7. ASSUME NEW id \in DOMAIN rows, UNCHANGED dbVars,
             SetJob(k, [job[k] EXCEPT !.step = "checkReversal", !.ref = id])
      PROVE  ResolverInv'
  <2> DEFINE j == [job[k] EXCEPT !.step = "checkReversal", !.ref = id]
  <2>1. j \in JobType /\ j.step = "checkReversal" /\ j.id = job[k].id /\ j.ref = id
    <3>1. id \in Nat
      BY <1>1
    <3> QED
      BY <1>1, <3>1 DEF JobType, ClaimSteps
  <2>2. Works(k, j)
    BY <1>2, <1>7 DEF SetJob, Works
  <2> HIDE DEF j
  <2>3. job'[k] = j /\ rows' = rows
    BY <1>7, <2>1, <2>2, WorksFacts DEF dbVars
  <2>4. JobOK(k)'
    BY <1>1, <2>1, <2>3 DEF JobOK, Job, ClaimSteps, RefSteps, OwnerSteps
  <2>5. ClaimsFree(k)
    BY <1>2, <2>1, <2>3 DEF ClaimsFree
  <2> QED
    BY <1>7, <2>1, <2>2, <2>4, <2>5, MovesOn
<1> DEFINE found == FindByProviderAndExternalID(Job(k).provider, Job(k).ref)
<1>8. CASE AttemptsExhausted(k)
  BY <1>3, <1>4, <1>8 DEF LookupReference
<1>9. CASE ~AttemptsExhausted(k) /\ found = {}
  BY <1>5, <1>9 DEF LookupReference
<1>10. CASE ~AttemptsExhausted(k) /\ found # {}
  <2>1. PICK id \in found :
          CASE rows[id].status \in {"PENDING", "PENDING_REFERENCE"} ->
                 IncrementRefAttempts(k) /\ JobDone(k)
            [] rows[id].status \in {"REJECTED", "FAILED"} ->
                 ResolveReject(k, "REFERENCE_NOT_SUCCESSFUL")
            [] rows[id].status = "PROCESSED" ->
                 /\ SetJob(k, [job[k] EXCEPT !.step = "checkReversal", !.ref = id])
                 /\ UNCHANGED dbVars
    BY <1>10 DEF LookupReference
  <2>2. id \in DOMAIN rows
    BY DEF FindByProviderAndExternalID
  <2>3. rows[id] \in RowType
    BY <1>1, <2>2
  <2>4. rows[id].status \in {"PENDING", "PENDING_REFERENCE", "PROCESSED", "REJECTED", "FAILED"}
    BY <2>3 DEF RowType, Statuses
  <2>5. CASE rows[id].status \in {"PENDING", "PENDING_REFERENCE"}
    BY <1>6, <1>10, <2>1, <2>5
  <2>6. CASE rows[id].status \in {"REJECTED", "FAILED"}
    BY <1>3, <1>4, <2>1, <2>6
  <2>7. CASE rows[id].status = "PROCESSED"
    BY <1>7, <2>1, <2>2, <2>7
  <2> QED
    BY <2>4, <2>5, <2>6, <2>7
<1> QED
  BY <1>8, <1>9, <1>10

\* The value and type checks of a reversal preserve the invariant.
LEMMA AfterResolverCheckInv ==
  ASSUME ResolverInv, NEW k \in Workers, job[k].step = "checkReversal", AfterResolverCheck(k),
         UNCHANGED handlerVars, CountersTyped'
  PROVE  ResolverInv'
<1>1. job[k] \in JobType /\ JobOK(k) /\ job[k].step \in ClaimSteps /\ job[k].step # "rest"
  BY JobFacts DEF ClaimSteps
<1>2. ASSUME NEW fc \in FailureCodes, ResolveReject(k, fc) PROVE ResolverInv'
  BY <1>1, <1>2, RejectRowStep DEF ResolveReject
<1>3. {"REVERSAL_VALUE_MISMATCH", "INVALID_REFERENCE_TYPE"} \subseteq FailureCodes
  BY DEF FailureCodes
<1>4. CASE JobDirection(k) # "none" /\ JobStep(k, "lockWallet") /\ UNCHANGED dbVars
  <2> DEFINE j == [job[k] EXCEPT !.step = "lockWallet"]
  <2>1. j \in JobType /\ j.step = "lockWallet" /\ j.id = job[k].id /\ j.ref = job[k].ref
    BY <1>1 DEF JobType, ClaimSteps
  <2>2. Works(k, j)
    BY <1>4 DEF JobStep, Works
  <2> HIDE DEF j
  <2>3. job'[k] = j /\ rows' = rows
    BY <1>4, <2>1, <2>2, WorksFacts DEF dbVars
  <2>4. JobDirection(k) \in Directions
    BY <1>4, DirectionFacts DEF JobDirection
  <2>5. JobDirection(k)' = JobDirection(k)
    BY <2>1, <2>3 DEF JobDirection, Job, Direction
  <2>6. JobOK(k)'
    BY <1>1, <2>1, <2>3, <2>4, <2>5 DEF JobOK, Job, ClaimSteps, RefSteps, OwnerSteps
  <2>7. ClaimsFree(k)
    BY <1>1, <2>1, <2>3 DEF ClaimsFree
  <2> QED
    BY <1>4, <2>1, <2>2, <2>6, <2>7, MovesOn
<1> DEFINE same == Job(k).amount = rows[job[k].ref].req.amount
<1>5. CASE ~same
  BY <1>2, <1>3, <1>5 DEF AfterResolverCheck
<1>6. CASE same /\ JobDirection(k) = "none"
  BY <1>2, <1>3, <1>6 DEF AfterResolverCheck
<1>7. CASE same /\ JobDirection(k) # "none"
  BY <1>4, <1>7 DEF AfterResolverCheck
<1> QED
  BY <1>5, <1>6, <1>7

\* ResolverCheckReversal and its failure preserve the invariant.
LEMMA ResolverCheckInv ==
  ASSUME ResolverInv, NEW k \in Workers, ResolverCheckReversal(k) \/ ResolverCheckReversalFails(k)
  PROVE  ResolverInv'
<1>1. job[k].step = "checkReversal" /\ IndInv
  BY DEF ResolverCheckReversal, ResolverCheckReversalFails, ResolverInv
<1>2. UNCHANGED handlerVars /\ CountersTyped' /\ job[k].step \in ClaimSteps /\ job[k].step # "rest"
  BY <1>1, CounterFacts DEF ResolverCheckReversal, ResolverCheckReversalFails, handlerVars, ClaimSteps
<1>3. "DOUBLE_REVERSAL" \in FailureCodes
  BY DEF FailureCodes
<1>4. ResolveReject(k, "DOUBLE_REVERSAL") \/ AfterResolverCheck(k)
  BY DEF ResolverCheckReversal, ResolverCheckReversalFails
<1> QED
  BY <1>1, <1>2, <1>3, <1>4, RejectRowStep, AfterResolverCheckInv DEF ResolveReject

\* The wallet service failed: the claim is rolled back with the transaction.
LEMMA ResolverWalletFailsInv ==
  ASSUME ResolverInv, NEW k \in Workers, job[k].step # "rest", NEW err, ResolverWalletFails(k, err),
         UNCHANGED handlerVars, CountersTyped'
  PROVE  ResolverInv'
<1> DEFINE fc == FailureCode(Job(k).kind, err)
           j  == [job[k] EXCEPT !.step = "rejectAgain", !.change = NoChange, !.code = fc]
<1>1. job[k] \in JobType /\ JobOK(k) /\ NoChange \in ChangeType /\ fc \in FailureCodes
  <2>1. NoChange \in ChangeType
    BY WalletsAssumption DEF NoChange, ChangeType, Balances, MaybeBalances
  <2> QED
    BY <2>1, JobFacts, FailureCodeFacts
<1>2. SetJob(k, j) /\ lock' = Released(k) /\ UNCHANGED <<balance, version, rows, ledger, outbox, inbox>>
  BY DEF ResolverWalletFails
<1> HIDE DEF fc
<1>3. j \in JobType /\ j.step = "rejectAgain" /\ j.id = job[k].id
  BY <1>1 DEF JobType
<1> HIDE DEF j
<1>4. Works(k, j)
  BY <1>2 DEF SetJob, Works
<1>5. job'[k] = j
  BY <1>3, <1>4, WorksFacts
<1>6. JobOK(k)'
  BY <1>1, <1>2, <1>3, <1>5 DEF JobOK, Job, ClaimSteps, RefSteps, OwnerSteps
<1> QED
  BY <1>2, <1>3, <1>4, <1>6, RollbackStep

\* ResolverLockWallet preserves the invariant: the lock was free.
LEMMA ResolverLockWalletInv ==
  ASSUME ResolverInv, NEW k \in Workers, ResolverLockWallet(k)
  PROVE  ResolverInv'
<1> DEFINE w == Job(k).wallet
           c == [before |-> balance[w], after |-> NoBalance, version |-> version[w], dir |-> JobDirection(k)]
           j == [job[k] EXCEPT !.step = "updateBalance", !.change = c]
<1>1. /\ job[k].step = "lockWallet" /\ job[k] \in JobType /\ JobOK(k) /\ IndInv /\ TablesTyped /\ w \in Wallets
      /\ rows \in Seq(RowType)
  BY JobFacts DEF ResolverLockWallet, IndInv, TypeOK
<1>2. /\ UNCHANGED handlerVars /\ CountersTyped' /\ lock[w] = NoThread /\ lock' = [lock EXCEPT ![w] = k]
      /\ UNCHANGED <<balance, version, rows, ledger, outbox, inbox>> /\ SetJob(k, j)
  BY <1>1, CounterFacts DEF ResolverLockWallet, Lockable, handlerVars
<1>3. JobDirection(k) \in Directions
  BY <1>1 DEF JobOK
<1>4. c \in ChangeType /\ c.before = balance[w] /\ c.version = version[w] /\ c.dir \in Directions
  BY <1>1, <1>3 DEF ChangeType, MaybeBalances, TablesTyped
<1> HIDE DEF c
<1>5. j \in JobType /\ j.step = "updateBalance" /\ j.id = job[k].id /\ j.ref = job[k].ref /\ j.change = c
  BY <1>1, <1>4 DEF JobType, ClaimSteps
<1> HIDE DEF j
<1>6. Works(k, j)
  BY <1>2 DEF SetJob, Works
<1>7. /\ k \notin Threads /\ k # NoThread /\ UNCHANGED <<pc, localVars, out>> /\ JobsTyped' /\ job'[k] = j
      /\ \A l \in Workers \ {k} : job'[l] = job[l]
  BY <1>5, <1>6, WorksFacts
<1>8. Job(k)' = Job(k) /\ JobDirection(k)' = JobDirection(k)
  BY <1>2, <1>5, <1>7 DEF JobDirection, Job, Direction
<1>9. JobOK(k)'
  <2>1. WorkerOwns(k)'
    BY <1>1, <1>2, <1>4, <1>5, <1>7, <1>8 DEF WorkerOwns, TablesTyped
  <2> QED
    BY <1>1, <1>2, <1>3, <1>5, <1>7, <1>8, <2>1 DEF JobOK, ClaimSteps, RefSteps, OwnerSteps
<1>10. WalletsApart(k) /\ RowsGrow
  BY <1>1, <1>2 DEF WalletsApart, TablesTyped, RowsGrow
<1>11. JobsApart(k) /\ ClaimsFree(k)
  BY <1>1, <1>2, <1>5, <1>7 DEF JobsApart, ClaimsFree, ClaimSteps
<1>12. TablesTyped' /\ LedgerExplainsBalance'
  BY <1>1, <1>2 DEF IndInv, TablesTyped, LedgerExplainsBalance, BalanceAfter
<1>13. ReversalsInv'
  BY <1>1, <1>2, StatusStep DEF ResolverInv
<1>14. AttemptsLeft'
  <2>1. \A i : Counting(i)' \subseteq Counting(i)
    BY <1>5, <1>6, FewerCount DEF Works, ResolverInv
  <2> QED
    BY <1>1, <1>2, <2>1, AttemptsSame DEF ResolverInv
<1> QED
  BY <1>2, <1>7, <1>9, <1>10, <1>11, <1>12, <1>13, <1>14, OutsideStep

\* ResolverUpdateBalance preserves the invariant.
LEMMA ResolverUpdateBalanceInv ==
  ASSUME ResolverInv, NEW k \in Workers, ResolverUpdateBalance(k)
  PROVE  ResolverInv'
<1> DEFINE c == job[k].change
           amt == Job(k).amount
           a == Applied(c, amt)
           j == [job[k] EXCEPT !.step = "commit", !.change = a]
<1>1. /\ job[k].step = "updateBalance" /\ job[k] \in JobType /\ JobOK(k) /\ IndInv /\ amt \in Balances
      /\ job[k].step # "rest"
  BY JobFacts DEF ResolverUpdateBalance
<1>2. UNCHANGED handlerVars /\ CountersTyped'
  BY <1>1, CounterFacts DEF ResolverUpdateBalance, handlerVars
<1>3. CASE \E err : ResolverWalletFails(k, err)
  BY <1>1, <1>2, <1>3, ResolverWalletFailsInv
<1>4. CASE WalletError(c.before, c.dir, amt) = "" /\ SetJob(k, j) /\ UNCHANGED dbVars
  <2>1. WorkerOwns(k) /\ c \in ChangeType /\ c.dir \in Directions
    BY <1>1 DEF JobOK, OwnerSteps, JobType, WorkerOwns
  <2>2. c.before \in Balances
    BY <2>1 DEF ChangeType
  <2>3. Moved(c, amt) \in Balances
    BY <1>1, <1>4, <2>1, <2>2, MovedFacts
  <2>4. a \in ChangeType /\ a.before = c.before /\ a.dir = c.dir /\ a.version = c.version + 1
        /\ a.after = Moved(c, amt)
    BY <1>1, <2>1, <2>3, AppliedFacts
  <2> HIDE DEF a
  <2>5. j \in JobType /\ j.step = "commit" /\ j.id = job[k].id /\ j.ref = job[k].ref /\ j.change = a
    BY <1>1, <2>4 DEF JobType, ClaimSteps
  <2> HIDE DEF j
  <2>6. Works(k, j)
    BY <1>2, <1>4 DEF SetJob, Works
  <2>7. job'[k] = j /\ UNCHANGED <<lock, rows, balance, version>>
    BY <1>4, <2>5, <2>6, WorksFacts DEF dbVars
  <2>8. Job(k)' = Job(k) /\ JobDirection(k)' = JobDirection(k)
    BY <2>5, <2>7 DEF JobDirection, Job, Direction
  <2>9. WorkerOwns(k)'
    BY <1>1, <2>1, <2>3, <2>4, <2>5, <2>7, <2>8 DEF WorkerOwns, Moved
  <2>10. JobOK(k)'
    BY <1>1, <2>5, <2>7, <2>8, <2>9 DEF JobOK, ClaimSteps, RefSteps, OwnerSteps
  <2>11. ClaimsFree(k)
    BY <1>1, <2>5, <2>7 DEF ClaimsFree, ClaimSteps
  <2> QED
    BY <1>4, <2>5, <2>6, <2>10, <2>11, MovesOn
<1> QED
  BY <1>3, <1>4 DEF ResolverUpdateBalance

\* RejectAgain preserves the invariant: it waits until nobody has the claim.
LEMMA RejectAgainInv ==
  ASSUME ResolverInv, NEW k \in Workers, RejectAgain(k)
  PROVE  ResolverInv'
<1>1. job[k].step = "rejectAgain" /\ job[k] \in JobType /\ IndInv
  BY JobFacts DEF RejectAgain
<1>2. job[k].code \in FailureCodes /\ CountersTyped' /\ UNCHANGED handlerVars
  BY <1>1, CounterFacts DEF RejectAgain, handlerVars, JobType
<1> QED
  BY <1>1, <1>2, RejectRowStep DEF RejectAgain

\* The failures of a worker preserve the invariant.
LEMMA ResolverFaultInv ==
  ASSUME ResolverInv, NEW k \in Workers, ResolverWalletCallFails(k) \/ ResolverFails(k)
  PROVE  ResolverInv'
<1>1. IndInv /\ job[k].step # "rest"
  BY DEF ResolverInv, ResolverWalletCallFails, ResolverFails
<1>2. CountersTyped' /\ UNCHANGED handlerVars
  BY <1>1, CounterFacts DEF ResolverWalletCallFails, ResolverFails, handlerVars
<1>3. CASE ResolverWalletCallFails(k)
  BY <1>1, <1>2, <1>3, ResolverWalletFailsInv DEF ResolverWalletCallFails
<1>4. CASE ResolverFails(k)
  <2>1. Works(k, NoJob)
    BY <1>2, <1>4 DEF ResolverFails, JobDone, SetJob, Works
  <2>2. JobOK(k)'
    BY <2>1, RestOK, WorksFacts
  <2> QED
    BY <1>4, <2>1, <2>2, RestOK, RollbackStep DEF ResolverFails
<1> QED
  BY <1>3, <1>4

-----------------------------------------------------------------------------
(***************************************************************************)
(* The invariant, and what it says.                                        *)
(***************************************************************************)

\* Initially no reversal exists and every worker rests.
LEMMA ResolverInitInv == ResolverInit => ResolverInv
<1> SUFFICES ASSUME ResolverInit PROVE ResolverInv
  OBVIOUS
<1>1. IndInv
  BY InitInv DEF ResolverInit
<1>2. rows = <<>> /\ holds = 0 /\ job = [k \in Workers |-> NoJob] /\ DOMAIN rows = {} /\ Len(rows) = 0
  <2>1. rows = <<>>
    BY DEF ResolverInit, Init
  <2>2. DOMAIN rows = {} /\ Len(rows) = 0
    BY <2>1
  <2> QED
    BY <2>1, <2>2 DEF ResolverInit
<1>3. JobsTyped
  <2>1. NoJob \in JobType
    BY RestOK
  <2>2. 0 \in 0..MaxHolds
    BY ResolverAssumption
  <2> QED
    BY <1>2, <2>1, <2>2 DEF JobsTyped
<1>4. (\A k \in Workers : JobOK(k)) /\ ClaimsApart
  <2>1. \A k \in Workers : job[k].step = "rest"
    BY <1>2, RestOK
  <2> QED
    BY <2>1 DEF JobOK, ClaimsApart, ClaimSteps, RefSteps, OwnerSteps
<1>5. ASSUME NEW w \in Wallets, NEW i \in DOMAIN ledger[w]
      PROVE  i = 1 /\ ledger[w][i].tx = OpeningTx
  <2> DEFINE e == Entry(OpeningTx, "CREDIT", OpeningBalance[w], 0, OpeningBalance[w])
  <2>1. ledger[w] = IF OpeningBalance[w] = 0 THEN <<>> ELSE <<e>>
    BY DEF ResolverInit, Init
  <2>2. e.tx = OpeningTx
    BY DEF Entry
  <2> HIDE DEF e
  <2>3. ledger[w] = <<e>> /\ i = 1
    BY <1>5, <2>1
  <2> QED
    BY <2>2, <2>3
<1>6. EnteredOnce
  BY <1>2, <1>5 DEF EnteredOnce, OpeningTx
<1>7. WaitingRows /\ ReversalsEntered /\ ReversalIndex /\ AttemptsLeft
  BY <1>2 DEF WaitingRows, ReversalsEntered, ReversalIndex, AttemptsLeft, Reversals
<1> QED
  BY <1>1, <1>3, <1>4, <1>6, <1>7 DEF ResolverInv, ReversalsInv

\* A step that changes nothing keeps the invariant.
LEMMA ResolverStutterInv ==
  ASSUME ResolverInv, UNCHANGED rvars
  PROVE  ResolverInv'
<1>1. UNCHANGED vars /\ job' = job /\ holds' = holds
  BY DEF rvars
<1>2. rows' = rows /\ ledger' = ledger /\ lock' = lock /\ balance' = balance /\ version' = version
  BY <1>1 DEF vars, dbVars
<1>3. IndInv'
  BY <1>1, StutterInv DEF ResolverInv
<1>4. JobsTyped' /\ ClaimsApart'
  BY <1>1 DEF ResolverInv, JobsTyped, ClaimsApart
<1>5. \A k \in Workers : JobOK(k)'
  BY <1>1, <1>2 DEF ResolverInv, JobOK, Job, JobDirection, WorkerOwns, Direction
<1>6. ReversalsInv'
  BY <1>2, StatusStep DEF ResolverInv, IndInv, TypeOK, TablesTyped
<1>7. AttemptsLeft'
  BY <1>1, <1>2 DEF ResolverInv, AttemptsLeft, Counting
<1> QED
  BY <1>3, <1>4, <1>5, <1>6, <1>7 DEF ResolverInv

\* Every step keeps the invariant.
LEMMA ResolverNextInv == ResolverInv /\ [ResolverNext]_rvars => ResolverInv'
<1> SUFFICES ASSUME ResolverInv, [ResolverNext]_rvars PROVE ResolverInv'
  OBVIOUS
<1>1. CASE UNCHANGED rvars
  BY <1>1, ResolverStutterInv
<1>2. CASE Next /\ UNCHANGED <<job, holds>>
  <2>1. CASE Quiescent
    BY <1>2, <2>1, ResolverStutterInv DEF Quiescent, rvars
  <2>2. ASSUME NEW t \in Threads, ActsFor(t) PROVE ResolverInv'
    BY <1>2, <2>2, HandlerStepInv DEF HandlerActs
  <2> QED
    BY <1>2, <2>1, <2>2 DEF Next, ActsFor
<1>3. ASSUME NEW t \in Threads, StorePendingReference(t) PROVE ResolverInv'
  BY <1>3, HandlerStepInv DEF StorePendingReference, HandlerActs
<1>4. ASSUME NEW k \in Workers, ResolverStep(k) PROVE ResolverInv'
  BY <1>4, TakePendingInv, FindPendingInv, ClaimInv, LookupReferenceInv, ResolverCheckInv,
     ResolverLockWalletInv, ResolverUpdateBalanceInv, ResolverCommitInv, RejectAgainInv
     DEF ResolverStep
<1>5. ASSUME NEW k \in Workers, ResolverFault(k) PROVE ResolverInv'
  BY <1>5, ResolverCheckInv, ResolverFaultInv DEF ResolverFault
<1>6. ASSUME NEW id \in DOMAIN rows, Hold(id) \/ Settle(id) PROVE ResolverInv'
  BY <1>6, ExternalInv
<1> QED
  BY <1>1, <1>2, <1>3, <1>4, <1>5, <1>6 DEF ResolverNext

\* The inductive invariant of handlers, workers and the external writer.
THEOREM ResolverInvariance == ResolverSpec => []ResolverInv
  BY ResolverInitInv, ResolverNextInv, PTL DEF ResolverSpec

\* Type correctness with workers: no resolved reversal makes a balance negative
\* or larger than money.Money holds.
THEOREM ResolverTypes == ResolverSpec => []ResolverTypeOK
<1>1. ResolverInv => ResolverTypeOK
  BY DEF ResolverInv, IndInv, TypeOK, TablesTyped, JobsTyped, ResolverTypeOK
<1> QED
  BY <1>1, ResolverInvariance, PTL

\* The ledger stays an unbroken chain that ends at the balance when workers
\* write to it beside the handlers.
THEOREM ResolverLedgerSound == ResolverSpec => []LedgerExplainsBalance
<1>1. ResolverInv => LedgerExplainsBalance
  BY DEF ResolverInv, IndInv
<1> QED
  BY <1>1, ResolverInvariance, PTL

\* A ledger has at most one entry more than there are transactions: each entry
\* names its own, or the opening.
LEMMA LedgerBounded ==
  ASSUME ledger \in [Wallets -> Seq(EntryType)], rows \in Seq(RowType), EnteredOnce, NEW w \in Wallets
  PROVE  Len(ledger[w]) <= Len(rows) + 1
<1> DEFINE n == Len(rows)
           m == Len(ledger[w])
           tx == [i \in 1..m |-> ledger[w][i].tx]
<1>1. n \in Nat /\ m \in Nat /\ DOMAIN ledger[w] = 1..m
  OBVIOUS
<1>2. tx \in [1..m -> 0..n]
  BY <1>1 DEF EnteredOnce
<1>3. \A i, j \in 1..m : tx[i] = tx[j] => i = j
  BY <1>1 DEF EnteredOnce
<1>4. tx \in Injection(1..m, 0..n)
  BY <1>2, <1>3 DEF Injection, IsInjective
<1> HIDE DEF n, m, tx
<1>5. Cardinality(1..m) <= Cardinality(0..n)
  BY <1>1, <1>4, FS_Interval, FS_Injection
<1>6. Cardinality(1..m) = m
  <2>1. m \in Int /\ 1 \in Int /\ (1 > m => m = 0)
    BY <1>1
  <2>2. Cardinality(1..m) = IF 1 > m THEN 0 ELSE m - 1 + 1
    BY <2>1, FS_Interval
  <2> QED
    BY <2>1, <2>2
<1>7. Cardinality(0..n) = n + 1
  BY <1>1, FS_Interval
<1> QED
  BY <1>5, <1>6, <1>7 DEF n, m

\* EntriesOf finds exactly the entries of a transaction, of which there is at
\* most one.
LEMMA EntriesFacts ==
  ASSUME ResolverInv, NEW id \in DOMAIN rows
  PROVE  /\ EntriesOf(id) # {} <=> Entered(id)
         /\ Cardinality(EntriesOf(id)) <= 1
<1>1. /\ ledger \in [Wallets -> Seq(EntryType)] /\ rows \in Seq(RowType) /\ EnteredOnce
      /\ id # OpeningTx
  BY DEF ResolverInv, IndInv, TypeOK, TablesTyped, ReversalsInv, OpeningTx
<1>2. EntriesOf(id) # {} => Entered(id)
  BY DEF EntriesOf, Entered
<1>3. ASSUME Entered(id) PROVE EntriesOf(id) # {}
  <2>1. PICK w \in Wallets : \E i \in DOMAIN ledger[w] : ledger[w][i].tx = id
    BY <1>3 DEF Entered
  <2>2. PICK i \in DOMAIN ledger[w] : ledger[w][i].tx = id
    BY <2>1
  <2>3. i \in 1..Len(rows) + 1
    BY <1>1, LedgerBounded
  <2>4. <<w, i>> \in EntriesOf(id)
    BY <2>2, <2>3 DEF EntriesOf
  <2> QED
    BY <2>4
<1>4. ASSUME NEW p \in EntriesOf(id), NEW q \in EntriesOf(id) PROVE p = q
  <2>1. /\ p[1] \in Wallets /\ p[2] \in DOMAIN ledger[p[1]] /\ ledger[p[1]][p[2]].tx = id
        /\ q[1] \in Wallets /\ q[2] \in DOMAIN ledger[q[1]] /\ ledger[q[1]][q[2]].tx = id
        /\ p = <<p[1], p[2]>> /\ q = <<q[1], q[2]>>
    BY DEF EntriesOf
  <2>2. p[1] = q[1] /\ p[2] = q[2]
    BY <1>1, <2>1 DEF EnteredOnce
  <2> QED
    BY <2>1, <2>2
<1>5. Cardinality(EntriesOf(id)) <= 1
  <2>1. CASE EntriesOf(id) = {}
    BY <2>1, FS_EmptySet
  <2>2. CASE EntriesOf(id) # {}
    <3>1. PICK p : EntriesOf(id) = {p}
      BY <1>4, <2>2
    <3> QED
      BY <3>1, FS_Singleton
  <2> QED
    BY <2>1, <2>2
<1> QED
  BY <1>2, <1>3, <1>5

\* A reversal moves money once at most, however many workers and handlers deal
\* with it: a processed one has its entry, a waiting one has none.
THEOREM ResolvedOnce == ResolverSpec => []ReversalsSettledOnce
<1>1. ASSUME ResolverInv PROVE ReversalsSettledOnce
  <2> SUFFICES ASSUME NEW id \in Reversals
               PROVE  /\ Cardinality(EntriesOf(id)) <= 1
                      /\ rows[id].status = "PROCESSED" => EntriesOf(id) # {}
                      /\ rows[id].status = "PENDING_REFERENCE" => EntriesOf(id) = {}
    BY DEF ReversalsSettledOnce
  <2>1. id \in DOMAIN rows /\ ReversalsEntered
    BY <1>1 DEF Reversals, ResolverInv, ReversalsInv
  <2> QED
    BY <1>1, <2>1, EntriesFacts DEF ReversalsEntered
<1> QED
  BY <1>1, ResolverInvariance, PTL

\* Two reversals move the money of one transaction only after a status was
\* overwritten: the unique index on successful reversals does the rest.
THEOREM DoubleNeedsOverwrite == ResolverSpec => []SecondReversalNeedsOverwrite
<1>1. ASSUME ResolverInv PROVE SecondReversalNeedsOverwrite
  <2> SUFFICES ASSUME NEW i \in Reversals, NEW j \in Reversals, MovedTwice(i, j)
               PROVE  "REJECTED" \in {rows[i].status, rows[j].status}
    BY DEF SecondReversalNeedsOverwrite
  <2>1. /\ i \in DOMAIN rows /\ j \in DOMAIN rows
        /\ WaitingRows /\ ReversalsEntered /\ ReversalIndex
    BY <1>1 DEF Reversals, ResolverInv, ReversalsInv
  <2>2. Entered(i) /\ Entered(j) /\ i # j /\ rows[i].internalRef = rows[j].internalRef
    BY <1>1, <2>1, EntriesFacts DEF MovedTwice
  <2> QED
    BY <2>1, <2>2 DEF WaitingRows, ReversalsEntered, ReversalIndex
<1> QED
  BY <1>1, ResolverInvariance, PTL

\* ref_attempts passes its limit by one per worker beyond the first, and no more.
THEOREM AttemptsWithinLimit == ResolverSpec => []AttemptsBounded
<1>1. ASSUME ResolverInv PROVE AttemptsBounded
  <2> SUFFICES ASSUME NEW id \in DOMAIN rows
               PROVE  rows[id].attempts <= MaxRefAttempts + Cardinality(Workers) - 1
    BY DEF AttemptsBounded
  <2>1. rows[id].attempts + Cardinality(Counting(id)) <= MaxRefAttempts + Cardinality(Workers) - 1
    BY <1>1 DEF ResolverInv, AttemptsLeft
  <2>2. rows[id] \in RowType
    BY <1>1 DEF ResolverInv, IndInv, TypeOK, TablesTyped
  <2>3. rows[id].attempts \in Nat
    BY <2>2 DEF RowType
  <2> QED
    BY <2>1, <2>3, CountingFacts, ResolverAssumption
<1> QED
  BY <1>1, ResolverInvariance, PTL

-----------------------------------------------------------------------------
(***************************************************************************)
(* A rejected reversal stays rejected.                                     *)
(***************************************************************************)

\* what RejectedIsFinal says of one row
StaysRejected(id) ==
  /\ rows'[id].status = "REJECTED"
  /\ Len(ledger'[rows[id].req.wallet]) > Len(ledger[rows[id].req.wallet])
     => Last(ledger'[rows[id].req.wallet]).tx # id

\* A step that appends an entry of another transaction, or none, does not give
\* the row money.
LEMMA NoEntryFor ==
  ASSUME ledger \in [Wallets -> Seq(EntryType)], NEW id, NEW w \in Wallets,
         \/ ledger'[w] = ledger[w]
         \/ \E e \in EntryType : e.tx # id /\ ledger'[w] = Append(ledger[w], e)
  PROVE  Len(ledger'[w]) > Len(ledger[w]) => Last(ledger'[w]).tx # id
<1>1. CASE ledger'[w] = ledger[w]
  BY <1>1
<1>2. ASSUME NEW e \in EntryType, e.tx # id, ledger'[w] = Append(ledger[w], e)
      PROVE  Last(ledger'[w]).tx # id
  BY <1>2 DEF Last
<1> QED
  BY <1>1, <1>2

\* A handler's commit names its own, new transaction.
LEMMA HandlerKeepsRejected ==
  ASSUME ResolverInv, NEW t \in Threads, HandlerActs(t), NEW id \in Reversals, rows[id].status = "REJECTED"
  PROVE  StaysRejected(id)
<1>1. /\ IndInv /\ rows \in Seq(RowType) /\ id \in DOMAIN rows /\ rows[id].req.wallet \in Wallets
      /\ ledger \in [Wallets -> Seq(EntryType)]
  BY DEF ResolverInv, IndInv, TypeOK, TablesTyped, Reversals, RowsNameWallets
<1>2. Commits(t) /\ TablesGrow
  BY <1>1, HandlerCommits, CommitsGrow
<1>3. id # NewId
  BY <1>1 DEF NewId
<1>4. \A w \in Wallets : \/ ledger'[w] = ledger[w]
                         \/ \E e \in EntryType : e.tx # id /\ ledger'[w] = Append(ledger[w], e)
  <2>1. CASE NoCommit \/ Records(t)
    BY <2>1 DEF NoCommit, Records, InsertRow
  <2>2. CASE Settles(t)
    BY <1>1, <1>3, <2>2, SettlementFacts
  <2> QED
    BY <1>2, <2>1, <2>2 DEF Commits
<1> QED
  BY <1>1, <1>2, <1>4, NoEntryFor DEF StaysRejected, TablesGrow

\* What the look at the reference leads to, in the tables.
LEMMA LookupForms ==
  ASSUME rows \in Seq(RowType), NEW k \in Workers, LookupReference(k)
  PROVE  \/ \E fc \in {"REFERENCE_NOT_FOUND", "REFERENCE_NOT_SUCCESSFUL"} : ResolveReject(k, fc)
         \/ IncrementRefAttempts(k)
         \/ UNCHANGED dbVars
<1> DEFINE found == FindByProviderAndExternalID(Job(k).provider, Job(k).ref)
<1>1. CASE AttemptsExhausted(k)
  BY <1>1 DEF LookupReference
<1>2. CASE ~AttemptsExhausted(k) /\ found = {}
  BY <1>2 DEF LookupReference
<1>3. CASE ~AttemptsExhausted(k) /\ found # {}
  <2>1. PICK x \in found :
          CASE rows[x].status \in {"PENDING", "PENDING_REFERENCE"} ->
                 IncrementRefAttempts(k) /\ JobDone(k)
            [] rows[x].status \in {"REJECTED", "FAILED"} ->
                 ResolveReject(k, "REFERENCE_NOT_SUCCESSFUL")
            [] rows[x].status = "PROCESSED" ->
                 /\ SetJob(k, [job[k] EXCEPT !.step = "checkReversal", !.ref = x])
                 /\ UNCHANGED dbVars
    BY <1>3 DEF LookupReference
  <2>2. x \in DOMAIN rows
    BY DEF FindByProviderAndExternalID
  <2>3. rows[x].status \in Statuses
    <3>1. rows[x] \in RowType
      BY <2>2
    <3> QED
      BY <3>1 DEF RowType
  <2> QED
    BY <2>1, <2>3 DEF Statuses
<1> QED
  BY <1>1, <1>2, <1>3

\* Of the workers' steps only a commit writes to a ledger, and none takes a
\* rejected row back.
LEMMA WorkerLeavesRejected ==
  ASSUME ResolverInv, NEW k \in Workers, ResolverStep(k) \/ ResolverFault(k), ~ResolverCommit(k),
         NEW id \in DOMAIN rows, rows[id].status = "REJECTED"
  PROVE  ledger' = ledger /\ rows'[id].status = "REJECTED"
<1>1. rows \in Seq(RowType)
  BY DEF ResolverInv, IndInv, TypeOK, TablesTyped
<1>2. rows[id] \in RowType /\ id \in 1..Len(rows) /\ rows \in [1..Len(rows) -> RowType]
  BY <1>1
<1>3. ASSUME UNCHANGED <<rows, ledger>> PROVE ledger' = ledger /\ rows'[id].status = "REJECTED"
  BY <1>3
<1>4. ASSUME NEW fc, RejectRow(k, fc), ledger' = ledger PROVE rows'[id].status = "REJECTED"
  <2>1. CASE id = job[k].id
    BY <1>2, <1>4, <2>1 DEF RejectRow, RowType
  <2>2. CASE id # job[k].id
    BY <1>2, <1>4, <2>2 DEF RejectRow
  <2> QED
    BY <2>1, <2>2
<1>5. ASSUME NEW fc, ResolveReject(k, fc) PROVE ledger' = ledger /\ rows'[id].status = "REJECTED"
  BY <1>4, <1>5 DEF ResolveReject
<1>6. ASSUME IncrementRefAttempts(k) PROVE ledger' = ledger /\ rows'[id].status = "REJECTED"
  <2>1. CASE id = job[k].id
    BY <1>2, <1>6, <2>1 DEF IncrementRefAttempts, RowType
  <2>2. CASE id # job[k].id
    BY <1>2, <1>6, <2>2 DEF IncrementRefAttempts
  <2> QED
    BY <1>6, <2>1, <2>2 DEF IncrementRefAttempts
<1>7. CASE TakePending(k) \/ FindPending(k) \/ Claim(k) \/ ResolverLockWallet(k)
  BY <1>3, <1>7 DEF TakePending, FindPending, Claim, ResolverLockWallet, dbVars
<1>8. CASE LookupReference(k)
  BY <1>1, <1>3, <1>5, <1>6, <1>8, LookupForms DEF dbVars
<1>9. CASE ResolverCheckReversal(k) \/ ResolverCheckReversalFails(k)
  <2>1. CASE AfterResolverCheck(k)
    BY <1>3, <1>5, <2>1 DEF AfterResolverCheck, dbVars
  <2> QED
    BY <1>5, <1>9, <2>1 DEF ResolverCheckReversal, ResolverCheckReversalFails
<1>10. CASE ResolverUpdateBalance(k) \/ ResolverWalletCallFails(k) \/ ResolverFails(k)
  BY <1>3, <1>10 DEF ResolverUpdateBalance, ResolverWalletCallFails, ResolverFails, ResolverWalletFails, dbVars
<1>11. CASE RejectAgain(k)
  BY <1>4, <1>11 DEF RejectAgain
<1> QED
  BY <1>7, <1>8, <1>9, <1>10, <1>11 DEF ResolverStep, ResolverFault

\* A worker settles only the row it has claimed, and that one still waits.
LEMMA WorkerKeepsRejected ==
  ASSUME ResolverInv, NEW k \in Workers, ResolverStep(k) \/ ResolverFault(k),
         NEW id \in Reversals, rows[id].status = "REJECTED"
  PROVE  StaysRejected(id)
<1>1. /\ rows \in Seq(RowType) /\ id \in DOMAIN rows /\ rows[id].req.wallet \in Wallets
      /\ ledger \in [Wallets -> Seq(EntryType)]
  BY DEF ResolverInv, IndInv, TypeOK, TablesTyped, Reversals, RowsNameWallets
<1>2. CASE ~ResolverCommit(k)
  BY <1>1, <1>2, WorkerLeavesRejected, NoEntryFor DEF StaysRejected
<1>3. CASE ResolverCommit(k)
  <2> DEFINE e == Entry(job[k].id, job[k].change.dir, Job(k).amount, job[k].change.before, job[k].change.after)
  <2>1. /\ job[k].step = "commit" /\ job[k] \in JobType /\ JobOK(k) /\ Job(k).wallet \in Wallets
        /\ Job(k).amount \in Balances
    BY <1>3, JobFacts DEF ResolverCommit
  <2>2. rows[job[k].id].status = "PENDING_REFERENCE" /\ job[k].id # id /\ WorkerOwns(k)
    BY <2>1 DEF JobOK, ClaimSteps, OwnerSteps
  <2>3. CASE ReversalRefused(k)
    BY <1>1, <1>3, <2>3 DEF ResolverCommit, StaysRejected
  <2>4. CASE ~ReversalRefused(k)
    <3>1. rows' = ResolvedRows(k) /\ ledger' = [ledger EXCEPT ![Job(k).wallet] = Append(@, e)]
      BY <1>3, <2>4 DEF ResolverCommit
    <3>2. e.tx # id /\ e \in EntryType
      BY <2>1, <2>2 DEF Entry, EntryType, JobType, ChangeType, WorkerOwns
    <3> HIDE DEF e
    <3>3. rows'[id].status = "REJECTED"
      BY <1>1, <2>2, <3>1 DEF ResolvedRows
    <3>4. ledger'[rows[id].req.wallet] \in {ledger[rows[id].req.wallet], Append(ledger[rows[id].req.wallet], e)}
      BY <1>1, <3>1
    <3> QED
      BY <1>1, <3>2, <3>3, <3>4, NoEntryFor DEF StaysRejected
  <2> QED
    BY <2>3, <2>4
<1> QED
  BY <1>2, <1>3

\* A rejected reversal stays rejected and gets no money, whatever a slower
\* worker still holds of it: ClaimPendingReferenceTx looks again.
THEOREM RejectionFinal == ResolverSpec => RejectedIsFinal
<1> DEFINE Final == \A id \in Reversals : rows[id].status = "REJECTED" => StaysRejected(id)
<1>1. ASSUME ResolverInv, ResolverNext PROVE Final
  <2> SUFFICES ASSUME NEW id \in Reversals, rows[id].status = "REJECTED" PROVE StaysRejected(id)
    OBVIOUS
  <2>1. /\ rows \in Seq(RowType) /\ id \in DOMAIN rows /\ rows[id].req.wallet \in Wallets
        /\ ledger \in [Wallets -> Seq(EntryType)]
    BY <1>1 DEF ResolverInv, IndInv, TypeOK, TablesTyped, Reversals, RowsNameWallets
  <2>2. ASSUME NEW t \in Threads, ActsFor(t) \/ StorePendingReference(t) PROVE StaysRejected(id)
    BY <1>1, <2>2, HandlerKeepsRejected DEF HandlerActs, StorePendingReference
  <2>3. CASE Quiescent
    BY <2>1, <2>3 DEF Quiescent, vars, dbVars, StaysRejected
  <2>4. ASSUME NEW k \in Workers, ResolverStep(k) \/ ResolverFault(k) PROVE StaysRejected(id)
    BY <1>1, <2>4, WorkerKeepsRejected
  <2>5. ASSUME NEW x \in DOMAIN rows, Hold(x) \/ Settle(x) PROVE StaysRejected(id)
    <3>1. rows[x].status # "REJECTED" /\ x # id /\ ledger' = ledger
      BY <2>5 DEF Hold, Settle
    <3>2. rows'[id] = rows[id]
      BY <2>1, <2>5, <3>1 DEF Hold, Settle
    <3> QED
      BY <2>1, <3>1, <3>2 DEF StaysRejected
  <2> QED
    BY <1>1, <2>2, <2>3, <2>4, <2>5 DEF ResolverNext, Next, ActsFor
<1>2. ASSUME ResolverInv, [ResolverNext]_rvars PROVE [Final]_rvars
  BY <1>1, <1>2
<1>3. ResolverSpec => [][Final]_rvars
  BY <1>2, ResolverInvariance, PTL DEF ResolverSpec
<1>4. [Final]_rvars <=> [\A id \in Reversals : rows[id].status = "REJECTED" =>
                           /\ rows'[id].status = "REJECTED"
                           /\ Len(ledger'[rows[id].req.wallet]) > Len(ledger[rows[id].req.wallet])
                              => Last(ledger'[rows[id].req.wallet]).tx # id]_rvars
  BY DEF StaysRejected
<1> QED
  BY <1>3, <1>4, PTL DEF RejectedIsFinal

-----------------------------------------------------------------------------
(***************************************************************************)
(* Money and events: whoever moves a balance, handler or worker, writes    *)
(* the entry and the event of the version it makes.                        *)
(***************************************************************************)

\* no money moves, and no event says so
MovesNothing ==
  /\ UNCHANGED <<balance, version, ledger>>
  /\ \/ outbox' = outbox
     \/ \E ev : ev.type # "WalletBalanceChanged" /\ outbox' = Append(outbox, ev)

\* rows are updated, none is inserted, and their requests stay
RequestsKept == Len(rows') = Len(rows) /\ \A i \in DOMAIN rows : rows'[i].req = rows[i].req

\* An update of one row that names another status, code or attempt.
LEMMA RequestsStay ==
  ASSUME rows \in Seq(RowType), NEW id \in DOMAIN rows, NEW r, r.req = rows[id].req,
         rows' = [rows EXCEPT ![id] = r]
  PROVE  RequestsKept
<1>1. Len(rows) \in Nat /\ DOMAIN rows = 1..Len(rows) /\ rows \in [1..Len(rows) -> RowType]
  OBVIOUS
<1>2. DOMAIN rows' = 1..Len(rows) /\ Len(rows') = Len(rows)
  BY <1>1
<1>3. \A i \in DOMAIN rows : rows'[i].req = rows[i].req
  BY <1>1
<1> QED
  BY <1>2, <1>3 DEF RequestsKept

\* A worker that rejects its row, in whichever transaction.
LEMMA RejectForms ==
  ASSUME ResolverInv, NEW k \in Workers, job[k].step # "rest", NEW fc, RejectRow(k, fc),
         UNCHANGED <<balance, version, ledger>>
  PROVE  MovesNothing /\ RequestsKept
<1> DEFINE id == job[k].id
           r  == [rows[id] EXCEPT !.status = "REJECTED", !.failureCode = fc]
           ev == Event("WagerTransactionRejected", id, Job(k).wallet, NoBalance, 0)
<1>1. rows \in Seq(RowType) /\ id \in DOMAIN rows /\ rows[id] \in RowType
  BY JobFacts
<1>2. ev.type # "WalletBalanceChanged" /\ outbox' = Append(outbox, ev)
  BY DEF RejectRow, Event
<1>3. r.req = rows[id].req
  BY <1>1 DEF RowType
<1>4. rows' = [rows EXCEPT ![id] = r]
  BY <1>1 DEF RejectRow
<1> HIDE DEF r, ev
<1>5. MovesNothing
  BY <1>2 DEF MovesNothing
<1> QED
  BY <1>1, <1>3, <1>4, <1>5, RequestsStay

\* A worker that counts an attempt.
LEMMA IncrementForms ==
  ASSUME ResolverInv, NEW k \in Workers, job[k].step # "rest", IncrementRefAttempts(k)
  PROVE  MovesNothing /\ RequestsKept
<1> DEFINE id == job[k].id
           r  == [rows[id] EXCEPT !.attempts = @ + 1]
<1>1. rows \in Seq(RowType) /\ id \in DOMAIN rows /\ rows[id] \in RowType
  BY JobFacts
<1>2. r.req = rows[id].req
  BY <1>1 DEF RowType
<1>3. rows' = [rows EXCEPT ![id] = r]
  BY <1>1 DEF IncrementRefAttempts
<1> HIDE DEF r
<1>4. MovesNothing
  BY DEF MovesNothing, IncrementRefAttempts
<1> QED
  BY <1>1, <1>2, <1>3, <1>4, RequestsStay

\* No step of a worker but its commit moves money.
LEMMA WorkerMovesNothing ==
  ASSUME ResolverInv, NEW k \in Workers, ResolverStep(k) \/ ResolverFault(k), ~ResolverCommit(k)
  PROVE  MovesNothing /\ RequestsKept
<1>1. ASSUME UNCHANGED <<balance, version, rows, ledger, outbox>> PROVE MovesNothing /\ RequestsKept
  BY <1>1 DEF MovesNothing, RequestsKept
<1>2. ASSUME NEW fc, ResolveReject(k, fc), job[k].step # "rest" PROVE MovesNothing /\ RequestsKept
  BY <1>2, RejectForms DEF ResolveReject
<1>3. CASE TakePending(k) \/ FindPending(k) \/ Claim(k) \/ ResolverLockWallet(k)
  BY <1>1, <1>3 DEF TakePending, FindPending, Claim, ResolverLockWallet, dbVars
<1>4. CASE LookupReference(k)
  <2>1. job[k].step = "lookup" /\ rows \in Seq(RowType)
    BY <1>4 DEF LookupReference, ResolverInv, IndInv, TypeOK, TablesTyped
  <2> QED
    BY <1>1, <1>2, <1>4, <2>1, LookupForms, IncrementForms DEF dbVars
<1>5. CASE ResolverCheckReversal(k) \/ ResolverCheckReversalFails(k)
  <2>1. job[k].step # "rest"
    BY <1>5 DEF ResolverCheckReversal, ResolverCheckReversalFails
  <2>2. CASE AfterResolverCheck(k)
    BY <1>1, <1>2, <2>1, <2>2 DEF AfterResolverCheck, dbVars
  <2> QED
    BY <1>2, <1>5, <2>1, <2>2 DEF ResolverCheckReversal, ResolverCheckReversalFails
<1>6. CASE ResolverUpdateBalance(k) \/ ResolverWalletCallFails(k) \/ ResolverFails(k)
  BY <1>1, <1>6 DEF ResolverUpdateBalance, ResolverWalletCallFails, ResolverFails, ResolverWalletFails, dbVars
<1>7. CASE RejectAgain(k)
  BY <1>7, RejectForms DEF RejectAgain
<1> QED
  BY <1>3, <1>4, <1>5, <1>6, <1>7 DEF ResolverStep, ResolverFault

\* The commit of a worker moves the money of its row, with entry and event.
LEMMA WorkerMoves ==
  ASSUME ResolverInv, NEW k \in Workers, ResolverCommit(k)
  PROVE  /\ RequestsKept
         /\ \/ MovesNothing
            \/ \E w \in Wallets, e \in EntryType : \E ev1, ev2 : MovesMoney(w, e, ev1, ev2)
<1>1. CASE ReversalRefused(k)
  BY <1>1 DEF ResolverCommit, MovesNothing, RequestsKept
<1>2. CASE ~ReversalRefused(k)
  <2>1. PICK w : w = Job(k).wallet
    OBVIOUS
  <2> DEFINE id == job[k].id
             c  == job[k].change
             amt == Job(k).amount
             r  == [rows[id] EXCEPT !.status = "PROCESSED", !.failureCode = "", !.internalRef = job[k].ref]
             e  == Entry(id, c.dir, amt, c.before, c.after)
             ev1 == Event("WagerTransactionProcessed", id, w, NoBalance, 0)
             ev2 == Event("WalletBalanceChanged", id, w, c.after, c.version)
  <2>2. /\ job[k].step = "commit" /\ job[k] \in JobType /\ JobOK(k) /\ w \in Wallets /\ amt \in Balances
        /\ rows \in Seq(RowType) /\ id \in DOMAIN rows /\ rows[id] \in RowType
        /\ ledger \in [Wallets -> Seq(EntryType)] /\ version \in [Wallets -> Nat]
    <3>1. job[k].step = "commit"
      BY DEF ResolverCommit
    <3> QED
      BY <2>1, <3>1, JobFacts DEF IndInv, TypeOK, TablesTyped
  <2>3. /\ c.before \in Balances /\ c.after \in Balances /\ c.dir \in Directions
        /\ c.version = version[w] + 1 /\ c.before = balance[w] /\ id \in Nat
        /\ c.after = (IF c.dir = "DEBIT" THEN c.before - amt ELSE c.before + amt)
    <3>1. WorkerOwns(k) /\ c \in ChangeType
      BY <2>2 DEF JobOK, OwnerSteps, JobType
    <3> QED
      BY <2>1, <2>2, <3>1 DEF WorkerOwns, ChangeType, Moved
  <2>4. /\ e \in EntryType /\ e.tx = id /\ e.after = c.after /\ e.before = c.before
        /\ e.dir = c.dir /\ e.amount = amt
    BY <2>2, <2>3 DEF Entry, EntryType
  <2>5. /\ ev1.type # "WalletBalanceChanged" /\ ev2.type = "WalletBalanceChanged" /\ ev2.wallet = w
        /\ ev2.tx = id /\ ev2.after = c.after /\ ev2.version = c.version
    BY DEF Event
  <2>6. r.req = rows[id].req
    BY <2>2 DEF RowType
  <2>7. /\ balance' = [balance EXCEPT ![w] = c.after]
        /\ version' = [version EXCEPT ![w] = c.version]
        /\ rows' = ResolvedRows(k)
        /\ ledger' = [ledger EXCEPT ![w] = Append(@, e)]
        /\ outbox' = outbox \o <<ev1, ev2>>
    BY <1>2, <2>1 DEF ResolverCommit
  <2>8. rows' = [rows EXCEPT ![id] = r]
    BY <2>2, <2>7 DEF ResolvedRows
  <2> HIDE DEF r, e, ev1, ev2
  <2>9. RequestsKept
    BY <2>2, <2>6, <2>8, RequestsStay
  <2>10. ledger'[w] = Append(ledger[w], e) /\ \A v \in Wallets \ {w} : ledger'[v] = ledger[v]
    BY <2>2, <2>7
  <2> HIDE DEF c, id, amt
  <2>11. EntryMade(w, e)
    BY <2>3, <2>4, <2>7, <2>10 DEF EntryMade
  <2>12. MovesMoney(w, e, ev1, ev2)
    BY <2>3, <2>4, <2>5, <2>7, <2>11 DEF MovesMoney
  <2> QED
    BY <2>2, <2>4, <2>9, <2>12
<1> QED
  BY <1>1, <1>2

\* The external writer changes a status, no more.
LEMMA ExternalForms ==
  ASSUME ResolverInv, NEW id \in DOMAIN rows, Hold(id) \/ Settle(id)
  PROVE  MovesNothing /\ RequestsKept
<1>1. PICK s : rows' = [rows EXCEPT ![id].status = s]
  BY DEF Hold, Settle
<1>2. rows \in Seq(RowType) /\ rows[id] \in RowType
  BY DEF ResolverInv, IndInv, TypeOK, TablesTyped
<1> DEFINE r == [rows[id] EXCEPT !.status = s]
<1>3. r.req = rows[id].req
  BY <1>2 DEF RowType
<1>4. rows' = [rows EXCEPT ![id] = r]
  BY <1>1
<1> HIDE DEF r
<1>5. MovesNothing
  BY DEF MovesNothing, Hold, Settle
<1> QED
  BY <1>2, <1>3, <1>4, <1>5, RequestsStay

\* Every step of handlers, workers and the external writer, seen in the tables.
LEMMA ResolverForms ==
  ASSUME ResolverInv, [ResolverNext]_rvars
  PROVE  \/ \E t \in Threads : Commits(t)
         \/ /\ RequestsKept
            /\ \/ MovesNothing
               \/ \E w \in Wallets, e \in EntryType : \E ev1, ev2 : MovesMoney(w, e, ev1, ev2)
<1>1. CASE UNCHANGED rvars \/ Quiescent
  BY <1>1 DEF Quiescent, rvars, vars, dbVars, MovesNothing, RequestsKept
<1>2. ASSUME NEW t \in Threads, ActsFor(t) \/ StorePendingReference(t) PROVE Commits(t)
  BY <1>2, HandlerCommits DEF HandlerActs, StorePendingReference, ResolverInv
<1>3. ASSUME NEW k \in Workers, ResolverStep(k) \/ ResolverFault(k)
      PROVE  /\ RequestsKept
             /\ \/ MovesNothing
                \/ \E w \in Wallets, e \in EntryType : \E ev1, ev2 : MovesMoney(w, e, ev1, ev2)
  BY <1>3, WorkerMovesNothing, WorkerMoves
<1>4. ASSUME NEW id \in DOMAIN rows, Hold(id) \/ Settle(id) PROVE MovesNothing /\ RequestsKept
  BY <1>4, ExternalForms
<1> QED
  BY <1>1, <1>2, <1>3, <1>4 DEF ResolverNext, Next, ActsFor

\* The WalletBalanceChanged events tell the ledgers version by version also
\* when workers settle reversals beside the handlers: no worker and handler
\* announce the same version, and none is left out.
THEOREM ResolverEventsTrue == ResolverSpec => []EventsMirrorLedger
<1>1. ResolverInit => EventsMirrorLedger /\ Versioned
  <2>1. Init => Versioned
    <3>1. Init => version = [w \in Wallets |-> 1]
      BY DEF Init
    <3> QED
      BY <3>1 DEF Versioned
  <2> QED
    BY <2>1, MirrorInit DEF ResolverInit
<1>2. ASSUME ResolverInv, EventsMirrorLedger, Versioned, [ResolverNext]_rvars
      PROVE  EventsMirrorLedger' /\ Versioned'
  <2>1. IndInv /\ TablesTyped /\ outbox \in Seq(EventType)
    BY <1>2 DEF ResolverInv, IndInv, TypeOK, TablesTyped
  <2>2. ASSUME NEW t \in Threads, Commits(t) PROVE EventsMirrorLedger' /\ Versioned'
    BY <1>2, <2>1, <2>2, CommitMirrors
  <2>3. CASE MovesNothing
    BY <1>2, <2>1, <2>3, MirrorQuiet DEF MovesNothing, Versioned
  <2>4. ASSUME NEW w \in Wallets, NEW e \in EntryType, NEW ev1, NEW ev2, MovesMoney(w, e, ev1, ev2)
        PROVE  EventsMirrorLedger' /\ Versioned'
    BY <1>2, <2>1, <2>4, MirrorMove
  <2> QED
    BY <1>2, <2>2, <2>3, <2>4, ResolverForms
<1> QED
  BY <1>1, <1>2, ResolverInvariance, PTL DEF ResolverSpec

\* One row per provider and idempotency key, with workers and the external
\* writer: they update rows and never the request a row was inserted for.
THEOREM ResolverOneRow == ResolverSpec => []OneRowPerKey
<1>1. ResolverInit => OneRowPerKey
  <2>1. ResolverInit => rows = <<>>
    BY DEF ResolverInit, Init
  <2>2. rows = <<>> => OneRowPerKey
    BY DEF OneRowPerKey
  <2> QED
    BY <2>1, <2>2
<1>2. ASSUME ResolverInv, OneRowPerKey, [ResolverNext]_rvars PROVE OneRowPerKey'
  <2>1. IndInv /\ rows \in Seq(RowType)
    BY <1>2 DEF ResolverInv, IndInv, TypeOK, TablesTyped
  <2>2. ASSUME NEW t \in Threads, Commits(t) PROVE OneRowPerKey'
    <3>1. CASE NoCommit
      BY <1>2, <3>1 DEF NoCommit, OneRowPerKey
    <3>2. CASE Records(t) \/ Settles(t)
      <4>1. Adds(t)
        BY <3>2 DEF Records, Settles, InsertRow, InsertSettlement, CanInsert, InsertSteps, Adds
      <4> QED
        BY <1>2, <2>1, <4>1, InsertKeepsKeys
    <3> QED
      BY <2>2, <3>1, <3>2 DEF Commits
  <2>3. CASE RequestsKept
    <3>1. DOMAIN rows = 1..Len(rows) /\ DOMAIN rows' = 1..Len(rows')
      BY <1>2, <2>1, ResolverNextInv DEF ResolverInv, IndInv, TypeOK, TablesTyped
    <3> QED
      BY <1>2, <2>3, <3>1 DEF RequestsKept, OneRowPerKey
  <2> QED
    BY <1>2, <2>2, <2>3, ResolverForms
<1> QED
  BY <1>1, <1>2, ResolverInvariance, PTL DEF ResolverSpec

\* A handler works on the current balance and version of the wallet it holds,
\* though workers take wallets too: they respect the same row locks.
THEOREM ResolverSnapshotCurrent == ResolverSpec => []WalletSnapshotCurrent
<1>1. ResolverInv => WalletSnapshotCurrent
  BY OwnersCurrent DEF ResolverInv
<1> QED
  BY <1>1, ResolverInvariance, PTL

-----------------------------------------------------------------------------
(***************************************************************************)
(* TerminalStatusFinal does not hold; this is how far it does.             *)
(***************************************************************************)

\* A row other than the worker's own keeps its status.
LEMMA OtherRowsKeepStatus ==
  ASSUME ResolverInv, NEW k \in Workers, ResolverStep(k) \/ ResolverFault(k),
         NEW id \in DOMAIN rows, id # job[k].id
  PROVE  rows'[id] = rows[id]
<1>1. rows \in Seq(RowType)
  BY DEF ResolverInv, IndInv, TypeOK, TablesTyped
<1>2. id \in 1..Len(rows) /\ rows \in [1..Len(rows) -> RowType]
  BY <1>1
<1>3. ASSUME NEW fc, RejectRow(k, fc) PROVE rows'[id] = rows[id]
  BY <1>2, <1>3 DEF RejectRow
<1>4. ASSUME NEW fc, ResolveReject(k, fc) PROVE rows'[id] = rows[id]
  BY <1>3, <1>4 DEF ResolveReject
<1>5. ASSUME IncrementRefAttempts(k) PROVE rows'[id] = rows[id]
  BY <1>2, <1>5 DEF IncrementRefAttempts
<1>6. CASE TakePending(k) \/ FindPending(k) \/ Claim(k) \/ ResolverLockWallet(k)
  BY <1>6 DEF TakePending, FindPending, Claim, ResolverLockWallet, dbVars
<1>7. CASE LookupReference(k)
  BY <1>1, <1>4, <1>5, <1>7, LookupForms DEF dbVars
<1>8. CASE ResolverCheckReversal(k) \/ ResolverCheckReversalFails(k)
  <2>1. CASE AfterResolverCheck(k)
    BY <1>4, <2>1 DEF AfterResolverCheck, dbVars
  <2> QED
    BY <1>4, <1>8, <2>1 DEF ResolverCheckReversal, ResolverCheckReversalFails
<1>9. CASE ResolverUpdateBalance(k) \/ ResolverWalletCallFails(k) \/ ResolverFails(k)
  BY <1>9 DEF ResolverUpdateBalance, ResolverWalletCallFails, ResolverFails, ResolverWalletFails, dbVars
<1>10. CASE RejectAgain(k)
  BY <1>3, <1>10 DEF RejectAgain
<1>11. CASE ResolverCommit(k)
  BY <1>2, <1>11 DEF ResolverCommit, ResolvedRows
<1> QED
  BY <1>6, <1>7, <1>8, <1>9, <1>10, <1>11 DEF ResolverStep, ResolverFault

\* While a worker's transaction holds the claim its row waits; the other
\* transaction of a worker is RejectAgain.
LEMMA OwnRowKeepsStatus ==
  ASSUME ResolverInv, NEW k \in Workers, ResolverStep(k) \/ ResolverFault(k), ~RejectAgain(k),
         job[k].id \in DOMAIN rows, rows[job[k].id].status # "PENDING_REFERENCE"
  PROVE  rows' = rows
<1>1. job[k].step \notin ClaimSteps
  BY DEF ResolverInv, JobOK
<1>2. CASE TakePending(k) \/ FindPending(k) \/ Claim(k) \/ ResolverLockWallet(k)
  BY <1>2 DEF TakePending, FindPending, Claim, ResolverLockWallet, dbVars
<1>3. CASE \/ LookupReference(k) \/ ResolverCheckReversal(k) \/ ResolverCheckReversalFails(k)
           \/ ResolverUpdateBalance(k) \/ ResolverCommit(k)
  BY <1>1, <1>3 DEF ClaimSteps, LookupReference, ResolverCheckReversal, ResolverCheckReversalFails,
     ResolverUpdateBalance, ResolverCommit
<1>4. CASE ResolverWalletCallFails(k) \/ ResolverFails(k)
  BY <1>4 DEF ResolverWalletCallFails, ResolverFails, ResolverWalletFails, dbVars
<1> QED
  BY <1>2, <1>3, <1>4 DEF ResolverStep, ResolverFault

\* PROCESSED, REJECTED and FAILED are terminal for the handlers, for the
\* external writer's holds and for every transaction of a worker but the one
\* that rejects after a wallet error (resolveRejectTx without a new claim).
THEOREM TerminalButForRejectAgain ==
  ResolverSpec =>
    [][\A id \in Reversals :
         rows[id].status \in {"PROCESSED", "REJECTED", "FAILED"} =>
           \/ rows'[id].status = rows[id].status
           \/ \E k \in Workers : job[k].id = id /\ RejectAgain(k)]_rvars
<1> DEFINE Kept(id) == \/ rows'[id].status = rows[id].status
                       \/ \E k \in Workers : job[k].id = id /\ RejectAgain(k)
           Terminal(id) == rows[id].status \in {"PROCESSED", "REJECTED", "FAILED"}
           Final == \A id \in Reversals : Terminal(id) => Kept(id)
<1>1. ASSUME ResolverInv, ResolverNext PROVE Final
  <2> SUFFICES ASSUME NEW id \in Reversals, Terminal(id) PROVE Kept(id)
    OBVIOUS
  <2>1. id \in DOMAIN rows /\ rows[id].req.kind \in ReversalKinds /\ rows \in Seq(RowType) /\ IndInv
    BY <1>1 DEF ResolverInv, IndInv, TypeOK, TablesTyped, Reversals
  <2>2. ASSUME NEW t \in Threads, ActsFor(t) \/ StorePendingReference(t) PROVE rows'[id] = rows[id]
    <3>1. TablesGrow
      BY <2>1, <2>2, HandlerCommits, CommitsGrow DEF HandlerActs, StorePendingReference
    <3> QED
      BY <2>1, <3>1 DEF TablesGrow
  <2>3. CASE Quiescent
    BY <2>3 DEF Quiescent, vars, dbVars
  <2>4. ASSUME NEW k \in Workers, ResolverStep(k) \/ ResolverFault(k) PROVE Kept(id)
    <3>1. CASE id # job[k].id
      BY <1>1, <2>1, <2>4, <3>1, OtherRowsKeepStatus
    <3>2. CASE id = job[k].id /\ ~RejectAgain(k)
      BY <1>1, <2>1, <2>4, <3>2, OwnRowKeepsStatus
    <3> QED
      BY <3>1, <3>2
  <2>5. ASSUME NEW x \in DOMAIN rows, Hold(x) \/ Settle(x) PROVE rows'[id] = rows[id]
    <3>1. x # id
      BY <2>1, <2>5 DEF Hold, Settle, ReversalKinds
    <3> QED
      BY <2>1, <2>5, <3>1 DEF Hold, Settle
  <2> QED
    BY <1>1, <2>2, <2>3, <2>4, <2>5 DEF ResolverNext, Next, ActsFor
<1>2. ASSUME ResolverInv, [ResolverNext]_rvars PROVE [Final]_rvars
  BY <1>1, <1>2
<1> QED
  BY <1>2, ResolverInvariance, PTL DEF ResolverSpec

-----------------------------------------------------------------------------
(***************************************************************************)
(* What OutboxPublisher and WalletService assume of their writers.         *)
(***************************************************************************)

\* the outbox s announces what happens to a transaction once and in order, but
\* for rejections, which RejectAgain may repeat
Announced(s) ==
  \A i, j \in DOMAIN s : s[i].tx = s[j].tx =>
    /\ s[i].type = s[j].type => i = j \/ s[i].type = "WagerTransactionRejected"
    /\ s[i].type = "WagerTransactionPendingReference" => i <= j

\* the events that say a transaction is done
DoneTypes == {"WagerTransactionProcessed", "WalletBalanceChanged"}

Unannounced(s, tx, type) == \A i \in DOMAIN s : s[i].tx = tx => s[i].type # type

\* events name stored rows, and of one that waits none says it is done
EventsInv ==
  /\ Announced(outbox)
  /\ \A i \in DOMAIN outbox : /\ outbox[i].tx \in DOMAIN rows
                              /\ outbox[i].type \in DoneTypes => rows[outbox[i].tx].status # "PENDING_REFERENCE"

\* One more event: of a new transaction, a rejection, or the first of its type.
LEMMA AnnounceMore ==
  ASSUME NEW S, NEW s \in Seq(S), Announced(s), NEW ev \in S,
         \/ \A i \in DOMAIN s : s[i].tx # ev.tx
         \/ ev.type = "WagerTransactionRejected"
         \/ ev.type \in DoneTypes /\ Unannounced(s, ev.tx, ev.type)
  PROVE  Announced(Append(s, ev))
<1> DEFINE n == Len(s)
           z == Append(s, ev)
<1>1. /\ n \in Nat /\ DOMAIN s = 1..n /\ DOMAIN z = 1..(n + 1) /\ z[n + 1] = ev
      /\ \A i \in 1..n : z[i] = s[i]
  BY AppendFacts
<1> HIDE DEF n, z
<1>2. ASSUME NEW i \in 1..n, s[i].tx = ev.tx
      PROVE  /\ ev.type # "WagerTransactionPendingReference"
             /\ s[i].type = ev.type => ev.type = "WagerTransactionRejected"
  BY <1>1, <1>2 DEF DoneTypes, Unannounced
<1>3. SUFFICES ASSUME NEW i \in 1..(n + 1), NEW j \in 1..(n + 1), z[i].tx = z[j].tx
               PROVE  /\ z[i].type = z[j].type => i = j \/ z[i].type = "WagerTransactionRejected"
                      /\ z[i].type = "WagerTransactionPendingReference" => i <= j
  BY <1>1 DEF Announced, z
<1>4. CASE i \in 1..n /\ j \in 1..n
  BY <1>1, <1>3, <1>4 DEF Announced
<1>5. CASE i = n + 1 /\ j \in 1..n
  BY <1>1, <1>2, <1>3, <1>5
<1>6. CASE i \in 1..n /\ j = n + 1
  BY <1>1, <1>2, <1>3, <1>6
<1>7. CASE i = n + 1 /\ j = n + 1
  BY <1>1, <1>7
<1> QED
  BY <1>1, <1>4, <1>5, <1>6, <1>7

\* rows are kept, and none that is stored begins to wait
NoNewWaiting ==
  \A id \in DOMAIN rows :
    /\ id \in DOMAIN rows'
    /\ rows'[id].status = "PENDING_REFERENCE" => rows[id].status = "PENDING_REFERENCE"

\* A step that adds one event, or none.
LEMMA OneMoreEvent ==
  ASSUME EventsInv, outbox \in Seq(EventType), NoNewWaiting,
         \/ outbox' = outbox
         \/ \E ev \in EventType :
              /\ outbox' = Append(outbox, ev)
              /\ ev.tx \in DOMAIN rows'
              /\ ev.type \in DoneTypes => rows'[ev.tx].status # "PENDING_REFERENCE"
              /\ \/ ev.tx \notin DOMAIN rows
                 \/ ev.type = "WagerTransactionRejected"
  PROVE  EventsInv'
<1>1. CASE outbox' = outbox
  BY <1>1 DEF EventsInv, NoNewWaiting
<1>2. ASSUME NEW ev \in EventType, outbox' = Append(outbox, ev), ev.tx \in DOMAIN rows',
             ev.type \in DoneTypes => rows'[ev.tx].status # "PENDING_REFERENCE",
             ev.tx \notin DOMAIN rows \/ ev.type = "WagerTransactionRejected"
      PROVE  EventsInv'
  <2>1. Announced(outbox')
    BY <1>2, AnnounceMore DEF EventsInv
  <2>2. /\ Len(outbox) \in Nat /\ DOMAIN outbox = 1..Len(outbox) /\ DOMAIN outbox' = 1..(Len(outbox) + 1)
        /\ \A i \in 1..Len(outbox) : outbox'[i] = outbox[i]
        /\ outbox'[Len(outbox) + 1] = ev
    BY <1>2, AppendFacts
  <2>3. ASSUME NEW i \in DOMAIN outbox'
        PROVE  /\ outbox'[i].tx \in DOMAIN rows'
               /\ outbox'[i].type \in DoneTypes => rows'[outbox'[i].tx].status # "PENDING_REFERENCE"
    <3>1. CASE i \in 1..Len(outbox)
      BY <2>2, <3>1 DEF EventsInv, NoNewWaiting
    <3>2. CASE i = Len(outbox) + 1
      BY <1>2, <2>2, <3>2
    <3> QED
      BY <2>2, <3>1, <3>2
  <2> QED
    BY <2>1, <2>3 DEF EventsInv
<1> QED
  BY <1>1, <1>2

\* A settlement: both its events are the first of their type for its row.
LEMMA SettlementEvents ==
  ASSUME EventsInv, outbox \in Seq(EventType), NoNewWaiting,
         NEW ev1 \in EventType, NEW ev2 \in EventType, outbox' = outbox \o <<ev1, ev2>>,
         ev1.type = "WagerTransactionProcessed", ev2.type = "WalletBalanceChanged", ev1.tx = ev2.tx,
         ev1.tx \in DOMAIN rows', rows'[ev1.tx].status # "PENDING_REFERENCE",
         ev1.tx \in DOMAIN rows => rows[ev1.tx].status = "PENDING_REFERENCE"
  PROVE  EventsInv'
<1> DEFINE m == Len(outbox)
           s == Append(outbox, ev1)
<1>1. /\ m \in Nat /\ DOMAIN outbox = 1..m /\ DOMAIN s = 1..(m + 1)
      /\ (\A i \in 1..m : s[i] = outbox[i]) /\ s[m + 1] = ev1 /\ s \in Seq(EventType)
  BY AppendFacts
<1>2. /\ DOMAIN outbox' = 1..(m + 2) /\ outbox'[m + 1] = ev1 /\ outbox'[m + 2] = ev2
      /\ \A i \in 1..m : outbox'[i] = outbox[i]
  OBVIOUS
<1>3. outbox' = Append(s, ev2)
  OBVIOUS
<1> HIDE DEF m, s
<1>4. \A i \in 1..m : outbox[i].tx = ev1.tx => outbox[i].type \notin DoneTypes
  BY <1>1 DEF EventsInv
<1>5. Announced(outbox) /\ Unannounced(outbox, ev1.tx, ev1.type) /\ ev1.type \in DoneTypes
  BY <1>1, <1>4 DEF EventsInv, Unannounced, DoneTypes
<1>6. Announced(s)
  BY <1>5, AnnounceMore DEF s
<1>7. ev2.type # ev1.type /\ ev2.type \in DoneTypes
  BY DEF DoneTypes
<1>8. Unannounced(s, ev2.tx, ev2.type)
  BY <1>1, <1>4, <1>7 DEF Unannounced
<1>9. Announced(outbox')
  BY <1>1, <1>3, <1>6, <1>7, <1>8, AnnounceMore
<1>10. ASSUME NEW i \in DOMAIN outbox'
       PROVE  /\ outbox'[i].tx \in DOMAIN rows'
              /\ outbox'[i].type \in DoneTypes => rows'[outbox'[i].tx].status # "PENDING_REFERENCE"
  <2>1. CASE i \in 1..m
    BY <1>1, <1>2, <2>1 DEF EventsInv, NoNewWaiting
  <2>2. CASE i = m + 1 \/ i = m + 2
    BY <1>2, <2>2
  <2> QED
    BY <1>1, <1>2, <2>1, <2>2
<1> QED
  BY <1>9, <1>10 DEF EventsInv

\* What a handler commits.
LEMMA HandlerAnnounces ==
  ASSUME IndInv, IndInv', EventsInv, NEW t \in Threads, Commits(t)
  PROVE  EventsInv'
<1> DEFINE row == RowToInsert(t)
<1>1. /\ rows \in Seq(RowType) /\ outbox \in Seq(EventType) /\ outbox' \in Seq(EventType)
      /\ HandlerOK(t) /\ rows' \in Seq(RowType)
  BY DEF IndInv, TypeOK, TablesTyped
<1>2. CASE NoCommit
  <2>1. NoNewWaiting /\ outbox' = outbox
    BY <1>2 DEF NoCommit, NoNewWaiting
  <2> QED
    BY <1>1, <2>1, OneMoreEvent
<1>3. ASSUME Records(t) \/ Settles(t)
      PROVE  /\ DOMAIN rows' = 1..NewId /\ DOMAIN rows = 1..Len(rows) /\ NewId = Len(rows) + 1
             /\ Len(rows) \in Nat /\ rows'[NewId] = row /\ NoNewWaiting
  <2>1. rows' = Append(rows, row)
    BY <1>3 DEF Records, Settles, InsertRow, InsertSettlement
  <2> HIDE DEF row
  <2>2. /\ Len(rows) \in Nat /\ DOMAIN rows = 1..Len(rows) /\ DOMAIN rows' = 1..(Len(rows) + 1)
        /\ rows'[Len(rows) + 1] = row /\ \A i \in 1..Len(rows) : rows'[i] = rows[i]
    <3>1. \E S : rows' \in Seq(S)
      BY <1>1
    <3> QED
      BY <1>1, <2>1
  <2> QED
    BY <2>2 DEF NewId, NoNewWaiting
<1>4. CASE Records(t)
  <2> DEFINE ev == Event(TransactionEvent(row.status), NewId, row.req.wallet, NoBalance, 0)
  <2>1. outbox' = Append(outbox, ev)
    BY <1>4 DEF Records, InsertRow
  <2>2. ev.tx = NewId /\ (ev.type \in DoneTypes => row.status # "PENDING_REFERENCE")
    BY DEF Event, TransactionEvent, DoneTypes
  <2> HIDE DEF ev, row
  <2>3. ev \in EventType
    BY <1>1, <2>1
  <2>4. NewId \notin DOMAIN rows /\ NewId \in DOMAIN rows'
    BY <1>3, <1>4
  <2> QED
    BY <1>1, <1>3, <1>4, <2>1, <2>2, <2>3, <2>4, OneMoreEvent
<1>5. CASE Settles(t)
  <2> DEFINE ev1 == Event("WagerTransactionProcessed", NewId, req[t].wallet, NoBalance, 0)
             ev2 == Event("WalletBalanceChanged", NewId, req[t].wallet, change[t].after, change[t].version)
  <2>1. outbox' = outbox \o <<ev1, ev2>> /\ pc[t] = "commit"
    BY <1>5 DEF Settles, InsertSettlement
  <2>2. /\ ev1.type = "WagerTransactionProcessed" /\ ev2.type = "WalletBalanceChanged"
        /\ ev1.tx = NewId /\ ev2.tx = NewId
    BY DEF Event
  <2>3. row.status = "PROCESSED"
    BY <1>1, <2>1, RowFields DEF HandlerOK, OwnerSteps
  <2> HIDE DEF ev1, ev2, row
  <2>4. ev1 \in EventType /\ ev2 \in EventType
    <3>1. /\ Len(outbox) \in Nat /\ Len(outbox') = Len(outbox) + 2
          /\ outbox'[Len(outbox) + 1] = ev1 /\ outbox'[Len(outbox) + 2] = ev2
      BY <1>1, <2>1
    <3> QED
      BY <1>1, <3>1
  <2>5. NewId \notin DOMAIN rows /\ NewId \in DOMAIN rows' /\ rows'[NewId].status # "PENDING_REFERENCE"
    BY <1>3, <1>5, <2>3
  <2> QED
    BY <1>1, <1>3, <1>5, <2>1, <2>2, <2>4, <2>5, SettlementEvents
<1> QED
  BY <1>2, <1>4, <1>5 DEF Commits

\* A rejection by a worker, with or without a claim.
LEMMA RejectAnnounces ==
  ASSUME ResolverInv, EventsInv, NEW k \in Workers, job[k].step # "rest", NEW fc, RejectRow(k, fc)
  PROVE  EventsInv'
<1> DEFINE ev == Event("WagerTransactionRejected", job[k].id, Job(k).wallet, NoBalance, 0)
<1>1. /\ rows \in Seq(RowType) /\ job[k].id \in DOMAIN rows /\ rows[job[k].id] \in RowType
      /\ outbox \in Seq(EventType) /\ Job(k).wallet \in Wallets
  BY JobFacts DEF IndInv, TypeOK, TablesTyped
<1>2. ev \in EventType /\ ev.tx = job[k].id /\ ev.type = "WagerTransactionRejected"
  BY <1>1 DEF Event, EventType, EventTypes, MaybeBalances
<1>3. outbox' = Append(outbox, ev)
  BY DEF RejectRow
<1> HIDE DEF ev
<1>4. DOMAIN rows' = DOMAIN rows
  BY DEF RejectRow
<1>5. NoNewWaiting
  <2> SUFFICES ASSUME NEW id \in DOMAIN rows, rows'[id].status = "PENDING_REFERENCE"
               PROVE  rows[id].status = "PENDING_REFERENCE"
    BY <1>4 DEF NoNewWaiting
  <2>1. CASE id = job[k].id
    BY <1>1, <2>1 DEF RejectRow, RowType
  <2>2. CASE id # job[k].id
    BY <1>1, <2>2 DEF RejectRow
  <2> QED
    BY <2>1, <2>2
<1>6. ~(ev.type \in DoneTypes)
  BY <1>2 DEF DoneTypes
<1> QED
  BY <1>1, <1>2, <1>3, <1>4, <1>5, <1>6, OneMoreEvent

\* The commit of a worker: its row waited until now.
LEMMA CommitAnnounces ==
  ASSUME ResolverInv, EventsInv, NEW k \in Workers, ResolverCommit(k)
  PROVE  EventsInv'
<1>1. CASE ReversalRefused(k)
  BY <1>1 DEF ResolverCommit, EventsInv
<1>2. CASE ~ReversalRefused(k)
  <2> DEFINE id == job[k].id
             ev1 == Event("WagerTransactionProcessed", id, Job(k).wallet, NoBalance, 0)
             ev2 == Event("WalletBalanceChanged", id, Job(k).wallet, job[k].change.after, job[k].change.version)
  <2>1. /\ job[k].step = "commit" /\ rows \in Seq(RowType) /\ id \in DOMAIN rows /\ rows[id] \in RowType
        /\ outbox \in Seq(EventType) /\ outbox' \in Seq(EventType) /\ rows[id].status = "PENDING_REFERENCE"
    <3>1. job[k].step = "commit"
      BY DEF ResolverCommit
    <3>2. ResolverInv'
      BY ResolverCommitInv
    <3> QED
      BY <3>1, <3>2, JobFacts DEF ResolverInv, IndInv, TypeOK, TablesTyped, JobOK, ClaimSteps
  <2>2. rows' = ResolvedRows(k) /\ outbox' = outbox \o <<ev1, ev2>>
    BY <1>2 DEF ResolverCommit
  <2>3. /\ ev1.type = "WagerTransactionProcessed" /\ ev2.type = "WalletBalanceChanged"
        /\ ev1.tx = id /\ ev2.tx = id
    BY DEF Event
  <2> HIDE DEF ev1, ev2
  <2>4. ev1 \in EventType /\ ev2 \in EventType
    <3>1. /\ Len(outbox) \in Nat /\ Len(outbox') = Len(outbox) + 2
          /\ outbox'[Len(outbox) + 1] = ev1 /\ outbox'[Len(outbox) + 2] = ev2
      BY <2>1, <2>2
    <3> QED
      BY <2>1, <3>1
  <2>5. DOMAIN rows' = DOMAIN rows
    BY <2>2 DEF ResolvedRows
  <2>6. rows'[id].status = "PROCESSED"
    BY <2>1, <2>2 DEF ResolvedRows, RowType
  <2>7. \A i \in DOMAIN rows \ {id} : rows'[i] = rows[i]
    BY <2>2 DEF ResolvedRows
  <2>8. NoNewWaiting
    BY <2>1, <2>5, <2>7 DEF NoNewWaiting
  <2> HIDE DEF id
  <2> QED
    BY <2>1, <2>2, <2>3, <2>4, <2>5, <2>6, <2>8, SettlementEvents
<1> QED
  BY <1>1, <1>2

\* Every step of a worker.
LEMMA WorkerAnnounces ==
  ASSUME ResolverInv, EventsInv, NEW k \in Workers, ResolverStep(k) \/ ResolverFault(k)
  PROVE  EventsInv'
<1>1. ASSUME UNCHANGED <<rows, outbox>> PROVE EventsInv'
  BY <1>1 DEF EventsInv
<1>2. ASSUME NEW fc, ResolveReject(k, fc), job[k].step # "rest" PROVE EventsInv'
  BY <1>2, RejectAnnounces DEF ResolveReject
<1>3. ASSUME IncrementRefAttempts(k), job[k].step # "rest" PROVE EventsInv'
  <2>1. /\ rows \in Seq(RowType) /\ rows[job[k].id] \in RowType /\ outbox \in Seq(EventType)
    BY <1>3, JobFacts DEF IndInv, TypeOK, TablesTyped
  <2>2. outbox' = outbox /\ DOMAIN rows' = DOMAIN rows
    BY <1>3 DEF IncrementRefAttempts
  <2>3. \A i \in DOMAIN rows : rows'[i].status = rows[i].status
    BY <1>3, <2>1 DEF IncrementRefAttempts, RowType
  <2> QED
    BY <2>1, <2>2, <2>3, OneMoreEvent DEF NoNewWaiting
<1>4. CASE TakePending(k) \/ FindPending(k) \/ Claim(k) \/ ResolverLockWallet(k)
  BY <1>1, <1>4 DEF TakePending, FindPending, Claim, ResolverLockWallet, dbVars
<1>5. CASE LookupReference(k)
  <2>1. job[k].step = "lookup" /\ rows \in Seq(RowType)
    BY <1>5 DEF LookupReference, ResolverInv, IndInv, TypeOK, TablesTyped
  <2> QED
    BY <1>1, <1>2, <1>3, <1>5, <2>1, LookupForms DEF dbVars
<1>6. CASE ResolverCheckReversal(k) \/ ResolverCheckReversalFails(k)
  <2>1. job[k].step # "rest"
    BY <1>6 DEF ResolverCheckReversal, ResolverCheckReversalFails
  <2>2. CASE AfterResolverCheck(k)
    BY <1>1, <1>2, <2>1, <2>2 DEF AfterResolverCheck, dbVars
  <2> QED
    BY <1>2, <1>6, <2>1, <2>2 DEF ResolverCheckReversal, ResolverCheckReversalFails
<1>7. CASE ResolverUpdateBalance(k) \/ ResolverWalletCallFails(k) \/ ResolverFails(k)
  BY <1>1, <1>7 DEF ResolverUpdateBalance, ResolverWalletCallFails, ResolverFails, ResolverWalletFails, dbVars
<1>8. CASE RejectAgain(k)
  BY <1>8, RejectAnnounces DEF RejectAgain
<1>9. CASE ResolverCommit(k)
  BY <1>9, CommitAnnounces
<1> QED
  BY <1>4, <1>5, <1>6, <1>7, <1>8, <1>9 DEF ResolverStep, ResolverFault

\* What handlers and workers write to the outbox announces each transaction in
\* order: that it waits, once and before anything else, and that it was
\* processed and moved a balance, once.  OutboxPublisher assumes the first of
\* its writers (SuccessionAssumption).  Only a rejection may come twice, from
\* workers that reject the same row again.
THEOREM EventsInOrder == ResolverSpec => []Announced(outbox)
<1>1. ResolverInit => EventsInv
  <2>1. ResolverInit => outbox = <<>>
    BY DEF ResolverInit, Init
  <2>2. outbox = <<>> => EventsInv
    BY DEF EventsInv, Announced
  <2> QED
    BY <2>1, <2>2
<1>2. ASSUME ResolverInv, EventsInv, [ResolverNext]_rvars PROVE EventsInv'
  <2>1. IndInv /\ rows \in Seq(RowType) /\ outbox \in Seq(EventType)
    BY <1>2 DEF ResolverInv, IndInv, TypeOK, TablesTyped
  <2>2. CASE UNCHANGED rvars \/ Quiescent
    BY <1>2, <2>2 DEF Quiescent, rvars, vars, dbVars, EventsInv
  <2>3. ASSUME NEW t \in Threads, ActsFor(t) \/ StorePendingReference(t) PROVE EventsInv'
    BY <1>2, <2>1, <2>3, HandlerCommits, HandlerAnnounces DEF HandlerActs, StorePendingReference
  <2>4. ASSUME NEW k \in Workers, ResolverStep(k) \/ ResolverFault(k) PROVE EventsInv'
    BY <1>2, <2>4, WorkerAnnounces
  <2>5. ASSUME NEW id \in DOMAIN rows, Hold(id) \/ Settle(id) PROVE EventsInv'
    <3>1. PICK s \in {"PENDING", "PROCESSED", "REJECTED"} : rows' = [rows EXCEPT ![id].status = s]
      BY <2>5 DEF Hold, Settle
    <3>2. outbox' = outbox /\ DOMAIN rows' = DOMAIN rows
      BY <2>5, <3>1 DEF Hold, Settle
    <3>3. rows[id] \in RowType
      BY <2>1
    <3>4. NoNewWaiting
      BY <3>1, <3>2, <3>3 DEF NoNewWaiting, RowType
    <3> QED
      BY <1>2, <2>1, <3>2, <3>4, OneMoreEvent
  <2> QED
    BY <1>2, <2>2, <2>3, <2>4, <2>5 DEF ResolverNext, Next, ActsFor
<1>3. EventsInv => Announced(outbox)
  BY DEF EventsInv
<1> QED
  BY <1>1, <1>2, <1>3, ResolverInvariance, PTL DEF ResolverSpec

\* Whoever settles, handler or worker, does what WalletService assumes of a
\* settlement: a balance moves only together with one ledger entry that starts
\* at the balance before and ends at the balance after, in one wallet at a
\* time, and the version counts it.
THEOREM MoneyMovesByEntry ==
  ResolverSpec =>
    [][\/ UNCHANGED <<balance, version, ledger>>
       \/ \E w \in Wallets, e \in EntryType : EntryMade(w, e)]_rvars
<1> DEFINE MoneyStep == \/ UNCHANGED <<balance, version, ledger>>
                        \/ \E w \in Wallets, e \in EntryType : EntryMade(w, e)
<1>1. ASSUME ResolverInv, [ResolverNext]_rvars PROVE MoneyStep
  <2>1. ASSUME NEW t \in Threads, Commits(t) PROVE MoneyStep
    <3>1. CASE NoCommit \/ Records(t)
      BY <3>1 DEF NoCommit, Records, InsertRow
    <3>2. CASE Settles(t)
      <4>1. \E w \in Wallets, e \in EntryType : \E ev1, ev2 : MovesMoney(w, e, ev1, ev2)
        BY <1>1, <3>2, SettlesMoney DEF ResolverInv
      <4> QED
        BY <4>1 DEF MovesMoney
    <3> QED
      BY <2>1, <3>1, <3>2 DEF Commits
  <2>2. CASE MovesNothing
    BY <2>2 DEF MovesNothing
  <2>3. CASE \E w \in Wallets, e \in EntryType : \E ev1, ev2 : MovesMoney(w, e, ev1, ev2)
    BY <2>3 DEF MovesMoney
  <2> QED
    BY <1>1, <2>1, <2>2, <2>3, ResolverForms
<1>2. ASSUME ResolverInv, [ResolverNext]_rvars PROVE [MoneyStep]_rvars
  BY <1>1, <1>2
<1> QED
  BY <1>2, ResolverInvariance, PTL DEF ResolverSpec
=============================================================================

---------------------------- MODULE WagerService ----------------------------
(***************************************************************************)
(* wagertransaction.Service.ProcessTransaction, run by several handlers    *)
(* (HTTP goroutines and SQS workers, of any number of processes) against   *)
(* one PostgreSQL database.  A step of the model is one database round     *)
(* trip of the code, or one SQL transaction from its first write to its    *)
(* commit; everything between two round trips is local computation.        *)
(*                                                                         *)
(* The database runs at READ COMMITTED: pool reads see committed rows, the *)
(* writes of a transaction become visible together at its commit, SELECT   *)
(* ... FOR UPDATE on a wallet blocks other such selects and every insert   *)
(* of a row whose foreign key names that wallet.                           *)
(***************************************************************************)
EXTENDS Integers, Sequences, FiniteSets

CONSTANTS
  Requests,        \* the requests providers send, records of RequestType
  Threads,         \* the handlers that may run ProcessTransaction at a time
  Workers,         \* the reference workers, who lock wallets too: ReferenceResolver
  Wallets,         \* the wallets that exist; a request may name another one
  OpeningBalance,  \* the balance each wallet was created with, minor units
  MaxAmount,       \* math.MaxInt64: the largest amount money.Money holds
  MaxDeliveries,   \* bound: deliveries of requests, retries included
  MaxFaults,       \* bound: failed database calls and crashes of a behaviour
  NoThread         \* the owner of a wallet row that is not locked

(***************************************************************************)
(* Requests.  amount is the parsed number of minor units, negative when    *)
(* money.ParseMoney refuses the text; ref is the external id of the        *)
(* referenced transaction or NoRef; hash stands for the SHA-256 of the     *)
(* payload text; message is the SQS message id, or NoMessage over HTTP.    *)
(***************************************************************************)
NoRef     == "none"
NoMessage == "none"

Kinds         == {"BET", "WIN", "LOSS", "REFUND", "ROLLBACK"}
ReversalKinds == {"REFUND", "ROLLBACK"}

RequestFields == {"provider", "key", "ext", "kind", "wallet", "player",
                  "round", "amount", "ref", "hash", "message"}

\* ComputePayloadHash covers every field except the idempotency key (and the
\* transport); SHA-256 is taken to be free of collisions.
HashedFields == RequestFields \ {"key", "hash", "message"}

ASSUME RequestsAssumption ==
  \A r \in Requests :
    /\ DOMAIN r = RequestFields
    /\ r.amount \in Int /\ r.amount <= MaxAmount
    /\ \A s \in Requests : r.hash = s.hash => \A f \in HashedFields : r[f] = s[f]

ASSUME WalletsAssumption ==
  /\ MaxAmount \in Nat
  /\ OpeningBalance \in [Wallets -> 0..MaxAmount]

ASSUME BoundsAssumption ==
  /\ MaxDeliveries \in Nat
  /\ MaxFaults \in Nat

ASSUME NoThreadAssumption == NoThread \notin Threads \cup Workers /\ Threads \cap Workers = {}

(***************************************************************************)
(* The database, then the state of the handlers.                           *)
(***************************************************************************)
VARIABLES
  balance,   \* wallets.balance
  version,   \* wallets.version
  lock,      \* whose transaction holds the wallet row FOR UPDATE
  rows,      \* wager_transactions of external origin; the index is the id
  ledger,    \* wallet_ledger_entries of each wallet, in commit order
  outbox,    \* outbox_events, in commit order
  inbox,     \* inbox_messages with completed_at set
  pc,        \* where each handler stands
  req,       \* the request it handles
  ref,       \* the id of the referenced row it read, or NoRow
  change,    \* the balance change (or balance read) its transaction carries
  code,      \* the failure code it is about to record
  out,       \* the response it returned, or is completing
  received,  \* deliveries so far
  faults     \* database failures and crashes so far

dbVars    == <<balance, version, lock, rows, ledger, outbox, inbox>>
localVars == <<req, ref, change, code>>
vars      == <<dbVars, pc, localVars, out, received, faults>>

NoRow     == 0
OpeningTx == 0      \* the OPENING row of a wallet, which has no external id
NoBalance == -1     \* a NULL result_balance
NoRequest == [f \in RequestFields |-> "none"]
NoChange  == [before |-> 0, after |-> NoBalance, version |-> 0, dir |-> "none"]

Response(err, tx, status, bal, replay) ==
  [err |-> err, tx |-> tx, status |-> status, balance |-> bal, replay |-> replay]
Failure(err) == Response(err, NoRow, "none", NoBalance, FALSE)

Row(r, status, failureCode, internalRef, resultBalance) ==
  [req |-> r, status |-> status, failureCode |-> failureCode,
   internalRef |-> internalRef, resultBalance |-> resultBalance, attempts |-> 0]

Entry(tx, dir, amount, before, after) ==
  [tx |-> tx, dir |-> dir, amount |-> amount, before |-> before, after |-> after]

Event(type, tx, wallet, after, ver) ==
  [type |-> type, tx |-> tx, wallet |-> wallet, after |-> after, version |-> ver]

-----------------------------------------------------------------------------
(***************************************************************************)
(* What the repositories answer.                                           *)
(***************************************************************************)

\* WHERE provider = $1 AND idempotency_key = $2
FindByIdempotencyKey(r) ==
  {id \in DOMAIN rows : /\ rows[id].req.provider = r.provider
                        /\ rows[id].req.key = r.key}

\* WHERE provider = $1 AND external_id = $2, of which the first row is scanned
FindByProviderAndExternalID(provider, ext) ==
  {id \in DOMAIN rows : /\ rows[id].req.provider = provider
                        /\ rows[id].req.ext = ext}

ExternalTransactionExists(r) ==
  \E id \in FindByProviderAndExternalID(r.provider, r.ext) : rows[id].req.key # r.key

HasSuccessfulReversal(refId) ==
  \E id \in DOMAIN rows : /\ rows[id].internalRef = refId
                          /\ rows[id].req.kind \in ReversalKinds
                          /\ rows[id].status = "PROCESSED"

\* Mutant: no wager_transactions_idempotency_uq.
MutantNoKeyIndex(row) ==
  /\ row.req.kind \in ReversalKinds
  /\ row.status = "PROCESSED"
  /\ HasSuccessfulReversal(row.internalRef)

\* Mutant: no wager_transactions_one_successful_reversal_uq (migration 000010).
MutantNoReversalIndex(row) == FindByIdempotencyKey(row.req) # {}

\* the two unique indexes of wager_transactions an external row can violate
UniqueViolation(row) ==
  \/ FindByIdempotencyKey(row.req) # {}
  \/ /\ row.req.kind \in ReversalKinds
     /\ row.status = "PROCESSED"
     /\ row.internalRef # NoRow
     /\ HasSuccessfulReversal(row.internalRef)

\* the unique indexes and the foreign key wallet_id admit the row
CanInsert(row) == row.req.wallet \in Wallets /\ ~UniqueViolation(row)

\* Mutant: the wallet is read without FOR UPDATE.
MutantNoRowLock(w) == w \in Wallets

\* SELECT ... FOR UPDATE returns once no transaction holds the row
Lockable(w) == w \in Wallets /\ lock[w] = NoThread

\* the foreign key's FOR KEY SHARE waits for a FOR UPDATE of the wallet
WalletFree(w) == w \in Wallets => lock[w] = NoThread

-----------------------------------------------------------------------------
(***************************************************************************)
(* The checks of the service, on a request and the row it refers to.       *)
(***************************************************************************)

\* kind.Valid, ParseMoney and NewExternalTransaction
ValidationError(r) ==
  IF r.kind \notin Kinds                     THEN "INVALID_TRANSACTION_TYPE"
  ELSE IF r.amount < 0                       THEN "INVALID_MONEY"
  ELSE IF r.kind # "LOSS" /\ r.amount = 0    THEN "POSITIVE_AMOUNT_REQUIRED"
  ELSE IF r.kind = "LOSS" /\ r.amount # 0    THEN "ZERO_AMOUNT_REQUIRED"
  ELSE ""

\* validateReference and mapValidationError
ReferenceMismatch(r, p) ==
  IF p.player # r.player      THEN "PLAYER_MISMATCH"
  ELSE IF p.wallet # r.wallet THEN "WALLET_MISMATCH"
  ELSE IF p.round # r.round   THEN "ROUND_MISMATCH"
  ELSE ""

\* what processWin makes of the BET a WIN names
WinReferenceError(r, p) ==
  IF p.kind # "BET" THEN "REFERENCE_NOT_FOUND" ELSE ReferenceMismatch(r, p)

\* Mutant: a ROLLBACK always credits, like a REFUND.
MutantRollbackCredits(kind, refKind) == IF kind = "BET" THEN "DEBIT" ELSE "CREDIT"

\* Credit or Debit: fixed by the kind, and for a ROLLBACK by what it reverses
Direction(kind, refKind) ==
  IF kind = "BET"                                                THEN "DEBIT"
  ELSE IF kind \in {"WIN", "REFUND"}                             THEN "CREDIT"
  ELSE IF kind = "ROLLBACK" /\ refKind = "BET"                   THEN "CREDIT"
  ELSE IF kind = "ROLLBACK" /\ refKind \in {"WIN", "REFUND"}     THEN "DEBIT"
  ELSE "none"

RefKind(t) == IF ref[t] = NoRow THEN "none" ELSE rows[ref[t]].req.kind

\* Mutant: the overflow check of Money.Add is missing.
MutantNoOverflowCheck(bal, dir, amount) ==
  IF dir = "DEBIT" /\ bal < amount THEN "INSUFFICIENT" ELSE ""

\* Mutant: the balance is not compared with the amount of a debit.
MutantNoDebitCheck(bal, dir, amount) ==
  IF dir = "CREDIT" /\ bal > MaxAmount - amount THEN "OVERFLOW" ELSE ""

\* Mutant: canDebitLocked asks for more than the amount.
MutantStrictDebit(bal, dir, amount) ==
  IF dir = "DEBIT" /\ bal <= amount                   THEN "INSUFFICIENT"
  ELSE IF dir = "CREDIT" /\ bal > MaxAmount - amount  THEN "OVERFLOW"
  ELSE ""

\* the errors of Wallet.Debit and Wallet.Credit, with the overflow check of
\* Money.Add
WalletError(bal, dir, amount) ==
  IF dir = "DEBIT" /\ bal < amount                    THEN "INSUFFICIENT"
  ELSE IF dir = "CREDIT" /\ bal > MaxAmount - amount  THEN "OVERFLOW"
  ELSE ""

\* Mutant: Debit and Credit forget w.version++.
MutantStaleVersion(c, amount) ==
  [before |-> c.before, dir |-> c.dir, version |-> c.version,
   after |-> IF c.dir = "DEBIT" THEN c.before - amount ELSE c.before + amount]

\* the BalanceChange of Wallet.Debit and Wallet.Credit
Applied(c, amount) ==
  [before |-> c.before, dir |-> c.dir, version |-> c.version + 1,
   after |-> IF c.dir = "DEBIT" THEN c.before - amount ELSE c.before + amount]

\* mapWalletError and mapWalletErrorForReversal
FailureCode(kind, err) ==
  IF err # "INSUFFICIENT"         THEN "WALLET_ERROR"
  ELSE IF kind \in ReversalKinds  THEN "REVERSAL_INSUFFICIENT_BALANCE"
  ELSE "INSUFFICIENT_BALANCE"

\* the error a handler returns after a wallet error: reversals return it as
\* it is, BET and WIN wrap everything but a version conflict
ReturnedError(kind, err) ==
  IF kind \in ReversalKinds    THEN "WALLET_ERROR"
  ELSE IF err = "CONCURRENT"   THEN "CONCURRENT_UPDATE"
  ELSE "INSUFFICIENT_BALANCE"
-----------------------------------------------------------------------------
(***************************************************************************)
(* Moves of a handler.                                                     *)
(***************************************************************************)
Goto(t, step) == pc' = [pc EXCEPT ![t] = step]

\* ProcessTransaction returns; its local variables are gone
Return(t, response) ==
  /\ Goto(t, "done")
  /\ out' = [out EXCEPT ![t] = response]
  /\ ref' = [ref EXCEPT ![t] = NoRow]
  /\ change' = [change EXCEPT ![t] = NoChange]
  /\ code' = [code EXCEPT ![t] = ""]
  /\ UNCHANGED req

\* the transaction carries on to a read of the balance to report
ReportBalanceOf(t, tx, status, replay) ==
  /\ Goto(t, "reportBalance")
  /\ out' = [out EXCEPT ![t] = Response("", tx, status, NoBalance, replay)]
  /\ UNCHANGED localVars

RejectWith(t, failureCode) ==
  /\ Goto(t, "reject")
  /\ code' = [code EXCEPT ![t] = failureCode]
  /\ UNCHANGED <<req, ref, change, out>>

\* Mutant: an error path ends the request and leaves its transaction open.
MutantNeverReleased(t) == lock

Released(t) == [w \in Wallets |-> IF lock[w] = t THEN NoThread ELSE lock[w]]

Fault == faults < MaxFaults /\ faults' = faults + 1

-----------------------------------------------------------------------------
(***************************************************************************)
(* Receiving a request and the idempotency checks of ProcessTransaction.   *)
(***************************************************************************)

\* The HTTP handler or the SQS worker calls ProcessTransaction: a first
\* delivery, a client's retry or a redelivery of the queue.
Receive(t, r) ==
  /\ pc[t] \in {"idle", "done"}
  /\ received < MaxDeliveries
  /\ received' = received + 1
  /\ req' = [req EXCEPT ![t] = r]
  /\ out' = [out EXCEPT ![t] = Failure("")]
  /\ Goto(t, "checkKey")
  /\ UNCHANGED <<dbVars, ref, change, code, faults>>

\* Mutant: a replay reports the balance of now, whatever was stored.
MutantReplayCurrent(t, id) == ReportBalanceOf(t, id, rows[id].status, TRUE)

\* handleReplay: the stored result, or the balance of now if none was stored
HandleReplay(t, id) ==
  IF rows[id].resultBalance # NoBalance
  THEN Return(t, Response("", id, rows[id].status, rows[id].resultBalance, TRUE))
  ELSE ReportBalanceOf(t, id, rows[id].status, TRUE)

CheckIdempotency(t) ==
  /\ pc[t] = "checkKey"
  /\ IF FindByIdempotencyKey(req[t]) = {}
     THEN Goto(t, "checkExternal") /\ UNCHANGED <<localVars, out>>
     ELSE \E id \in FindByIdempotencyKey(req[t]) :
            IF rows[id].req.hash # req[t].hash
            THEN Return(t, Failure("PAYLOAD_CONFLICT"))
            ELSE HandleReplay(t, id)
  /\ UNCHANGED <<dbVars, received, faults>>

\* where the switch on the kind leads
Dispatch(t) ==
  IF req[t].kind = "LOSS"                              THEN "lossBalance"
  ELSE IF req[t].kind # "BET" /\ req[t].ref # NoRef    THEN "findReference"
  ELSE "lockWallet"

CheckExternalId(t) ==
  /\ pc[t] = "checkExternal"
  /\ IF ExternalTransactionExists(req[t])
     THEN Return(t, Failure("EXTERNAL_ID_REUSE"))
     ELSE IF ValidationError(req[t]) # ""
     THEN Return(t, Failure(ValidationError(req[t])))
     ELSE IF req[t].kind \in ReversalKinds /\ req[t].ref = NoRef
     THEN RejectWith(t, "MISSING_REFERENCE")
     ELSE Goto(t, Dispatch(t)) /\ UNCHANGED <<localVars, out>>
  /\ UNCHANGED <<dbVars, received, faults>>

-----------------------------------------------------------------------------
(***************************************************************************)
(* The referenced transaction of a WIN, a REFUND or a ROLLBACK.            *)
(***************************************************************************)

\* a WIN may name a BET, whatever became of it
WinReference(t, id) ==
  LET err == WinReferenceError(req[t], rows[id].req) IN
  IF err # ""
  THEN RejectWith(t, err)
  ELSE /\ Goto(t, "lockWallet")
       /\ UNCHANGED <<localVars, out>>

ReversalReference(t, id) ==
  LET err == ReferenceMismatch(req[t], rows[id].req) IN
  \/ err # "" /\ RejectWith(t, err)
  \/ /\ err = "" /\ rows[id].status \in {"PENDING", "PENDING_REFERENCE"}
     /\ Goto(t, "pendingReference")
     /\ UNCHANGED <<localVars, out>>
  \/ /\ err = "" /\ rows[id].status \in {"REJECTED", "FAILED"}
     /\ RejectWith(t, "REFERENCE_NOT_SUCCESSFUL")
  \/ /\ err = "" /\ rows[id].status = "PROCESSED"
     /\ Goto(t, "checkReversal")
     /\ ref' = [ref EXCEPT ![t] = id]
     /\ UNCHANGED <<req, change, code, out>>

FindReference(t) ==
  /\ pc[t] = "findReference"
  /\ LET found == FindByProviderAndExternalID(req[t].provider, req[t].ref) IN
     IF found = {}
     THEN RejectWith(t, "REFERENCE_NOT_FOUND")
     ELSE \E id \in found : IF req[t].kind = "WIN" THEN WinReference(t, id)
                                                   ELSE ReversalReference(t, id)
  /\ UNCHANGED <<dbVars, received, faults>>

\* the value check, and the default of processRollback's switch
AfterReversalCheck(t) ==
  IF req[t].amount # rows[ref[t]].req.amount
  THEN RejectWith(t, "REVERSAL_VALUE_MISMATCH")
  ELSE IF Direction(req[t].kind, RefKind(t)) = "none"
  THEN RejectWith(t, "INVALID_REFERENCE_TYPE")
  ELSE Goto(t, "lockWallet") /\ UNCHANGED <<localVars, out>>

CheckReversal(t) ==
  /\ pc[t] = "checkReversal"
  /\ IF HasSuccessfulReversal(ref[t])
     THEN RejectWith(t, "DOUBLE_REVERSAL")
     ELSE AfterReversalCheck(t)
  /\ UNCHANGED <<dbVars, received, faults>>

\* hasReversal, _ := ... : a failed check counts as "no reversal"
CheckReversalFails(t) ==
  /\ pc[t] = "checkReversal"
  /\ Fault
  /\ AfterReversalCheck(t)
  /\ UNCHANGED <<dbVars, received>>

-----------------------------------------------------------------------------
(***************************************************************************)
(* wallet.Service.Debit and Credit inside the handler's transaction.       *)
(***************************************************************************)

\* the wallet service returned an error: the transaction is rolled back and
\* the handler goes on to record the rejection in another one
WalletFails(t, err) ==
  LET failureCode == FailureCode(req[t].kind, err) IN
  /\ lock' = Released(t)
  /\ code' = [code EXCEPT ![t] = failureCode]
  /\ out' = [out EXCEPT ![t] = Failure(ReturnedError(req[t].kind, err))]
  /\ change' = [change EXCEPT ![t] = NoChange]
  /\ Goto(t, IF failureCode = "WALLET_ERROR" THEN "createAndReject" ELSE "failureBalance")
  /\ UNCHANGED <<balance, version, rows, ledger, outbox, inbox, req, ref>>

\* FindByIDForUpdate
LockWallet(t) ==
  LET w == req[t].wallet IN
  /\ pc[t] = "lockWallet"
  /\ \/ w \notin Wallets /\ WalletFails(t, "NOT_FOUND")
     \/ /\ Lockable(w)
        /\ lock' = [lock EXCEPT ![w] = t]
        /\ change' = [change EXCEPT ![t] =
             [before |-> balance[w], after |-> NoBalance, version |-> version[w],
              dir |-> Direction(req[t].kind, RefKind(t))]]
        /\ Goto(t, "updateBalance")
        /\ UNCHANGED <<balance, version, rows, ledger, outbox, inbox, req, ref, code, out>>
  /\ UNCHANGED <<received, faults>>

\* Wallet.Debit or Wallet.Credit on the row read, then UpdateBalanceTx
UpdateBalance(t) ==
  LET c   == change[t]
      amt == req[t].amount
      err == WalletError(c.before, c.dir, amt)
  IN /\ pc[t] = "updateBalance"
     /\ IF err # "" THEN WalletFails(t, err)
        ELSE IF version[req[t].wallet] # c.version THEN WalletFails(t, "CONCURRENT")
        ELSE /\ change' = [change EXCEPT ![t] = Applied(c, amt)]
             /\ Goto(t, "commit")
             /\ UNCHANGED <<dbVars, req, ref, code, out>>
     /\ UNCHANGED <<received, faults>>

\* the balance stored with a rejection is read after the rollback
ReadFailureBalance(t) ==
  /\ pc[t] = "failureBalance"
  /\ change' = [change EXCEPT ![t].after = balance[req[t].wallet]]
  /\ Goto(t, "createAndReject")
  /\ UNCHANGED <<dbVars, req, ref, code, out, received, faults>>

-----------------------------------------------------------------------------
(***************************************************************************)
(* The SQL transactions that end a request.  Each one is a single step: an *)
(* insert that meets an uncommitted row of the same key waits for its      *)
(* transaction to end, so only the order of the commits matters.           *)
(***************************************************************************)
NewId == Len(rows) + 1

\* the row each kind of transaction inserts
RowToInsert(t) ==
  IF pc[t] \in {"commit", "commitLoss"}
  THEN Row(req[t], "PROCESSED", "", IF req[t].kind \in ReversalKinds THEN ref[t] ELSE NoRow,
           change[t].after)
  ELSE IF pc[t] = "pendingReference"
  THEN Row(req[t], "PENDING_REFERENCE", "", NoRow, NoBalance)
  ELSE Row(req[t], "REJECTED", code[t], NoRow, change[t].after)

TransactionEvent(status) ==
  IF status = "PROCESSED"              THEN "WagerTransactionProcessed"
  ELSE IF status = "PENDING_REFERENCE" THEN "WagerTransactionPendingReference"
  ELSE "WagerTransactionRejected"

\* a row and its event, without money
InsertRow(t) ==
  LET row == RowToInsert(t) IN
  /\ rows' = Append(rows, row)
  /\ outbox' = Append(outbox, Event(TransactionEvent(row.status), NewId, row.req.wallet, NoBalance, 0))
  /\ UNCHANGED <<balance, version, lock, ledger>>

NoInsert == UNCHANGED <<balance, version, lock, ledger, rows, outbox>>

\* Mutant: the ledger entry of a settlement is not written.
MutantNoLedgerEntry(t) == UNCHANGED ledger

\* CreateWalletLedgerEntryTx
WriteLedgerEntry(t) ==
  ledger' = [ledger EXCEPT ![req[t].wallet] =
    Append(@, Entry(NewId, change[t].dir, req[t].amount, change[t].before, change[t].after))]

\* the wallet, the row, the ledger entry and both events
InsertSettlement(t) ==
  LET w == req[t].wallet
      c == change[t]
  IN /\ balance' = [balance EXCEPT ![w] = c.after]
     /\ version' = [version EXCEPT ![w] = c.version]
     /\ lock' = Released(t)
     /\ rows' = Append(rows, RowToInsert(t))
     /\ WriteLedgerEntry(t)
     /\ outbox' = outbox \o <<Event("WagerTransactionProcessed", NewId, w, NoBalance, 0),
                              Event("WalletBalanceChanged", NewId, w, c.after, c.version)>>

\* Mutant: MarkCompletedTx is forgotten.
MutantInboxLeftOpen(t) == UNCHANGED inbox

\* RecordReceivedTx and MarkCompletedTx, whose results nobody looks at
CompleteInbox(t) == inbox' = inbox \cup ({req[t].message} \ {NoMessage})

CommitWithLedger(t) ==
  /\ pc[t] = "commit"
  /\ IF UniqueViolation(RowToInsert(t))
     THEN /\ lock' = Released(t)
          /\ IF req[t].kind \in ReversalKinds
             THEN Return(t, Failure("DOUBLE_REVERSAL"))
             ELSE Goto(t, "findDuplicate") /\ UNCHANGED <<localVars, out>>
          /\ UNCHANGED <<balance, version, rows, ledger, outbox, inbox>>
     ELSE /\ InsertSettlement(t)
          /\ CompleteInbox(t)
          /\ Return(t, Response("", NewId, "PROCESSED", change[t].after, FALSE))
  /\ UNCHANGED <<received, faults>>

\* ErrIdempotentDuplicate: ProcessTransaction looks the winner up and replays it
FindDuplicate(t) ==
  /\ pc[t] = "findDuplicate"
  /\ \E id \in FindByIdempotencyKey(req[t]) : HandleReplay(t, id)
  /\ UNCHANGED <<dbVars, received, faults>>

CreateAndReject(t) ==
  /\ pc[t] = "createAndReject"
  /\ WalletFree(req[t].wallet)
  /\ IF CanInsert(RowToInsert(t)) THEN InsertRow(t) ELSE NoInsert
  /\ Return(t, out[t])
  /\ UNCHANGED <<inbox, received, faults>>

Reject(t) ==
  /\ pc[t] = "reject"
  /\ WalletFree(req[t].wallet)
  /\ IF CanInsert(RowToInsert(t))
     THEN InsertRow(t) /\ ReportBalanceOf(t, NewId, "REJECTED", FALSE)
     ELSE Return(t, Failure("INTERNAL")) /\ NoInsert
  /\ UNCHANGED <<inbox, received, faults>>

InsertPendingReference(t) ==
  /\ pc[t] = "pendingReference"
  /\ WalletFree(req[t].wallet)
  /\ IF CanInsert(RowToInsert(t))
     THEN InsertRow(t) /\ Return(t, Response("", NewId, "PENDING_REFERENCE", 0, FALSE))
     ELSE Return(t, Failure("INTERNAL")) /\ NoInsert
  /\ UNCHANGED <<inbox, received, faults>>

\* processLoss: the balance is read from the pool, outside the transaction
LossBalance(t) ==
  /\ pc[t] = "lossBalance"
  /\ IF req[t].wallet \in Wallets
     THEN /\ change' = [change EXCEPT ![t].after = balance[req[t].wallet]]
          /\ Goto(t, "commitLoss")
          /\ UNCHANGED <<req, ref, code, out>>
     ELSE Return(t, Failure("INTERNAL"))
  /\ UNCHANGED <<dbVars, received, faults>>

CommitLoss(t) ==
  /\ pc[t] = "commitLoss"
  /\ WalletFree(req[t].wallet)
  /\ IF CanInsert(RowToInsert(t))
     THEN /\ InsertRow(t)
          /\ CompleteInbox(t)
          /\ ReportBalanceOf(t, NewId, "PROCESSED", FALSE)
     ELSE /\ Return(t, Failure("INTERNAL"))
          /\ UNCHANGED dbVars
  /\ UNCHANGED <<received, faults>>

\* getWalletBalance for the answer of a rejection, a LOSS or a replay
ReportBalance(t) ==
  /\ pc[t] = "reportBalance"
  /\ Return(t, [out[t] EXCEPT !.balance = balance[rows[out[t].tx].req.wallet]])
  /\ UNCHANGED <<dbVars, received, faults>>

-----------------------------------------------------------------------------
(***************************************************************************)
(* Database calls that fail (a lost connection, a cancelled context, the   *)
(* victim of a deadlock) and processes that die.                           *)
(***************************************************************************)

\* a read or a Begin whose error ProcessTransaction returns
ReadFails(t) ==
  /\ pc[t] \in {"checkKey", "checkExternal", "findReference", "lockWallet", "lossBalance"}
  /\ Fault
  /\ Return(t, Failure("INTERNAL"))
  /\ UNCHANGED <<dbVars, received>>

FindDuplicateFails(t) ==
  /\ pc[t] = "findDuplicate"
  /\ Fault
  /\ Return(t, Failure("IDEMPOTENT_DUPLICATE"))
  /\ UNCHANGED <<dbVars, received>>

\* FindByIDForUpdate or UpdateBalanceTx fails inside the wallet service
WalletCallFails(t) ==
  /\ \/ pc[t] = "lockWallet"
     \/ /\ pc[t] = "updateBalance"
        /\ WalletError(change[t].before, change[t].dir, req[t].amount) = ""
  /\ Fault
  /\ WalletFails(t, "DATABASE")
  /\ UNCHANGED received

\* if wErr == nil { tx.SetResultBalance(w) }
FailureBalanceFails(t) ==
  /\ pc[t] = "failureBalance"
  /\ Fault
  /\ Goto(t, "createAndReject")
  /\ UNCHANGED <<dbVars, localVars, out, received>>

\* the balance of a rejection is optional, the one of a LOSS or a replay is not
ReportBalanceFails(t) ==
  /\ pc[t] = "reportBalance"
  /\ Fault
  /\ Return(t, IF out[t].status = "REJECTED" /\ ~out[t].replay
               THEN [out[t] EXCEPT !.balance = 0]
               ELSE Failure("INTERNAL"))
  /\ UNCHANGED <<dbVars, received>>

InsertSteps == {"commit", "commitLoss", "reject", "pendingReference", "createAndReject"}

\* the transaction is rolled back, whichever statement of it failed
TransactionFails(t) ==
  /\ pc[t] \in InsertSteps
  /\ Fault
  /\ lock' = Released(t)
  /\ Return(t, IF pc[t] = "createAndReject" THEN out[t] ELSE Failure("INTERNAL"))
  /\ UNCHANGED <<balance, version, rows, ledger, outbox, inbox, received>>

\* the server committed, but the answer to Commit was lost
CommitAnswerLost(t) ==
  /\ pc[t] \in InsertSteps \ {"createAndReject"}
  /\ pc[t] # "commit" => WalletFree(req[t].wallet)
  /\ CanInsert(RowToInsert(t))
  /\ Fault
  /\ IF pc[t] = "commit" THEN InsertSettlement(t) ELSE InsertRow(t)
  /\ IF pc[t] \in {"commit", "commitLoss"} THEN CompleteInbox(t) ELSE UNCHANGED inbox
  /\ Return(t, Failure("INTERNAL"))
  /\ UNCHANGED received

\* the process dies; the server rolls its open transaction back
Crash(t) ==
  /\ pc[t] \notin {"idle", "done"}
  /\ Fault
  /\ lock' = Released(t)
  /\ Goto(t, "idle")
  /\ req' = [req EXCEPT ![t] = NoRequest]
  /\ out' = [out EXCEPT ![t] = Failure("")]
  /\ ref' = [ref EXCEPT ![t] = NoRow]
  /\ change' = [change EXCEPT ![t] = NoChange]
  /\ code' = [code EXCEPT ![t] = ""]
  /\ UNCHANGED <<balance, version, rows, ledger, outbox, inbox, received>>

-----------------------------------------------------------------------------
(***************************************************************************)
(* The specification.                                                      *)
(***************************************************************************)

\* wallets as CreateWallet leaves them: version 1, and an OPENING ledger
\* entry unless the initial balance is zero
Init ==
  /\ balance = OpeningBalance
  /\ version = [w \in Wallets |-> 1]
  /\ lock = [w \in Wallets |-> NoThread]
  /\ rows = <<>>
  /\ ledger = [w \in Wallets |->
       IF OpeningBalance[w] = 0 THEN <<>>
       ELSE <<Entry(OpeningTx, "CREDIT", OpeningBalance[w], 0, OpeningBalance[w])>>]
  /\ outbox = <<>>
  /\ inbox = {}
  /\ pc = [t \in Threads |-> "idle"]
  /\ req = [t \in Threads |-> NoRequest]
  /\ ref = [t \in Threads |-> NoRow]
  /\ change = [t \in Threads |-> NoChange]
  /\ code = [t \in Threads |-> ""]
  /\ out = [t \in Threads |-> Failure("")]
  /\ received = 0
  /\ faults = 0

\* the steps of ProcessTransaction when the database answers.  The handlers
\* alone never store a PENDING row, so none gets to InsertPendingReference;
\* ReferenceResolver, whose external writer stores them, adds that step.
Step(t) ==
  \/ CheckIdempotency(t)
  \/ CheckExternalId(t)
  \/ FindReference(t)
  \/ CheckReversal(t)
  \/ LockWallet(t)
  \/ UpdateBalance(t)
  \/ ReadFailureBalance(t)
  \/ CommitWithLedger(t)
  \/ FindDuplicate(t)
  \/ CreateAndReject(t)
  \/ Reject(t)
  \/ LossBalance(t)
  \/ CommitLoss(t)
  \/ ReportBalance(t)

FaultStep(t) ==
  \/ CheckReversalFails(t)
  \/ ReadFails(t)
  \/ FindDuplicateFails(t)
  \/ WalletCallFails(t)
  \/ FailureBalanceFails(t)
  \/ ReportBalanceFails(t)
  \/ TransactionFails(t)
  \/ CommitAnswerLost(t)
  \/ Crash(t)

\* nobody has anything left to do: the handlers wait for requests
Quiescent ==
  /\ \A t \in Threads : pc[t] \in {"idle", "done"}
  /\ UNCHANGED vars

Next ==
  \/ \E t \in Threads : (\E r \in Requests : Receive(t, r)) \/ Step(t) \/ FaultStep(t)
  \/ Quiescent

\* a goroutine that can run runs, and PostgreSQL grants a free lock
Fairness == \A t \in Threads : WF_vars(Step(t))

Spec     == Init /\ [][Next]_vars
FairSpec == Spec /\ Fairness
-----------------------------------------------------------------------------
(***************************************************************************)
(* Properties.                                                             *)
(***************************************************************************)
Steps == {"idle", "checkKey", "checkExternal", "findReference", "checkReversal",
          "lockWallet", "updateBalance", "commit", "findDuplicate", "failureBalance",
          "createAndReject", "reject", "pendingReference", "lossBalance",
          "commitLoss", "reportBalance", "done"}
Statuses   == {"PENDING", "PENDING_REFERENCE", "PROCESSED", "REJECTED", "FAILED"}
Directions == {"DEBIT", "CREDIT"}
Balances   == 0..MaxAmount
MaybeBalances == Balances \cup {NoBalance}

\* what a rejected row may record, and what ProcessTransaction may return
FailureCodes == {"", "MISSING_REFERENCE", "REFERENCE_NOT_FOUND", "REFERENCE_NOT_SUCCESSFUL",
  "PLAYER_MISMATCH", "WALLET_MISMATCH", "ROUND_MISMATCH", "DOUBLE_REVERSAL",
  "REVERSAL_VALUE_MISMATCH", "INVALID_REFERENCE_TYPE", "WALLET_ERROR",
  "INSUFFICIENT_BALANCE", "REVERSAL_INSUFFICIENT_BALANCE"}
Errors == {"", "INTERNAL", "PAYLOAD_CONFLICT", "EXTERNAL_ID_REUSE", "INVALID_TRANSACTION_TYPE",
  "INVALID_MONEY", "POSITIVE_AMOUNT_REQUIRED", "ZERO_AMOUNT_REQUIRED", "DOUBLE_REVERSAL",
  "WALLET_ERROR", "CONCURRENT_UPDATE", "INSUFFICIENT_BALANCE", "IDEMPOTENT_DUPLICATE"}
EventTypes == {"WagerTransactionProcessed", "WagerTransactionPendingReference",
  "WagerTransactionRejected", "WalletBalanceChanged"}

RowType == [req : Requests, status : Statuses, failureCode : FailureCodes,
            internalRef : Nat, resultBalance : MaybeBalances, attempts : Nat]
EntryType == [tx : Nat, dir : Directions, amount : Balances,
              before : Balances, after : Balances]
EventType == [type : EventTypes, tx : Nat, wallet : Wallets,
              after : MaybeBalances, version : Nat]
ChangeType == [before : Balances, after : MaybeBalances, version : Nat,
               dir : Directions \cup {"none"}]
ResponseType == [err : Errors, tx : Nat, status : Statuses \cup {"none"},
                 balance : MaybeBalances, replay : BOOLEAN]

TablesTyped ==
  /\ balance \in [Wallets -> Balances]
  /\ version \in [Wallets -> Nat]
  /\ lock \in [Wallets -> Threads \cup Workers \cup {NoThread}]
  /\ rows \in Seq(RowType)
  /\ ledger \in [Wallets -> Seq(EntryType)]
  /\ outbox \in Seq(EventType)
  /\ inbox \subseteq {r.message : r \in Requests}

HandlersTyped ==
  /\ pc \in [Threads -> Steps]
  /\ req \in [Threads -> Requests \cup {NoRequest}]
  /\ ref \in [Threads -> Nat]
  /\ change \in [Threads -> ChangeType]
  /\ code \in [Threads -> FailureCodes]
  /\ out \in [Threads -> ResponseType]

CountersTyped == received \in 0..MaxDeliveries /\ faults \in 0..MaxFaults

\* TypeOK: every variable stays in its type; in particular the stored and
\* the computed balances stay within 0..MaxInt64, which the wallet's debit
\* check and the overflow check of Money.Add are there for.
TypeOK == TablesTyped /\ HandlersTyped /\ CountersTyped

\* A handler between FindByIDForUpdate and its commit works on the wallet row
\* as it is: nobody else has moved the balance or the version it read
\* (applyBalanceChange), so UpdateBalanceTx's version test never fails.
WalletSnapshotCurrent ==
  \A t \in Threads : pc[t] \in {"updateBalance", "commit"} =>
    /\ req[t].wallet \in Wallets
    /\ lock[req[t].wallet] = t
    /\ change[t].before = balance[req[t].wallet]
    /\ change[t].version =
         version[req[t].wallet] + (IF pc[t] = "commit" THEN 1 ELSE 0)

BalanceAfter(w, i) == IF i = 0 THEN 0 ELSE ledger[w][i].after

\* The ledger of a wallet is an unbroken chain of entries that starts at zero,
\* follows the arithmetic of its directions, and ends at the stored balance
\* (what Service.Reconcile recomputes), however handlers interleave and fail.
LedgerExplainsBalance ==
  \A w \in Wallets :
    /\ \A i \in DOMAIN ledger[w] :
         LET e == ledger[w][i] IN
         /\ e.before = BalanceAfter(w, i - 1)
         /\ e.after = IF e.dir = "DEBIT" THEN e.before - e.amount ELSE e.before + e.amount
    /\ balance[w] = BalanceAfter(w, Len(ledger[w]))

\* the places of the ledger entries of a transaction; row id has at most
\* Len(rows) predecessors and the opening entry before it
EntriesOf(id) ==
  {p \in Wallets \X (1..Len(rows) + 1) :
     p[2] \in DOMAIN ledger[p[1]] /\ ledger[p[1]][p[2]].tx = id}

\* Every transaction moves money exactly as often as its status says: a
\* PROCESSED BET, WIN, REFUND or ROLLBACK has one ledger entry, in its own
\* wallet and of its own amount; every other row has none (commitWithLedger).
SettledExactlyOnce ==
  \A id \in DOMAIN rows :
    IF rows[id].status = "PROCESSED" /\ rows[id].req.kind # "LOSS"
    THEN /\ Cardinality(EntriesOf(id)) = 1
         /\ \A p \in EntriesOf(id) : /\ p[1] = rows[id].req.wallet
                                     /\ ledger[p[1]][p[2]].amount = rows[id].req.amount
    ELSE EntriesOf(id) = {}

\* However often a request is received, retried or redelivered, and whatever
\* crashes, there is at most one transaction per provider and idempotency key
\* (wager_transactions_idempotency_uq).
OneRowPerKey ==
  \A i, j \in DOMAIN rows :
    /\ rows[i].req.provider = rows[j].req.provider
    /\ rows[i].req.key = rows[j].req.key
    => i = j

\* A transaction is reversed at most once, by a REFUND or a ROLLBACK of its own
\* amount and wallet, and only after it was processed, even when the check
\* HasSuccessfulReversal was read too early or failed.
ReversedAtMostOnce ==
  \A i \in DOMAIN rows :
    rows[i].req.kind \in ReversalKinds /\ rows[i].status = "PROCESSED" =>
      LET p == rows[i].internalRef IN
      /\ p \in 1..(i - 1)
      /\ rows[p].status = "PROCESSED"
      /\ rows[p].req.wallet = rows[i].req.wallet
      /\ rows[p].req.amount = rows[i].req.amount
      /\ \A j \in DOMAIN rows :
           /\ rows[j].req.kind \in ReversalKinds
           /\ rows[j].status = "PROCESSED"
           /\ rows[j].internalRef = p
           => j = i

\* the entries CreateWallet wrote: one, unless the initial balance was zero
Openings(w) == IF OpeningBalance[w] = 0 THEN 0 ELSE 1

BalanceEvents(w) ==
  {i \in DOMAIN outbox : outbox[i].type = "WalletBalanceChanged" /\ outbox[i].wallet = w}

\* The WalletBalanceChanged events of a wallet tell its ledger entry by entry:
\* every version after the first has one event, in the order of the versions,
\* with the transaction and the balance of the entry that made that version
\* (the version in the event is computed in memory, not read back).
EventsMirrorLedger ==
  \A w \in Wallets :
    /\ version[w] = Len(ledger[w]) - Openings(w) + 1
    /\ \A v \in 2..version[w] : \E i \in BalanceEvents(w) : outbox[i].version = v
    /\ \A i \in BalanceEvents(w) :
         /\ outbox[i].version \in 2..version[w]
         /\ LET e == ledger[w][outbox[i].version - 1 + Openings(w)] IN
            outbox[i].tx = e.tx /\ outbox[i].after = e.after
    /\ \A i, j \in BalanceEvents(w) : i < j => outbox[i].version < outbox[j].version

\* An inbox message is complete exactly when the transaction its request
\* carries was processed by that very delivery: never for a rejection, never
\* for work that was rolled back.
InboxTellsProcessed ==
  \A m \in {r.message : r \in Requests} \ {NoMessage} :
    m \in inbox <=> \E id \in DOMAIN rows : /\ rows[id].req.message = m
                                            /\ rows[id].status = "PROCESSED"

\* the answer of handler t is what the tables say of the transaction it names
AnswerCommitted(t) ==
  /\ out[t].tx \in FindByIdempotencyKey(req[t])
  /\ LET row == rows[out[t].tx]
         w   == row.req.wallet
     IN /\ out[t].status = row.status
        /\ row.status = "PROCESSED" /\ row.req.kind # "LOSS"
           => \E i \in DOMAIN ledger[w] :
                ledger[w][i].tx = out[t].tx /\ ledger[w][i].after = out[t].balance

\* A handler that answers without error names a committed transaction of the
\* request's provider and key, with its status, and reports the balance that
\* transaction left behind when it moved money.
AnswersAreCommitted ==
  \A t \in Threads : pc[t] = "done" /\ out[t].err = "" => AnswerCommitted(t)

\* balances a wallet has had since it was created
PastBalances(w) == {BalanceAfter(w, i) : i \in Openings(w)..Len(ledger[w])}

ShortOfMoney == {"INSUFFICIENT_BALANCE", "REVERSAL_INSUFFICIENT_BALANCE"}

\* A request refused for want of money really met a wallet that held less than
\* it asked for: the refusal comes from a committed balance, not from one that
\* another handler's transaction was about to write and rolled back.
RefusalsJustified ==
  \A id \in DOMAIN rows : rows[id].failureCode \in ShortOfMoney =>
    \E b \in PastBalances(rows[id].req.wallet) : b < rows[id].req.amount

\* Every request a handler starts is answered (or its process dies): no wallet
\* lock is kept on an error path, so nobody waits for one forever.
EveryRequestAnswered ==
  \A t \in Threads : pc[t] = "checkKey" ~> pc[t] \in {"idle", "done"}

-----------------------------------------------------------------------------
(***************************************************************************)
(* The abstract specification, and the tables seen as its state.           *)
(***************************************************************************)
RowsWith(status) == {id \in DOMAIN rows : rows[id].status = status}
RequestsOf(ids)  == {rows[id].req : id \in ids}

Ledger == INSTANCE WagerLedger WITH
  Orders  <- Requests,
  settled <- RequestsOf(RowsWith("PROCESSED")),
  refused <- RequestsOf(RowsWith("REJECTED")),
  undone  <- RequestsOf({rows[id].internalRef :
                           id \in {i \in RowsWith("PROCESSED") : rows[i].req.kind \in ReversalKinds}})

\* The handlers, their locks, retries, faults and crashes implement WagerLedger:
\* whatever ProcessTransaction does to the tables is one decision of one order,
\* moving its money once and in its direction, or nothing at all.
ImplementsLedger == Ledger!Spec

-----------------------------------------------------------------------------
(***************************************************************************)
(* The inductive invariant behind the theorems of WagerServiceProofs.      *)
(***************************************************************************)
OwnerSteps == {"updateBalance", "commit"}

\* the steps of a request that passed NewExternalTransaction
ValidSteps == {"findReference", "checkReversal", "lockWallet", "reject",
               "pendingReference", "createAndReject", "failureBalance",
               "lossBalance", "commitLoss"} \cup OwnerSteps

\* the handler that holds the wallet has the committed row in its hands
OwnerOK(t) ==
  /\ req[t].wallet \in Wallets
  /\ lock[req[t].wallet] = t
  /\ change[t].before = balance[req[t].wallet]
  /\ change[t].dir \in Directions
  /\ pc[t] = "updateBalance" => change[t].version = version[req[t].wallet]
  /\ pc[t] = "commit" =>
       /\ change[t].version = version[req[t].wallet] + 1
       /\ change[t].after \in Balances
       /\ change[t].after = IF change[t].dir = "DEBIT" THEN change[t].before - req[t].amount
                                                       ELSE change[t].before + req[t].amount

HandlerOK(t) ==
  /\ pc[t] # "idle" => req[t] \in Requests
  /\ ref[t] \in 0..Len(rows)
  /\ pc[t] \in ValidSteps => req[t].amount \in Balances
  /\ pc[t] = "findReference" => req[t].kind \in {"WIN", "REFUND", "ROLLBACK"}
  /\ pc[t] = "checkReversal" => ref[t] # NoRow
  /\ pc[t] = "lockWallet" => Direction(req[t].kind, RefKind(t)) \in Directions
  /\ pc[t] \in {"lockWallet"} \cup OwnerSteps /\ req[t].kind \in ReversalKinds => ref[t] # NoRow
  /\ pc[t] = "pendingReference" => req[t].kind \in ReversalKinds
  /\ pc[t] \in {"lossBalance", "commitLoss"} => req[t].kind = "LOSS"
  /\ pc[t] \in OwnerSteps => OwnerOK(t)
  /\ pc[t] \in {"failureBalance", "commitLoss"} => req[t].wallet \in Wallets
  /\ pc[t] = "reportBalance" => out[t].tx \in DOMAIN rows

\* a handler that holds a wallet is about to commit or roll back
LocksOwned ==
  \A w \in Wallets : lock[w] \in Threads =>
    pc[lock[w]] \in OwnerSteps /\ req[lock[w]].wallet = w

RowsNameWallets == \A id \in DOMAIN rows : rows[id].req.wallet \in Wallets

\* IndInv: types, the locals of every handler, lock ownership and the ledger
\* chain together; each of them needs the others to be preserved by the commit
\* of commitWithLedger.
IndInv ==
  /\ TypeOK
  /\ \A t \in Threads : HandlerOK(t)
  /\ LocksOwned
  /\ RowsNameWallets
  /\ LedgerExplainsBalance

-----------------------------------------------------------------------------
(***************************************************************************)
(* What the handlers know about the decision they are carrying out: the    *)
(* second invariant, on top of IndInv, behind the theorems about           *)
(* decisions in WagerServiceProofs.                                        *)
(***************************************************************************)
MoneySteps == {"lockWallet"} \cup OwnerSteps

\* row id is the processed transaction that request r asks to reverse
Reverses(r, id) ==
  /\ id \in DOMAIN rows
  /\ rows[id].status = "PROCESSED"
  /\ Ledger!Names(r, rows[id].req)

\* What a handler checked once is still so when its transaction commits, many
\* round trips later: the tables only grow, so a check cannot become stale,
\* except HasSuccessfulReversal, which the unique index repeats.
Informed(t) ==
  /\ pc[t] # "pendingReference"
  /\ pc[t] \in ValidSteps => ValidationError(req[t]) = ""
  /\ pc[t] \in {"lossBalance", "commitLoss"} => req[t].kind = "LOSS"
  /\ pc[t] = "checkReversal" => req[t].kind \in ReversalKinds /\ Reverses(req[t], ref[t])
  /\ pc[t] \in MoneySteps =>
       /\ req[t].kind # "LOSS"
       /\ req[t].kind \in ReversalKinds =>
            Reverses(req[t], ref[t]) /\ rows[ref[t]].req.amount = req[t].amount
       /\ req[t].kind = "WIN" /\ req[t].ref # NoRef =>
            \E id \in DOMAIN rows : rows[id].req.kind = "BET" /\ Ledger!Names(req[t], rows[id].req)
  /\ pc[t] \in OwnerSteps => change[t].dir = Direction(req[t].kind, RefKind(t))

\* a handler that refuses for want of money met a committed balance below the
\* amount; the refusals decided before the wallet was read say something else
Refusing(t) ==
  /\ pc[t] = "reject" => code[t] \notin ShortOfMoney
  /\ pc[t] \in {"failureBalance", "createAndReject"} /\ code[t] \in ShortOfMoney =>
       /\ req[t].wallet \in Wallets
       /\ \E b \in PastBalances(req[t].wallet) : b < req[t].amount

\* the answer a handler has given, or is completing with a balance
Answering(t) ==
  /\ pc[t] = "done" /\ out[t].err = "" => AnswerCommitted(t)
  /\ pc[t] \in {"failureBalance", "createAndReject"} => out[t].err # ""
  /\ pc[t] = "reportBalance" =>
       /\ out[t].err = ""
       /\ out[t].tx \in FindByIdempotencyKey(req[t])
       /\ out[t].status = rows[out[t].tx].status
       /\ ~(out[t].status = "PROCESSED" /\ rows[out[t].tx].req.kind # "LOSS")

\* every row is decided, and a settled one stores the balance of its entry
RowsDecided ==
  \A id \in DOMAIN rows :
    /\ rows[id].status \in {"PROCESSED", "REJECTED"}
    /\ rows[id].status = "PROCESSED" /\ rows[id].req.kind # "LOSS" =>
         /\ rows[id].resultBalance # NoBalance
         /\ LET w == rows[id].req.wallet IN
            \E i \in DOMAIN ledger[w] :
              ledger[w][i].tx = id /\ ledger[w][i].after = rows[id].resultBalance

\* every entry but the opening one belongs to a row
EntriesNumbered ==
  \A w \in Wallets :
    /\ Len(ledger[w]) \in Openings(w)..(Len(rows) + 1)
    /\ \A i \in DOMAIN ledger[w] : ledger[w][i].tx \in 0..Len(rows)

\* DecisionInv: together with IndInv, what every handler knows and what every
\* row records, strong enough to be preserved by each step.
DecisionInv ==
  /\ IndInv
  /\ \A t \in Threads : Informed(t) /\ Refusing(t) /\ Answering(t)
  /\ RowsDecided
  /\ EntriesNumbered
  /\ RefusalsJustified

=============================================================================

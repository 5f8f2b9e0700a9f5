-------------------------- MODULE ReferenceResolver --------------------------
(***************************************************************************)
(* ReferenceWorker and Service.ResolvePendingReference: the workers that   *)
(* settle reversals stored as PENDING_REFERENCE, beside the handlers of    *)
(* WagerService and on the same database.                                  *)
(*                                                                         *)
(* No code path stores a PENDING transaction; the integration tests reach  *)
(* this component by setting a processed BET back to PENDING and later to  *)
(* PROCESSED by hand.  Hold and Settle are that external writer.           *)
(***************************************************************************)
EXTENDS WagerService, SequencesExt

CONSTANTS
  MaxRefAttempts,  \* maxRefAttempts, 10 in the code
  MaxHolds         \* bound: how often the external writer sets a row to PENDING

ASSUME ResolverAssumption ==
  /\ IsFiniteSet(Workers)
  /\ MaxRefAttempts \in Nat \ {0}
  /\ MaxHolds \in Nat

VARIABLES
  job,   \* the ResolvePendingReference call of each worker
  holds  \* external holds so far

rvars == <<vars, job, holds>>

NoJob == [step |-> "rest", id |-> NoRow, attempts |-> 0, ref |-> NoRow,
          change |-> NoChange, code |-> ""]

\* the steps of a worker whose transaction holds the pending row FOR UPDATE
ClaimSteps == {"lookup", "checkReversal", "lockWallet", "updateBalance", "commit"}
RowFree(id) == \A k \in Workers : job[k].id = id => job[k].step \notin ClaimSteps

Job(k)        == rows[job[k].id].req
SetJob(k, j)  == job' = [job EXCEPT ![k] = j]
JobStep(k, s) == job' = [job EXCEPT ![k].step = s]
JobDone(k)    == SetJob(k, NoJob)

handlerVars == <<pc, localVars, out, received, holds>>

-----------------------------------------------------------------------------
\* FindPendingReferences: the locks of its SELECT end with the statement, so
\* every worker may get the same row
TakePending(k) ==
  /\ job[k].step = "rest"
  /\ \E id \in DOMAIN rows : /\ rows[id].status = "PENDING_REFERENCE"
                             /\ SetJob(k, [NoJob EXCEPT !.step = "find", !.id = id])
  /\ UNCHANGED <<dbVars, handlerVars, faults>>

\* FindByID: the snapshot the call works on, RefAttempts included
FindPending(k) ==
  /\ job[k].step = "find"
  /\ IF rows[job[k].id].status = "PENDING_REFERENCE"
     THEN SetJob(k, [job[k] EXCEPT !.step = "claim", !.attempts = rows[job[k].id].attempts])
     ELSE JobDone(k)
  /\ UNCHANGED <<dbVars, handlerVars, faults>>

\* Mutant: the claim locks the row but does not look at its status.
MutantClaimAny(id) == TRUE

\* ClaimPendingReferenceTx: the status under FOR UPDATE
StillPending(id) == rows[id].status = "PENDING_REFERENCE"

Claim(k) ==
  /\ job[k].step = "claim"
  /\ RowFree(job[k].id)
  /\ IF StillPending(job[k].id) THEN JobStep(k, "lookup") ELSE JobDone(k)
  /\ UNCHANGED <<dbVars, handlerVars, faults>>

\* UpdateStatusTx to REJECTED and its event; the update names only the id
RejectRow(k, failureCode) ==
  /\ rows' = [rows EXCEPT ![job[k].id].status = "REJECTED",
                          ![job[k].id].failureCode = failureCode]
  /\ outbox' = Append(outbox, Event("WagerTransactionRejected", job[k].id, Job(k).wallet, NoBalance, 0))
  /\ JobDone(k)

\* resolveRejectTx, in the transaction that holds the claim
ResolveReject(k, failureCode) ==
  /\ RejectRow(k, failureCode)
  /\ UNCHANGED <<balance, version, lock, ledger, inbox>>

\* Mutant: the attempt is not counted.
MutantNoIncrement(k) == UNCHANGED dbVars

\* IncrementRefAttemptsTx and commit, which releases the claim
IncrementRefAttempts(k) ==
  /\ rows' = [rows EXCEPT ![job[k].id].attempts = @ + 1]
  /\ UNCHANGED <<balance, version, lock, ledger, outbox, inbox>>

\* Mutant: one attempt too many.
MutantOneMoreAttempt(k) == job[k].attempts > MaxRefAttempts

AttemptsExhausted(k) == job[k].attempts >= MaxRefAttempts

LookupReference(k) ==
  /\ job[k].step = "lookup"
  /\ LET found == FindByProviderAndExternalID(Job(k).provider, Job(k).ref) IN
     CASE AttemptsExhausted(k) -> ResolveReject(k, "REFERENCE_NOT_FOUND")
       [] ~AttemptsExhausted(k) /\ found = {} ->
            /\ IncrementRefAttempts(k)
            /\ SetJob(k, [job[k] EXCEPT !.step = "rejectAgain", !.code = "REFERENCE_NOT_FOUND"])
       [] ~AttemptsExhausted(k) /\ found # {} ->
            \E id \in found :
              CASE rows[id].status \in {"PENDING", "PENDING_REFERENCE"} ->
                     IncrementRefAttempts(k) /\ JobDone(k)
                [] rows[id].status \in {"REJECTED", "FAILED"} ->
                     ResolveReject(k, "REFERENCE_NOT_SUCCESSFUL")
                [] rows[id].status = "PROCESSED" ->
                     /\ SetJob(k, [job[k] EXCEPT !.step = "checkReversal", !.ref = id])
                     /\ UNCHANGED dbVars
  /\ UNCHANGED <<handlerVars, faults>>

JobDirection(k) == Direction(Job(k).kind, rows[job[k].ref].req.kind)

AfterResolverCheck(k) ==
  CASE Job(k).amount # rows[job[k].ref].req.amount ->
         ResolveReject(k, "REVERSAL_VALUE_MISMATCH")
    [] Job(k).amount = rows[job[k].ref].req.amount /\ JobDirection(k) = "none" ->
         ResolveReject(k, "INVALID_REFERENCE_TYPE")
    [] OTHER -> JobStep(k, "lockWallet") /\ UNCHANGED dbVars

ResolverCheckReversal(k) ==
  /\ job[k].step = "checkReversal"
  /\ IF HasSuccessfulReversal(job[k].ref)
     THEN ResolveReject(k, "DOUBLE_REVERSAL")
     ELSE AfterResolverCheck(k)
  /\ UNCHANGED <<handlerVars, faults>>

ResolverCheckReversalFails(k) ==
  /\ job[k].step = "checkReversal"
  /\ Fault
  /\ AfterResolverCheck(k)
  /\ UNCHANGED handlerVars

\* the wallet refused or could not be read: the transaction, and with it the
\* claim, is rolled back before the rejection is written in another one
ResolverWalletFails(k, err) ==
  /\ lock' = Released(k)
  /\ SetJob(k, [job[k] EXCEPT !.step = "rejectAgain", !.change = NoChange,
                              !.code = FailureCode(Job(k).kind, err)])
  /\ UNCHANGED <<balance, version, rows, ledger, outbox, inbox>>

ResolverLockWallet(k) ==
  LET w == Job(k).wallet IN
  /\ job[k].step = "lockWallet"
  /\ Lockable(w)
  /\ lock' = [lock EXCEPT ![w] = k]
  /\ SetJob(k, [job[k] EXCEPT !.step = "updateBalance",
       !.change = [before |-> balance[w], after |-> NoBalance,
                   version |-> version[w], dir |-> JobDirection(k)]])
  /\ UNCHANGED <<balance, version, rows, ledger, outbox, inbox, handlerVars, faults>>

ResolverUpdateBalance(k) ==
  LET c   == job[k].change
      amt == Job(k).amount
      err == WalletError(c.before, c.dir, amt)
  IN /\ job[k].step = "updateBalance"
     /\ IF err # "" THEN ResolverWalletFails(k, err)
        ELSE IF version[Job(k).wallet] # c.version THEN ResolverWalletFails(k, "CONCURRENT")
        ELSE /\ SetJob(k, [job[k] EXCEPT !.step = "commit", !.change = Applied(c, amt)])
             /\ UNCHANGED dbVars
     /\ UNCHANGED <<handlerVars, faults>>

\* Mutant: UpdateStatusTx is forgotten.
MutantStillPending(k) == [rows EXCEPT ![job[k].id].internalRef = job[k].ref]

ResolvedRows(k) == [rows EXCEPT ![job[k].id].status = "PROCESSED",
                                ![job[k].id].failureCode = "",
                                ![job[k].id].internalRef = job[k].ref]

\* Mutant: there is no unique index on successful reversals.
MutantNoIndex(k) == FALSE

\* wager_transactions_one_successful_reversal_uq refuses the update
ReversalRefused(k) == HasSuccessfulReversal(job[k].ref)

\* UpdateStatusTx, SetInternalReferenceTx, ledger entry, events and commit;
\* the reversal index may refuse the second update
ResolverCommit(k) ==
  LET w  == Job(k).wallet
      id == job[k].id
      c  == job[k].change
  IN /\ job[k].step = "commit"
     /\ lock' = Released(k)
     /\ IF ReversalRefused(k)
        THEN UNCHANGED <<balance, version, rows, ledger, outbox>>
        ELSE /\ balance' = [balance EXCEPT ![w] = c.after]
             /\ version' = [version EXCEPT ![w] = c.version]
             /\ rows' = ResolvedRows(k)
             /\ ledger' = [ledger EXCEPT ![w] =
                             Append(@, Entry(id, c.dir, Job(k).amount, c.before, c.after))]
             /\ outbox' = outbox \o
                  <<Event("WagerTransactionProcessed", id, w, NoBalance, 0),
                    Event("WalletBalanceChanged", id, w, c.after, c.version)>>
     /\ JobDone(k)
     /\ UNCHANGED <<inbox, handlerVars, faults>>

\* the second transaction: its unconditional UPDATE waits for the row lock only
RejectAgain(k) ==
  /\ job[k].step = "rejectAgain"
  /\ RowFree(job[k].id)
  /\ RejectRow(k, job[k].code)
  /\ UNCHANGED <<balance, version, lock, ledger, inbox, handlerVars, faults>>

\* a database error in the wallet service
ResolverWalletCallFails(k) ==
  /\ \/ job[k].step = "lockWallet"
     \/ /\ job[k].step = "updateBalance"
        /\ WalletError(job[k].change.before, job[k].change.dir, Job(k).amount) = ""
  /\ Fault
  /\ ResolverWalletFails(k, "DATABASE")
  /\ UNCHANGED handlerVars

\* any other failed call, or a crash: everything uncommitted is rolled back
ResolverFails(k) ==
  /\ job[k].step # "rest"
  /\ Fault
  /\ lock' = Released(k)
  /\ JobDone(k)
  /\ UNCHANGED <<balance, version, rows, ledger, outbox, inbox, handlerVars>>

-----------------------------------------------------------------------------
\* an external writer sets a processed transaction back to PENDING ...
Hold(id) ==
  /\ holds < MaxHolds
  /\ rows[id].status = "PROCESSED"
  /\ rows[id].req.kind \in {"BET", "WIN"}
  /\ rows' = [rows EXCEPT ![id].status = "PENDING"]
  /\ holds' = holds + 1
  /\ UNCHANGED <<balance, version, lock, ledger, outbox, inbox, pc, localVars, out, received, faults, job>>

\* ... and later settles it
Settle(id) ==
  /\ rows[id].status = "PENDING"
  /\ \E s \in {"PROCESSED", "REJECTED"} : rows' = [rows EXCEPT ![id].status = s]
  /\ UNCHANGED <<balance, version, lock, ledger, outbox, inbox, handlerVars, faults, job>>

-----------------------------------------------------------------------------
ResolverInit == Init /\ job = [k \in Workers |-> NoJob] /\ holds = 0

ResolverStep(k) ==
  \/ TakePending(k)
  \/ FindPending(k)
  \/ Claim(k)
  \/ LookupReference(k)
  \/ ResolverCheckReversal(k)
  \/ ResolverLockWallet(k)
  \/ ResolverUpdateBalance(k)
  \/ ResolverCommit(k)
  \/ RejectAgain(k)

ResolverFault(k) ==
  \/ ResolverCheckReversalFails(k)
  \/ ResolverWalletCallFails(k)
  \/ ResolverFails(k)

\* a handler meets a reference that the external writer holds
StorePendingReference(t) == InsertPendingReference(t) /\ UNCHANGED <<job, holds>>

HandlerStep(t) == (Step(t) /\ UNCHANGED <<job, holds>>) \/ StorePendingReference(t)

ResolverNext ==
  \/ Next /\ UNCHANGED <<job, holds>>
  \/ \E t \in Threads : StorePendingReference(t)
  \/ \E k \in Workers : ResolverStep(k) \/ ResolverFault(k)
  \/ \E id \in DOMAIN rows : Hold(id) \/ Settle(id)

\* handlers and workers keep running; nothing is assumed of the external writer
ResolverFairness ==
  /\ \A t \in Threads : WF_rvars(HandlerStep(t))
  /\ \A k \in Workers : WF_rvars(ResolverStep(k))

ResolverSpec     == ResolverInit /\ [][ResolverNext]_rvars
FairResolverSpec == ResolverSpec /\ ResolverFairness
-----------------------------------------------------------------------------
JobType == [step : {"rest", "find", "claim", "rejectAgain"} \cup ClaimSteps,
            id : Nat, attempts : Nat, ref : Nat, change : ChangeType, code : FailureCodes]

\* ResolverTypeOK: the tables and the workers' calls stay in their types; the
\* balances stay within 0..MaxInt64 whoever moves them.
ResolverTypeOK ==
  /\ balance \in [Wallets -> Balances]
  /\ lock \in [Wallets -> Threads \cup Workers \cup {NoThread}]
  /\ rows \in Seq(RowType)
  /\ ledger \in [Wallets -> Seq(EntryType)]
  /\ outbox \in Seq(EventType)
  /\ job \in [Workers -> JobType]
  /\ holds \in 0..MaxHolds

Reversals == {id \in DOMAIN rows : rows[id].req.kind \in ReversalKinds}

\* A reversal never moves money twice, though two workers take the same row and
\* a wallet error makes one of them reject it in a second transaction: PROCESSED
\* means one ledger entry, and a reversal that still waits has none.
ReversalsSettledOnce ==
  \A id \in Reversals :
    /\ Cardinality(EntriesOf(id)) <= 1
    /\ rows[id].status = "PROCESSED" => EntriesOf(id) # {}
    /\ rows[id].status = "PENDING_REFERENCE" => EntriesOf(id) = {}

\* two reversals that moved the money of the same transaction
MovedTwice(i, j) ==
  /\ i # j
  /\ EntriesOf(i) # {} /\ EntriesOf(j) # {}
  /\ rows[i].internalRef = rows[j].internalRef

\* Of the reversals that name a transaction, written by handlers and workers, at
\* most one moves its money, unless RejectAgain overwrote the status of a settled
\* one: only then does the index no longer stop the second.
SecondReversalNeedsOverwrite ==
  \A i, j \in Reversals : MovedTwice(i, j) => "REJECTED" \in {rows[i].status, rows[j].status}

\* A rejected reversal stays rejected and never gets money afterwards, whatever
\* a slower worker still holds of it (ClaimPendingReferenceTx looks again).
RejectedIsFinal ==
  [][\A id \in Reversals : rows[id].status = "REJECTED" =>
       /\ rows'[id].status = "REJECTED"
       /\ Len(ledger'[rows[id].req.wallet]) > Len(ledger[rows[id].req.wallet])
          => Last(ledger'[rows[id].req.wallet]).tx # id]_rvars

\* PROCESSED, REJECTED and FAILED are terminal (IsTerminal, TransitionTo): no
\* step of a handler or a worker gives a settled reversal another status.
TerminalStatusFinal ==
  [][\A id \in Reversals :
       rows[id].status \in {"PROCESSED", "REJECTED", "FAILED"}
       => rows'[id].status = rows[id].status]_rvars

\* ref_attempts stays within its limit, up to the workers that read it before
\* they got the claim (the check uses the snapshot of FindByID).
AttemptsBounded ==
  \A id \in DOMAIN rows : rows[id].attempts <= MaxRefAttempts + Cardinality(Workers) - 1

\* A reversal that waits for its reference is settled in the end, also when the
\* reference never is: the attempts run out and it is rejected.
PendingResolved ==
  \A id \in 1..MaxDeliveries :
    (id \in DOMAIN rows /\ rows[id].status = "PENDING_REFERENCE")
    ~> (id \in DOMAIN rows /\ rows[id].status \in {"PROCESSED", "REJECTED"})
=============================================================================

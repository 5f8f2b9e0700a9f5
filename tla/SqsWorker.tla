------------------------------ MODULE SqsWorker ------------------------------
(***************************************************************************)
(* WagerSQSWorker: the loop that receives wager requests from the inbound  *)
(* queue in batches, hands each one to WagerService and deletes it, or     *)
(* leaves it to the visibility timeout.  Some handlers of WagerService are *)
(* such workers, the others serve the requests that come over HTTP.        *)
(*                                                                         *)
(* The queue is modelled from its configuration in cmd/sqs-init and from   *)
(* how the worker uses it: a received message is hidden until its          *)
(* visibility timeout, a receipt is good until the message is received     *)
(* again, and a message received MaxReceive times goes to the dead-letter  *)
(* queue instead of being received once more.                              *)
(***************************************************************************)
EXTENDS WagerService, SequencesExt

CONSTANTS
  SqsWorkers,  \* the handlers that run WagerSQSWorker.Start
  Malformed,   \* messages whose body is not a JSON envelope
  BatchSize,   \* MaxNumberOfMessages, 10 in the code
  MaxReceive,  \* maxReceiveCount of the redrive policy, 3 in the code
  MaxOutages   \* bound: failed deletes and stops between two messages

\* a message carries one request
SqsRequests == {r \in Requests : r.message # NoMessage}
Messages    == {r.message : r \in SqsRequests} \cup Malformed

ASSUME SqsAssumption ==
  /\ SqsWorkers \subseteq Threads
  /\ Malformed \cap {r.message : r \in Requests} = {}
  /\ \A r, s \in SqsRequests : r.message = s.message => r = s
  /\ BatchSize \in Nat \ {0} /\ MaxReceive \in Nat \ {0}
  /\ MaxOutages \in Nat

VARIABLES
  mail,      \* where each message is: [place, receives]
  batch,     \* the messages a worker still has to see to, with their receipts
  serving,   \* whether it is inside ProcessTransaction for the first of them
  outages    \* failed deletes and stops between messages so far

queueVars == <<mail, batch, serving, outages>>
svars     == <<vars, queueVars>>

Visible       == {m \in Messages : mail[m].place = "queued"}
Envelope(m)   == CHOOSE r \in SqsRequests : r.message = m
Current(t)    == Head(batch[t])
Free(t)       == t \in SqsWorkers /\ ~serving[t] /\ pc[t] \in {"idle", "done"}
Retryable     == {"INTERNAL", "WALLET_ERROR", "CONCURRENT_UPDATE"}

\* Mutant: every error counts as terminal.
MutantAllTerminal(err) == TRUE

\* IsTerminalBusinessError
IsTerminalBusinessError(err) == err \notin Retryable \cup {""}

\* Mutant: the redrive policy is not set.
MutantNoRedrive(m) == FALSE

\* RedrivePolicy of cmd/sqs-init: received too often to be received again
Exhausted(m) == mail[m].receives >= MaxReceive

-----------------------------------------------------------------------------
\* the orders in which a ReceiveMessage call may return visible messages
Batches == UNION {SetToSeqs(S) : S \in {T \in SUBSET Visible : Cardinality(T) \in 1..BatchSize}}

\* client.ReceiveMessage: the whole batch is hidden from now on, although its
\* messages are processed one after the other
ReceiveMessages(t) ==
  /\ Free(t) /\ batch[t] = <<>>
  /\ \E s \in Batches :
       LET taken == {s[i] : i \in DOMAIN s} IN
       /\ \A m \in taken : ~Exhausted(m)
       /\ mail' = [m \in Messages |-> IF m \in taken
                     THEN [place |-> "inflight", receives |-> mail[m].receives + 1]
                     ELSE mail[m]]
       /\ batch' = [batch EXCEPT ![t] =
            [i \in DOMAIN s |-> [message |-> s[i], receipt |-> mail[s[i]].receives + 1]]]
  /\ UNCHANGED <<vars, serving, outages>>

\* processMessage calls ProcessTransaction with the envelope's request
StartMessage(t) ==
  /\ Free(t) /\ batch[t] # <<>>
  /\ Current(t).message \notin Malformed
  /\ Receive(t, Envelope(Current(t).message))
  /\ serving' = [serving EXCEPT ![t] = TRUE]
  /\ UNCHANGED <<mail, batch, outages>>

\* Mutant: the worker tries the same message again at once, until it is told
\* to stop.
MutantSameMessage(t) ==
  /\ UNCHANGED batch
  /\ serving' = [serving EXCEPT ![t] = FALSE]

\* the worker turns to the next message of its batch
NextMessage(t) ==
  /\ batch' = [batch EXCEPT ![t] = Tail(@)]
  /\ serving' = [serving EXCEPT ![t] = FALSE]

\* deleteMessage; the queue refuses a receipt it has replaced or let expire
DeleteMessage(c) ==
  IF mail[c.message] = [place |-> "inflight", receives |-> c.receipt]
  THEN [mail EXCEPT ![c.message].place = "deleted"]
  ELSE mail

\* a body that does not decode is deleted unprocessed
DropMalformed(t) ==
  /\ Free(t) /\ batch[t] # <<>>
  /\ Current(t).message \in Malformed
  /\ mail' = DeleteMessage(Current(t))
  /\ NextMessage(t)
  /\ UNCHANGED <<vars, outages>>

\* the rest of processMessage: success and terminal refusals delete
Answered(t) == serving[t] /\ pc[t] = "done"
Deletes(t)  == out[t].err = "" \/ IsTerminalBusinessError(out[t].err)

Acknowledge(t) ==
  /\ Answered(t)
  /\ mail' = IF Deletes(t) THEN DeleteMessage(Current(t)) ELSE mail
  /\ NextMessage(t)
  /\ UNCHANGED <<vars, outages>>

Outage == outages < MaxOutages /\ outages' = outages + 1

\* the delete call fails, which is only logged
DeleteFails(t) ==
  /\ \/ Answered(t) /\ Deletes(t)
     \/ Free(t) /\ batch[t] # <<>> /\ Current(t).message \in Malformed
  /\ Outage
  /\ NextMessage(t)
  /\ UNCHANGED <<vars, mail>>

\* the worker's process dies, or is told to stop, between two messages
StopsBetween(t) ==
  /\ t \in SqsWorkers /\ pc[t] \in {"idle", "done"} /\ batch[t] # <<>>
  /\ Outage
  /\ batch' = [batch EXCEPT ![t] = <<>>]
  /\ serving' = [serving EXCEPT ![t] = FALSE]
  /\ UNCHANGED <<vars, mail>>

\* 30 seconds have passed, whether or not the worker is done with the message
VisibilityTimeout(m) ==
  /\ mail[m].place = "inflight"
  /\ mail' = [mail EXCEPT ![m].place = "queued"]
  /\ UNCHANGED <<vars, batch, serving, outages>>

Redrive(m) ==
  /\ mail[m].place = "queued" /\ Exhausted(m)
  /\ mail' = [mail EXCEPT ![m].place = "dead"]
  /\ UNCHANGED <<vars, batch, serving, outages>>

-----------------------------------------------------------------------------
\* a step inside ProcessTransaction; a crash takes the worker's batch with it
ServiceStep(t) == Step(t) /\ UNCHANGED queueVars

ServiceFault(t) ==
  /\ FaultStep(t)
  /\ batch' = [batch EXCEPT ![t] = IF pc'[t] = "idle" THEN <<>> ELSE @]
  /\ serving' = [serving EXCEPT ![t] = IF pc'[t] = "idle" THEN FALSE ELSE @]
  /\ UNCHANGED <<mail, outages>>

\* an HTTP handler serves one request, and the client's retry if it dies
HttpRequest(t) ==
  /\ t \notin SqsWorkers /\ pc[t] = "idle"
  /\ \E r \in Requests \ SqsRequests : Receive(t, r)
  /\ UNCHANGED queueVars

\* every message is gone (or the bound on deliveries is reached) and every
\* handler waits
SqsQuiescent ==
  /\ \/ \A m \in Messages : mail[m].place \in {"deleted", "dead"}
     \/ received = MaxDeliveries
  /\ \A t \in Threads : pc[t] \in {"idle", "done"}
  /\ UNCHANGED svars

SqsInit ==
  /\ Init
  /\ mail = [m \in Messages |-> [place |-> "queued", receives |-> 0]]
  /\ batch = [t \in Threads |-> <<>>]
  /\ serving = [t \in Threads |-> FALSE]
  /\ outages = 0

\* what a worker does by itself, one call after the other
WorkerStep(t) ==
  \/ ReceiveMessages(t)
  \/ StartMessage(t)
  \/ DropMalformed(t)
  \/ Acknowledge(t)
  \/ ServiceStep(t)

SqsNext ==
  \/ \E t \in Threads : \/ WorkerStep(t) \/ HttpRequest(t)
                        \/ ServiceFault(t) \/ DeleteFails(t) \/ StopsBetween(t)
  \/ \E m \in Messages : VisibilityTimeout(m) \/ Redrive(m)
  \/ SqsQuiescent

\* the worker's loop and the handlers keep running, and the queue keeps time
SqsFairness ==
  /\ \A t \in Threads : WF_svars(WorkerStep(t))
  /\ \A m \in Messages : WF_svars(VisibilityTimeout(m)) /\ WF_svars(Redrive(m))

SqsSpec     == SqsInit /\ [][SqsNext]_svars
FairSqsSpec == SqsSpec /\ SqsFairness

-----------------------------------------------------------------------------
\* SqsTypeOK: the queue and the workers stay in their types, and a message is
\* never received more often than the redrive policy allows.
SqsTypeOK ==
  /\ mail \in [Messages -> [place : {"queued", "inflight", "deleted", "dead"},
                            receives : 0..MaxReceive]]
  /\ batch \in [Threads -> BoundedSeq([message : Messages, receipt : 1..MaxReceive], BatchSize)]
  /\ serving \in [Threads -> BOOLEAN]
  /\ outages \in 0..MaxOutages

Decided(r) ==
  \/ FindByIdempotencyKey(r) # {}
  \/ ExternalTransactionExists(r)
  \/ \E id \in FindByProviderAndExternalID(r.provider, r.ref) : HasSuccessfulReversal(id)

\* A LOSS or a reversal leaves the queue by deletion only when it was decided:
\* its transaction is stored, or somebody else's has made it impossible.  No
\* failure, timeout or redelivery deletes one that the database knows nothing
\* of.
DeletedWasDecided ==
  \A r \in SqsRequests :
    /\ mail[r.message].place = "deleted"
    /\ r.kind \in {"LOSS"} \cup ReversalKinds /\ ValidationError(r) = ""
    => Decided(r)

\* Every message leaves the queue in the end, deleted or dead-lettered: no
\* failing request is redelivered for ever.
EveryMessageLeaves ==
  \A m \in Messages : <>[](mail[m].place \in {"deleted", "dead"})
=============================================================================

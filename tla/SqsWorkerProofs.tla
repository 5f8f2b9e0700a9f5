-------------------------- MODULE SqsWorkerProofs --------------------------
(***************************************************************************)
(* The SQS workers are handlers of WagerService, so all that is proved     *)
(* about handlers holds of them; and no message they delete is undecided.  *)
(* For any number of workers, messages, redeliveries and failures.         *)
(***************************************************************************)
EXTENDS SqsWorker, WagerServiceProofs

-----------------------------------------------------------------------------
(***************************************************************************)
(* Types of the queue and the batches.                                     *)
(***************************************************************************)
Places == {"queued", "inflight", "deleted", "dead"}
Letter == [message : Messages, receipt : 1..MaxReceive]

\* A bounded sequence is a sequence that is not too long.
LEMMA Bounded ==
  ASSUME NEW S, NEW n \in Nat
  PROVE  \A s : s \in BoundedSeq(S, n) <=> s \in Seq(S) /\ Len(s) <= n
<1>1. ASSUME NEW s \in BoundedSeq(S, n) PROVE s \in Seq(S) /\ Len(s) <= n
  <2>1. PICK m \in 0..n : s \in [1..m -> S]
    BY DEF BoundedSeq, SeqOf
  <2> QED
    BY <2>1
<1>2. ASSUME NEW s \in Seq(S), Len(s) <= n PROVE s \in BoundedSeq(S, n)
  <2>1. Len(s) \in 0..n /\ s \in [1..Len(s) -> S]
    BY <1>2
  <2> QED
    BY <2>1 DEF BoundedSeq, SeqOf
<1> QED
  BY <1>1, <1>2

LEMMA Constants ==
  /\ BatchSize \in Nat /\ MaxReceive \in Nat /\ 1 <= MaxReceive /\ MaxOutages \in Nat
  BY SqsAssumption

LEMMA ReceiveMessagesTypes ==
  ASSUME SqsTypeOK, NEW t \in Threads, ReceiveMessages(t)
  PROVE  SqsTypeOK'
<1> DEFINE Taken(s) == {s[i] : i \in DOMAIN s}
<1>1. PICK s \in Batches :
        /\ \A m \in Taken(s) : ~Exhausted(m)
        /\ mail' = [m \in Messages |-> IF m \in Taken(s)
                      THEN [place |-> "inflight", receives |-> mail[m].receives + 1]
                      ELSE mail[m]]
        /\ batch' = [batch EXCEPT ![t] =
             [i \in DOMAIN s |-> [message |-> s[i], receipt |-> mail[s[i]].receives + 1]]]
  BY DEF ReceiveMessages
<1>2. PICK T \in SUBSET Visible : Cardinality(T) \in 1..BatchSize /\ s \in [1..Cardinality(T) -> T]
  BY DEF Batches, SetToSeqs
<1> DEFINE n == Cardinality(T)
<1>3. n \in Nat /\ n <= BatchSize /\ DOMAIN s = 1..n /\ \A i \in 1..n : s[i] \in Messages
  BY <1>2, Constants DEF Visible
<1> HIDE DEF n
<1>4. \A m \in Messages : /\ mail[m] \in [place : Places, receives : 0..MaxReceive]
                          /\ m \in Taken(s) => mail[m].receives + 1 \in 1..MaxReceive
  <2> SUFFICES ASSUME NEW m \in Messages
               PROVE  /\ mail[m] \in [place : Places, receives : 0..MaxReceive]
                      /\ m \in Taken(s) => mail[m].receives + 1 \in 1..MaxReceive
    OBVIOUS
  <2>1. mail[m] \in [place : Places, receives : 0..MaxReceive]
    BY DEF SqsTypeOK, Places
  <2>2. mail[m].receives \in 0..MaxReceive
    BY <2>1
  <2>3. m \in Taken(s) => ~(mail[m].receives >= MaxReceive)
    BY <1>1 DEF Exhausted
  <2> QED
    BY <2>1, <2>2, <2>3, Constants
<1>5. mail' \in [Messages -> [place : Places, receives : 0..MaxReceive]]
  <2>1. \A m \in Messages : m \in Taken(s) =>
          [place |-> "inflight", receives |-> mail[m].receives + 1] \in [place : Places, receives : 0..MaxReceive]
    BY <1>4, Constants DEF Places
  <2> QED
    BY <1>1, <1>4, <2>1
<1>6. batch' \in [Threads -> BoundedSeq(Letter, BatchSize)]
  <2> DEFINE b == [i \in 1..n |-> [message |-> s[i], receipt |-> mail[s[i]].receives + 1]]
  <2>1. \A i \in 1..n : [message |-> s[i], receipt |-> mail[s[i]].receives + 1] \in Letter
    BY <1>3, <1>4 DEF Letter
  <2>2. b \in Seq(Letter) /\ Len(b) <= BatchSize
    BY <1>3, <2>1
  <2>3. b \in BoundedSeq(Letter, BatchSize)
    BY <2>2, Bounded, Constants
  <2>4. batch \in [Threads -> BoundedSeq(Letter, BatchSize)]
    BY DEF SqsTypeOK, Letter
  <2> QED
    BY <1>1, <1>3, <2>3, <2>4
<1> QED
  BY <1>5, <1>6 DEF ReceiveMessages, SqsTypeOK, Places, Letter

LEMMA NextMessageTypes ==
  ASSUME SqsTypeOK, NEW t \in Threads, batch[t] # <<>>, NextMessage(t)
  PROVE  /\ batch' \in [Threads -> BoundedSeq(Letter, BatchSize)]
         /\ serving' \in [Threads -> BOOLEAN]
<1>1. batch \in [Threads -> BoundedSeq(Letter, BatchSize)] /\ serving \in [Threads -> BOOLEAN]
  BY DEF SqsTypeOK, Letter
<1>2. batch[t] \in Seq(Letter) /\ Len(batch[t]) <= BatchSize
  BY <1>1, Bounded, Constants
<1>3. Tail(batch[t]) \in Seq(Letter) /\ Len(Tail(batch[t])) <= BatchSize
  BY <1>2, Constants
<1>4. Tail(batch[t]) \in BoundedSeq(Letter, BatchSize)
  BY <1>3, Bounded, Constants
<1> QED
  BY <1>1, <1>4 DEF NextMessage

LEMMA CurrentFacts ==
  ASSUME SqsTypeOK, NEW t \in Threads, batch[t] # <<>>
  PROVE  Current(t) \in Letter /\ Current(t).message \in Messages
<1>1. batch[t] \in BoundedSeq(Letter, BatchSize)
  BY DEF SqsTypeOK, Letter
<1>2. batch[t] \in Seq(Letter)
  BY <1>1, Bounded, Constants
<1>3. Current(t) \in Letter
  BY <1>2 DEF Current
<1> QED
  BY <1>3 DEF Letter

LEMMA DeleteFacts ==
  ASSUME SqsTypeOK, NEW c \in Letter
  PROVE  /\ DeleteMessage(c) \in [Messages -> [place : Places, receives : 0..MaxReceive]]
         /\ \A m \in Messages : m # c.message => DeleteMessage(c)[m] = mail[m]
<1>1. mail \in [Messages -> [place : Places, receives : 0..MaxReceive]] /\ c.message \in Messages
  BY DEF SqsTypeOK, Places, Letter
<1>2. CASE DeleteMessage(c) = mail
  BY <1>1, <1>2
<1>3. CASE DeleteMessage(c) = [mail EXCEPT ![c.message].place = "deleted"]
  BY <1>1, <1>3 DEF Places
<1> QED
  BY <1>2, <1>3 DEF DeleteMessage

\* a worker inside ProcessTransaction has a message
ServingSome == \A t \in Threads : serving[t] => batch[t] # <<>>
MailInv     == SqsTypeOK /\ ServingSome

LEMMA MailStep == MailInv /\ [SqsNext]_svars => MailInv'
<1> SUFFICES ASSUME MailInv, [SqsNext]_svars PROVE MailInv'
  OBVIOUS
<1>1. /\ SqsTypeOK /\ ServingSome
      /\ mail \in [Messages -> [place : Places, receives : 0..MaxReceive]]
      /\ batch \in [Threads -> BoundedSeq(Letter, BatchSize)]
      /\ serving \in [Threads -> BOOLEAN] /\ outages \in 0..MaxOutages
  BY DEF MailInv, SqsTypeOK, Places, Letter
<1>2. <<>> \in BoundedSeq(Letter, BatchSize)
  <2>1. <<>> \in Seq(Letter) /\ Len(<<>>) <= BatchSize
    BY Constants
  <2> QED
    BY <2>1, Bounded, Constants
<1>3. ASSUME /\ mail' \in [Messages -> [place : Places, receives : 0..MaxReceive]]
             /\ batch' \in [Threads -> BoundedSeq(Letter, BatchSize)]
             /\ serving' \in [Threads -> BOOLEAN] /\ outages' \in 0..MaxOutages
             /\ \A t \in Threads : serving'[t] => batch'[t] # <<>>
      PROVE  MailInv'
  BY <1>3 DEF MailInv, SqsTypeOK, ServingSome, Places, Letter
<1>4. Outage => outages' \in 0..MaxOutages
  BY <1>1, Constants DEF Outage
<1>5. ASSUME NEW t \in Threads, StartMessage(t) PROVE MailInv'
  <2>1. /\ batch[t] # <<>> /\ serving' = [serving EXCEPT ![t] = TRUE]
        /\ mail' = mail /\ batch' = batch /\ outages' = outages
    BY <1>5 DEF StartMessage
  <2>2. serving' \in [Threads -> BOOLEAN]
    BY <1>1, <2>1
  <2>3. \A u \in Threads : serving'[u] => batch'[u] # <<>>
    BY <1>1, <2>1 DEF ServingSome
  <2> QED
    BY <1>1, <1>3, <2>1, <2>2, <2>3
<1>6. CASE UNCHANGED queueVars
  BY <1>1, <1>3, <1>6 DEF queueVars, ServingSome
<1>7. ASSUME NEW t \in Threads, ReceiveMessages(t) PROVE MailInv'
  <2>1. SqsTypeOK' /\ ~serving[t] /\ serving' = serving
    BY <1>1, <1>7, ReceiveMessagesTypes DEF ReceiveMessages, Free
  <2>2. \A u \in Threads : u # t => batch'[u] = batch[u]
    BY <1>1, <1>7 DEF ReceiveMessages
  <2> QED
    BY <1>1, <2>1, <2>2 DEF MailInv, ServingSome
<1>8. ASSUME NEW t \in Threads, batch[t] # <<>>, NextMessage(t), outages' \in 0..MaxOutages,
             mail' \in [Messages -> [place : Places, receives : 0..MaxReceive]]
      PROVE  MailInv'
  <2>1. /\ batch' \in [Threads -> BoundedSeq(Letter, BatchSize)]
        /\ serving' \in [Threads -> BOOLEAN]
    BY <1>1, <1>8, NextMessageTypes
  <2>2. \A u \in Threads : serving'[u] => u # t /\ serving[u] /\ batch'[u] = batch[u]
    BY <1>1, <1>8 DEF NextMessage
  <2> QED
    BY <1>1, <1>3, <1>8, <2>1, <2>2 DEF ServingSome
<1>9. ASSUME NEW t \in Threads, DropMalformed(t) \/ Acknowledge(t) PROVE MailInv'
  <2>1. /\ batch[t] # <<>> /\ NextMessage(t) /\ outages' = outages
        /\ mail' = mail \/ mail' = DeleteMessage(Current(t))
    BY <1>1, <1>9 DEF DropMalformed, Acknowledge, Answered, ServingSome
  <2>2. mail' \in [Messages -> [place : Places, receives : 0..MaxReceive]]
    BY <1>1, <2>1, CurrentFacts, DeleteFacts
  <2> QED
    BY <1>1, <1>8, <2>1, <2>2
<1>10. ASSUME NEW t \in Threads, DeleteFails(t) PROVE MailInv'
  <2>1. batch[t] # <<>> /\ NextMessage(t) /\ Outage /\ mail' = mail
    BY <1>1, <1>10 DEF DeleteFails, Answered, ServingSome
  <2> QED
    BY <1>1, <1>4, <1>8, <2>1
<1>11. ASSUME NEW t \in Threads,
              batch' = [batch EXCEPT ![t] = <<>>] /\ serving' = [serving EXCEPT ![t] = FALSE],
              mail' = mail, outages' \in 0..MaxOutages
       PROVE  MailInv'
  <2>1. batch' \in [Threads -> BoundedSeq(Letter, BatchSize)] /\ serving' \in [Threads -> BOOLEAN]
    BY <1>1, <1>2, <1>11
  <2>2. \A u \in Threads : serving'[u] => u # t /\ serving[u] /\ batch'[u] = batch[u]
    BY <1>1, <1>11
  <2> QED
    BY <1>1, <1>3, <1>11, <2>1, <2>2 DEF ServingSome
<1>12. ASSUME NEW t \in Threads, StopsBetween(t) PROVE MailInv'
  BY <1>4, <1>11, <1>12 DEF StopsBetween
<1>13. ASSUME NEW t \in Threads, ServiceFault(t) PROVE MailInv'
  <2>1. CASE pc'[t] = "idle"
    BY <1>1, <1>11, <1>13, <2>1 DEF ServiceFault
  <2>2. CASE pc'[t] # "idle"
    <3>1. UNCHANGED queueVars
      BY <1>1, <1>13, <2>2 DEF ServiceFault, queueVars
    <3> QED
      BY <1>6, <3>1
  <2> QED
    BY <2>1, <2>2
<1>14. ASSUME NEW m \in Messages, VisibilityTimeout(m) \/ Redrive(m) PROVE MailInv'
  <2>1. mail' \in [Messages -> [place : Places, receives : 0..MaxReceive]]
    BY <1>1, <1>14 DEF VisibilityTimeout, Redrive, Places
  <2> QED
    BY <1>1, <1>3, <1>14, <2>1 DEF VisibilityTimeout, Redrive, ServingSome
<1>15. ASSUME NEW t \in Threads, ServiceStep(t) \/ HttpRequest(t) PROVE MailInv'
  BY <1>6, <1>15 DEF ServiceStep, HttpRequest
<1>16. CASE UNCHANGED svars
  BY <1>6, <1>16 DEF svars
<1> QED
  BY <1>5, <1>7, <1>9, <1>10, <1>12, <1>13, <1>14, <1>15, <1>16 DEF SqsNext, WorkerStep, SqsQuiescent

LEMMA MailInit == SqsInit => MailInv
<1> SUFFICES ASSUME SqsInit PROVE MailInv
  OBVIOUS
<1>1. <<>> \in BoundedSeq(Letter, BatchSize)
  <2>1. <<>> \in Seq(Letter) /\ Len(<<>>) <= BatchSize
    BY Constants
  <2> QED
    BY <2>1, Bounded, Constants
<1>2. 0 \in 0..MaxReceive /\ 0 \in 0..MaxOutages
  BY Constants
<1> QED
  BY <1>1, <1>2 DEF SqsInit, MailInv, SqsTypeOK, ServingSome, Letter

\* The queue and the workers stay in their types: in particular no message is
\* received more often than the redrive policy allows.
THEOREM SqsTypes == SqsSpec => []SqsTypeOK
<1>1. SqsSpec => []MailInv
  BY MailInit, MailStep, PTL DEF SqsSpec
<1>2. MailInv => SqsTypeOK
  BY DEF MailInv
<1> QED
  BY <1>1, <1>2, PTL

-----------------------------------------------------------------------------
(***************************************************************************)
(* A worker is a handler.                                                  *)
(***************************************************************************)

\* The envelope of a message that decodes is the request that carries it.
LEMMA EnvelopeFacts ==
  ASSUME NEW m \in Messages \ Malformed
  PROVE  Envelope(m) \in SqsRequests /\ Envelope(m) \in Requests /\ Envelope(m).message = m
<1>1. \E r \in SqsRequests : r.message = m
  BY DEF Messages
<1> QED
  BY <1>1 DEF Envelope, SqsRequests

LEMMA WorkerIsHandler ==
  ASSUME MailInv, [SqsNext]_svars
  PROVE  [Next]_vars
<1>1. SqsTypeOK
  BY DEF MailInv
<1>2. ASSUME NEW t \in Threads, StartMessage(t) PROVE \E r \in Requests : Receive(t, r)
  <2>1. batch[t] # <<>> /\ Current(t).message \notin Malformed /\ Receive(t, Envelope(Current(t).message))
    BY <1>2 DEF StartMessage
  <2> QED
    BY <1>1, <2>1, CurrentFacts, EnvelopeFacts
<1>3. ASSUME NEW t \in Threads, HttpRequest(t) PROVE \E r \in Requests : Receive(t, r)
  BY <1>3 DEF HttpRequest
<1>4. ASSUME NEW t \in Threads, ServiceStep(t) \/ ServiceFault(t) PROVE Step(t) \/ FaultStep(t)
  BY <1>4 DEF ServiceStep, ServiceFault
<1>5. ASSUME NEW t \in Threads, \/ ReceiveMessages(t) \/ DropMalformed(t) \/ Acknowledge(t)
                                \/ DeleteFails(t) \/ StopsBetween(t)
      PROVE  UNCHANGED vars
  BY <1>5 DEF ReceiveMessages, DropMalformed, Acknowledge, DeleteFails, StopsBetween
<1>6. ASSUME NEW m \in Messages, VisibilityTimeout(m) \/ Redrive(m) PROVE UNCHANGED vars
  BY <1>6 DEF VisibilityTimeout, Redrive
<1>7. CASE SqsQuiescent \/ UNCHANGED svars
  BY <1>7 DEF SqsQuiescent, svars
<1> QED
  BY <1>2, <1>3, <1>4, <1>5, <1>6, <1>7 DEF SqsNext, WorkerStep, Next

\* SQS workers and HTTP handlers together behave as the handlers of WagerService:
\* whatever is proved of Spec holds when messages are received in batches,
\* redelivered, deleted and dead-lettered around it.
THEOREM WorkersImplementService == SqsSpec => Spec
<1>1. SqsInit => Init
  BY DEF SqsInit
<1>2. MailInv /\ [SqsNext]_svars => [Next]_vars
  BY WorkerIsHandler
<1> QED
  BY <1>1, <1>2, MailInit, MailStep, PTL DEF SqsSpec, Spec

\* The inbox tells what was processed, also when a message is delivered again
\* after its visibility timeout, to another worker or after a failed delete.
THEOREM InboxTrueForWorkers == SqsSpec => []InboxTellsProcessed
  BY WorkersImplementService, InboxTrue, PTL

-----------------------------------------------------------------------------
(***************************************************************************)
(* What a worker deletes is decided.                                       *)
(***************************************************************************)

\* the requests DeletedWasDecided is about
Decisive(r) == r.kind \in {"LOSS"} \cup ReversalKinds /\ ValidationError(r) = ""

\* A handler answers a decisive request with a terminal error only when the
\* tables hold the reason.
Accounted(t) ==
  /\ pc[t] = "done" /\ Decisive(req[t]) /\ out[t].err \notin Retryable => Decided(req[t])
  /\ pc[t] \in {"failureBalance", "createAndReject"} /\ Decisive(req[t]) => out[t].err = "WALLET_ERROR"
  /\ pc[t] = "findDuplicate" => FindByIdempotencyKey(req[t]) # {}

\* A decision stays: the tables only grow.
LEMMA DecidedStays ==
  ASSUME TypeOK, TypeOK', TablesGrow, NEW r, Decided(r)
  PROVE  Decided(r)'
<1>1. rows \in Seq(RowType) /\ rows' \in Seq(RowType)
  BY DEF TypeOK, TablesTyped
<1>2. \A i \in DOMAIN rows : i \in DOMAIN rows' /\ rows'[i] = rows[i]
  BY <1>1 DEF TablesGrow
<1>3. FindByIdempotencyKey(r) \subseteq FindByIdempotencyKey(r)'
  BY <1>2 DEF FindByIdempotencyKey
<1>4. \A e : FindByProviderAndExternalID(r.provider, e) \subseteq FindByProviderAndExternalID(r.provider, e)'
  BY <1>2 DEF FindByProviderAndExternalID
<1>5. ExternalTransactionExists(r) => ExternalTransactionExists(r)'
  <2>1. \A id \in FindByProviderAndExternalID(r.provider, r.ext) : id \in DOMAIN rows
    BY DEF FindByProviderAndExternalID
  <2> QED
    BY <1>2, <1>4, <2>1 DEF ExternalTransactionExists
<1>6. \A id : HasSuccessfulReversal(id) => HasSuccessfulReversal(id)'
  BY <1>2 DEF HasSuccessfulReversal
<1>7. CASE FindByIdempotencyKey(r) # {}
  BY <1>3, <1>7 DEF Decided
<1>8. CASE ExternalTransactionExists(r)
  BY <1>5, <1>8 DEF Decided
<1>9. CASE \E id \in FindByProviderAndExternalID(r.provider, r.ref) : HasSuccessfulReversal(id)
  BY <1>4, <1>6, <1>9 DEF Decided
<1> QED
  BY <1>7, <1>8, <1>9 DEF Decided

LEMMA OthersAccounted ==
  ASSUME TypeOK, TypeOK', TablesGrow, NEW u \in Threads, Same(u), Accounted(u)
  PROVE  Accounted(u)'
<1>1. pc'[u] = pc[u] /\ req'[u] = req[u] /\ out'[u] = out[u]
  BY DEF Same
<1>2. Decided(req[u]) => Decided(req[u])'
  <2> SUFFICES ASSUME NEW r, r = req[u], Decided(r) PROVE Decided(req[u])'
    OBVIOUS
  <2>1. Decided(r)' /\ r = req'[u]
    BY <1>1, DecidedStays
  <2> QED
    BY <2>1 DEF Decided, FindByIdempotencyKey, ExternalTransactionExists, FindByProviderAndExternalID,
       HasSuccessfulReversal
<1>3. FindByIdempotencyKey(req[u]) # {} => FindByIdempotencyKey(req[u])' # {}
  <2>1. rows \in Seq(RowType) /\ rows' \in Seq(RowType)
    BY DEF TypeOK, TablesTyped
  <2>2. \A i \in DOMAIN rows : i \in DOMAIN rows' /\ rows'[i] = rows[i]
    BY <2>1 DEF TablesGrow
  <2> QED
    BY <1>1, <2>2 DEF FindByIdempotencyKey
<1> QED
  BY <1>1, <1>2, <1>3 DEF Accounted

\* An answer without error names a row, so only terminal errors are to be shown.
LEMMA ReturnAccounted ==
  ASSUME DecisionInv, DecisionInv', NEW t \in Threads, NEW resp, Return(t, resp),
         resp.err \notin Retryable \cup {""} /\ Decisive(req[t]) => Decided(req[t])'
  PROVE  Accounted(t)'
<1>1. pc'[t] = "done" /\ out'[t] = resp /\ req' = req
  BY DEF DecisionInv, IndInv, TypeOK, HandlersTyped, Return, Goto
<1>2. resp.err = "" => Decided(req[t])'
  BY <1>1 DEF DecisionInv, Answering, AnswerCommitted, Decided
<1> QED
  BY <1>1, <1>2 DEF Accounted

\* The errors that leave a message in the queue.
LEMMA InternalAccounted ==
  ASSUME DecisionInv, DecisionInv', NEW t \in Threads, Return(t, Failure("INTERNAL"))
  PROVE  Accounted(t)'
<1>1. Failure("INTERNAL").err \in Retryable
  BY DEF Failure, Response, Retryable
<1> QED
  BY <1>1, ReturnAccounted

LEMMA ElsewhereAccounted ==
  ASSUME NEW t \in Threads, pc'[t] \notin {"done", "failureBalance", "createAndReject", "findDuplicate"}
  PROVE  Accounted(t)'
  BY DEF Accounted

LEMMA RejectOrGo ==
  ASSUME DecisionInv, NEW t \in Threads,
         \/ \E c : RejectWith(t, c)
         \/ \E x, s, p : ReportBalanceOf(t, x, s, p)
         \/ \E s \in Steps \ {"done", "failureBalance", "createAndReject", "findDuplicate"} : Goto(t, s)
  PROVE  Accounted(t)'
<1>1. pc'[t] \notin {"done", "failureBalance", "createAndReject", "findDuplicate"}
  BY DEF DecisionInv, IndInv, TypeOK, HandlersTyped, RejectWith, ReportBalanceOf, Goto
<1> QED
  BY <1>1, ElsewhereAccounted

\* HandleReplay returns without error, or reads a balance first.
LEMMA ReplayAccounted ==
  ASSUME DecisionInv, DecisionInv', NEW t \in Threads, NEW id, HandleReplay(t, id)
  PROVE  Accounted(t)'
<1> DEFINE resp == Response("", id, rows[id].status, rows[id].resultBalance, TRUE)
<1>1. resp.err = ""
  BY DEF Response
<1>2. Return(t, resp) \/ ReportBalanceOf(t, id, rows[id].status, TRUE)
  BY DEF HandleReplay
<1> HIDE DEF resp
<1> QED
  BY <1>1, <1>2, ReturnAccounted, RejectOrGo

\* Reversals return a wallet error as it is, and a LOSS never asks the wallet.
LEMMA WalletFailsAccounted ==
  ASSUME DecisionInv, NEW t \in Threads, NEW err, WalletFails(t, err), req[t].kind # "LOSS"
  PROVE  Accounted(t)'
<1>1. /\ pc'[t] \in {"failureBalance", "createAndReject"} /\ req' = req
      /\ out'[t] = Failure(ReturnedError(req[t].kind, err))
  BY DEF DecisionInv, IndInv, TypeOK, HandlersTyped, WalletFails, Goto
<1>2. Decisive(req[t]) => ReturnedError(req[t].kind, err) = "WALLET_ERROR"
  BY DEF Decisive, ReturnedError
<1>3. \A e : Failure(e).err = e
  BY DEF Failure, Response
<1> QED
  BY <1>1, <1>2, <1>3 DEF Accounted

LEMMA StepAccounted ==
  ASSUME DecisionInv, DecisionInv', NEW t \in Threads, Accounted(t), Step(t)
  PROVE  Accounted(t)'
<1>1. HandlersTyped /\ Informed(t) /\ Answering(t)
  BY DEF DecisionInv, IndInv, TypeOK
<1>2. \A e : Failure(e).err = e
  BY DEF Failure, Response
<1>3. CASE CheckIdempotency(t)
  <2>1. CASE Goto(t, "checkExternal")
    BY <2>1, RejectOrGo DEF Steps
  <2>2. CASE \E id \in FindByIdempotencyKey(req[t]) : HandleReplay(t, id)
    BY <2>2, ReplayAccounted
  <2>3. CASE FindByIdempotencyKey(req[t]) # {} /\ Return(t, Failure("PAYLOAD_CONFLICT"))
    <3>1. rows' = rows
      BY <1>3 DEF CheckIdempotency, dbVars
    <3>2. Decided(req[t])'
      BY <2>3, <3>1 DEF Decided, FindByIdempotencyKey, Return
    <3> QED
      BY <2>3, <3>2, ReturnAccounted
  <2> QED
    BY <1>3, <2>1, <2>2, <2>3 DEF CheckIdempotency
<1>4. CASE CheckExternalId(t)
  <2>1. rows' = rows
    BY <1>4 DEF CheckExternalId, dbVars
  <2>2. CASE ExternalTransactionExists(req[t]) /\ Return(t, Failure("EXTERNAL_ID_REUSE"))
    <3>1. Decided(req[t])'
      BY <2>1, <2>2 DEF Decided, ExternalTransactionExists, FindByProviderAndExternalID, Return
    <3> QED
      BY <2>2, <3>1, ReturnAccounted
  <2>3. CASE ValidationError(req[t]) # "" /\ Return(t, Failure(ValidationError(req[t])))
    BY <2>3, ReturnAccounted DEF Decisive
  <2>4. CASE RejectWith(t, "MISSING_REFERENCE") \/ Goto(t, Dispatch(t))
    BY <2>4, RejectOrGo DEF Dispatch, Steps
  <2> QED
    BY <1>4, <2>2, <2>3, <2>4 DEF CheckExternalId
<1>5. CASE FindReference(t)
  BY <1>5, RejectOrGo DEF FindReference, WinReference, ReversalReference, Steps
<1>6. CASE CheckReversal(t)
  BY <1>6, RejectOrGo DEF CheckReversal, AfterReversalCheck, Steps
<1>7. CASE LockWallet(t) \/ UpdateBalance(t)
  <2>1. req[t].kind # "LOSS"
    BY <1>1, <1>7 DEF LockWallet, UpdateBalance, Informed, MoneySteps, OwnerSteps
  <2>2. CASE \E err : WalletFails(t, err)
    BY <2>1, <2>2, WalletFailsAccounted
  <2>3. CASE Goto(t, "updateBalance") \/ Goto(t, "commit")
    BY <2>3, RejectOrGo DEF Steps
  <2> QED
    BY <1>7, <2>2, <2>3 DEF LockWallet, UpdateBalance
<1>8. CASE ReadFailureBalance(t)
  <2>1. pc[t] = "failureBalance" /\ pc'[t] = "createAndReject" /\ req' = req /\ out' = out
    BY <1>1, <1>8 DEF ReadFailureBalance, HandlersTyped, Goto
  <2> QED
    BY <2>1 DEF Accounted
<1>9. CASE CommitWithLedger(t)
  <2>1. pc[t] = "commit"
    BY <1>9 DEF CommitWithLedger
  <2>2. CASE UniqueViolation(RowToInsert(t))
    <3>1. rows' = rows
      BY <1>9, <2>2 DEF CommitWithLedger
    <3>2. RowToInsert(t).req = req[t] /\ RowToInsert(t).internalRef = IF req[t].kind \in ReversalKinds THEN ref[t] ELSE NoRow
      BY <2>1 DEF RowToInsert, Row
    <3>3. CASE req[t].kind \in ReversalKinds
      <4>1. Return(t, Failure("DOUBLE_REVERSAL")) /\ req' = req
        BY <1>9, <2>2, <3>3 DEF CommitWithLedger, Return
      <4>2. ref[t] \in FindByProviderAndExternalID(req[t].provider, req[t].ref)
        BY <1>1, <2>1, <3>3 DEF Informed, MoneySteps, OwnerSteps, Reverses, Ledger!Names, FindByProviderAndExternalID
      <4>3. Decided(req[t])
        BY <2>2, <3>2, <3>3, <4>2 DEF UniqueViolation, Decided
      <4>4. Decided(req[t])'
        BY <3>1, <4>1, <4>3 DEF Decided, FindByIdempotencyKey, ExternalTransactionExists,
           FindByProviderAndExternalID, HasSuccessfulReversal
      <4> QED
        BY <4>1, <4>4, ReturnAccounted
    <3>4. CASE req[t].kind \notin ReversalKinds
      <4>1. pc'[t] = "findDuplicate" /\ req' = req
        BY <1>1, <1>9, <2>2, <3>4 DEF CommitWithLedger, HandlersTyped, Goto, localVars
      <4>2. FindByIdempotencyKey(req[t]) # {}
        BY <2>2, <3>2, <3>4 DEF UniqueViolation
      <4>3. FindByIdempotencyKey(req[t])' # {}
        BY <3>1, <4>1, <4>2 DEF FindByIdempotencyKey
      <4> QED
        BY <4>1, <4>3 DEF Accounted
    <3> QED
      BY <3>3, <3>4
  <2>3. CASE Return(t, Response("", NewId, "PROCESSED", change[t].after, FALSE))
    <3> DEFINE resp == Response("", NewId, "PROCESSED", change[t].after, FALSE)
    <3>1. resp.err = ""
      BY DEF Response
    <3> HIDE DEF resp
    <3> QED
      BY <2>3, <3>1, ReturnAccounted DEF resp
  <2> QED
    BY <1>9, <2>2, <2>3 DEF CommitWithLedger
<1>10. CASE FindDuplicate(t)
  BY <1>10, ReplayAccounted DEF FindDuplicate
<1>11. CASE CreateAndReject(t)
  <2>1. pc[t] = "createAndReject" /\ Return(t, out[t])
    BY <1>11 DEF CreateAndReject
  <2>2. Decisive(req[t]) => out[t].err \in Retryable
    BY <2>1 DEF Accounted, Retryable
  <2> QED
    BY <2>1, <2>2, ReturnAccounted
<1>12. CASE Reject(t) \/ CommitLoss(t)
  BY <1>12, InternalAccounted, RejectOrGo DEF Reject, CommitLoss
<1>13. CASE LossBalance(t)
  BY <1>13, InternalAccounted, RejectOrGo DEF LossBalance, Steps
<1>14. CASE ReportBalance(t)
  <2>1. out[t].err = "" /\ out[t] \in ResponseType
    BY <1>1, <1>14 DEF ReportBalance, Answering, HandlersTyped
  <2> DEFINE resp == [out[t] EXCEPT !.balance = balance[rows[out[t].tx].req.wallet]]
  <2>2. resp.err = "" /\ Return(t, resp)
    BY <1>14, <2>1 DEF ReportBalance, ResponseType
  <2> HIDE DEF resp
  <2> QED
    BY <2>2, ReturnAccounted
<1> QED
  BY <1>3, <1>4, <1>5, <1>6, <1>7, <1>8, <1>9, <1>10, <1>11, <1>12, <1>13, <1>14 DEF Step

LEMMA FaultAccounted ==
  ASSUME DecisionInv, DecisionInv', NEW t \in Threads, Accounted(t), FaultStep(t)
  PROVE  Accounted(t)'
<1>1. HandlersTyped /\ Informed(t) /\ Answering(t)
  BY DEF DecisionInv, IndInv, TypeOK
<1>2. \A e : Failure(e).err = e
  BY DEF Failure, Response
<1>3. CASE CheckReversalFails(t)
  BY <1>3, RejectOrGo DEF CheckReversalFails, AfterReversalCheck, Steps
<1>4. CASE ReadFails(t) \/ CommitAnswerLost(t)
  BY <1>4, InternalAccounted DEF ReadFails, CommitAnswerLost
<1>5. CASE FindDuplicateFails(t)
  <2>1. pc[t] = "findDuplicate" /\ rows' = rows /\ req' = req /\ Return(t, Failure("IDEMPOTENT_DUPLICATE"))
    BY <1>5 DEF FindDuplicateFails, dbVars, Return
  <2>2. Decided(req[t])'
    BY <2>1 DEF Accounted, Decided, FindByIdempotencyKey
  <2> QED
    BY <2>1, <2>2, ReturnAccounted
<1>6. CASE WalletCallFails(t)
  <2>1. req[t].kind # "LOSS"
    BY <1>1, <1>6 DEF WalletCallFails, Informed, MoneySteps, OwnerSteps
  <2> QED
    BY <1>6, <2>1, WalletFailsAccounted DEF WalletCallFails
<1>7. CASE FailureBalanceFails(t)
  <2>1. pc[t] = "failureBalance" /\ pc'[t] = "createAndReject" /\ req' = req /\ out' = out
    BY <1>1, <1>7 DEF FailureBalanceFails, HandlersTyped, Goto, localVars
  <2> QED
    BY <2>1 DEF Accounted
<1>8. CASE ReportBalanceFails(t)
  <2>1. out[t].err = "" /\ out[t] \in ResponseType
    BY <1>1, <1>8 DEF ReportBalanceFails, Answering, HandlersTyped
  <2> DEFINE resp == [out[t] EXCEPT !.balance = 0]
  <2>2. resp.err = "" /\ (Return(t, resp) \/ Return(t, Failure("INTERNAL")))
    BY <1>8, <2>1 DEF ReportBalanceFails, ResponseType
  <2> HIDE DEF resp
  <2> QED
    BY <2>2, ReturnAccounted, InternalAccounted
<1>9. CASE TransactionFails(t)
  <2>1. CASE pc[t] = "createAndReject" /\ Return(t, out[t])
    <3>1. Decisive(req[t]) => out[t].err \in Retryable
      BY <2>1 DEF Accounted, Retryable
    <3> QED
      BY <2>1, <3>1, ReturnAccounted
  <2>2. CASE Return(t, Failure("INTERNAL"))
    BY <2>2, InternalAccounted
  <2> QED
    BY <1>9, <2>1, <2>2 DEF TransactionFails
<1>10. CASE Crash(t)
  BY <1>10, RejectOrGo DEF Crash, Steps
<1> QED
  BY <1>3, <1>4, <1>5, <1>6, <1>7, <1>8, <1>9, <1>10 DEF FaultStep

\* What a step of the handlers does to the tables.
LEMMA NextGrows ==
  ASSUME IndInv, [Next]_vars
  PROVE  TablesGrow
<1>1. CASE UNCHANGED vars \/ Quiescent
  BY <1>1 DEF Quiescent, vars, dbVars, TablesGrow, IndInv, TypeOK, TablesTyped
<1>2. ASSUME NEW t \in Threads, ActsFor(t) PROVE TablesGrow
  BY <1>2, CommitForms, CommitsGrow
<1> QED
  BY <1>1, <1>2 DEF Next, ActsFor

LEMMA NextAccounted ==
  ASSUME DecisionInv, \A u \in Threads : Accounted(u), [Next]_vars
  PROVE  \A u \in Threads : Accounted(u)'
<1>1. DecisionInv' /\ IndInv /\ TypeOK /\ TypeOK' /\ TablesGrow
  BY NextDecision, NextGrows DEF DecisionInv, IndInv
<1>2. CASE UNCHANGED vars \/ Quiescent
  <2>1. \A u \in Threads : Same(u)
    BY <1>2 DEF Quiescent, vars, localVars, Same
  <2> QED
    BY <1>1, <2>1, OthersAccounted
<1>3. ASSUME NEW t \in Threads, ActsFor(t) PROVE \A u \in Threads : Accounted(u)'
  <2>1. ASSUME NEW u \in Threads \ {t} PROVE Accounted(u)'
    BY <1>1, <1>3, OneHandlerMoves, OthersAccounted DEF OthersSame
  <2>2. Accounted(t)'
    <3>1. ASSUME NEW r \in Requests, Receive(t, r) PROVE Accounted(t)'
      BY <3>1, RejectOrGo DEF Receive, Steps
    <3> QED
      BY <1>1, <1>3, <3>1, StepAccounted, FaultAccounted DEF ActsFor
  <2> QED
    BY <2>1, <2>2
<1> QED
  BY <1>2, <1>3 DEF Next, ActsFor

\* A handler keeps its request until it returns; only a crash makes it idle.
LEMMA KeepsRequest ==
  ASSUME IndInv, NEW t \in Threads
  PROVE  /\ Step(t) => pc'[t] # "idle" /\ req' = req
         /\ FaultStep(t) => (pc'[t] # "idle" /\ req' = req) \/ Crash(t)
<1> DEFINE Kept == pc'[t] # "idle" /\ req' = req
<1>1. pc \in [Threads -> Steps]
  BY DEF IndInv, TypeOK, HandlersTyped
<1>2. ASSUME NEW s, s # "idle", Goto(t, s), req' = req PROVE Kept
  BY <1>1, <1>2 DEF Goto
<1>3. ASSUME NEW resp, Return(t, resp) PROVE Kept
  BY <1>2, <1>3 DEF Return
<1>4. ASSUME NEW x, NEW s, NEW p, ReportBalanceOf(t, x, s, p) PROVE Kept
  BY <1>2, <1>4 DEF ReportBalanceOf, localVars
<1>5. ASSUME NEW c, RejectWith(t, c) PROVE Kept
  BY <1>2, <1>5 DEF RejectWith
<1>6. ASSUME NEW err, WalletFails(t, err) PROVE Kept
  BY <1>2, <1>6 DEF WalletFails
<1>7. ASSUME NEW id, HandleReplay(t, id) PROVE Kept
  BY <1>3, <1>4, <1>7 DEF HandleReplay
<1> SUFFICES (Step(t) => Kept) /\ (FaultStep(t) => Kept \/ Crash(t))
  OBVIOUS
<1> HIDE DEF Kept
<1>8. ASSUME CheckIdempotency(t) \/ FindDuplicate(t)
      PROVE  Kept
  BY <1>2, <1>3, <1>7, <1>8 DEF CheckIdempotency, FindDuplicate, localVars
<1>9. ASSUME CheckExternalId(t)
      PROVE  Kept
  BY <1>2, <1>3, <1>5, <1>9 DEF CheckExternalId, Dispatch, localVars
<1>10. ASSUME FindReference(t)
       PROVE  Kept
  BY <1>2, <1>5, <1>10 DEF FindReference, WinReference, ReversalReference, localVars
<1>11. ASSUME CheckReversal(t) \/ CheckReversalFails(t)
       PROVE  Kept
  BY <1>2, <1>5, <1>11 DEF CheckReversal, CheckReversalFails, AfterReversalCheck, localVars
<1>12. ASSUME LockWallet(t) \/ UpdateBalance(t) \/ WalletCallFails(t)
       PROVE  Kept
  BY <1>2, <1>6, <1>12 DEF LockWallet, UpdateBalance, WalletCallFails
<1>13. ASSUME ReadFailureBalance(t) \/ FailureBalanceFails(t) \/ LossBalance(t)
       PROVE  Kept
  BY <1>2, <1>3, <1>13 DEF ReadFailureBalance, FailureBalanceFails, LossBalance, localVars
<1>14. ASSUME CommitWithLedger(t)
       PROVE  Kept
  BY <1>2, <1>3, <1>14 DEF CommitWithLedger, localVars
<1>15. ASSUME CreateAndReject(t) \/ Reject(t) \/ CommitLoss(t) \/ ReportBalance(t)
       PROVE  Kept
  BY <1>3, <1>4, <1>15 DEF CreateAndReject, Reject, CommitLoss, ReportBalance
<1>16. ASSUME \/ ReadFails(t) \/ FindDuplicateFails(t) \/ ReportBalanceFails(t) \/ TransactionFails(t)
              \/ CommitAnswerLost(t)
       PROVE  Kept
  BY <1>3, <1>16 DEF ReadFails, FindDuplicateFails, ReportBalanceFails, TransactionFails, CommitAnswerLost
<1> QED
  BY <1>8, <1>9, <1>10, <1>11, <1>12, <1>13, <1>14, <1>15, <1>16 DEF Step, FaultStep

\* a worker inside ProcessTransaction handles the first message of its batch
AtWork(t) ==
  serving[t] => /\ pc[t] # "idle"
                /\ Current(t).message \notin Malformed
                /\ req[t] = Envelope(Current(t).message)

SqsInv ==
  /\ DecisionInv
  /\ MailInv
  /\ \A t \in Threads : Accounted(t) /\ AtWork(t)
  /\ DeletedWasDecided

LEMMA AtWorkStep ==
  ASSUME SqsInv, [SqsNext]_svars
  PROVE  \A u \in Threads : AtWork(u)'
<1>1. /\ IndInv /\ serving \in [Threads -> BOOLEAN] /\ pc \in [Threads -> Steps]
      /\ batch \in [Threads -> BoundedSeq(Letter, BatchSize)]
      /\ SqsTypeOK /\ \A u \in Threads : AtWork(u)
  BY DEF SqsInv, MailInv, SqsTypeOK, DecisionInv, IndInv, TypeOK, HandlersTyped, Letter
<1>2. ASSUME NEW u \in Threads, UNCHANGED <<pc[u], req[u], batch[u], serving[u]>> PROVE AtWork(u)'
  BY <1>1, <1>2 DEF AtWork, Current
<1>3. ASSUME NEW u \in Threads, ~serving'[u] PROVE AtWork(u)'
  BY <1>3 DEF AtWork
<1>4. ASSUME NEW t \in Threads, ActsFor(t) PROVE \A u \in Threads \ {t} : pc'[u] = pc[u] /\ req'[u] = req[u]
  BY <1>1, <1>4, OneHandlerMoves DEF OthersSame, Same
<1>5. ASSUME NEW t \in Threads, StartMessage(t) PROVE \A u \in Threads : AtWork(u)'
  <2>1. /\ batch[t] # <<>> /\ Current(t).message \notin Malformed
        /\ Receive(t, Envelope(Current(t).message))
        /\ serving' = [serving EXCEPT ![t] = TRUE] /\ batch' = batch
    BY <1>5 DEF StartMessage
  <2>2. Envelope(Current(t).message) \in Requests
    BY <1>1, <2>1, CurrentFacts, EnvelopeFacts
  <2>3. ASSUME NEW u \in Threads \ {t} PROVE AtWork(u)'
    BY <1>1, <1>2, <1>4, <2>1, <2>2 DEF ActsFor
  <2>4. req \in [Threads -> Requests \cup {NoRequest}]
    BY <1>1 DEF IndInv, TypeOK, HandlersTyped
  <2>5. /\ pc'[t] = "checkKey" /\ req'[t] = Envelope(Current(t).message)
    BY <1>1, <2>1, <2>4 DEF Receive, Goto
  <2>6. AtWork(t)'
    BY <2>1, <2>5 DEF AtWork, Current, Envelope
  <2> QED
    BY <2>3, <2>6
<1>6. ASSUME NEW t \in Threads, HttpRequest(t) PROVE \A u \in Threads : AtWork(u)'
  <2>1. pc[t] = "idle" /\ serving' = serving /\ batch' = batch /\ \E r \in Requests : Receive(t, r)
    BY <1>6 DEF HttpRequest, queueVars
  <2>2. AtWork(t)'
    BY <1>1, <1>3, <2>1 DEF AtWork
  <2>3. ASSUME NEW u \in Threads \ {t} PROVE AtWork(u)'
    <3>1. pc'[u] = pc[u] /\ req'[u] = req[u]
      BY <1>4, <2>1 DEF ActsFor
    <3> QED
      BY <1>2, <2>1, <3>1
  <2> QED
    BY <2>2, <2>3
<1>7. ASSUME NEW t \in Threads, ServiceStep(t) \/ ServiceFault(t) PROVE \A u \in Threads : AtWork(u)'
  <2>1. Step(t) \/ FaultStep(t)
    BY <1>7 DEF ServiceStep, ServiceFault
  <2>2. \A u \in Threads \ {t} : serving'[u] = serving[u] /\ batch'[u] = batch[u]
    BY <1>1, <1>7 DEF ServiceStep, ServiceFault, queueVars
  <2>3. ASSUME NEW u \in Threads \ {t} PROVE AtWork(u)'
    BY <1>2, <1>4, <2>1, <2>2 DEF ActsFor
  <2>4. CASE pc'[t] # "idle" /\ req' = req
    <3>1. serving'[t] = serving[t] /\ batch'[t] = batch[t]
      BY <1>1, <1>7, <2>4 DEF ServiceStep, ServiceFault, queueVars
    <3> QED
      BY <1>1, <2>3, <2>4, <3>1 DEF AtWork, Current
  <2>5. CASE Crash(t) /\ ServiceFault(t)
    <3>1. pc'[t] = "idle"
      BY <1>1, <2>5 DEF Crash, Goto
    <3>2. ~serving'[t]
      BY <1>1, <2>5, <3>1 DEF ServiceFault
    <3> QED
      BY <1>3, <2>3, <3>2
  <2> QED
    BY <1>1, <1>7, <2>4, <2>5, KeepsRequest DEF ServiceStep, ServiceFault
<1>8. ASSUME NEW t \in Threads, UNCHANGED <<pc, req>>, ~serving'[t],
             \A u \in Threads \ {t} : serving'[u] = serving[u] /\ batch'[u] = batch[u]
      PROVE  \A u \in Threads : AtWork(u)'
  BY <1>2, <1>3, <1>8
<1>9. ASSUME NEW t \in Threads, \/ ReceiveMessages(t) \/ DropMalformed(t) \/ Acknowledge(t)
                                \/ DeleteFails(t) \/ StopsBetween(t)
      PROVE  \A u \in Threads : AtWork(u)'
  <2>1. UNCHANGED <<pc, req>>
    BY <1>9 DEF ReceiveMessages, DropMalformed, Acknowledge, DeleteFails, StopsBetween, vars, localVars
  <2>2. ~serving'[t] /\ \A u \in Threads \ {t} : serving'[u] = serving[u] /\ batch'[u] = batch[u]
    BY <1>1, <1>9 DEF ReceiveMessages, DropMalformed, Acknowledge, DeleteFails, StopsBetween, NextMessage, Free
  <2> QED
    BY <1>8, <2>1, <2>2
<1>10. ASSUME UNCHANGED <<vars, batch, serving>> PROVE \A u \in Threads : AtWork(u)'
  BY <1>2, <1>10 DEF vars, localVars
<1>11. ASSUME NEW m \in Messages, VisibilityTimeout(m) \/ Redrive(m) PROVE \A u \in Threads : AtWork(u)'
  BY <1>10, <1>11 DEF VisibilityTimeout, Redrive
<1>12. CASE SqsQuiescent \/ UNCHANGED svars
  BY <1>10, <1>12 DEF SqsQuiescent, svars, queueVars
<1> QED
  BY <1>5, <1>6, <1>7, <1>9, <1>11, <1>12 DEF SqsNext, WorkerStep

\* A deletion is new only if a worker acknowledges the message's request, or
\* drops a body that does not decode.
LEMMA NewDeletion ==
  ASSUME SqsInv, [SqsNext]_svars, NEW m \in Messages \ Malformed,
         mail'[m].place = "deleted", mail[m].place # "deleted"
  PROVE  \E t \in Threads : /\ Acknowledge(t) /\ Deletes(t)
                            /\ Current(t).message = m
<1>1. /\ SqsTypeOK /\ mail \in [Messages -> [place : Places, receives : 0..MaxReceive]]
      /\ \A t \in Threads : serving[t] => batch[t] # <<>>
  BY DEF SqsInv, MailInv, SqsTypeOK, Places, ServingSome
<1>2. mail' # mail
  OBVIOUS
<1>3. ASSUME NEW t \in Threads, ReceiveMessages(t) PROVE FALSE
  <2>1. \/ mail'[m] = mail[m]
        \/ mail'[m] = [place |-> "inflight", receives |-> mail[m].receives + 1]
    BY <1>3 DEF ReceiveMessages
  <2> QED
    BY <2>1
<1>4. ASSUME NEW n \in Messages, VisibilityTimeout(n) \/ Redrive(n) PROVE FALSE
  <2>1. mail' = [mail EXCEPT ![n].place = "queued"] \/ mail' = [mail EXCEPT ![n].place = "dead"]
    BY <1>4 DEF VisibilityTimeout, Redrive
  <2> QED
    BY <1>1, <2>1
<1>5. ASSUME NEW t \in Threads, batch[t] # <<>>, mail' = DeleteMessage(Current(t))
      PROVE  Current(t).message = m
  BY <1>1, <1>5, CurrentFacts, DeleteFacts
<1>6. ASSUME NEW t \in Threads, DropMalformed(t) PROVE FALSE
  BY <1>5, <1>6 DEF DropMalformed
<1>7. ASSUME NEW t \in Threads, Acknowledge(t) PROVE Deletes(t) /\ Current(t).message = m
  BY <1>1, <1>2, <1>5, <1>7 DEF Acknowledge, Answered
<1>8. ASSUME NEW t \in Threads, \/ StartMessage(t) \/ ServiceStep(t) \/ HttpRequest(t)
                                \/ ServiceFault(t) \/ DeleteFails(t) \/ StopsBetween(t)
      PROVE  FALSE
  BY <1>2, <1>8 DEF StartMessage, ServiceStep, HttpRequest, ServiceFault, DeleteFails, StopsBetween, queueVars
<1>9. ~(SqsQuiescent \/ UNCHANGED svars)
  BY <1>2 DEF SqsQuiescent, svars, queueVars
<1> QED
  BY <1>3, <1>4, <1>6, <1>7, <1>8, <1>9 DEF SqsNext, WorkerStep

LEMMA DeletedStep ==
  ASSUME SqsInv, [SqsNext]_svars
  PROVE  DeletedWasDecided'
<1> SUFFICES ASSUME NEW r \in SqsRequests, mail'[r.message].place = "deleted", Decisive(r)
             PROVE  Decided(r)'
  BY DEF DeletedWasDecided, Decisive
<1>1. DecisionInv /\ MailInv /\ IndInv /\ TypeOK /\ TypeOK' /\ TablesGrow
  <2>1. DecisionInv /\ MailInv
    BY DEF SqsInv
  <2>2. [Next]_vars
    BY <2>1, WorkerIsHandler
  <2> QED
    BY <2>1, <2>2, NextDecision, NextGrows DEF DecisionInv, IndInv
<1>2. r.message \in Messages \ Malformed
  BY SqsAssumption DEF Messages, SqsRequests
<1>3. SUFFICES Decided(r)
  BY <1>1, DecidedStays
<1>4. CASE mail[r.message].place = "deleted"
  BY <1>4 DEF SqsInv, DeletedWasDecided, Decisive
<1>5. CASE mail[r.message].place # "deleted"
  <2>1. PICK t \in Threads : Acknowledge(t) /\ Deletes(t) /\ Current(t).message = r.message
    BY <1>2, <1>5, NewDeletion
  <2>2. Accounted(t) /\ AtWork(t) /\ serving[t] /\ pc[t] = "done"
    BY <2>1 DEF SqsInv, Acknowledge, Answered
  <2>3. Envelope(r.message) \in SqsRequests /\ Envelope(r.message).message = r.message
    BY <1>2, EnvelopeFacts
  <2>4. req[t] = r
    BY <2>1, <2>2, <2>3, SqsAssumption DEF AtWork
  <2>5. out[t].err \notin Retryable
    BY <2>1 DEF Deletes, IsTerminalBusinessError, Retryable
  <2> QED
    BY <2>2, <2>4, <2>5 DEF Accounted
<1> QED
  BY <1>4, <1>5

LEMMA SqsStep == SqsInv /\ [SqsNext]_svars => SqsInv'
<1> SUFFICES ASSUME SqsInv, [SqsNext]_svars PROVE SqsInv'
  OBVIOUS
<1>1. DecisionInv /\ MailInv /\ \A u \in Threads : Accounted(u)
  BY DEF SqsInv
<1>2. [Next]_vars
  BY <1>1, WorkerIsHandler
<1>3. DecisionInv' /\ MailInv'
  BY <1>1, <1>2, NextDecision, MailStep
<1>4. \A u \in Threads : Accounted(u)'
  BY <1>1, <1>2, NextAccounted
<1>5. \A u \in Threads : AtWork(u)'
  BY AtWorkStep
<1>6. DeletedWasDecided'
  BY DeletedStep
<1> QED
  BY <1>3, <1>4, <1>5, <1>6 DEF SqsInv

LEMMA SqsStart == SqsInit => SqsInv
<1> SUFFICES ASSUME SqsInit PROVE SqsInv
  OBVIOUS
<1>1. Init /\ DecisionInv /\ MailInv
  BY InitDecision, MailInit DEF SqsInit
<1>2. \A t \in Threads : pc[t] = "idle" /\ ~serving[t]
  BY <1>1 DEF SqsInit, Init
<1>3. \A t \in Threads : Accounted(t) /\ AtWork(t)
  BY <1>2 DEF Accounted, AtWork
<1>4. DeletedWasDecided
  <2>1. \A r \in SqsRequests : mail[r.message].place = "queued"
    BY DEF SqsInit, Messages
  <2> QED
    BY <2>1 DEF DeletedWasDecided
<1> QED
  BY <1>1, <1>3, <1>4 DEF SqsInv

\* The inductive invariant of the workers: that of the handlers, the queue's
\* types, what a handler's answer is accounted for by, and which message a
\* worker inside ProcessTransaction is at.
THEOREM SqsInvariance == SqsSpec => []SqsInv
  BY SqsStart, SqsStep, PTL DEF SqsSpec

\* A LOSS or a reversal leaves the queue by deletion only when it was decided:
\* no failure, timeout, redelivery or crash of the worker's loop deletes a
\* message the database knows nothing of.
THEOREM DeletedDecided == SqsSpec => []DeletedWasDecided
<1>1. SqsInv => DeletedWasDecided
  BY DEF SqsInv
<1> QED
  BY <1>1, SqsInvariance, PTL
=============================================================================

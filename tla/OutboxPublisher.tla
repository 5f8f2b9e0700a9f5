--------------------------- MODULE OutboxPublisher ---------------------------
(***************************************************************************)
(* OutboxPublisher and OutboxRepository: the background workers that move  *)
(* committed outbox_events to the outbound FIFO queue.                     *)
(*                                                                         *)
(* next_attempt_at is modelled by its order alone.  A new event carries    *)
(* now(), which PostgreSQL fixes when the writing transaction BEGINS, so   *)
(* the order of Begin and not the order of Commit is the order in which    *)
(* FindPending returns events.  A failed event is put back by a backoff    *)
(* that ends before or after the one of any other waiting event.           *)
(***************************************************************************)
EXTENDS Integers, Sequences, FiniteSets, SequencesExt

CONSTANTS
  Events,       \* the events that transactions write, records of EventFields
  Publishers,   \* the processes that run an OutboxPublisher
  BatchLimit,   \* the limit of FindPending, 10 in the code
  MaxAttempts,  \* maxAttempts, 5 in the code
  MaxExpiries,  \* bound: deduplication ids the queue forgets after 5 minutes
  MaxFaults     \* bound: failed calls and crashes of a behaviour

\* after: the id of the event whose transaction this one's transaction saw, if any
EventFields == {"id", "type", "aggregate", "after"}

ASSUME OutboxAssumption ==
  /\ \A e \in Events : DOMAIN e = EventFields
  /\ BatchLimit \in Nat \ {0} /\ MaxAttempts \in Nat \ {0}
  /\ MaxExpiries \in Nat /\ MaxFaults \in Nat

VARIABLES
  committed,   \* the outbox_events other transactions see, in commit order
  due,         \* begun events whose next_attempt_at has come, by next_attempt_at
  later,       \* events that wait for their backoff, by next_attempt_at
  attempts,    \* outbox_events.attempts
  published,   \* events with published_at set
  failed,      \* history: events whose SendMessage returned an error once
  skipped,     \* history: events a poll found locked by the poll of another
  batch,       \* what is left of the batch each publisher read
  step,        \* where each publisher stands with the head of its batch
  queue,       \* the messages the outbound queue accepted, in order
  remembered,  \* deduplication ids the queue still knows
  expiries,    \* deduplication ids forgotten so far
  faults       \* failed calls and crashes so far

table == <<committed, due, later, attempts, published>>
broker == <<queue, remembered, expiries>>
history == <<failed, skipped>>
ovars == <<table, batch, step, broker, history, faults>>

-----------------------------------------------------------------------------
\* the event of the same transaction row that an event builds on
Precedes(d, e) == e.after = d.id

\* a writing transaction begins: its events will carry this moment.  One that
\* settles a waiting reversal has found the row that a committed transaction left
Begin(e) ==
  /\ e \notin Range(due) \cup Range(later)
  /\ \A d \in Events : Precedes(d, e) => d \in Range(committed)
  /\ due' = Append(due, e)
  /\ UNCHANGED <<committed, later, attempts, published, batch, step, broker, history, faults>>

\* CreateOutboxEventTx and the commit of that transaction
Commit(e) ==
  /\ e \in Range(due) \ Range(committed)
  /\ committed' = Append(committed, e)
  /\ UNCHANGED <<due, later, attempts, published, batch, step, broker, history, faults>>

-----------------------------------------------------------------------------
\* WHERE published_at IS NULL, of the rows a query sees
Pending(e) == e \in Range(committed) \ published

Current(p) == Head(batch[p]).event

\* the rows locked by a FindPending of another publisher that is still running
Locked(p) ==
  UNION {{b.event : b \in Range(batch[q])} : q \in {r \in Publishers \ {p} : step[r] = "select"}}

\* the rows that an UPDATE of another publisher may have locked at this moment
Updating(p) ==
  {Current(q) : q \in {r \in Publishers \ {p} : batch[r] # <<>> /\ step[r] \in {"mark", "increment"}}}

\* the places of the rows a query finds: SKIP LOCKED hides others
Backlog(hidden) == {i \in DOMAIN due : Pending(due[i]) /\ due[i] \notin hidden}

\* Mutant: the newest events first.
MutantNewestFirst(places, n) ==
  {f \in [1..n -> places] :
     /\ \A j, k \in 1..n : j < k => f[j] > f[k]
     /\ \A i \in places \ Range(f), k \in 1..n : f[k] > i}

\* ORDER BY next_attempt_at LIMIT n: n places in order, the others behind them
Oldest(places, n) ==
  {f \in [1..n -> places] :
     /\ \A j, k \in 1..n : j < k => f[j] < f[k]
     /\ \A i \in places \ Range(f), k \in 1..n : f[k] < i}

\* FindPending sends its query: the rows it returns are locked until it ends
FindPending(p, hidden) ==
  LET found == Cardinality(Backlog(hidden))
      n     == IF found < BatchLimit THEN found ELSE BatchLimit IN
  /\ n # 0
  /\ \E f \in Oldest(Backlog(hidden), n) :
       batch' = [batch EXCEPT ![p] =
         [k \in 1..n |-> [event |-> due[f[k]], attempts |-> attempts[due[f[k]]]]]]
  /\ step' = [step EXCEPT ![p] = "select"]
  /\ skipped' = skipped \cup {e \in Locked(p) : Pending(e)}
  /\ UNCHANGED <<table, broker, failed, faults>>

Poll(p) ==
  /\ batch[p] = <<>>
  /\ \E U \in SUBSET Updating(p) : FindPending(p, Locked(p) \cup U)

\* FOR UPDATE SKIP LOCKED locks for the statement only: nothing is locked any
\* more when the first event of the batch is sent
Fetched(p) ==
  /\ batch[p] # <<>> /\ step[p] = "select"
  /\ step' = [step EXCEPT ![p] = "send"]
  /\ UNCHANGED <<table, batch, broker, history, faults>>

Working(p, s) == batch[p] # <<>> /\ step[p] = s

\* on to the next event of the batch
Drop(p) ==
  /\ batch' = [batch EXCEPT ![p] = Tail(@)]
  /\ step' = [step EXCEPT ![p] = "send"]

\* event.Attempts >= w.maxAttempts, on the attempts FindPending read
Exceeded(p) == Head(batch[p]).attempts >= MaxAttempts

\* Mutant: an abandoned event ends the loop over the batch.
MutantAbandonEndsBatch(p) ==
  /\ Working(p, "send")
  /\ Exceeded(p)
  /\ batch' = [batch EXCEPT ![p] = <<>>]
  /\ UNCHANGED <<table, step, broker, history, faults>>

\* an abandoned event is skipped, and stays pending
Abandon(p) ==
  /\ Working(p, "send")
  /\ Exceeded(p)
  /\ Drop(p)
  /\ UNCHANGED <<table, broker, history, faults>>

\* MessageDeduplicationId of SQSPublishFunc
DeduplicationId(e) == <<e.type, e.aggregate>>

\* a row waits for its reference once in its life, so the event on which a later
\* one builds shares its deduplication id with no other
ASSUME SuccessionAssumption ==
  \A d, e, x \in Events :
    Precedes(d, e) /\ DeduplicationId(x) = DeduplicationId(d) => x = d

\* Mutant: no deduplication id is set.
MutantNoDeduplication(e) ==
  /\ queue' = Append(queue, e)
  /\ UNCHANGED <<remembered, expiries>>

\* the FIFO queue answers a known deduplication id with success and drops it
Accept(e) ==
  /\ queue' = IF DeduplicationId(e) \in remembered THEN queue ELSE Append(queue, e)
  /\ remembered' = remembered \cup {DeduplicationId(e)}
  /\ UNCHANGED expiries

Send(p) ==
  /\ Working(p, "send")
  /\ ~Exceeded(p)
  /\ Accept(Current(p))
  /\ step' = [step EXCEPT ![p] = "mark"]
  /\ UNCHANGED <<table, batch, history, faults>>

\* Mutant: the event is marked while it is sent, whatever the queue answers.
MutantMarkFirst(p) ==
  /\ Working(p, "send")
  /\ ~Exceeded(p)
  /\ published' = published \cup {Current(p)}
  /\ Drop(p)
  /\ UNCHANGED <<committed, due, later, attempts, broker, history, faults>>

MarkPublished(p) ==
  /\ Working(p, "mark")
  /\ published' = published \cup {Current(p)}
  /\ Drop(p)
  /\ UNCHANGED <<committed, due, later, attempts, broker, history, faults>>

\* Mutant: the place in the old order is kept.
MutantKeptPlace(s, e) == s

\* the schedule without an event that gets a new next_attempt_at
Without(s, e) ==
  IF e \in Range(s) THEN RemoveAt(s, CHOOSE i \in DOMAIN s : s[i] = e) ELSE s

\* next_attempt_at = now() + backoff: behind everything that is due, anywhere
\* among the events that wait
IncrementAttempts(p) ==
  LET e == Current(p) IN
  /\ Working(p, "increment")
  /\ attempts' = [attempts EXCEPT ![e] = @ + 1]
  /\ due' = Without(due, e)
  /\ \E i \in 1..(Len(Without(later, e)) + 1) : later' = InsertAt(Without(later, e), i, e)
  /\ Drop(p)
  /\ UNCHANGED <<committed, published, broker, history, faults>>

\* time passes: the next backoff is over
Ripen ==
  /\ later # <<>>
  /\ due' = Append(due, Head(later))
  /\ later' = Tail(later)
  /\ UNCHANGED <<committed, attempts, published, batch, step, broker, history, faults>>

\* five minutes pass: the queue forgets a deduplication id
Expire(d) ==
  /\ d \in remembered
  /\ expiries < MaxExpiries
  /\ expiries' = expiries + 1
  /\ remembered' = remembered \ {d}
  /\ UNCHANGED <<table, batch, step, queue, history, faults>>

-----------------------------------------------------------------------------
Fault == faults < MaxFaults /\ faults' = faults + 1

\* SendMessage returns an error, and the queue took the message or did not
SendFails(p) ==
  /\ Working(p, "send")
  /\ ~Exceeded(p)
  /\ Fault
  /\ Accept(Current(p)) \/ UNCHANGED broker
  /\ step' = [step EXCEPT ![p] = "increment"]
  /\ failed' = failed \cup {Current(p)}
  /\ UNCHANGED <<table, batch, skipped>>

\* MarkPublished or IncrementAttempts fails: logged, and the batch goes on
UpdateFails(p) ==
  /\ Working(p, "mark") \/ Working(p, "increment")
  /\ Fault
  /\ Drop(p)
  /\ UNCHANGED <<table, broker, history>>

\* the connection breaks while the rows are read: rows.Next ends the loop and
\* rows.Err is not asked, so what was read counts as the batch
FetchBreaks(p) ==
  /\ batch[p] # <<>> /\ step[p] = "select"
  /\ Fault
  /\ \E n \in 0..(Len(batch[p]) - 1) : batch' = [batch EXCEPT ![p] = SubSeq(@, 1, n)]
  /\ step' = [step EXCEPT ![p] = "send"]
  /\ UNCHANGED <<table, broker, history>>

\* the process dies or its context is cancelled, and it starts again
Restart(p) ==
  /\ batch[p] # <<>>
  /\ Fault
  /\ batch' = [batch EXCEPT ![p] = <<>>]
  /\ step' = [step EXCEPT ![p] = "send"]
  /\ UNCHANGED <<table, broker, history>>

-----------------------------------------------------------------------------
OutboxInit ==
  /\ committed = <<>> /\ due = <<>> /\ later = <<>>
  /\ attempts = [e \in Events |-> 0]
  /\ published = {} /\ failed = {} /\ skipped = {}
  /\ batch = [p \in Publishers |-> <<>>]
  /\ step = [p \in Publishers |-> "send"]
  /\ queue = <<>> /\ remembered = {} /\ expiries = 0
  /\ faults = 0

PublisherStep(p) ==
  Poll(p) \/ Fetched(p) \/ Abandon(p) \/ Send(p) \/ MarkPublished(p) \/ IncrementAttempts(p)

\* everything is published and every publisher only polls
Idle ==
  /\ published = Events
  /\ \A p \in Publishers : batch[p] = <<>>
  /\ later = <<>>
  /\ UNCHANGED ovars

OutboxNext ==
  \/ \E e \in Events : Begin(e) \/ Commit(e)
  \/ \E p \in Publishers : PublisherStep(p) \/ SendFails(p) \/ UpdateFails(p)
                            \/ FetchBreaks(p) \/ Restart(p)
  \/ Ripen
  \/ \E d \in remembered : Expire(d)
  \/ Idle

\* a publisher that can run runs, and backoffs end; writers may stop anywhere
OutboxFairness ==
  /\ \A p \in Publishers : WF_ovars(PublisherStep(p))
  /\ WF_ovars(Ripen)

OutboxSpec     == OutboxInit /\ [][OutboxNext]_ovars
FairOutboxSpec == OutboxSpec /\ OutboxFairness

-----------------------------------------------------------------------------
\* OutboxTypeOK: the table, the batches and the queue stay in their types.
OutboxTypeOK ==
  /\ committed \in Seq(Events) /\ due \in Seq(Events) /\ later \in Seq(Events)
  /\ Range(due) \cap Range(later) = {}
  /\ attempts \in [Events -> Nat]
  /\ published \subseteq Range(committed)
  /\ batch \in [Publishers -> Seq([event : Events, attempts : Nat])]
  /\ step \in [Publishers -> {"select", "send", "mark", "increment"}]
  /\ queue \in Seq(Events)
  /\ remembered \subseteq {DeduplicationId(e) : e \in Events}

\* As long as the queue remembers its deduplication ids, no event becomes two
\* messages, though two publishers read the same batch, answers are lost and
\* processes restart between SendMessage and MarkPublished.
NoDuplicateMessage ==
  expiries = 0 => \A i, j \in DOMAIN queue : queue[i] = queue[j] => i = j

\* An event is marked as published only when the queue holds a message of its
\* deduplication id: no failure, crash or second publisher skips an aggregate.
PublishedWasSent ==
  \A e \in published :
    \E i \in DOMAIN queue : DeduplicationId(queue[i]) = DeduplicationId(e)

\* The events of one transaction row reach the queue in the order in which they
\* happened, though next_attempt_at is the start of a transaction and publishers
\* work on overlapping batches: only an event whose SendMessage failed, or that a
\* poll skipped while the poll of another publisher had it locked, can come behind
\* its successor.
DeliveredInOrder ==
  \A d, e \in Events : \A i \in DOMAIN queue :
    (Precedes(d, e) /\ queue[i] = e /\ d \notin failed \cup skipped)
      => \E j \in 1..(i - 1) : queue[j] = d

\* an event that used up its attempts stays pending, and no poll passes over it
Abandoned == {e \in Range(committed) \ published : attempts[e] >= MaxAttempts}

\* from some moment on the abandoned events take every place of a batch
PollsFull == <>[](Cardinality(Abandoned) >= BatchLimit)

\* no committed event stays behind that has attempts left
NoneLeftBehind ==
  \A e \in Events : e \in Range(committed) ~> (e \in published \/ attempts[e] >= MaxAttempts)

\* Every committed event is published in the end, or its attempts are used up,
\* unless abandoned events fill the batches for good: while they leave one place,
\* that place is enough, whatever fails, overlaps or restarts.
EventuallyPublished == PollsFull \/ NoneLeftBehind

-----------------------------------------------------------------------------
(***************************************************************************)
(* What the documentation says of the outbox, and the code does not keep.  *)
(***************************************************************************)

\* ARCHITECTURE.md section 8: the outbox delivers at least once, so an event
\* marked as published is a message of the queue (SQSPublishFunc gives all
\* WalletBalanceChanged events of a wallet one deduplication id).
EveryEventDelivered ==
  \A e \in published : e \in Range(queue)
=============================================================================

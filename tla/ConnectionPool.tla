--------------------------- MODULE ConnectionPool ---------------------------
(***************************************************************************)
(* The connection pools of the API and of the worker process, and how the  *)
(* two processes stop.                                                     *)
(*                                                                         *)
(* Every call of a repository borrows a connection: a read for as long as  *)
(* it takes, a transaction from Begin to Commit or Rollback.  Some calls   *)
(* read, or begin a second transaction, while their own transaction is     *)
(* open.  What a call reads and writes is left to the other modules; here  *)
(* a job is the sequence of the points where it can be made to wait.  All  *)
(* jobs are about one wallet, the case in which they meet.                 *)
(***************************************************************************)
EXTENDS Integers, Sequences, FiniteSets

CONSTANTS
  Goroutines,  \* HTTP requests and worker loops that may run at one time
  Api, Worker, \* the processes
  Duty,        \* Duty[g]: a request, or one of the worker's loops
  RequestJobs, \* the jobs that clients ask for
  MaxConns,    \* API_DB_MAX_CONNS, the same setting for both processes
  None

Processes == {Api, Worker}
Duties    == {"request", "messages", "references", "events"}

VARIABLES
  todo,     \* todo[g]: the points of its job a goroutine has still to pass
  held,     \* held[g]: transactions it has open, each on a connection of its own
  owner,    \* the goroutine whose transaction holds the wallet FOR UPDATE
  sharers,  \* those whose transaction inserted a row that refers to the wallet
  phase     \* phase[p]: where the life of a process stands

cvars == <<todo, held, owner, sharers, phase>>

-----------------------------------------------------------------------------
(***************************************************************************)
(* The jobs.  Reads that follow one another are one "query".               *)
(***************************************************************************)

\* BET, WIN, REFUND or ROLLBACK that is settled
Settle == <<"query", "begin", "lock", "end">>

\* one whose key another request or message settled between the idempotency
\* check and this lock: commitWithLedger looks the key up outside the transaction
\* it has not yet rolled back, and ProcessTransaction once more after it
Duplicate == <<"query", "begin", "lock", "query", "end", "query">>

\* one the wallet refused: getWalletBalance and createAndReject follow the rollback
Refused == <<"query", "begin", "lock", "end", "query", "begin", "insert", "end">>

\* a reversal whose reference is pending
Parked == <<"query", "begin", "insert", "end">>

\* reject, before a transaction was begun
Rejected == <<"query", "begin", "insert", "end", "query">>

\* processLoss: getWalletBalance between Begin and the insert
Loss == <<"query", "begin", "query", "insert", "end", "query">>

\* processRollback of a type that cannot be reversed: reject opens a second
\* transaction, the deferred Rollback of the first comes last
WrongReference == <<"query", "begin", "begin", "insert", "end", "query", "end">>

\* ResolvePendingReference: the reference and its reversals are read outside the
\* transaction that claimed the row
Resolve == <<"query", "begin", "query", "lock", "end">>

\* the same when the wallet refuses: a second transaction after the rollback
ResolveRefused == <<"query", "begin", "query", "lock", "end", "begin", "end">>

\* the same when the reference cannot be reversed: resolveRejectTx
ResolveRejected == <<"query", "begin", "query", "end", "query">>

\* the same without a reference: resolveRejectInPlace after the commit
ResolveNotFound == <<"query", "begin", "query", "end", "begin", "end", "query">>

\* CreateWallet: the wallet its rows refer to is its own
CreateWallet == <<"query", "begin", "end">>

\* GET handlers, health checks, FindPending and MarkPublished of the outbox
Read == <<"query">>

ProcessTransactionJobs == {Settle, Duplicate, Refused, Parked, Rejected, Loss, WrongReference}

ASSUME PoolAssumption ==
  /\ IsFiniteSet(Goroutines)
  /\ Api # Worker
  /\ Duty \in [Goroutines -> Duties]
  /\ RequestJobs \subseteq ProcessTransactionJobs \cup {CreateWallet, Read}
  /\ MaxConns \in Nat \ {0}
  /\ None \notin Goroutines

\* the routes of the API, and the loops of WagerSQSWorker, ReferenceWorker and
\* OutboxPublisher
Jobs(duty) ==
  CASE duty = "request"    -> RequestJobs
    [] duty = "messages"   -> ProcessTransactionJobs
    [] duty = "references" -> {Resolve, ResolveRejected, ResolveRefused, ResolveNotFound, Read}
    [] duty = "events"     -> {Read}

-----------------------------------------------------------------------------
\* the process that runs a goroutine
Home(g) == IF Duty[g] = "request" THEN Api ELSE Worker

Members(p) == {g \in Goroutines : Home(g) = p}

\* the connections a process has borrowed: <<g, i>> carries g's i-th open transaction
Borrowed(p) == {c \in Members(p) \X (1..MaxConns) : c[2] <= held[c[1]]}

InUse(p) == Cardinality(Borrowed(p))

\* pgxpool.Acquire returns at once
Available(p) == InUse(p) < MaxConns

\* the worker's context is cancelled by OnStop, a request's context is not
Cancelled(p) == p = Worker /\ phase[p] # "running"

\* the next point of a goroutine's job, in a process that still executes it
At(g, point) ==
  /\ todo[g] # <<>>
  /\ Head(todo[g]) = point
  /\ ~Cancelled(Home(g))

Advance(g) == todo' = [todo EXCEPT ![g] = Tail(@)]

\* Mutant: the loop does not look at its context.
MutantIgnoresContext(p) == phase[p] \in {"running", "stopping"}

\* the server accepts a request, or a loop finds ctx.Err() nil
Accepts(p) == phase[p] = "running"

Start(g, job) ==
  /\ todo[g] = <<>>
  /\ Accepts(Home(g))
  /\ todo' = [todo EXCEPT ![g] = job]
  /\ UNCHANGED <<held, owner, sharers, phase>>

\* pool.QueryRow, pool.Query, pool.Exec: Acquire, the statement, Release
Query(g) ==
  /\ At(g, "query")
  /\ Available(Home(g))
  /\ Advance(g)
  /\ UNCHANGED <<held, owner, sharers, phase>>

\* TxManager.Begin
Begin(g) ==
  /\ At(g, "begin")
  /\ Available(Home(g))
  /\ held' = [held EXCEPT ![g] = @ + 1]
  /\ Advance(g)
  /\ UNCHANGED <<owner, sharers, phase>>

\* SELECT ... FOR UPDATE of the wallet, kept until the transaction ends
Lock(g) ==
  /\ At(g, "lock")
  /\ owner = None /\ sharers \subseteq {g}
  /\ owner' = g
  /\ Advance(g)
  /\ UNCHANGED <<held, sharers, phase>>

\* an INSERT whose foreign key takes the wallet FOR KEY SHARE
Insert(g) ==
  /\ At(g, "insert")
  /\ owner \in {None, g}
  /\ sharers' = sharers \cup {g}
  /\ Advance(g)
  /\ UNCHANGED <<held, owner, phase>>

\* the wallet's row without the locks of a set of goroutines
Unlock(gs) ==
  /\ owner' = IF owner \in gs THEN None ELSE owner
  /\ sharers' = sharers \ gs

\* Mutant: a transaction that is not rolled back keeps its connection.
MutantLeak(g) == UNCHANGED held

\* the connection goes back to the pool
Release(g) == held' = [held EXCEPT ![g] = @ - 1]

\* Commit or Rollback
End(g) ==
  /\ At(g, "end")
  /\ Release(g)
  /\ Unlock({g})
  /\ Advance(g)
  /\ UNCHANGED phase

\* a cancelled call fails wherever it stands and the ones after it fail at once;
\* the deferred Rollback gives back, or closes, the connection
GiveUp(g) ==
  /\ todo[g] # <<>>
  /\ todo' = [todo EXCEPT ![g] = <<>>]
  /\ held' = [held EXCEPT ![g] = 0]
  /\ Unlock({g})
  /\ UNCHANGED phase

\* the worker stops while one of its calls runs
WorkerGivesUp(g) == Cancelled(Home(g)) /\ GiveUp(g)

\* the client of a request closes its connection
ClientGone(g) == Home(g) = Api /\ GiveUp(g)

-----------------------------------------------------------------------------
(***************************************************************************)
(* The OnStop hooks run in the reverse order of the constructors: the      *)
(* server or the loops first, NewPool's hook last.                         *)
(***************************************************************************)

SetPhase(p, from, to) == phase[p] = from /\ phase' = [phase EXCEPT ![p] = to]

\* SIGTERM: srv.Shutdown stops accepting; the worker cancels its context
Stop(p) ==
  /\ SetPhase(p, "running", "stopping")
  /\ UNCHANGED <<todo, held, owner, sharers>>

\* srv.Shutdown, or wg.Wait, has seen the last goroutine end
Drained(p) ==
  /\ SetPhase(p, "stopping", "closing")
  /\ \A g \in Members(p) : todo[g] = <<>>
  /\ UNCHANGED <<todo, held, owner, sharers>>

\* pool.Close waits until every connection is back
ClosePool(p) ==
  /\ SetPhase(p, "closing", "stopped")
  /\ InUse(p) = 0
  /\ UNCHANGED <<todo, held, owner, sharers>>

\* the process is killed, or fx's stop timeout ends it with the hooks that are
\* left: the server sees the connections close and rolls back
Kill(p) ==
  /\ phase[p] # "stopped"
  /\ phase' = [phase EXCEPT ![p] = "stopped"]
  /\ todo' = [g \in Goroutines |-> IF Home(g) = p THEN <<>> ELSE todo[g]]
  /\ held' = [g \in Goroutines |-> IF Home(g) = p THEN 0 ELSE held[g]]
  /\ Unlock(Members(p))

\* NewPool, and the OnStart hooks
Restart(p) ==
  /\ SetPhase(p, "stopped", "running")
  /\ UNCHANGED <<todo, held, owner, sharers>>

-----------------------------------------------------------------------------
PoolInit ==
  /\ todo = [g \in Goroutines |-> <<>>]
  /\ held = [g \in Goroutines |-> 0]
  /\ owner = None
  /\ sharers = {}
  /\ phase = [p \in Processes |-> "running"]

\* one step of the job of a goroutine
Run(g) == Query(g) \/ Begin(g) \/ Lock(g) \/ Insert(g) \/ End(g)

PoolNext ==
  \/ \E g \in Goroutines :
       \/ \E job \in Jobs(Duty[g]) : Start(g, job)
       \/ Run(g) \/ WorkerGivesUp(g) \/ ClientGone(g)
  \/ \E p \in Processes : Stop(p) \/ Drained(p) \/ ClosePool(p) \/ Kill(p) \/ Restart(p)

\* The pool serves waiting goroutines first come, first served, and so does
\* PostgreSQL the waiters for a row: a step that becomes possible again and
\* again is taken.  A cancelled call returns and the hooks of a stop run on.
\* Nothing makes a client go away, a process stop, die or start.
PoolFairness ==
  /\ \A g \in Goroutines : SF_cvars(Run(g)) /\ WF_cvars(WorkerGivesUp(g))
  /\ \A p \in Processes : WF_cvars(Drained(p)) /\ WF_cvars(ClosePool(p))

PoolSpec == PoolInit /\ [][PoolNext]_cvars /\ PoolFairness

-----------------------------------------------------------------------------
\* a goroutine that need not wait for another one
CanMove(g) ==
  CASE Head(todo[g]) \in {"query", "begin"} -> Available(Home(g))
    [] Head(todo[g]) = "lock"              -> owner = None /\ sharers \subseteq {g}
    [] Head(todo[g]) = "insert"            -> owner \in {None, g}
    [] Head(todo[g]) = "end"               -> TRUE

\* As long as a job is under way some goroutine can go on with one: they never
\* all wait for each other, for connections that the pool has given to goroutines
\* which wait for the wallet, or for more connections.
NoCircularWait ==
  LET busy == {g \in Goroutines : todo[g] # <<>>} IN
  busy # {} => \E g \in busy : CanMove(g)

\* A process that was told to stop stops, its pool closed after the last
\* transaction: no loop goes on, no connection stays out, and neither process
\* waits for the other's locks for ever.
StopCompletes == \A p \in Processes : phase[p] = "stopping" ~> phase[p] = "stopped"
=============================================================================

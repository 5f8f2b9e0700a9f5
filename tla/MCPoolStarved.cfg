SPECIFICATION PoolSpec
CONSTANTS
  r1 = r1
  r2 = r2
  l1 = l1
  Api = Api
  Worker = Worker
  None = None
  Goroutines <- AllGoroutines
  Duty <- DutyOf
  RequestJobs <- IdenticalBets
  MaxConns = 2
INVARIANT NoCircularWait

------------------------------ MODULE HashPool ------------------------------
(***************************************************************************)
(* Sha256WorkerPool: a fixed number of workers hash the files of a sync     *)
(* engine.  A job takes the first free worker or waits in line; a worker    *)
(* that fails is replaced, and if none can be made the pool is at its end.  *)
(* What a worker has sent stays under way after the pool has given it up.   *)
(***************************************************************************)
EXTENDS Naturals, Sequences, FiniteSets, SequencesExt, FiniteSetsExt

CONSTANTS
  Calls,        \* calls of hash() and hashAndReturnBytes()
  Slots,        \* 1..concurrency
  Unpostable,   \* jobs whose buffer was already transferred: postMessage() throws
  MaxWorkers,   \* Bound: workers ever made
  None          \* no job

HashPoolAssumption ==
  /\ Slots = 1..Cardinality(Slots)
  /\ Unpostable \subseteq Calls /\ None \notin Calls

VARIABLES
  pool,      \* the pool, see Pools
  makable,   \* workers the host lets the pool make
  busy,      \* jobs that a worker has and has not answered
  mail       \* messages and error events of workers under way to the pool

vars == <<pool, makable, busy, mail>>

\* Workers are told apart by their numbers; 0 is the worker that could not be made.
Pools ==
  [queue : Seq(Calls),
   worker : [Slots -> 0..MaxWorkers],
   job : [Slots -> Calls \cup {None}],
   made : 0..MaxWorkers,
   fate : [Calls -> {"out", "waiting", "posted", "done", "failed"}],
   given : [Calls -> 0..MaxWorkers],      \* the worker a job was posted to
   broken : BOOLEAN,                     \* workerCreationError
   disposed : BOOLEAN]

Work == [slot : Slots, worker : 1..MaxWorkers, job : Calls]
Mail == [slot : Slots, worker : 1..MaxWorkers, job : Calls \cup {None}, kind : {"digest", "error", "crash"}]

TypeOK ==
  /\ pool \in Pools
  /\ makable \in Nat
  /\ busy \subseteq Work
  /\ mail \subseteq Mail

Init ==
  /\ makable \in Cardinality(Slots)..MaxWorkers
  /\ pool = [queue |-> << >>, worker |-> [s \in Slots |-> s], job |-> [s \in Slots |-> None],
             made |-> Cardinality(Slots), fate |-> [j \in Calls |-> "out"],
             given |-> [j \in Calls |-> 0], broken |-> FALSE, disposed |-> FALSE]
  /\ busy = {}
  /\ mail = {}

-----------------------------------------------------------------------------

Waiting(p) == {p.queue[i] : i \in DOMAIN p.queue}
Failed(p, js) == [p EXCEPT !.fate = [j \in Calls |-> IF j \in js THEN "failed" ELSE @[j]]]

\* Faulty variant: a failed worker is replaced whether or not another can be made.
ReplacedAlways(p, s) == [p EXCEPT !.made = @ + 1, !.worker[s] = p.made + 1]

\* The slot has a new worker, or no job will have one any more.
Replaced(p, s) ==
  IF p.made < makable
  THEN [p EXCEPT !.made = @ + 1, !.worker[s] = p.made + 1]
  ELSE [Failed(p, Waiting(p)) EXCEPT !.queue = << >>, !.broken = TRUE, !.worker[s] = 0]

\* Faulty variant: the job of a failed worker goes back into the line.
WorkerFailedRequeued(p, s) ==
  LET again == IF p.job[s] = None THEN << >> ELSE <<p.job[s]>>
  IN  Replaced([p EXCEPT !.job[s] = None, !.queue = again \o @], s)

\* handleWorkerFailure() up to its last call of pump().
WorkerFailed(p, s) == Replaced([Failed(p, {p.job[s]}) EXCEPT !.job[s] = None], s)

Free(p) == {s \in Slots : p.job[s] = None}

\* The first free slot takes the first job in line.
Post(p) ==
  LET s == Min(Free(p))
      j == Head(p.queue)
      taken == [p EXCEPT !.queue = Tail(@), !.job[s] = j, !.fate[j] = "posted",
                         !.given[j] = p.worker[s]]
  IN  IF j \in Unpostable THEN WorkerFailed(taken, s) ELSE taken

\* pump(), with the calls of itself for the workers that fail in it.
Pump(p) ==
  FoldLeft(LAMBDA q, i : IF q.disposed \/ q.broken \/ q.queue = << >> \/ Free(q) = {}
                         THEN q ELSE Post(q),
           p, [i \in 1..Len(p.queue) |-> i])

\* The workers that have been sent a job by the change of the pool to p.
Sent(p) ==
  {[slot |-> s, worker |-> p.worker[s], job |-> p.job[s]] :
     s \in {t \in Slots : p.job[t] # None /\ p.given[p.job[t]] # pool.given[p.job[t]]}}

Becomes(p) == pool' = p /\ busy' = busy \cup Sent(p)

enqueue(j) ==
  /\ pool.fate[j] = "out"
  /\ IF pool.disposed \/ pool.broken
     THEN Becomes(Failed(pool, {j}))
     ELSE Becomes(Pump([pool EXCEPT !.queue = Append(@, j), !.fate[j] = "waiting"]))
  /\ UNCHANGED <<makable, mail>>

-----------------------------------------------------------------------------
(* The workers.                                                              *)

\* A worker that was given up has been terminated.
Alive(s, n) == ~pool.disposed /\ pool.worker[s] = n

Answer(w, kind) ==
  /\ w \in busy
  /\ Alive(w.slot, w.worker)
  /\ busy' = busy \ {w}
  /\ mail' = mail \cup {[slot |-> w.slot, worker |-> w.worker, job |-> w.job, kind |-> kind]}
  /\ UNCHANGED <<pool, makable>>

\* An error or messageerror event, of a worker with or without a job.
Crash(s, n) ==
  /\ Alive(s, n)
  /\ \A m \in mail : ~(m.worker = n /\ m.kind = "crash")
  /\ mail' = mail \cup {[slot |-> s, worker |-> n, job |-> None, kind |-> "crash"]}
  /\ busy' = {w \in busy : w.worker # n}
  /\ UNCHANGED <<pool, makable>>

-----------------------------------------------------------------------------
(* What the pool hears of them.                                              *)

\* Faulty variant: the listeners of a slot are those of all its workers.
ListeningForever(m) == ~pool.disposed

\* The listeners of a slot are those of its present worker.
Listening(m) == ~pool.disposed /\ pool.worker[m.slot] = m.worker

\* Faulty variant: a failed worker is replaced, and its slot waits for the next call.
AfterFailureNoPump(p, s) == WorkerFailed(p, s)

AfterFailure(p, s) == Pump(WorkerFailed(p, s))

handleWorkerMessage(m, s) ==
  /\ m.kind \in {"digest", "error"}
  /\ IF pool.job[s] = None
     THEN Becomes(pool)
     ELSE IF m.job # pool.job[s]
     THEN Becomes(AfterFailure(pool, s))
     ELSE LET fate == IF m.kind = "digest" THEN "done" ELSE "failed"
          IN  Becomes(Pump([pool EXCEPT !.job[s] = None, !.fate[m.job] = fate]))

handleWorkerFailure(m, s) ==
  /\ m.kind = "crash"
  /\ Becomes(AfterFailure(pool, s))

hear(m) ==
  /\ m \in mail
  /\ mail' = mail \ {m}
  /\ IF Listening(m)
     THEN handleWorkerMessage(m, m.slot) \/ handleWorkerFailure(m, m.slot)
     ELSE Becomes(pool)
  /\ UNCHANGED makable

\* Faulty variant: the pool forgets the jobs that its workers have.
DisposedQueue(p) == [Failed(p, Waiting(p)) EXCEPT !.queue = << >>, !.disposed = TRUE]

Disposed(p) ==
  [Failed(p, Waiting(p) \cup {p.job[s] : s \in Slots})
     EXCEPT !.queue = << >>, !.disposed = TRUE, !.job = [s \in Slots |-> None]]

dispose ==
  /\ ~pool.disposed
  /\ Becomes(Disposed(pool))
  /\ UNCHANGED <<makable, mail>>

Next ==
  \/ \E j \in Calls : enqueue(j)
  \/ \E w \in busy, kind \in {"digest", "error"} : Answer(w, kind)
  \/ \E s \in Slots, n \in 1..MaxWorkers : Crash(s, n)
  \/ \E m \in mail : hear(m)
  \/ dispose

Spec == Init /\ [][Next]_vars

\* A worker that has a job answers or fails, and its messages arrive.
FairSpec ==
  /\ Spec
  /\ \A n \in 1..MaxWorkers :
       WF_vars(\E w \in busy, kind \in {"digest", "error"} : w.worker = n /\ Answer(w, kind))
  /\ \A n \in 1..MaxWorkers : WF_vars(\E m \in mail : m.worker = n /\ hear(m))

-----------------------------------------------------------------------------

\* A job fails only for what its own worker or buffer did, or because the pool
\* is disposed of: what a worker that was given up still had under way fails
\* nobody else's.
OnlyOwnFailures ==
  [][\A j \in Calls : pool.fate[j] = "posted" /\ pool'.fate[j] = "failed" =>
       \/ pool'.disposed
       \/ \E m \in mail \ mail' : m.worker = pool.given[j]]_vars

\* No slot is free while a job waits: neither a failed worker nor a job that
\* cannot be posted stops the line.
NoIdleWorker == pool.queue # << >> => Free(pool) = {}

\* A job that has a slot is the only one with it, and is with a worker that the
\* pool still listens to; every other one waits in line or has ended.
JobsKept ==
  /\ ~pool.disposed =>
       \A j \in Calls : pool.fate[j] = "posted" =>
         Cardinality({s \in Slots : pool.job[s] = j /\ pool.worker[s] = pool.given[j]}) = 1
  /\ \A j \in Calls : pool.fate[j] = "waiting" =>
         Cardinality({i \in DOMAIN pool.queue : pool.queue[i] = j}) = 1

\* Every call ends, also those whose worker failed, that wait behind it, or that
\* were under way when the pool was disposed of.
EveryCallEnds ==
  \A j \in Calls : pool.fate[j] # "out" ~> pool.fate[j] \in {"done", "failed"}
=============================================================================

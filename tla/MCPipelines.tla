---------------------------- MODULE MCPipelines ----------------------------
(***************************************************************************)
(* What works on files in parallel: the pipelines of pushes and of pulls,   *)
(* and the workers that hash.  They share no state in the models: each is   *)
(* checked while the others stand still.                                    *)
(***************************************************************************)
EXTENDS PushPipeline

VARIABLES
  part,     \* which of them runs, on which files
  pull, pullBudget, pullEvent, pullRecorder, pullFaults,
  pool, makable, busy, mail

pullVars == <<pull, pullBudget, pullEvent, pullRecorder, pullFaults>>
poolVars == <<pool, makable, busy, mail>>
all == <<part, vars, pullVars, poolVars>>

\* A small file, and one that exceeds the budget of two.
Sizes == [e \in Items |-> IF e = 2 THEN 3 ELSE 1]

\* The same without failures, and without edits.
Edited == INSTANCE PushPipeline WITH MaxFaults <- 0
Failing == INSTANCE PushPipeline WITH MaxEdits <- 0

\* Two small files and a large one, whose events may overlap for ever.
Admission == INSTANCE PushPipeline
  WITH Items <- {1, 2, 3}, Size <- [e \in {1, 2, 3} |-> IF e = 3 THEN 3 ELSE 1], Text <- {},
       Priority <- {}, MaxOwned <- 1, MaxEdits <- 0, MaxFaults <- 0

\* Two pulls of the same file; the second group of each exceeds the budget of two.
Pulls == {1, 2}
Groups == 3
Estimates == [p \in Pulls |-> [g \in 1 .. Groups |-> IF g = 2 THEN 3 ELSE 1]]
Pulling == INSTANCE PullPipeline
  WITH Estimate <- Estimates, Growth <- 1, Keys <- {1}, FileSize <- <<1>>,
       Key <- [p \in Pulls |-> [g \in 1 .. Groups |-> 1]], Concurrency <- 2, MaxFaults <- 1,
       budget <- pullBudget, event <- pullEvent, recorder <- pullRecorder, faults <- pullFaults

\* Three calls on two workers, one with a buffer that was already transferred.
Hashing == INSTANCE HashPool
  WITH Calls <- {"j1", "j2", "j3"}, Slots <- {1, 2}, Unpostable <- {"j1"}, MaxWorkers <- 4,
       None <- "none"

ASSUME Admission!PipelineAssumption /\ Pulling!PullPipelineAssumption /\ Hashing!HashPoolAssumption

MCInit ==
  /\ part \in {"push", "edited", "failing", "admission", "pull", "hash"}
  /\ IF part = "admission" THEN Admission!AllPushed ELSE Init
  /\ Pulling!Init
  /\ Hashing!Init
  /\ part # "hash" => makable = 4

MCNext ==
  \/ part = "push" /\ Next /\ UNCHANGED <<part, pullVars, poolVars>>
  \/ part = "edited" /\ Edited!Next /\ UNCHANGED <<part, pullVars, poolVars>>
  \/ part = "failing" /\ Failing!Next /\ UNCHANGED <<part, pullVars, poolVars>>
  \/ part = "admission" /\ Admission!Next /\ UNCHANGED <<part, pullVars, poolVars>>
  \/ part = "pull" /\ Pulling!Next /\ UNCHANGED <<part, vars, poolVars>>
  \/ part = "hash" /\ Hashing!Next /\ UNCHANGED <<part, vars, pullVars>>

\* The fairness of the components, each while it runs.  Conditions of different parts
\* are joined where they are of a kind: one part runs for ever.
DrainFairness ==
  LET on == part \in {"edited", "failing"} IN
  /\ WF_vars(on /\ (LoadReturns \/ CommitReturns \/ ApplyAccepted \/ JobsJoined))
  /\ WF_vars(on /\ TimerFires) /\ WF_vars(on /\ ReclaimIdleContent)
  /\ \A e \in Items :
       /\ WF_vars(on /\ (JobAsks(e) \/ JobAdmitted(e) \/ JobPrepares(e) \/ JobRequeues(e)))
       /\ WF_vars(on /\ (RecorderAsks(e) \/ RecorderLocks(e) \/ RecorderRecords(e)))

AdmissionFairness ==
  LET on == part = "admission" IN
  \A e \in {1, 2, 3} :
    WF_vars(on /\ \/ Admission!RecorderAsks(e)
                  \/ Admission!RecorderLocks(e)
                  \/ Admission!RecorderRecords(e))

PullFairness ==
  LET on == part = "pull" IN
  /\ \A p \in Pulls :
       /\ WF_pullVars(on /\ \/ Pulling!NextIsPrepared(p)
                            \/ Pulling!NextIsUseless(p)
                            \/ Pulling!ApplyLocks(p)
                            \/ Pulling!GroupApplied(p)
                            \/ Pulling!PullReturns(p))
       /\ WF_pullVars(on /\ \E g \in 1 .. Groups :
            Pulling!GroupAdmitted(p, g) \/ Pulling!GroupPrepared(p, g) \/ Pulling!ClearGroup(p, g))
  /\ WF_pullVars(on /\ Pulling!RecorderLocks(1)) /\ WF_pullVars(on /\ Pulling!RecorderRecords(1))

HashFairness ==
  LET on == part = "hash" IN
  \A n \in 1 .. 4 :
    /\ WF_poolVars(on /\ \E w \in busy, kind \in {"digest", "error"} :
                        w.worker = n /\ Hashing!Answer(w, kind))
    /\ WF_poolVars(on /\ \E m \in mail : m.worker = n /\ Hashing!hear(m))

EventsStop ==
  <>[][part = "admission" \/ (event' \subseteq event /\ pullEvent' \subseteq pullEvent)]_all

MCSpec ==
  /\ MCInit /\ [][MCNext]_all
  /\ DrainFairness /\ AdmissionFairness /\ PullFairness /\ HashFairness /\ EventsStop

-----------------------------------------------------------------------------
(* The properties of the components, each in its part.                      *)

\* Every component keeps to its types.
TypesOK ==
  /\ IF part = "admission" THEN Admission!TypeOK ELSE TypeOK
  /\ Pulling!TypeOK
  /\ Hashing!TypeOK

\* A pull that has ended holds no bytes and no blob.
NothingHeldAfterPull == Pulling!NothingHeldAfterPull
\* No worker is idle while a call waits (pump).
NoIdleWorker == Hashing!NoIdleWorker
\* Every call is queued, at a worker or settled, once.
JobsKept == Hashing!JobsKept
\* A call fails only by its own job, its worker, or the end of the pool.
OnlyOwnFailures == Hashing!OnlyOwnFailures

\* What is under way: a drain; the first of two pulls that are alike; a recorder that
\* waits for the bytes of the large file; a call, of finitely many.
UnderWay ==
  CASE part = "push" -> FALSE
    [] part \in {"edited", "failing"} -> pipe.at # "ended"
    [] part = "admission" -> recorder[3] = "asking"
    [] part = "pull" -> pull[1].at \notin {"idle", "ended"}
    [] part = "hash" -> \E j \in DOMAIN pool.fate : pool.fate[j] \in {"waiting", "posted"}

\* Budgets and workers are shared without a loss: no bytes beyond the budget or after
\* the end, nothing left to push after a drain, no idle worker beside a queue.
NothingLeaks ==
  /\ TypesOK /\ BudgetRespected
  /\ NothingHeldAfterEnd /\ DrainIsComplete /\ NothingHeldAfterPull
  /\ NoIdleWorker /\ JobsKept

\* DrainEnds, RecorderAdmitted, PullEnds and EveryCallEnds, each of its part: whatever
\* waits for bytes, keys or workers comes to its end, because nobody waits in a circle
\* and nobody is overtaken for ever; and no call ends by the failure of another.
WorkEnds == (UnderWay ~> ~UnderWay) /\ OnlyOwnFailures
=============================================================================

---------------------------- MODULE PushPipeline ----------------------------
(***************************************************************************)
(* How a push prepares its mutations: jobs that read, encrypt and upload    *)
(* files in parallel, a generator that owns them until their batch has been *)
(* committed and applied (push-preparation-pipeline.ts), the push that      *)
(* consumes the batches (push-service.ts), and the recorders of vault       *)
(* events (event-recorder.ts).  All of them share the byte budget of the    *)
(* engine, and the keys of the entries.                                     *)
(***************************************************************************)
EXTENDS ByteBudget, Integers

CONSTANTS
  Items,       \* entries
  Size,        \* the bytes of each entry's file
  Text,        \* entries whose ciphertext is kept for a retry
  Priority,    \* entries the loop asked to push before all others
  MaxOwned,    \* entries the pipeline owns at a time
  MaxBatch,    \* mutations in a commit
  Workers,     \* files prepared in parallel
  MaxEdits,    \* changes of files
  MaxFaults    \* failures and refusals

\* MAX_OWNED_ENTRIES and MAX_COMMIT_MUTATIONS are both 100: a batch takes all
\* that is ready, so nothing ready stays behind without a timer.
ASSUME PipelineAssumption ==
  /\ Size \in [Items -> Nat]
  /\ Text \subseteq Items /\ Priority \subseteq Items
  /\ {MaxOwned, MaxBatch, Workers} \subseteq Nat \ {0}
  /\ MaxOwned <= MaxBatch
  /\ {MaxEdits, MaxFaults} \subseteq Nat

VARIABLES
  pipe,       \* the generator, its jobs and the consumer of its batches
  budget,     \* the byte budget
  content,    \* the content of each file, by number
  known,      \* the content of each file as last recorded in the store
  dirty,      \* entries with a pending mutation that is not blocked
  late,       \* entries recorded since the pipeline last listed the pending ones
  event,      \* files with a vault event that waits to be handled
  recorder,   \* the handler of each file's vault events
  pullAsked,  \* a pull is requested (shouldYield)
  faults      \* failures and refusals so far

vars == <<pipe, budget, content, known, dirty, late, event, recorder, pullAsked, faults>>
files == <<content, known, dirty, late, event, recorder>>

\* Owners of reservations: jobs, recorders, and the retry cache.
Job(e) == <<"job", e>>
Recorder(e) == <<"recorder", e>>
Cached(e) == <<"cache", e>>
Owners == {"job", "recorder", "cache"} \X Items

NoJob == [at |-> "out", mutation |-> 0, value |-> "none"]

TypeOK ==
  /\ pipe \in [at : {"loading", "asleep", "committing", "applying", "joining", "ended"},
               job : [Items -> [at : {"out", "waiting", "started", "asking", "reading", "ready", "batch"},
                                mutation : 0 .. MaxEdits,
                                value : {"none", "prepared", "requeued", "blocked", "quota"}]],
               stopped : BOOLEAN, yielding : BOOLEAN, sourceEmpty : BOOLEAN, failed : BOOLEAN,
               timer : BOOLEAN, flush : BOOLEAN, limit : BOOLEAN, stopAfter : BOOLEAN,
               requeued : SUBSET Items, commit : SUBSET Items, accepted : SUBSET Items]
  /\ IsBudget(budget, Owners, Max({Size[e] : e \in Items}))
  /\ Exact(budget)
  /\ content \in [Items -> 0 .. MaxEdits] /\ known \in [Items -> 0 .. MaxEdits]
  /\ \A e \in Items : known[e] <= content[e]
  /\ {dirty, late, event} \subseteq SUBSET Items
  /\ recorder \in [Items -> {"idle", "asking", "locked"}]
  /\ pullAsked \in BOOLEAN
  /\ faults \in 0 .. MaxFaults

-----------------------------------------------------------------------------
(* The generator between two awaits: each operator gives the states it may reach. *)

In(p, places) == {e \in Items : p.job[e].at \in places}
Owned(p) == Items \ In(p, {"out"})
Jobs(p) == In(p, {"started", "asking", "reading"})
Moved(p, es, place) == [p EXCEPT !.job = [e \in Items |->
  IF e \in es THEN [p.job[e] EXCEPT !.at = place] ELSE p.job[e]]]
Dropped(p, es) == [p EXCEPT !.job = [e \in Items |-> IF e \in es THEN NoJob ELSE p.job[e]]]

\* A drain that has just been asked for its first batch.
NewPipe ==
  [at |-> "loading", job |-> [e \in Items |-> NoJob],
   stopped |-> FALSE, yielding |-> FALSE, sourceEmpty |-> FALSE, failed |-> FALSE,
   timer |-> FALSE, flush |-> FALSE, limit |-> FALSE, stopAfter |-> FALSE,
   requeued |-> {}, commit |-> {}, accepted |-> {}]

\* updateAndCheckSupplyStop: once seen, a request to yield holds for the drain.
Latched(p) == [p EXCEPT !.yielding = @ \/ pullAsked \/ p.limit]
SupplyStopped(p) == p.stopped \/ p.yielding

\* Idle workers take waiting entries.
Pump(p) ==
  LET q == Latched(p)
      n == Min({Workers - Cardinality(Jobs(q)), Cardinality(In(q, {"waiting"}))})
  IN  IF SupplyStopped(q) THEN {q}
      ELSE {Moved(q, es, "started") : es \in kSubset(n, In(q, {"waiting"}))}

\* Faulty variant: ready values keep their bytes until the jobs have ended.
CloseAfterJoin(p) == [p EXCEPT !.at = "joining", !.stopped = TRUE, !.timer = FALSE]

\* The end: values that are ready, or in the batch, are disposed of, started jobs joined.
Close(p) ==
  [Dropped(p, In(p, {"waiting", "ready", "batch"})) EXCEPT
     !.at = "joining", !.stopped = TRUE, !.timer = FALSE]

\* The push looks at its batch up to the first upload refused for quota, and sends
\* what was prepared.
Deliver(p, batch) ==
  LET refused == {e \in batch : p.job[e].value = "quota"}
      seen == IF refused = {} THEN {batch} ELSE SUBSET (batch \ refused)
      again(s) == {e \in s : p.job[e].value = "requeued"}
  IN  {[Moved(p, batch, "batch") EXCEPT
          !.at = "committing", !.timer = FALSE, !.flush = FALSE,
          !.commit = {e \in s : p.job[e].value = "prepared"},
          !.limit = @ \/ again(s) \cap p.requeued # {},
          !.requeued = @ \cup again(s),
          !.stopAfter = refused # {}] : s \in seen}

\* What follows a listing, or its omission: a batch, the end, or sleep.
Settle(p) ==
  LET ready == In(p, {"ready"})
      finished == Jobs(p) = {} /\ (p.yielding \/ In(p, {"waiting"}) = {})
      batchDue == ready # {} /\ (p.flush \/ Cardinality(ready) >= MaxBatch \/ finished)
  IN  IF p.failed THEN {Close(p)}
      ELSE IF batchDue THEN
        UNION {Deliver(p, b) : b \in kSubset(Min({MaxBatch, Cardinality(ready)}), ready)}
      ELSE IF finished /\ (p.yielding \/ p.sourceEmpty) THEN {Close(p)}
      ELSE {[p EXCEPT !.at = "asleep"]}

\* The head of the loop.
Loop(p) ==
  LET q == Latched(p) IN
  IF q.failed THEN {Close(q)}
  ELSE IF ~SupplyStopped(q) /\ ~q.sourceEmpty /\ Cardinality(Owned(q)) < MaxOwned
  THEN {[q EXCEPT !.at = "loading"]}
  ELSE Settle(q)

Woken(p) == IF p.at = "asleep" THEN Loop(p) ELSE {p}

\* Faulty variant: a listing that was empty once counts for the rest of the drain.
AfterBatchKeepEmpty(p) ==
  IF p.stopAfter THEN {Close(p)}
  ELSE Loop([Dropped(p, In(p, {"batch"})) EXCEPT !.accepted = {}, !.commit = {}])

\* The consumer is done with its batch: the entries are given back.
AfterBatch(p) ==
  IF p.stopAfter THEN {Close(p)}
  ELSE Loop([Dropped(p, In(p, {"batch"})) EXCEPT
               !.sourceEmpty = FALSE, !.accepted = {}, !.commit = {}])

\* Values disposed of between two states of the pipeline return their bytes.
Disposed(p, q) == {Job(e) : e \in In(p, {"ready", "batch"}) \cap In(q, {"out"})}

-----------------------------------------------------------------------------
Init ==
  /\ pipe = NewPipe
  /\ budget = EmptyBudget
  /\ content = [e \in Items |-> 0] /\ known = content
  /\ dirty = Items
  /\ late = {} /\ event = {}
  /\ recorder = [e \in Items |-> "idle"]
  /\ pullAsked = FALSE
  /\ faults = 0

\* All files are recorded and pushed, and nothing runs.
AllPushed ==
  /\ pipe = [NewPipe EXCEPT !.at = "ended", !.stopped = TRUE, !.sourceEmpty = TRUE]
  /\ budget = EmptyBudget
  /\ content = [e \in Items |-> 0] /\ known = content
  /\ dirty = {} /\ late = {} /\ event = {}
  /\ recorder = [e \in Items |-> "idle"]
  /\ pullAsked = FALSE
  /\ faults = 0

Fault == faults < MaxFaults /\ faults' = faults + 1

\* While entries with priority are pending, nothing else is listed.
Listed ==
  LET first == dirty \cap Priority IN
  (IF first # {} THEN first ELSE dirty) \ Owned(pipe)

\* The store has listed pending mutations that are not owned yet.
LoadReturns ==
  /\ pipe.at = "loading"
  /\ LET q == Latched(pipe)
         n == Min({MaxOwned - Cardinality(Owned(pipe)), Cardinality(Listed)})
     IN  \/ /\ SupplyStopped(q)
            /\ pipe' \in Settle(q)
         \/ /\ ~SupplyStopped(q)
            /\ \E es \in kSubset(n, Listed) :
                 LET r == [q EXCEPT
                       !.sourceEmpty = (es = {}),
                       !.job = [e \in Items |->
                          IF e \in es THEN [NoJob EXCEPT !.at = "waiting", !.mutation = known[e]]
                          ELSE q.job[e]]]
                 IN  \E s \in Pump(r) : pipe' \in Settle(s)
  /\ late' = {}
  /\ budget' = ReleaseAll(budget, Disposed(pipe, pipe'))
  /\ UNCHANGED <<content, known, dirty, event, recorder, pullAsked, faults>>

\* A job has the metadata of its mutation and reserves the bytes of the file.
JobAsks(e) ==
  /\ pipe.job[e].at = "started"
  /\ pipe' = Moved(pipe, {e}, "asking")
  /\ budget' = Acquire(budget, Job(e), Size[e])
  /\ UNCHANGED <<files, pullAsked, faults>>

JobAdmitted(e) ==
  /\ pipe.job[e].at = "asking"
  /\ Holds(budget, Job(e))
  /\ pipe' = Moved(pipe, {e}, "reading")
  /\ UNCHANGED <<budget, files, pullAsked, faults>>

\* A job returns a value: to the batch, within the coalescing time, or, after the
\* end, to nobody.
Resolved(p, e, value) ==
  LET kept == [p EXCEPT !.job[e].at = "ready", !.job[e].value = value, !.timer = TRUE]
  IN  UNION {Woken(q) : q \in Pump(IF p.stopped THEN Dropped(p, {e}) ELSE kept)}

\* Faulty variant: a value that arrives after the end is dropped with its bytes.
DisposedLateNot(p, e) == {}

\* A value that arrives after the end is disposed of at once.
DisposedLate(p, e) == IF p.stopped THEN {Job(e)} ELSE {}

\* The retry cache takes the ciphertext of a text if its bytes fit at once.
CachePut(b, e) ==
  LET c == Release(b, Cached(e)) IN
  IF TryAcquire(c, Cached(e), Size[e]) THEN Reserve(c, Cached(e), Size[e]) ELSE c

\* The file still has the recorded content and has been uploaded.
JobPrepares(e) ==
  /\ pipe.job[e].at = "reading"
  /\ content[e] = pipe.job[e].mutation
  /\ pipe' \in Resolved(pipe, e, "prepared")
  /\ LET b == IF e \in Text THEN CachePut(budget, e) ELSE budget
     IN  budget' = ReleaseAll(b, DisposedLate(pipe, e) \cup Disposed(pipe, pipe'))
  /\ UNCHANGED <<files, pullAsked, faults>>

\* The bytes of a job that prepared nothing are released before it resolves.
ReleaseUnused(e) == budget' = ReleaseAll(budget, {Job(e)} \cup Disposed(pipe, pipe'))

\* Faulty variant: a recorder locks its path before its bytes are admitted.
KeyHeldFirst(e) == recorder[e] # "idle"

\* Recorders hold the keys of their entry while they hash the file.
KeyHeld(e) == recorder[e] = "locked"

\* The file changed since: under its key, the new content becomes the mutation.
JobRequeues(e) ==
  /\ pipe.job[e].at = "reading"
  /\ content[e] # pipe.job[e].mutation
  /\ ~KeyHeld(e)
  /\ known' = [known EXCEPT ![e] = IF @ = pipe.job[e].mutation THEN content[e] ELSE @]
  /\ pipe' \in Resolved(pipe, e, "requeued")
  /\ ReleaseUnused(e)
  /\ UNCHANGED <<content, dirty, late, event, recorder, pullAsked, faults>>

\* The file is too large: under its key, the mutation is blocked.
JobBlocks(e) ==
  /\ pipe.job[e].at = "reading"
  /\ content[e] = pipe.job[e].mutation
  /\ ~KeyHeld(e)
  /\ Fault
  /\ dirty' = IF known[e] = pipe.job[e].mutation THEN dirty \ {e} ELSE dirty
  /\ pipe' \in Resolved(pipe, e, "blocked")
  /\ ReleaseUnused(e)
  /\ UNCHANGED <<content, known, late, event, recorder, pullAsked>>

\* The upload was refused because the vault is full.
JobMeetsQuota(e) ==
  /\ pipe.job[e].at = "reading"
  /\ content[e] = pipe.job[e].mutation
  /\ Fault
  /\ pipe' \in Resolved(pipe, e, "quota")
  /\ ReleaseUnused(e)
  /\ UNCHANGED <<files, pullAsked>>

\* Reading, encrypting or uploading the file failed.
JobFails(e) ==
  /\ pipe.job[e].at = "reading"
  /\ Fault
  /\ pipe' \in Woken([Dropped(pipe, {e}) EXCEPT !.failed = TRUE, !.stopped = TRUE])
  /\ ReleaseUnused(e)
  /\ UNCHANGED <<files, pullAsked>>

\* The coalescing time is over.
TimerFires ==
  /\ pipe.timer /\ ~pipe.flush
  /\ pipe' \in Woken([pipe EXCEPT !.flush = TRUE])
  /\ budget' = ReleaseAll(budget, Disposed(pipe, pipe'))
  /\ UNCHANGED <<files, pullAsked, faults>>

\* The coordinator has answered the commit; a mutation it found stale ends the drain
\* after this batch.  Accepted ciphertext is not kept for a retry.
CommitReturns ==
  /\ pipe.at = "committing"
  /\ \E accepted \in SUBSET pipe.commit :
       /\ faults' = faults + (IF accepted = pipe.commit THEN 0 ELSE 1)
       /\ faults' <= MaxFaults
       /\ LET p == [pipe EXCEPT !.accepted = accepted, !.requeued = @ \ accepted,
                                !.stopAfter = @ \/ accepted # pipe.commit]
          IN  IF accepted = {} THEN pipe' \in AfterBatch(p)
              ELSE pipe' = [p EXCEPT !.at = "applying"]
       /\ budget' = ReleaseAll(budget, {Cached(e) : e \in accepted} \cup Disposed(pipe, pipe'))
  /\ UNCHANGED <<files, pullAsked>>

\* Under the keys of the accepted entries: what was recorded since remains pending.
ApplyAccepted ==
  /\ pipe.at = "applying"
  /\ \A e \in pipe.accepted : ~KeyHeld(e)
  /\ dirty' = dirty \ {e \in pipe.accepted : known[e] = pipe.job[e].mutation}
  /\ pipe' \in AfterBatch(pipe)
  /\ budget' = ReleaseAll(budget, Disposed(pipe, pipe'))
  /\ UNCHANGED <<content, known, late, event, recorder, pullAsked, faults>>

\* The commit, or the write of its outcome, failed: the push throws.
BatchFails ==
  /\ pipe.at \in {"committing", "applying"}
  /\ Fault
  /\ pipe' = Close([pipe EXCEPT !.failed = TRUE])
  /\ budget' = ReleaseAll(budget, Disposed(pipe, pipe'))
  /\ UNCHANGED <<files, pullAsked>>

JobsJoined ==
  /\ pipe.at = "joining"
  /\ Jobs(pipe) = {}
  /\ pipe' = [Dropped(pipe, Items) EXCEPT !.at = "ended"]
  /\ budget' = ReleaseAll(budget, Disposed(pipe, pipe'))
  /\ UNCHANGED <<files, pullAsked, faults>>

NextDrain ==
  /\ pipe.at = "ended"
  /\ pipe' = NewPipe
  /\ pullAsked' = FALSE
  /\ UNCHANGED <<budget, files, faults>>

PullAsked ==
  /\ ~pullAsked
  /\ pullAsked' = TRUE
  /\ UNCHANGED <<pipe, budget, files, faults>>

\* While reservations wait, idle content is discarded, one at a time.
ReclaimIdleContent ==
  /\ budget.waiting # << >>
  /\ \E e \in Text : /\ Holds(budget, Cached(e))
                     /\ budget' = Release(budget, Cached(e))
  /\ UNCHANGED <<pipe, files, pullAsked, faults>>

-----------------------------------------------------------------------------
(* Vault events *)

Edits == MapThenSumSet(LAMBDA e : content[e], Items)

FileChanges(e) ==
  /\ Edits < MaxEdits
  /\ content' = [content EXCEPT ![e] = @ + 1]
  /\ event' = event \cup {e}
  /\ UNCHANGED <<pipe, budget, known, dirty, late, recorder, pullAsked, faults>>

\* An event that leaves the content as it is; there may be any number of these.
FileTouched(e) ==
  /\ event' = event \cup {e}
  /\ UNCHANGED <<pipe, budget, content, known, dirty, late, recorder, pullAsked, faults>>

\* A recorder admits the bytes of its file before it takes a key.
RecorderAsks(e) ==
  /\ e \in event /\ recorder[e] = "idle"
  /\ event' = event \ {e}
  /\ recorder' = [recorder EXCEPT ![e] = "asking"]
  /\ budget' = Acquire(budget, Recorder(e), Size[e])
  /\ UNCHANGED <<pipe, content, known, dirty, late, pullAsked, faults>>

RecorderLocks(e) ==
  /\ recorder[e] = "asking"
  /\ Holds(budget, Recorder(e))
  /\ recorder' = [recorder EXCEPT ![e] = "locked"]
  /\ UNCHANGED <<pipe, budget, content, known, dirty, late, event, pullAsked, faults>>

RecorderRecords(e) ==
  /\ recorder[e] = "locked"
  /\ recorder' = [recorder EXCEPT ![e] = "idle"]
  /\ known' = [known EXCEPT ![e] = content[e]]
  /\ LET new == IF known[e] = content[e] THEN {} ELSE {e}
     IN  dirty' = dirty \cup new /\ late' = late \cup new
  /\ budget' = Release(budget, Recorder(e))
  /\ UNCHANGED <<pipe, content, event, pullAsked, faults>>

-----------------------------------------------------------------------------
Next ==
  \/ LoadReturns \/ TimerFires \/ CommitReturns \/ ApplyAccepted \/ BatchFails
  \/ JobsJoined \/ NextDrain \/ PullAsked \/ ReclaimIdleContent
  \/ \E e \in Items :
       \/ JobAsks(e) \/ JobAdmitted(e) \/ JobPrepares(e) \/ JobRequeues(e)
       \/ JobBlocks(e) \/ JobMeetsQuota(e) \/ JobFails(e)
       \/ FileChanges(e) \/ FileTouched(e)
       \/ RecorderAsks(e) \/ RecorderLocks(e) \/ RecorderRecords(e)

Spec == Init /\ [][Next]_vars

\* Calls return and timers fire.  The keys of an entry are granted in order (KeyLock);
\* here, they are free in the end, because the events of files end.
Fairness ==
  /\ WF_vars(LoadReturns \/ CommitReturns \/ ApplyAccepted \/ JobsJoined)
  /\ WF_vars(TimerFires) /\ WF_vars(ReclaimIdleContent)
  /\ \A e \in Items :
       /\ WF_vars(JobAsks(e) \/ JobAdmitted(e) \/ JobPrepares(e) \/ JobRequeues(e))
       /\ WF_vars(RecorderAsks(e) \/ RecorderLocks(e) \/ RecorderRecords(e))

EventsEnd == <>[][event' \subseteq event]_event

FairSpec == Spec /\ Fairness /\ EventsEnd

-----------------------------------------------------------------------------
\* No more bytes are admitted than the budget has, except for a file that is larger
\* and has the budget to itself (bytes-in-flight.ts, docs/sync-memory-safety.md).
BudgetRespected == budget.reserved <= MaxBytes \/ budget.active = 1

\* Whatever ends a drain, and wherever its jobs were then: once it has ended none of
\* them holds bytes, or waits for any.
NothingHeldAfterEnd ==
  pipe.at = "ended" => \A e \in Items : ~Holds(budget, Job(e)) /\ ~Waits(budget, Job(e))

\* A drain that nothing interrupted leaves pending only what was recorded after it
\* last listed the pending entries: entries requeued while others were in flight are
\* listed again.
DrainIsComplete ==
  (pipe.at = "ended" /\ ~pipe.failed /\ ~pipe.yielding /\ ~pipe.stopAfter) => dirty \subseteq late

\* A drain comes to its end: jobs, recorders and the batch never wait for each
\* other's bytes and keys in a circle, and no file that is ready is forgotten.
DrainEnds == pipe.at # "ended" ~> pipe.at = "ended"

\* A vault event is recorded at last, however large its file and however many other
\* events and drains ask for bytes meanwhile.
RecorderAdmitted == \A e \in Items : recorder[e] = "asking" ~> recorder[e] = "idle"
=============================================================================

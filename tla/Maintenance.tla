------------------------------ MODULE Maintenance ------------------------------
(* Background work of one vault's coordinator: the table of maintenance jobs,  *)
(* the one alarm that is armed for it, the drain that runs due jobs, the       *)
(* summary of the vault's health and the collection of blobs. Times are        *)
(* counted down: a job that is due has 0 left. What collecting a blob does to  *)
(* entries is in Coordinator; here a blob is its deadline. The rounding of     *)
(* collection to half hours is left out.                                       *)
EXTENDS Integers, FiniteSets, FiniteSetsExt

CONSTANTS
  Serialized,    \* requests wait for the drain: the lock of the Node runtime
  Blobs,         \* blobs of the vault
  MaxChanges,    \* commits, uploads and connections
  MaxFaults,     \* failed jobs, failed alarms, refused collections
  MaxRestarts

ASSUME MaintenanceAssumption ==
  /\ Serialized \in BOOLEAN
  /\ IsFiniteSet(Blobs)
  /\ {MaxChanges, MaxFaults, MaxRestarts} \subseteq Nat

VARIABLES
  jobs,        \* maintenance_jobs: for each key, how long until it is due
  alarm,       \* how long until the alarm, or none
  scheduled,   \* HealthService.scheduledFlushAt, lost with the process
  drain,       \* the handler that is running, and what it has read
  facts,       \* what a summary is made of: changes, and how long until it says late
  published,   \* the summary in the control database
  deadline,    \* when a blob may be collected, or none: it is live, or gone
  budget

vars == <<jobs, alarm, scheduled, drain, facts, published, deadline, budget>>

Keys == {"blob_gc", "health_summary_flush"}
Never == -1
FlushDelay == 1
Grace == 2
LateAfter == 3
RetryDelay == 1
RefusedDelay == 3
Delays == 0 .. 3

Idle == [pc |-> "idle", batch |-> {}, changes |-> 0, next |-> Never, late |-> FALSE]

TypeOK ==
  /\ jobs \in [Keys -> Delays \cup {Never}]
  /\ alarm \in Delays \cup {Never} /\ scheduled \in Delays \cup {Never}
  /\ drain \in [pc : {"idle", "choosing", "asking", "deleting", "publishing"},
                batch : SUBSET Blobs, changes : 0 .. MaxChanges,
                next : Delays \cup {Never}, late : BOOLEAN]
  /\ facts \in [changes : 0 .. MaxChanges, lateIn : Delays \cup {Never}]
  /\ published \in [changes : 0 .. facts.changes, late : BOOLEAN]
  /\ deadline \in [Blobs -> 0 .. Grace \cup {Never}]
  /\ budget \in [faults : 0 .. MaxFaults, restarts : 0 .. MaxRestarts]

\* A new vault. Its blobs are not there yet, or live.
Init ==
  /\ jobs = [k \in Keys |-> Never]
  /\ alarm = Never /\ scheduled = Never /\ drain = Idle
  /\ facts = [changes |-> 0, lateIn |-> Never]
  /\ published = [changes |-> 0, late |-> FALSE]
  /\ deadline = [b \in Blobs |-> Never]
  /\ budget = [faults |-> MaxFaults, restarts |-> MaxRestarts]

-----------------------------------------------------------------------------
(* The scheduler.                                                             *)

Spend(kind) == budget[kind] > 0 /\ budget' = [budget EXCEPT ![kind] = @ - 1]

Present(times) == {t \in times : t # Never}
Earliest(times) == IF Present(times) = {} THEN Never ELSE Min(Present(times))
NextDueAt(j) == Earliest({j[k] : k \in Keys})

\* A job that is due sooner stays as it is.
Defer(j, key, due) ==
  IF j[key] # Never /\ j[key] <= due THEN j ELSE [j EXCEPT ![key] = due]

\* The alarm is armed for the job that is due first.
Rearm(j) == NextDueAt(j)

EnsureArmed(a, j) ==
  LET next == NextDueAt(j)
  IN  IF next # Never /\ (a = Never \/ a > next) THEN next ELSE a

\* readNextGcAt: the earliest deadline, which may have passed.
NextGcAt(d) == Earliest({d[b] : b \in Blobs})

DeferGc(j, d) == IF NextGcAt(d) = Never THEN j ELSE Defer(j, "blob_gc", NextGcAt(d))

\* scheduleSummaryFlush asks for nothing when it believes a flush is on its way.
AlreadyScheduled == scheduled # Never /\ scheduled <= FlushDelay

-----------------------------------------------------------------------------
(* Requests. In the Node runtime they wait for the drain; in a Durable Object  *)
(* they run while a handler waits for object storage or the control database.  *)

MayRun == Serialized => drain.pc = "idle"

\* A change the summary shows: jobs are deferred, the alarm armed.
Changed(lateIn, d) ==
  /\ MayRun
  /\ facts.changes < MaxChanges
  /\ facts' = [changes |-> facts.changes + 1, lateIn |-> lateIn]
  /\ LET gc == DeferGc(jobs, d)
     IN  /\ jobs' = IF AlreadyScheduled THEN gc ELSE Defer(gc, "health_summary_flush", FlushDelay)
         /\ scheduled' = IF AlreadyScheduled THEN scheduled ELSE FlushDelay
         /\ alarm' = IF jobs' = jobs THEN alarm ELSE Rearm(jobs')
  /\ deadline' = d
  /\ UNCHANGED <<drain, published, budget>>

\* A device says hello, or leaves.
Connection == Changed(facts.lateIn, deadline)

\* A commit makes uploaded blobs live and retires those it replaces, which may
\* be collected at once unless history still pins them.
Commit ==
  \E used, replaced \in SUBSET Blobs :
    /\ used \cap replaced = {}
    /\ \A b \in replaced : deadline[b] = Never
    /\ Changed(LateAfter, [b \in Blobs |-> IF b \in used THEN Never
                                           ELSE IF b \in replaced THEN 0 ELSE deadline[b]])

\* An upload is staged. The summary shows it after the next collection.
StageBlob(b) ==
  /\ MayRun
  /\ facts.changes < MaxChanges
  /\ facts' = [facts EXCEPT !.changes = @ + 1]
  /\ deadline[b] = Never
  /\ deadline' = [deadline EXCEPT ![b] = Grace]
  /\ jobs' = Defer(jobs, "blob_gc", Grace)
  /\ alarm' = IF jobs' = jobs THEN alarm ELSE Rearm(jobs')
  /\ UNCHANGED <<scheduled, drain, published, budget>>

\* Faulty variant: a time that has passed is counted below zero.
LessAlways(t) == IF t # Never THEN t - 2 ELSE t

\* Time passes. A drain takes less than a unit of time.
Less(t) == IF t > 0 THEN t - 1 ELSE t

Tick ==
  /\ drain.pc = "idle"
  /\ jobs' = [k \in Keys |-> Less(jobs[k])]
  /\ alarm' = Less(alarm) /\ scheduled' = Less(scheduled)
  /\ facts' = [facts EXCEPT !.lateIn = Less(@)]
  /\ deadline' = [b \in Blobs |-> Less(deadline[b])]
  /\ UNCHANGED <<drain, published, budget>>

-----------------------------------------------------------------------------
(* The alarm and its drain.                                                   *)

AlarmFires ==
  /\ alarm = 0 /\ drain.pc = "idle"
  /\ alarm' = Never
  /\ drain' = [Idle EXCEPT !.pc = "choosing"]
  /\ UNCHANGED <<jobs, scheduled, facts, published, deadline, budget>>

Due(key) == drain.pc = "choosing" /\ jobs[key] = 0

\* runGc asks whether the vault may be collected.
BeginGc ==
  /\ Due("blob_gc")
  /\ drain' = [drain EXCEPT !.pc = "asking"]
  /\ UNCHANGED <<jobs, alarm, scheduled, facts, published, deadline, budget>>

Back == drain' = [Idle EXCEPT !.pc = "choosing"]

\* A suspended vault is asked about again later.
GcRefused ==
  /\ drain.pc = "asking" /\ Spend("faults")
  /\ jobs' = [jobs EXCEPT !["blob_gc"] = RefusedDelay]
  /\ Back
  /\ UNCHANGED <<alarm, scheduled, facts, published, deadline>>

ListCollectible ==
  /\ drain.pc = "asking"
  /\ drain' = [drain EXCEPT !.pc = "deleting", !.batch = {b \in Blobs : deadline[b] = 0}]
  /\ UNCHANGED <<jobs, alarm, scheduled, facts, published, deadline, budget>>

\* Faulty variant: the next deadline is the one that was read before the
\* objects were deleted.
GcDoneEarlier ==
  /\ drain.pc = "deleting"
  /\ deadline' = [b \in Blobs |-> IF b \in drain.batch /\ deadline[b] = 0 THEN Never ELSE deadline[b]]
  /\ LET flush == Defer(jobs, "health_summary_flush", 0)
     IN  /\ alarm' = IF flush = jobs THEN alarm ELSE Rearm(flush)
         /\ jobs' = [flush EXCEPT !["blob_gc"] = Never]
  /\ Back
  /\ UNCHANGED <<scheduled, facts, published, budget>>

\* The objects are gone, then their rows, unless a row has changed meanwhile.
\* The next deadline is read afterwards; a summary is asked for at once.
GcDone ==
  /\ drain.pc = "deleting"
  /\ deadline' = [b \in Blobs |-> IF b \in drain.batch /\ deadline[b] = 0 THEN Never ELSE deadline[b]]
  /\ LET flush == Defer(jobs, "health_summary_flush", 0)
     IN  /\ alarm' = IF flush = jobs THEN alarm ELSE Rearm(flush)
         /\ jobs' = [flush EXCEPT !["blob_gc"] = NextGcAt(deadline')]
  /\ Back
  /\ UNCHANGED <<scheduled, facts, published, budget>>

\* Some objects could not be deleted: the job is tried again after a delay.
GcFails ==
  /\ drain.pc = "deleting" /\ drain.batch # {} /\ Spend("faults")
  /\ \E gone \in SUBSET drain.batch :
       /\ gone # drain.batch
       /\ deadline' = [b \in Blobs |-> IF b \in gone /\ deadline[b] = 0 THEN Never ELSE deadline[b]]
  /\ jobs' = [jobs EXCEPT !["blob_gc"] = RetryDelay]
  /\ Back
  /\ UNCHANGED <<alarm, scheduled, facts, published>>

\* flushSummary reads the facts and when they will look different by themselves.
BeginFlush ==
  /\ Due("health_summary_flush")
  /\ drain' = [drain EXCEPT !.pc = "publishing", !.changes = facts.changes,
                            !.late = (facts.lateIn = 0),
                            !.next = IF facts.lateIn > 0 THEN facts.lateIn ELSE Never]
  /\ UNCHANGED <<jobs, alarm, scheduled, facts, published, deadline, budget>>

\* Faulty variant: what time alone changes is not published.
FlushDoneForGood ==
  /\ drain.pc = "publishing"
  /\ published' = [changes |-> drain.changes, late |-> drain.late]
  /\ scheduled' = Never
  /\ jobs' = [jobs EXCEPT !["health_summary_flush"] = Never]
  /\ Back
  /\ UNCHANGED <<alarm, facts, deadline, budget>>

\* The control database has the summary. The job is due again when the facts
\* will look different, or not at all.
FlushDone ==
  /\ drain.pc = "publishing"
  /\ published' = [changes |-> drain.changes, late |-> drain.late]
  /\ scheduled' = drain.next
  /\ jobs' = [jobs EXCEPT !["health_summary_flush"] = drain.next]
  /\ Back
  /\ UNCHANGED <<alarm, facts, deadline, budget>>

FlushFails ==
  /\ drain.pc = "publishing" /\ Spend("faults")
  /\ scheduled' = Never
  /\ jobs' = [jobs EXCEPT !["health_summary_flush"] = RetryDelay]
  /\ Back
  /\ UNCHANGED <<alarm, facts, published, deadline>>

NothingDue == drain.pc = "choosing" /\ \A k \in Keys : jobs[k] # 0

\* Faulty variant: the alarm is not armed for what is left.
DrainEndsUnarmed ==
  /\ NothingDue
  /\ drain' = Idle
  /\ UNCHANGED <<jobs, alarm, scheduled, facts, published, deadline, budget>>

DrainEnds ==
  /\ NothingDue
  /\ alarm' = Rearm(jobs)
  /\ drain' = Idle
  /\ UNCHANGED <<jobs, scheduled, facts, published, deadline, budget>>

\* The table or the alarm could not be used: the alarm alone is tried again.
AlarmFails ==
  /\ drain.pc = "choosing" /\ Spend("faults")
  /\ alarm' = RetryDelay
  /\ drain' = Idle
  /\ UNCHANGED <<jobs, scheduled, facts, published, deadline>>

\* Faulty variant: a process that starts arms nothing.
RestartUnarmed ==
  /\ Spend("restarts")
  /\ scheduled' = Never /\ drain' = Idle
  /\ alarm' = Never
  /\ UNCHANGED <<jobs, facts, published, deadline>>

\* The process ends and starts again, at any point. A timer of the Node runtime
\* is gone; an alarm of a Durable Object is kept, and one whose handler did not
\* return fires again.
Restart ==
  /\ Spend("restarts")
  /\ scheduled' = Never /\ drain' = Idle
  /\ alarm' = EnsureArmed(IF Serialized THEN Never ELSE alarm, jobs)
  /\ UNCHANGED <<jobs, facts, published, deadline>>

-----------------------------------------------------------------------------
Drain ==
  \/ BeginGc \/ ListCollectible \/ GcDone
  \/ BeginFlush \/ FlushDone \/ DrainEnds

Next ==
  \/ Connection \/ Commit \/ \E b \in Blobs : StageBlob(b)
  \/ Tick \/ AlarmFires \/ Drain
  \/ GcRefused \/ GcFails \/ FlushFails \/ AlarmFails \/ Restart

Spec == Init /\ [][Next]_vars

-----------------------------------------------------------------------------
(* Properties.                                                                *)

\* Between drains, whatever failed or restarted, an alarm is armed that is not
\* later than the first job.
AlarmCoversJobs ==
  drain.pc = "idle" /\ NextDueAt(jobs) # Never =>
    alarm # Never /\ alarm <= Max({NextDueAt(jobs), RetryDelay})

\* A blob that may be collected some day has a collection waiting for it, also
\* when it was staged while a collection was under way.
DeadlinesScheduled == NextGcAt(deadline) # Never => jobs["blob_gc"] # Never

\* As long as the published summary is not what a new one would say, or will
\* cease to be by time alone, a job that leads to a new one is waiting.
SummaryScheduled ==
  published # [changes |-> facts.changes, late |-> (facts.lateIn = 0)] \/ facts.lateIn > 0 =>
    \E k \in Keys : jobs[k] # Never

\* Once the vault is left alone, its summary is published and its blobs collected.
Settles ==
  <>[]( /\ published.changes = facts.changes
        /\ published.late = (facts.lateIn = 0)
        /\ \A b \in Blobs : deadline[b] = Never)
=============================================================================

-------------------------- MODULE TransferScheduler --------------------------
(***************************************************************************)
(* One lane of the transfer scheduler of the sync client and the adaptive  *)
(* policy that moves its limit.  Uploads and downloads have a lane each    *)
(* and the two share nothing but the closing of the scheduler, so one lane *)
(* is enough.                                                              *)
(*                                                                         *)
(* Rates and latencies are left out: what an observation says of them is   *)
(* chosen.  Time passes in ticks: a tick is the sampling period, and the   *)
(* three delays of the code are constants in ticks.                        *)
(***************************************************************************)
EXTENDS Integers, FiniteSets, Sequences

CONSTANTS
    Transfers,      \* the callers of run(), each with at most one call pending
    Start,          \* the limit of a new policy (8 in the code)
    Max,            \* its ceiling (12)
    Sample,         \* ticks of busy time a sample needs (2 s)
    MinCount,       \* completions a sample needs (4)
    Decrease,       \* ticks between two reductions (5 s)
    Probe,          \* ticks between a failed probe and the next (10 s)
    Expiry,         \* ticks of pause that void an observation (10 s)
    Eager,          \* does every caller ask again before anything else ends
    MaxTrouble      \* bound: failed transfers and bad observations

SchedulerAssumption ==
    /\ Start \in 1 .. Max /\ Max \in Nat
    /\ {Sample, MinCount, Decrease, Probe, Expiry} \subseteq Nat \ {0}
    /\ Eager \in BOOLEAN /\ MaxTrouble \in Nat

Unset == -1
NoWindow == [busy |-> FALSE, elapsed |-> Unset, count |-> 0]

VARIABLES
    queue,          \* calls waiting for a slot, oldest first
    running,        \* calls whose work is in flight
    releasing,      \* settled calls whose finally() has not run yet
    window,         \* the partial sample, or NoWindow
    pausedFor,      \* ticks since the lane stopped being saturated, or Unset
    policy,         \* the adaptive policy of the lane
    closed,         \* dispose() was called
    trouble,        \* failures and bad observations so far
    openedAt        \* history: the limit at which the window was opened

vars == <<queue, running, releasing, window, pausedFor, policy, closed,
          trouble, openedAt>>

\* The calls that count against the limit: those in flight and those that
\* have settled but have not given their slot back.
active == Cardinality(running) + releasing

Queued == {queue[i] : i \in 1 .. Len(queue)}

-----------------------------------------------------------------------------
(* The policy.                                                              *)

FreshPolicy == [limit |-> Start, base |-> Unset, probing |-> FALSE,
                toProbe |-> 0, toDecrease |-> 0, steady |-> FALSE, worse |-> 0]

\* Faulty variant: a limit of one is halved to none.
CutLimitNoFloor(p) == p.limit \div 2

CutLimit(p) == IF p.limit \div 2 > 1 THEN p.limit \div 2 ELSE 1

\* Faulty variant: a congested transfer keeps the probe's baseline.
congestedKeepsBase(p) ==
    IF p.toDecrease > 0
    THEN p
    ELSE [p EXCEPT !.limit = CutLimit(p), !.toProbe = Probe,
                   !.toDecrease = Decrease, !.steady = FALSE, !.worse = 0]

congested(p) ==
    IF p.toDecrease > 0
    THEN p
    ELSE [limit |-> CutLimit(p), base |-> Unset, probing |-> FALSE,
          toProbe |-> Probe, toDecrease |-> Decrease, steady |-> FALSE,
          worse |-> 0]

idle(p) ==
    [p EXCEPT !.limit = IF p.probing /\ p.base # Unset THEN p.base ELSE @,
              !.base = Unset, !.probing = FALSE, !.steady = FALSE, !.worse = 0]

Outcomes == {"better", "worse", "empty"}

\* The sample taken during a probe: the extra slot stays or goes.
judgeProbe(p, o) ==
    [p EXCEPT !.limit   = IF o = "better" THEN @ ELSE p.base,
              !.toProbe = IF o = "better" THEN 0 ELSE Probe,
              !.probing = FALSE, !.base = Unset, !.steady = FALSE]

\* Two degraded samples in a row are congestion.
degradedSample(p) ==
    LET q == [p EXCEPT !.worse = IF @ < 2 THEN @ + 1 ELSE 2] IN
    IF q.worse = 2 THEN congested(q) ELSE q

steadySample(p) ==
    LET q == [p EXCEPT !.worse = 0, !.steady = TRUE] IN
    IF p.toProbe > 0 \/ p.limit >= Max
    THEN q
    ELSE [q EXCEPT !.base = p.limit, !.limit = @ + 1, !.probing = TRUE]

\* "worse" without a steady sample to compare with is a first sample.
observe(p, o) ==
    CASE o = "empty"                 -> p
      [] o # "empty" /\ p.probing    -> judgeProbe(p, o)
      [] o = "worse" /\ ~p.probing /\ p.steady -> degradedSample(p)
      [] OTHER                       -> steadySample(p)

-----------------------------------------------------------------------------
(* The pump.  It sees the queue q, the calls in flight r, the slots not yet *)
(* given back n, the window w and the policy p left by its caller.          *)

SampleDue(w) == w # NoWindow /\ w.elapsed >= Sample /\ w.count >= MinCount

Lower(a, b) == IF a < b THEN a ELSE b

\* Faulty variant: one call is admitted however many slots are free.
FreeSlotsOne(p, q, used) ==
    IF closed \/ used >= p.limit \/ q = <<>> THEN 0 ELSE 1

FreeSlots(p, q, used) ==
    IF closed \/ used >= p.limit THEN 0 ELSE Lower(p.limit - used, Len(q))

Expired == pausedFor # Unset /\ pausedFor >= Expiry

\* Faulty variant: the probe is given up, the partial sample is kept.
AfterPauseKeepsWindow(w) == w

AfterPause(w) == IF Expired THEN NoWindow ELSE w

AfterSample(w) == IF SampleDue(w) THEN NoWindow ELSE w

\* Faulty variant: a pump that finds the lane saturated opens no window.
SaturatedWindowNone(w) == IF w = NoWindow THEN w ELSE [w EXCEPT !.busy = TRUE]

SaturatedWindow(w) ==
    IF w = NoWindow THEN [busy |-> TRUE, elapsed |-> 0, count |-> 0]
    ELSE [w EXCEPT !.busy = TRUE]

\* Faulty variant: the busy clock goes on when the lane drains.
DrainedWindowBusy(w) == w

\* The tail of a batch is not sampled; the partial sample is kept.
DrainedWindow(w) == IF w = NoWindow THEN w ELSE [w EXCEPT !.busy = FALSE]

Admit(q, r, n, w, p) ==
    LET k == FreeSlots(p, q, Cardinality(r) + n)
        rest == SubSeq(q, k + 1, Len(q))
        now == r \union {q[i] : i \in 1 .. k}
        saturated == rest # <<>> /\ Cardinality(now) + n >= p.limit
    IN /\ queue' = rest /\ running' = now /\ releasing' = n /\ policy' = p
       /\ window' = IF saturated THEN SaturatedWindow(w) ELSE DrainedWindow(w)
       /\ pausedFor' = IF saturated THEN Unset
                       ELSE IF pausedFor = Unset \/ Expired THEN 0 ELSE pausedFor
       /\ openedAt' = IF w = NoWindow /\ saturated THEN p.limit ELSE openedAt

pump(q, r, n, w, p) ==
    LET w1 == AfterPause(w)
        p1 == IF Expired THEN idle(p) ELSE p
    IN \/ /\ ~SampleDue(w1)
          /\ Admit(q, r, n, w1, p1)
          /\ trouble' = trouble
       \/ /\ SampleDue(w1)
          /\ \E o \in Outcomes :
                /\ o # "better" => trouble < MaxTrouble
                /\ trouble' = trouble + (IF o = "better" THEN 0 ELSE 1)
                /\ Admit(q, r, n, AfterSample(w1), observe(p1, o))

-----------------------------------------------------------------------------
Init ==
    /\ queue = <<>> /\ running = {} /\ releasing = 0
    /\ window = NoWindow /\ pausedFor = Unset
    /\ policy = FreshPolicy
    /\ closed = FALSE /\ trouble = 0 /\ openedAt = Start

\* A call enters the queue; a closed scheduler refuses it and nothing changes.
run(t) ==
    /\ ~closed /\ t \notin Queued \union running
    /\ pump(Append(queue, t), running, releasing, window, policy)
    /\ UNCHANGED closed

\* With eager callers, nothing ends and no time passes until the slot of the
\* last one is given back and every caller has asked again.
CallersReady ==
    Eager => \/ closed
             \/ releasing = 0 /\ Transfers = Queued \union running

\* The work of a call ends well: it is counted only on a busy clock.
succeed(t) ==
    /\ t \in running /\ CallersReady
    /\ running' = running \ {t} /\ releasing' = releasing + 1
    /\ window' = IF window.busy
                 THEN [window EXCEPT !.count = Lower(@ + 1, MinCount)]
                 ELSE window
    /\ UNCHANGED <<queue, pausedFor, policy, closed, trouble, openedAt>>

\* Faulty variant: a failure keeps the partial sample.
failKeepsWindow(t) ==
    /\ t \in running /\ CallersReady /\ trouble < MaxTrouble
    /\ running' = running \ {t} /\ releasing' = releasing + 1
    /\ policy' \in {congested(policy), idle(policy)}
    /\ trouble' = trouble + 1
    /\ UNCHANGED <<queue, window, pausedFor, closed, openedAt>>

\* The work fails, by congestion or otherwise: the sample is void.
fail(t) ==
    /\ t \in running /\ CallersReady /\ trouble < MaxTrouble
    /\ running' = running \ {t} /\ releasing' = releasing + 1
    /\ policy' \in {congested(policy), idle(policy)}
    /\ window' = NoWindow
    /\ trouble' = trouble + 1
    /\ UNCHANGED <<queue, pausedFor, closed, openedAt>>

\* Faulty variant: the slot is given back and nobody looks at the queue.
releaseNoPump ==
    /\ releasing > 0
    /\ releasing' = releasing - 1
    /\ UNCHANGED <<queue, running, window, pausedFor, policy, closed, trouble,
                   openedAt>>

\* The finally() of a settled call, a microtask after its caller was told.
release ==
    /\ releasing > 0
    /\ pump(queue, running, releasing - 1, window, policy)
    /\ UNCHANGED closed

\* The calls that wait are rejected; those in flight are awaited.
dispose ==
    /\ ~closed
    /\ closed' = TRUE /\ queue' = <<>>
    /\ UNCHANGED <<running, releasing, window, pausedFor, policy, trouble,
                   openedAt>>

Dec(n) == IF n > 0 THEN n - 1 ELSE 0

\* A tick: microtasks are over by then.
Tick ==
    /\ releasing = 0
    /\ CallersReady
    /\ window' = IF window.busy
                 THEN [window EXCEPT !.elapsed = Lower(@ + 1, Sample)]
                 ELSE window
    /\ pausedFor' = IF pausedFor = Unset THEN Unset
                    ELSE Lower(pausedFor + 1, Expiry)
    /\ policy' = [policy EXCEPT !.toProbe = Dec(@), !.toDecrease = Dec(@)]
    /\ UNCHANGED <<queue, running, releasing, closed, trouble, openedAt>>

Next ==
    \/ \E t \in Transfers : run(t) \/ succeed(t) \/ fail(t)
    \/ release \/ dispose \/ Tick

Spec == Init /\ [][Next]_vars

-----------------------------------------------------------------------------
TypeOK ==
    /\ queue \in UNION {[1 .. n -> Transfers] : n \in 0 .. Cardinality(Transfers)}
    /\ running \subseteq Transfers
    /\ releasing \in Nat
    /\ window \in [busy : BOOLEAN, elapsed : {Unset} \union (0 .. Sample),
                   count : 0 .. MinCount]
    /\ pausedFor \in {Unset} \union (0 .. Expiry)
    /\ policy \in [limit : 1 .. Max, base : {Unset} \union (1 .. Max),
                   probing : BOOLEAN, toProbe : 0 .. Probe,
                   toDecrease : 0 .. Decrease, steady : BOOLEAN, worse : 0 .. 2]
    /\ closed \in BOOLEAN /\ trouble \in 0 .. MaxTrouble
    /\ openedAt \in 1 .. Max

\* A transfer waits only while the lane is full: every slot that is given
\* back, and every slot the policy adds, is used at once (pump's loop).
WorkConserving ==
    queue # <<>> /\ releasing = 0 => active >= policy.limit

\* A probe is one slot above the baseline it will be compared with, whatever
\* congestion, failure or gap came between its two samples.
ProbeOneAbove ==
    /\ policy.probing <=> policy.base # Unset
    /\ policy.probing => policy.limit = policy.base + 1

\* A sample is taken at a single limit: whenever the limit moves, the partial
\* sample collected under the old one is dropped.
SampleAtOneLimit == window # NoWindow => openedAt = policy.limit

\* The busy clock runs exactly while the lane is saturated and the gap clock
\* exactly while it is not: no idle time counts as transfer time.
ClocksExclusive ==
    releasing = 0 =>
        /\ window.busy => queue # <<>> \/ closed
        /\ window.busy => pausedFor = Unset

\* While a probe or a sample survives, no gap of Expiry ticks lies inside it:
\* a step that admits or samples after such a gap starts afresh.
GapVoids ==
    [][Expired /\ queue' # queue /\ queue' # <<>> =>
         ~policy'.probing /\ (window' # NoWindow => window'.elapsed = 0)]_vars

\* Every call settles: it runs, or the scheduler closes and rejects it.
CallsSettle ==
    \A t \in Transfers :
        t \in Queued \union running ~> t \notin Queued \union running

\* With demand that lasts and trouble that ends, the limit climbs back to the
\* ceiling: no lost sample, cooldown or interrupted probe wedges it below.
LimitRecovers == <>[](policy.limit = Max)
=============================================================================

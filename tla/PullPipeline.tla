---------------------------- MODULE PullPipeline ----------------------------
(***************************************************************************)
(* How pulls prepare and apply the groups of their plan                     *)
(* (pull-preparation-pipeline.ts): groups are prepared in parallel, applied *)
(* in plan order, and hold their bytes until they have been applied or      *)
(* given up.  Several pulls of an engine, the auto-sync drain and a restore *)
(* of a version, share its byte budget and its keys with the recorders of   *)
(* vault events.                                                            *)
(***************************************************************************)
EXTENDS ByteBudget, Integers

CONSTANTS
  Pulls,        \* pulls that may run at the same time
  Groups,       \* the number of groups of a plan
  Estimate,     \* the bytes a group is estimated to need, per pull and group
  Growth,       \* the bytes a group may turn out to need beyond its estimate
  Keys,         \* entries and paths
  Key,          \* the key of each group, per pull and group
  FileSize,     \* the bytes of the file a recorder reads
  Concurrency,  \* groups prepared in parallel
  MaxFaults     \* failures

PullPipelineAssumption ==
  /\ Groups \in Nat \ {0} /\ Concurrency \in Nat \ {0}
  /\ Estimate \in [Pulls -> [1 .. Groups -> Nat]]
  /\ Key \in [Pulls -> [1 .. Groups -> Keys]]
  /\ FileSize \in [Keys -> Nat]
  /\ {Growth, MaxFaults} \subseteq Nat

VARIABLES
  pull,       \* the consumer of each pull and its groups
  budget,     \* the byte budget of the engine
  event,      \* files with a vault event that waits to be handled
  recorder,   \* the recorder of vault events, per key
  faults      \* failures so far

vars == <<pull, budget, event, recorder, faults>>
events == <<event, recorder>>

Plan == 1 .. Groups

\* Owners of reservations.
Group(p, g) == <<"group", p, g>>
Recorder(k) == <<"recorder", k, 0>>
Owners == {Group(p, g) : p \in Pulls, g \in Plan} \cup {Recorder(k) : k \in Keys}
LargestReservation ==
  Growth + Max({Estimate[p][g] : p \in Pulls, g \in Plan} \cup {FileSize[k] : k \in Keys})

\* A group that resolved to null, or was cleared, is gone.
TypeOK ==
  /\ pull \in [Pulls -> [at : {"idle", "waiting", "applying", "writing", "joining", "ended"},
                         group : [Plan -> {"todo", "asking", "preparing", "prepared", "gone"}],
                         next : 1 .. Groups + 1, head : 1 .. Groups + 1, stopped : BOOLEAN]]
  /\ \A p \in Pulls : pull[p].head <= pull[p].next
  /\ IsBudget(budget, Owners, LargestReservation)
  /\ Exact(budget)
  /\ event \subseteq Keys
  /\ recorder \in [Keys -> {"idle", "asking", "locked"}]
  /\ faults \in 0 .. MaxFaults

NewPull == [at |-> "idle", group |-> [g \in Plan |-> "todo"], next |-> 1, head |-> 1,
            stopped |-> FALSE]

Init ==
  /\ pull = [p \in Pulls |-> NewPull]
  /\ budget = EmptyBudget
  /\ event = {}
  /\ recorder = [k \in Keys |-> "idle"]
  /\ faults = 0

\* Faulty variant: a recorder locks its path before its bytes are admitted.
KeyHeldFirst(k) ==
  \/ recorder[k] # "idle"
  \/ \E p \in Pulls : pull[p].at = "writing" /\ Key[p][pull[p].head] = k

\* A key is held by a recorder that hashes the file, or by a pull that writes its group.
KeyHeld(k) ==
  \/ recorder[k] = "locked"
  \/ \E p \in Pulls : pull[p].at = "writing" /\ Key[p][pull[p].head] = k

Fault == faults < MaxFaults /\ faults' = faults + 1
Moves(p, at) == pull' = [pull EXCEPT ![p].at = at]
GroupMoves(p, g, place) == pull' = [pull EXCEPT ![p].group[g] = place]

\* Faulty variant: the groups that start together reserve in the order of their size,
\* largest first, not of the plan.
AdmittedLargestFirst(p, b, first, last) ==
  LET sorted == SetToSortSeq(first .. last, LAMBDA g, h : Estimate[p][g] > Estimate[p][h])
      after[n \in 0 .. Len(sorted)] ==
        IF n = 0 THEN b ELSE Acquire(after[n - 1], Group(p, sorted[n]), Estimate[p][sorted[n]])
  IN  after[Len(sorted)]

\* The groups that start together reserve in plan order.
Admitted(p, b, first, last) ==
  LET after[g \in first - 1 .. last] ==
        IF g < first THEN b ELSE Acquire(after[g - 1], Group(p, g), Estimate[p][g])
  IN  after[last]

\* The loop of the pull with its groups before head consumed: as many groups as may be
\* under way are started, and the next one in plan order is awaited.
Continue(p, b, head) ==
  LET last == IF pull[p].stopped THEN pull[p].next - 1
              ELSE Min({Groups, head + Concurrency - 1})
  IN  /\ pull' = [pull EXCEPT
           ![p].at = IF head > Groups THEN "joining" ELSE "waiting",
           ![p].head = head,
           ![p].next = last + 1,
           ![p].group = [g \in Plan |->
              CASE g < head -> "gone"
                [] g \in pull[p].next .. last -> "asking"
                [] OTHER -> @[g]]]
      /\ budget' = Admitted(p, b, pull[p].next, last)

StartPull(p) ==
  /\ pull[p].at = "idle"
  /\ Continue(p, budget, 1)
  /\ UNCHANGED <<events, faults>>

\* A group whose bytes are admitted is prepared, unless the pull has stopped.
GroupAdmitted(p, g) ==
  /\ pull[p].group[g] = "asking"
  /\ Holds(budget, Group(p, g))
  /\ IF pull[p].stopped
     THEN GroupMoves(p, g, "gone") /\ budget' = Release(budget, Group(p, g))
     ELSE GroupMoves(p, g, "preparing") /\ budget' = budget
  /\ UNCHANGED <<events, faults>>

\* What a group reads may exceed its estimate: it is charged without waiting.
GroupPrepared(p, g) ==
  /\ pull[p].group[g] = "preparing"
  /\ GroupMoves(p, g, "prepared")
  /\ \E extra \in {0, Growth} : budget' = Resize(budget, Group(p, g), Estimate[p][g] + extra)
  /\ UNCHANGED <<events, faults>>

PreparationFails(p, g) ==
  /\ pull[p].group[g] = "preparing"
  /\ Fault
  /\ pull' = [pull EXCEPT ![p].group[g] = "gone", ![p].stopped = TRUE]
  /\ budget' = Release(budget, Group(p, g))
  /\ UNCHANGED events

\* The next group in plan order is there, and is applied if nothing has failed.
NextIsPrepared(p) ==
  /\ pull[p].at = "waiting"
  /\ pull[p].group[pull[p].head] = "prepared"
  /\ ~pull[p].stopped
  /\ Moves(p, "applying")
  /\ UNCHANGED <<budget, events, faults>>

NextIsUseless(p) ==
  /\ pull[p].at = "waiting"
  /\ \/ pull[p].group[pull[p].head] = "gone"
     \/ pull[p].group[pull[p].head] = "prepared" /\ pull[p].stopped
  /\ pull' = [pull EXCEPT ![p].at = "joining", ![p].stopped = TRUE]
  /\ UNCHANGED <<budget, events, faults>>

\* The state keys of the group are granted.
ApplyLocks(p) ==
  /\ pull[p].at = "applying"
  /\ ~KeyHeld(Key[p][pull[p].head])
  /\ Moves(p, "writing")
  /\ UNCHANGED <<budget, events, faults>>

GroupApplied(p) ==
  /\ pull[p].at = "writing"
  /\ Continue(p, Release(budget, Group(p, pull[p].head)), pull[p].head + 1)
  /\ UNCHANGED <<events, faults>>

\* A local file changed since it was captured, or a write failed.
ApplyFails(p) ==
  /\ pull[p].at = "writing"
  /\ Fault
  /\ pull' = [pull EXCEPT ![p].at = "joining", ![p].stopped = TRUE]
  /\ UNCHANGED <<budget, events>>

\* Faulty variant: only the groups that are still under way are joined.
ClearsNothing(p, g) == FALSE

\* A prepared group that will not be applied any more.
Clears(p, g) == pull[p].at = "joining" /\ pull[p].group[g] = "prepared"

\* Groups release as they settle, also while others of the pull are under way.
ClearGroup(p, g) ==
  /\ Clears(p, g)
  /\ GroupMoves(p, g, "gone")
  /\ budget' = Release(budget, Group(p, g))
  /\ UNCHANGED <<events, faults>>

PullReturns(p) ==
  /\ pull[p].at = "joining"
  /\ \A g \in Plan : pull[p].group[g] \in {"todo", "prepared", "gone"} /\ ~Clears(p, g)
  /\ Moves(p, "ended")
  /\ UNCHANGED <<budget, events, faults>>

NextPull(p) ==
  /\ pull[p].at = "ended"
  /\ pull' = [pull EXCEPT ![p] = NewPull]
  /\ UNCHANGED <<budget, events, faults>>

-----------------------------------------------------------------------------
(* Vault events, of which there may be any number *)

FileTouched(k) ==
  /\ event' = event \cup {k}
  /\ UNCHANGED <<pull, budget, recorder, faults>>

\* A recorder admits the bytes of its file before it takes a key.
RecorderAsks(k) ==
  /\ k \in event /\ recorder[k] = "idle"
  /\ event' = event \ {k}
  /\ recorder' = [recorder EXCEPT ![k] = "asking"]
  /\ budget' = Acquire(budget, Recorder(k), FileSize[k])
  /\ UNCHANGED <<pull, faults>>

RecorderLocks(k) ==
  /\ recorder[k] = "asking"
  /\ Holds(budget, Recorder(k))
  /\ \A p \in Pulls : ~(pull[p].at = "writing" /\ Key[p][pull[p].head] = k)
  /\ recorder' = [recorder EXCEPT ![k] = "locked"]
  /\ UNCHANGED <<pull, budget, event, faults>>

RecorderRecords(k) ==
  /\ recorder[k] = "locked"
  /\ recorder' = [recorder EXCEPT ![k] = "idle"]
  /\ budget' = Release(budget, Recorder(k))
  /\ UNCHANGED <<pull, event, faults>>

-----------------------------------------------------------------------------
Next ==
  \/ \E p \in Pulls :
       \/ StartPull(p) \/ NextIsPrepared(p) \/ NextIsUseless(p) \/ ApplyLocks(p)
       \/ GroupApplied(p) \/ ApplyFails(p) \/ PullReturns(p) \/ NextPull(p)
       \/ \E g \in Plan :
            GroupAdmitted(p, g) \/ GroupPrepared(p, g) \/ PreparationFails(p, g) \/ ClearGroup(p, g)
  \/ \E k \in Keys : FileTouched(k) \/ RecorderAsks(k) \/ RecorderLocks(k) \/ RecorderRecords(k)

Spec == Init /\ [][Next]_vars

\* Reads, downloads and writes return.  Keys are granted in order (KeyLock); here, they
\* are free in the end, because the events of files end.
Fairness ==
  /\ \A p \in Pulls :
       /\ WF_vars(NextIsPrepared(p) \/ NextIsUseless(p) \/ ApplyLocks(p) \/ GroupApplied(p)
                   \/ PullReturns(p))
       /\ WF_vars(\E g \in Plan : GroupAdmitted(p, g) \/ GroupPrepared(p, g) \/ ClearGroup(p, g))
  /\ \A k \in Keys : WF_vars(RecorderLocks(k)) /\ WF_vars(RecorderRecords(k))

EventsEnd == <>[][event' \subseteq event]_event

FairSpec == Spec /\ Fairness /\ EventsEnd

-----------------------------------------------------------------------------
\* However a pull ends, with groups waiting for bytes, under way or prepared: once it
\* has ended none of its groups holds bytes or waits for any.
NothingHeldAfterPull ==
  \A p \in Pulls : pull[p].at = "ended" =>
    \A g \in Plan : ~Holds(budget, Group(p, g)) /\ ~Waits(budget, Group(p, g))

\* A pull ends: the consumer never waits for a group that waits for the bytes of a
\* group behind it, and no pull waits in a circle with recorders or with another pull.
PullEnds == \A p \in Pulls : pull[p].at = "waiting" ~> pull[p].at = "ended"
=============================================================================

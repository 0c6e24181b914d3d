--------------------------- MODULE StateCoordinator ---------------------------
(* The keyed lock of a client's local state and the optimistic snapshots that *)
(* let work be prepared outside it (sync-state-coordinator.ts).  Work names   *)
(* entries and paths; withSyncState first looks up who owns the paths and     *)
(* where the entries live, then queues for all of those keys at once, and     *)
(* starts over if what it looked up has changed before its turn.              *)
EXTENDS Naturals, FiniteSets

CONSTANTS
  Workers,      \* callers of withSyncState, one call at a time each
  Planners,     \* those that also prepare work outside the lock
  Entries, Paths,
  NoPath,       \* an entry that is not visible at any path
  NoWorker,
  Jobs,         \* the resources callers name: sets of entries and paths
  MaxAttempts   \* resource discoveries of one call (3 in the code)

ASSUME NamesDiffer == /\ Entries \cap Paths = {}
                      /\ NoPath \notin Entries \cup Paths
                      /\ NoWorker \notin Workers
ASSUME PlannersAreWorkers == Planners \subseteq Workers
ASSUME JobsAreResources == Jobs \subseteq (SUBSET (Entries \cup Paths)) \ {{}}
ASSUME AttemptsAssumption == MaxAttempts \in Nat \ {0}

Keys == Entries \cup Paths

VARIABLES
  pathOf,   \* the local store: the path each entry is visible at
  known,    \* entry ids that have been used
  tails,    \* tails[k]: whose promise the next request for k awaits
  active,   \* keys of the work that is running
  call,     \* what each call of withSyncState remembers
  stale,    \* history: keys of w's plan written since w read them
  before    \* history: <<u, w>> when u joined the queue before w, both in it

vars == <<pathOf, known, tails, active, call, stale, before>>

States == {"idle", "watching", "planned", "paths", "entries", "queued", "working"}

\* planned: the caller passed a snapshot of its own (`prepared`).  early and
\* found are the `changed` sets of the two snapshots.
Call == [pc : States, planned : BOOLEAN, named : SUBSET Keys, todo : SUBSET Keys,
         keys : SUBSET Keys, early : SUBSET Keys, found : SUBSET Keys,
         preds : SUBSET Workers, attempt : 0..MaxAttempts]

NoCall == [pc |-> "idle", planned |-> FALSE, named |-> {}, todo |-> {}, keys |-> {},
           early |-> {}, found |-> {}, preds |-> {}, attempt |-> 0]

InLine(w) == call[w].pc \in {"queued", "working"}
Working(w) == call[w].pc = "working"
Resolving(w) == call[w].pc \in {"paths", "entries", "queued"}

Owners(p) == {e \in Entries : pathOf[e] = p}

TypeOK ==
  /\ pathOf \in [Entries -> Paths \cup {NoPath}]
  /\ known \subseteq Entries
  /\ tails \in [Keys -> Workers \cup {NoWorker}]
  /\ active \subseteq Keys
  /\ call \in [Workers -> Call]
  /\ stale \in [Workers -> SUBSET Keys]
  /\ before \subseteq Workers \X Workers

Init ==
  /\ pathOf = [e \in Entries |-> NoPath]
  /\ known = {}
  /\ tails = [k \in Keys |-> NoWorker]
  /\ active = {}
  /\ call = [w \in Workers |-> NoCall]
  /\ stale = [w \in Workers |-> {}]
  /\ before = {}

-----------------------------------------------------------------------------
(* Preparation and resource discovery, outside the lock                       *)

\* A service that prepares outside the lock takes a snapshot first ...
Watch(w) ==
  /\ w \in Planners /\ call[w].pc = "idle"
  /\ call' = [call EXCEPT ![w] = [NoCall EXCEPT
                 !.pc = "watching", !.planned = TRUE, !.early = active]]
  /\ UNCHANGED <<pathOf, known, tails, active, stale, before>>

\* ... and then reads the state it plans with.
Plan(w) ==
  /\ call[w].pc = "watching"
  /\ call' = [call EXCEPT ![w].pc = "planned"]
  /\ stale' = [stale EXCEPT ![w] = {}]
  /\ UNCHANGED <<pathOf, known, tails, active, before>>

\* A discovery visits the paths first, then the entries named or found there.
Visit(c, todo, keys) ==
  IF todo # {} THEN [c EXCEPT !.pc = "paths", !.todo = todo, !.keys = keys]
  ELSE [c EXCEPT !.pc = "entries", !.todo = keys \cap Entries, !.keys = keys]

Discovery(w, named, attempt) ==
  Visit([call[w] EXCEPT !.named = named, !.found = active, !.attempt = attempt],
        named \cap Paths, named)

WithSyncState(w, named) ==
  /\ call[w].pc \in {"idle", "planned"}
  /\ call' = [call EXCEPT ![w] = Discovery(w, named, 1)]
  /\ known' = known \cup (named \cap Entries)
  /\ UNCHANGED <<pathOf, tails, active, stale, before>>

\* getEntryByPath for one of the named paths.
ResolvePath(w, p) ==
  /\ call[w].pc = "paths" /\ p \in call[w].todo
  /\ call' = [call EXCEPT ![w] = Visit(@, @.todo \ {p}, @.keys \cup Owners(p))]
  /\ UNCHANGED <<pathOf, known, tails, active, stale, before>>

\* Faulty variant: the path found for an entry is not added to the keys.
ResolveEntryOnly(w, e) ==
  /\ call[w].pc = "entries" /\ e \in call[w].todo
  /\ call' = [call EXCEPT ![w].todo = @ \ {e}]
  /\ UNCHANGED <<pathOf, known, tails, active, stale, before>>

\* Faulty variant: an entry that is visible nowhere adds a key for no path.
ResolveEntryNull(w, e) ==
  /\ call[w].pc = "entries" /\ e \in call[w].todo
  /\ call' = [call EXCEPT ![w].todo = @ \ {e}, ![w].keys = @ \cup {pathOf[e]}]
  /\ UNCHANGED <<pathOf, known, tails, active, stale, before>>

\* getEntryById for each entry named or found.
ResolveEntry(w, e) ==
  /\ call[w].pc = "entries" /\ e \in call[w].todo
  /\ call' = [call EXCEPT ![w].todo = @ \ {e},
                          ![w].keys = @ \cup ({pathOf[e]} \ {NoPath})]
  /\ UNCHANGED <<pathOf, known, tails, active, stale, before>>

-----------------------------------------------------------------------------
(* SyncStateCoordinator.run                                                   *)

\* Faulty variant: only one of the tails is awaited.
OnePredecessor(w) ==
  LET busy == {tails[k] : k \in call[w].keys} \ {NoWorker}
  IN  {u \in busy : u = CHOOSE x \in busy : TRUE}

\* The request takes the tail of every key as predecessor and becomes the tail.
Predecessors(w) == {tails[k] : k \in call[w].keys} \ {NoWorker}

Enqueue(w) ==
  /\ call[w].pc = "entries" /\ call[w].todo = {}
  /\ tails' = [k \in Keys |-> IF k \in call[w].keys THEN w ELSE tails[k]]
  /\ call' = [call EXCEPT ![w].pc = "queued", ![w].preds = Predecessors(w)]
  /\ before' = before \cup {<<u, w>> : u \in {x \in Workers : InLine(x)}}
  /\ UNCHANGED <<pathOf, known, active, stale>>

\* Faulty variant: only discoveries learn of it, not the snapshots of callers.
InvalidatedDiscoveries(c, keys) ==
  [u \in Workers |-> [c[u] EXCEPT !.found = IF Resolving(u) THEN @ \cup keys ELSE @]]

\* invalidate(keys): every registered snapshot learns that the keys changed.
Invalidated(c, keys) ==
  [u \in Workers |-> [c[u] EXCEPT
     !.early = IF c[u].planned THEN @ \cup keys ELSE @,
     !.found = IF Resolving(u) THEN @ \cup keys ELSE @]]

\* run() gives its place back: the tails that are still its own, and its promise.
LeaveLine(w) ==
  /\ tails' = [k \in Keys |-> IF tails[k] = w THEN NoWorker ELSE tails[k]]
  /\ before' = {r \in before : w \notin {r[1], r[2]}}

Released(c, w) == [u \in Workers |-> [c[u] EXCEPT !.preds = @ \ {w}]]

TurnCame(w) == call[w].pc = "queued" /\ call[w].preds = {}

\* assertCurrent of the resolution and, if there is one, of the caller's snapshot.
Current(w) == /\ call[w].keys \cap call[w].found = {}
              /\ call[w].planned => call[w].keys \cap call[w].early = {}

StartWork(w) ==
  /\ TurnCame(w) /\ Current(w)
  /\ active' = active \cup call[w].keys
  /\ call' = [Invalidated(call, call[w].keys) EXCEPT
                 ![w] = [NoCall EXCEPT !.pc = "working", !.keys = call[w].keys]]
  /\ stale' = [stale EXCEPT ![w] = {}]
  /\ UNCHANGED <<pathOf, known, tails, before>>

\* Faulty variant: the attempts are not counted.
RetryForEver(w) ==
  /\ TurnCame(w) /\ ~Current(w)
  /\ call[w].planned => call[w].keys \cap call[w].early = {}
  /\ LeaveLine(w)
  /\ call' = [Released(call, w) EXCEPT ![w] = Discovery(w, call[w].named, 1)]
  /\ UNCHANGED <<pathOf, known, active, stale>>

\* A stale discovery is repeated while attempts remain and the plan still holds.
RetryDiscovery(w) ==
  /\ TurnCame(w) /\ ~Current(w)
  /\ call[w].attempt < MaxAttempts
  /\ call[w].planned => call[w].keys \cap call[w].early = {}
  /\ LeaveLine(w)
  /\ call' = [Released(call, w) EXCEPT ![w] = Discovery(w, call[w].named, call[w].attempt + 1)]
  /\ UNCHANGED <<pathOf, known, active, stale>>

\* SyncStateChangedError reaches the caller, who plans again or gives up.
GiveUp(w) ==
  /\ TurnCame(w) /\ ~Current(w)
  /\ \/ call[w].attempt = MaxAttempts
     \/ call[w].planned /\ call[w].keys \cap call[w].early # {}
  /\ LeaveLine(w)
  /\ call' = [Released(call, w) EXCEPT ![w] = NoCall]
  /\ stale' = [stale EXCEPT ![w] = {}]
  /\ UNCHANGED <<pathOf, known, active>>

\* One write of the work: an entry it holds moves to a path it holds, or
\* disappears.  Local paths are unique in the store.
Written(keys) == [u \in Workers |-> IF call[u].planned /\ call[u].pc # "watching"
                                THEN stale[u] \cup keys ELSE stale[u]]

Move(w, e, p) ==
  /\ Working(w) /\ e \in call[w].keys
  /\ p \in (call[w].keys \cap Paths) \cup {NoPath}
  /\ p # pathOf[e] /\ (p # NoPath => Owners(p) = {})
  /\ pathOf' = [pathOf EXCEPT ![e] = p]
  /\ stale' = Written({e, p, pathOf[e]} \cap Keys)
  /\ UNCHANGED <<known, tails, active, call, before>>

\* A local file that no entry owns gets a fresh entry id, whose key is not held.
CreateEntry(w, e, p) ==
  /\ Working(w) /\ e \notin known
  /\ p \in call[w].keys \cap Paths /\ Owners(p) = {}
  /\ pathOf' = [pathOf EXCEPT ![e] = p]
  /\ known' = known \cup {e}
  /\ stale' = Written({e, p})
  /\ UNCHANGED <<tails, active, call, before>>

FinishWork(w) ==
  /\ Working(w)
  /\ LeaveLine(w)
  /\ active' = active \ call[w].keys
  /\ call' = [Released(Invalidated(call, call[w].keys), w) EXCEPT ![w] = NoCall]
  /\ UNCHANGED <<pathOf, known, stale>>

-----------------------------------------------------------------------------
Step(w) ==
  \/ Plan(w)
  \/ \E p \in Paths : ResolvePath(w, p)
  \/ \E e \in Entries : ResolveEntry(w, e)
  \/ Enqueue(w)
  \/ StartWork(w)
  \/ RetryDiscovery(w)
  \/ GiveUp(w)
  \/ FinishWork(w)

Next == \E w \in Workers :
  \/ Step(w)
  \/ Watch(w)
  \/ \E named \in Jobs : WithSyncState(w, named)
  \/ \E e \in Entries :
       \/ \E p \in Paths \cup {NoPath} : Move(w, e, p)
       \/ \E p \in Paths : CreateEntry(w, e, p)

\* JavaScript goes on with whatever is ready: promises that resolve, reads of the
\* store that return, work that ends.  Callers may stop planning at any time.
Spec == Init /\ [][Next]_vars
Fairness == \A w \in Workers : WF_vars(Step(w))
FairSpec == Spec /\ Fairness

-----------------------------------------------------------------------------
(* Properties                                                                 *)

\* run() is a lock over sets of keys that serves conflicting requests in the
\* order in which they queued, including those that leave without working.
Lock == INSTANCE KeyLock WITH
  wanted <- [w \in Workers |-> IF InLine(w) THEN call[w].keys ELSE {}],
  granted <- {w \in Workers : Working(w)}

ImplementsKeyLock == Lock!Spec

\* Everything a running call may touch: its keys, the entries visible at its
\* paths and the paths of its entries.
Footprint(w) ==
  call[w].keys \cup (UNION {Owners(p) : p \in call[w].keys \cap Paths})
               \cup ({pathOf[e] : e \in call[w].keys \cap Entries} \ {NoPath})

\* Two calls that work at the same time share no entry and no path, although
\* each looked up its entries and paths before it queued.
FootprintsDisjoint ==
  \A u, w \in Workers :
    u # w /\ Working(u) /\ Working(w) => Footprint(u) \cap Footprint(w) = {}

\* Work prepared outside the lock starts only if none of its keys has been
\* written since it was planned.
PlansAreFresh ==
  [][\A w \in Workers :
       ~Working(w) /\ Working(w)' /\ call[w].planned
         => call[w].keys \cap stale[w] = {}]_vars

\* Every call ends: multi-key requests cannot wait for each other for ever, and
\* one that finds its plan stale lets the next one in.
CallsEnd ==
  \A w \in Workers : Resolving(w) \/ Working(w) ~> call[w].pc = "idle"

=============================================================================

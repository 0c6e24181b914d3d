------------------------ MODULE StateCoordinatorProofs ------------------------
(* What holds of the keyed lock for any number of callers, entries and paths: *)
(* calls that work at the same time share no entry and no path, plans are     *)
(* fresh when work starts on them, and run() implements KeyLock.              *)
EXTENDS StateCoordinator, TLAPS

(* The line: a key's tail is the last request for it, requests in line have   *)
(* queued one after the other, and a request that still has an earlier one    *)
(* before it at some key awaits the next request for that key after it.       *)
TailsInLine ==
  \A k \in Keys : tails[k] # NoWorker => InLine(tails[k]) /\ k \in call[tails[k]].keys

TailsAreLast ==
  \A u \in Workers : InLine(u) => \A k \in call[u].keys :
    tails[k] # NoWorker /\ (tails[k] = u \/ <<u, tails[k]>> \in before)

LineOrdered ==
  /\ \A u, w \in Workers : <<u, w>> \in before => u # w /\ InLine(u) /\ InLine(w)
  /\ \A u, w \in Workers : u # w /\ InLine(u) /\ InLine(w) =>
       <<u, w>> \in before \/ <<w, u>> \in before

EarlierAwaited ==
  \A u, w \in Workers : <<u, w>> \in before =>
    \A k \in call[u].keys \cap call[w].keys :
      \E p \in call[w].preds : k \in call[p].keys /\ (p = u \/ <<u, p>> \in before)

CallShape(w) ==
  /\ Working(w) => call[w].preds = {} /\ ~call[w].planned
  /\ call[w].pc = "queued" => call[w].todo = {}
  /\ Resolving(w) => call[w].named # {}
  /\ Resolving(w) \/ Working(w) => call[w].keys # {}
  /\ call[w].named \cup call[w].keys \subseteq Paths \cup known

CallShapes == \A w \in Workers : CallShape(w)

ActiveAreWorking ==
  \A k \in Keys : k \in active <=> \E w \in Workers : Working(w) /\ k \in call[w].keys

Queue == TailsInLine /\ TailsAreLast /\ LineOrdered /\ EarlierAwaited

Line == Queue /\ CallShapes /\ ActiveAreWorking

(* The snapshots: work that runs beside a discovery, or beside a plan, has    *)
(* told it of its keys; where nothing was told, what was looked up is true.   *)
VisibleAreKnown == \A e \in Entries : pathOf[e] # NoPath => e \in known

WorkIsTold ==
  \A u, w \in Workers : Working(w) =>
    /\ Resolving(u) => call[w].keys \subseteq call[u].found
    /\ call[u].planned => call[w].keys \subseteq call[u].early

Located(w, E) == \A e \in E : pathOf[e] \in call[w].keys \cup {NoPath}

LookedUpIsTrue ==
  \A w \in Workers :
    /\ Working(w) => Located(w, call[w].keys \cap Entries)
    /\ call[w].pc \in {"entries", "queued"} /\ call[w].keys \cap call[w].found = {} =>
         Located(w, (call[w].keys \cap Entries) \ call[w].todo)

WrittenIsTold ==
  \A w \in Workers : call[w].planned /\ call[w].pc # "watching" =>
    \A k \in stale[w] : \/ k \in call[w].early
                        \/ k \in Entries /\ pathOf[k] \in call[w].early

Snapshots == VisibleAreKnown /\ WorkIsTold /\ LookedUpIsTrue /\ WrittenIsTold

IInv == TypeOK /\ Line /\ Snapshots

-----------------------------------------------------------------------------
(* Shapes.                                                                    *)

(* A call that does nothing is one.                                           *)
LEMMA NoCallTyped == NoCall \in Call
BY AttemptsAssumption DEF NoCall, Call, States

(* A caller names at least one entry or path.                                 *)
LEMMA JobTyped ==
  ASSUME NEW named \in Jobs
  PROVE  named \subseteq Keys /\ named # {}
BY JobsAreResources DEF Keys

(* A discovery leaves a call, wherever it goes on.                            *)
LEMMA VisitTyped ==
  ASSUME NEW c \in Call, NEW todo \in SUBSET Keys, NEW keys \in SUBSET Keys
  PROVE  Visit(c, todo, keys) \in Call
BY DEF Visit, Call, States

(* So does one that begins.                                                   *)
LEMMA DiscoveryTyped ==
  ASSUME TypeOK, NEW w \in Workers, NEW named \in SUBSET Keys, NEW n \in 0 .. MaxAttempts
  PROVE  Discovery(w, named, n) \in Call
<1>1. call[w] \in Call /\ active \in SUBSET Keys
  BY DEF TypeOK
<1>2. [call[w] EXCEPT !.named = named, !.found = active, !.attempt = n] \in Call
  BY <1>1 DEF Call
<1>3. QED
  BY <1>2, VisitTyped DEF Discovery, Keys

(* Every step keeps to the types.                                             *)
LEMMA TypeStep == TypeOK /\ [Next]_vars => TypeOK'
<1> SUFFICES ASSUME TypeOK, [Next]_vars PROVE TypeOK'
  OBVIOUS
<1> USE NoCallTyped
<1>1. ASSUME NEW w \in Workers, Watch(w) PROVE TypeOK'
  BY <1>1 DEF TypeOK, Watch, NoCall, Call, States
<1>2. ASSUME NEW w \in Workers, Plan(w) PROVE TypeOK'
  BY <1>2 DEF TypeOK, Plan, Call, States
<1>3. ASSUME NEW w \in Workers, NEW named \in Jobs, WithSyncState(w, named) PROVE TypeOK'
  <2>1. Discovery(w, named, 1) \in Call
    BY DiscoveryTyped, JobTyped, AttemptsAssumption
  <2>2. QED
    BY <1>3, <2>1 DEF TypeOK, WithSyncState
<1>4. ASSUME NEW w \in Workers, NEW p \in Paths, ResolvePath(w, p) PROVE TypeOK'
  <2>1. Owners(p) \subseteq Keys
    BY DEF Owners, Keys
  <2>2. Visit(call[w], call[w].todo \ {p}, call[w].keys \cup Owners(p)) \in Call
    BY <2>1, VisitTyped DEF TypeOK, Call
  <2>3. QED
    BY <1>4, <2>2 DEF TypeOK, ResolvePath
<1>5. ASSUME NEW w \in Workers, NEW e \in Entries, ResolveEntry(w, e) PROVE TypeOK'
  <2>1. call[w] \in Call /\ {pathOf[e]} \ {NoPath} \subseteq Keys
    BY DEF TypeOK, Keys
  <2>2. [call[w] EXCEPT !.todo = @ \ {e}, !.keys = @ \cup ({pathOf[e]} \ {NoPath})] \in Call
    BY <2>1 DEF Call
  <2>3. call' = [call EXCEPT ![w] = [call[w] EXCEPT !.todo = @ \ {e},
                                                   !.keys = @ \cup ({pathOf[e]} \ {NoPath})]]
    BY <1>5, <2>1 DEF TypeOK, ResolveEntry, Call
  <2>4. QED
    BY <1>5, <2>2, <2>3 DEF TypeOK, ResolveEntry
<1>6. ASSUME NEW w \in Workers, Enqueue(w) PROVE TypeOK'
  <2>1. Predecessors(w) \subseteq Workers
    BY DEF TypeOK, Predecessors, Call
  <2>2. call' \in [Workers -> Call]
    <3>1. call[w] \in Call /\ call \in [Workers -> Call]
      BY DEF TypeOK
    <3>2. [call[w] EXCEPT !.pc = "queued", !.preds = Predecessors(w)] \in Call
      BY <2>1, <3>1 DEF Call, States
    <3>3. call' = [call EXCEPT ![w] = [call[w] EXCEPT !.pc = "queued", !.preds = Predecessors(w)]]
      BY <1>6, <3>1 DEF Enqueue
    <3>4. QED
      BY <3>1, <3>2, <3>3
  <2>3. QED
    BY <1>6, <2>2 DEF TypeOK, Enqueue
<1>7. ASSUME NEW w \in Workers, StartWork(w) PROVE TypeOK'
  <2>1. Invalidated(call, call[w].keys) \in [Workers -> Call]
    BY DEF TypeOK, Invalidated, Call
  <2>2. [NoCall EXCEPT !.pc = "working", !.keys = call[w].keys] \in Call
    BY DEF TypeOK, NoCall, Call, States
  <2>3. QED
    BY <1>7, <2>1, <2>2 DEF TypeOK, StartWork, Call
<1>8. ASSUME NEW w \in Workers PROVE Released(call, w) \in [Workers -> Call]
  BY DEF TypeOK, Released, Call
<1>9. ASSUME NEW w \in Workers, RetryDiscovery(w) PROVE TypeOK'
  <2>1. Discovery(w, call[w].named, call[w].attempt + 1) \in Call
    <3>1. call[w].named \in SUBSET Keys /\ call[w].attempt \in 0 .. MaxAttempts
      BY DEF TypeOK, Call
    <3>2. call[w].attempt + 1 \in 0 .. MaxAttempts
      BY <1>9, <3>1, AttemptsAssumption DEF RetryDiscovery
    <3>3. QED
      BY <3>1, <3>2, DiscoveryTyped
  <2>2. QED
    BY <1>8, <1>9, <2>1 DEF TypeOK, RetryDiscovery, LeaveLine
<1>10. ASSUME NEW w \in Workers, GiveUp(w) PROVE TypeOK'
  BY <1>8, <1>10 DEF TypeOK, GiveUp, LeaveLine
<1>11. ASSUME NEW w \in Workers, NEW e \in Entries, NEW p \in Paths \cup {NoPath}, Move(w, e, p)
       PROVE TypeOK'
  BY <1>11 DEF TypeOK, Move, Written, Keys
<1>12. ASSUME NEW w \in Workers, NEW e \in Entries, NEW p \in Paths, CreateEntry(w, e, p)
       PROVE TypeOK'
  BY <1>12 DEF TypeOK, CreateEntry, Written, Keys
<1>13. ASSUME NEW w \in Workers, FinishWork(w) PROVE TypeOK'
  <2>1. Released(Invalidated(call, call[w].keys), w) \in [Workers -> Call]
    <3>1. Invalidated(call, call[w].keys) \in [Workers -> Call]
      BY DEF TypeOK, Invalidated, Call
    <3>2. ASSUME NEW c \in Call
          PROVE  [c EXCEPT !.preds = @ \ {w}] \in Call
      BY DEF Call
    <3>3. QED
      BY <3>1, <3>2 DEF Released
  <2>2. QED
    BY <1>13, <2>1 DEF TypeOK, FinishWork, LeaveLine
<1>14. CASE UNCHANGED vars
  BY <1>14 DEF TypeOK, vars
<1>15. QED
  BY <1>1, <1>2, <1>3, <1>4, <1>5, <1>6, <1>7, <1>9, <1>10, <1>11, <1>12, <1>13, <1>14 DEF Next, Step

-----------------------------------------------------------------------------
(* The line.                                                                  *)

(* What a step of Discovery leaves: a call that resolves, with what it named.  *)
LEMMA DiscoveryShape ==
  ASSUME TypeOK, NEW w \in Workers, NEW named, NEW n
  PROVE  LET c == Discovery(w, named, n) IN
         /\ c.pc \in {"paths", "entries"} /\ c.named = named /\ c.keys = named
         /\ c.found = active /\ c.early = call[w].early /\ c.planned = call[w].planned
         /\ c.pc = "entries" => c.todo = named \cap Entries
<1>1. call[w] \in Call
  BY DEF TypeOK
<1>2. QED
  BY <1>1 DEF Discovery, Visit, Call

(* What a step of w leaves of the call of another, and what it tells it.       *)
Kept(u) ==
  /\ call'[u].pc = call[u].pc /\ call'[u].planned = call[u].planned
  /\ call'[u].named = call[u].named /\ call'[u].todo = call[u].todo
  /\ call'[u].keys = call[u].keys

Told(u, keys) ==
  /\ call'[u].early = IF call[u].planned THEN call[u].early \cup keys ELSE call[u].early
  /\ call'[u].found = IF Resolving(u) THEN call[u].found \cup keys ELSE call[u].found

(* Work that starts tells every snapshot of its keys, and keeps them.         *)
LEMMA StartWorkEffect ==
  ASSUME TypeOK, NEW w \in Workers, StartWork(w)
  PROVE  /\ \A u \in Workers \ {w} :
              Kept(u) /\ Told(u, call[w].keys) /\ call'[u].preds = call[u].preds
         /\ call'[w] = [NoCall EXCEPT !.pc = "working", !.keys = call[w].keys]
<1>1. call \in [Workers -> Call]
  BY DEF TypeOK
<1>2. \A u \in Workers \ {w} : call'[u] = Invalidated(call, call[w].keys)[u]
  BY DEF StartWork, Invalidated
<1>3. call'[w] = [NoCall EXCEPT !.pc = "working", !.keys = call[w].keys]
  BY DEF StartWork, Invalidated
<1>4. ASSUME NEW u \in Workers \ {w}
      PROVE  Kept(u) /\ Told(u, call[w].keys) /\ call'[u].preds = call[u].preds
  <2>1. call[u] \in Call
    BY <1>1
  <2>2. call'[u] = [call[u] EXCEPT
          !.early = IF call[u].planned THEN @ \cup call[w].keys ELSE @,
          !.found = IF Resolving(u) THEN @ \cup call[w].keys ELSE @]
    BY <1>2 DEF Invalidated
  <2>3. QED
    BY <2>1, <2>2 DEF Kept, Told, Call
<1>5. QED
  BY <1>3, <1>4

(* Work that ends tells every snapshot, and leaves the promises others await. *)
LEMMA FinishWorkEffect ==
  ASSUME TypeOK, NEW w \in Workers, FinishWork(w)
  PROVE  /\ \A u \in Workers \ {w} :
              Kept(u) /\ Told(u, call[w].keys) /\ call'[u].preds = call[u].preds \ {w}
         /\ call'[w] = NoCall
<1>1. call \in [Workers -> Call]
  BY DEF TypeOK
<1>2. call' = [Released(Invalidated(call, call[w].keys), w) EXCEPT ![w] = NoCall]
  BY DEF FinishWork
<1>3. \A u \in Workers \ {w} :
        call'[u] = [Invalidated(call, call[w].keys)[u] EXCEPT !.preds = @ \ {w}]
  BY <1>2 DEF Released
<1>4. call'[w] = NoCall
  BY <1>2 DEF Released
<1>5. ASSUME NEW u \in Workers \ {w}
      PROVE  Kept(u) /\ Told(u, call[w].keys) /\ call'[u].preds = call[u].preds \ {w}
  <2> DEFINE c == [call[u] EXCEPT
          !.early = IF call[u].planned THEN @ \cup call[w].keys ELSE @,
          !.found = IF Resolving(u) THEN @ \cup call[w].keys ELSE @]
  <2>1. call[u] \in Call
    BY <1>1
  <2>2. call'[u] = [c EXCEPT !.preds = @ \ {w}]
    BY <1>3 DEF Invalidated
  <2>3. /\ c \in [{"pc", "planned", "named", "todo", "keys", "early", "found", "preds", "attempt"} ->
                  UNION {{c[f]} : f \in DOMAIN c}]
        /\ c.pc = call[u].pc /\ c.planned = call[u].planned /\ c.named = call[u].named
        /\ c.todo = call[u].todo /\ c.keys = call[u].keys /\ c.preds = call[u].preds
        /\ c.early = IF call[u].planned THEN call[u].early \cup call[w].keys ELSE call[u].early
        /\ c.found = IF Resolving(u) THEN call[u].found \cup call[w].keys ELSE call[u].found
    BY <2>1 DEF Call
  <2> HIDE DEF c
  <2>4. QED
    BY <2>2, <2>3 DEF Kept, Told
<1>6. QED
  BY <1>4, <1>5

(* A call whose turn came too late leaves the line; nobody is told.            *)
LEMMA LateEffect ==
  ASSUME TypeOK, NEW w \in Workers, NEW c, call' = [Released(call, w) EXCEPT ![w] = c]
  PROVE  /\ \A u \in Workers \ {w} :
              Kept(u) /\ Told(u, {}) /\ call'[u].preds = call[u].preds \ {w}
         /\ call'[w] = c
<1>1. call \in [Workers -> Call]
  BY DEF TypeOK
<1>2. \A u \in Workers \ {w} : call'[u] = [call[u] EXCEPT !.preds = @ \ {w}]
  BY DEF Released
<1>3. call'[w] = c
  BY DEF Released
<1>4. ASSUME NEW u \in Workers \ {w}
      PROVE  Kept(u) /\ Told(u, {}) /\ call'[u].preds = call[u].preds \ {w}
  <2>1. call[u] \in Call
    BY <1>1
  <2>2. call'[u] = [call[u] EXCEPT !.preds = @ \ {w}]
    BY <1>2
  <2>3. QED
    BY <2>1, <2>2 DEF Kept, Told, Call
<1>5. QED
  BY <1>3, <1>4

(* What a call remembers fits where it stands, after every step.              *)
LEMMA CallShapesStep == TypeOK /\ CallShapes /\ VisibleAreKnown /\ Next => CallShapes'
<1> SUFFICES ASSUME TypeOK, CallShapes, VisibleAreKnown, Next, NEW u \in Workers
             PROVE  CallShape(u)'
  BY DEF CallShapes
<1> USE DEF CallShape, InLine, Working, Resolving
<1>0. call \in [Workers -> Call] /\ call[u] \in Call /\ CallShape(u)
  BY DEF TypeOK, CallShapes
<1>1. ASSUME NEW w \in Workers, Watch(w) PROVE CallShape(u)'
  BY <1>0, <1>1 DEF Watch, NoCall
<1>2. ASSUME NEW w \in Workers, Plan(w) PROVE CallShape(u)'
  BY <1>0, <1>2 DEF Plan, Call
<1>3. ASSUME NEW w \in Workers, NEW named \in Jobs, WithSyncState(w, named) PROVE CallShape(u)'
  <2>1. named \subseteq Paths \cup known' /\ named # {} /\ known \subseteq known'
    BY <1>3, JobTyped DEF WithSyncState, Keys
  <2>2. /\ Discovery(w, named, 1).pc \in {"paths", "entries"}
        /\ Discovery(w, named, 1).named = named /\ Discovery(w, named, 1).keys = named
    BY DiscoveryShape
  <2>3. call' = [call EXCEPT ![w] = Discovery(w, named, 1)]
    BY <1>3 DEF WithSyncState
  <2>4. call'[u] = IF u = w THEN Discovery(w, named, 1) ELSE call[u]
    BY <1>0, <2>3
  <2>5. QED
    BY <1>0, <2>1, <2>2, <2>4
<1>4. ASSUME NEW w \in Workers, NEW p \in Paths, ResolvePath(w, p) PROVE CallShape(u)'
  <2>1. call[w] \in Call /\ CallShape(w)
    BY <1>0 DEF CallShapes
  <2>2. Owners(p) \subseteq known
    BY NamesDiffer DEF Owners, VisibleAreKnown
  <2> DEFINE c == Visit(call[w], call[w].todo \ {p}, call[w].keys \cup Owners(p))
  <2>3. /\ c.pc \in {"paths", "entries"} /\ c.named = call[w].named
        /\ c.keys = call[w].keys \cup Owners(p)
    BY <2>1 DEF Visit, Call
  <2>4. call' = [call EXCEPT ![w] = c] /\ known' = known /\ call[w].pc = "paths"
    BY <1>4 DEF ResolvePath
  <2> HIDE DEF c
  <2>5. call'[u] = IF u = w THEN c ELSE call[u]
    BY <1>0, <2>4
  <2>6. QED
    BY <1>0, <2>1, <2>2, <2>3, <2>4, <2>5
<1>5. ASSUME NEW w \in Workers, NEW e \in Entries, ResolveEntry(w, e) PROVE CallShape(u)'
  <2>1. call[w] \in Call /\ CallShape(w) /\ {pathOf[e]} \ {NoPath} \subseteq Paths
    BY <1>0 DEF TypeOK, CallShapes
  <2> DEFINE c == [call[w] EXCEPT !.todo = @ \ {e}, !.keys = @ \cup ({pathOf[e]} \ {NoPath})]
  <2>2. /\ c.pc = call[w].pc /\ c.named = call[w].named
        /\ c.keys = call[w].keys \cup ({pathOf[e]} \ {NoPath})
    BY <2>1 DEF Call
  <2>3. call' = [call EXCEPT ![w] = c] /\ known' = known /\ call[w].pc = "entries"
    BY <1>0, <1>5, <2>1 DEF ResolveEntry, Call
  <2> HIDE DEF c
  <2>4. call'[u] = IF u = w THEN c ELSE call[u]
    BY <1>0, <2>3
  <2>5. QED
    BY <1>0, <2>1, <2>2, <2>3, <2>4
<1>6. ASSUME NEW w \in Workers, Enqueue(w) PROVE CallShape(u)'
  BY <1>0, <1>6 DEF Enqueue, Call
<1>7. ASSUME NEW w \in Workers, StartWork(w) PROVE CallShape(u)'
  <2>1. known' = known /\ call[w].pc = "queued" /\ CallShape(w)
    BY <1>7 DEF StartWork, TurnCame, CallShapes
  <2>2. CASE u = w
    <3>1. call'[u] = [NoCall EXCEPT !.pc = "working", !.keys = call[w].keys]
      BY <1>7, <2>2, StartWorkEffect
    <3>2. QED
      BY <2>1, <3>1 DEF NoCall
  <2>3. CASE u # w
    <3>1. Kept(u) /\ call'[u].preds = call[u].preds
      BY <1>7, <2>3, StartWorkEffect
    <3>2. QED
      BY <1>0, <2>1, <3>1 DEF Kept
  <2>4. QED
    BY <2>2, <2>3
<1>8. ASSUME NEW w \in Workers, NEW c, call' = [Released(call, w) EXCEPT ![w] = c], known' = known,
             /\ c.pc \in {"paths", "entries", "idle"}
             /\ c.named \cup c.keys \subseteq Paths \cup known
             /\ c.pc # "idle" => c.named # {} /\ c.keys # {}
      PROVE  CallShape(u)'
  <2>1. CASE u = w
    <3>1. call'[u] = c
      BY <1>8, <2>1, LateEffect
    <3>2. QED
      BY <1>8, <3>1
  <2>2. CASE u # w
    <3>1. Kept(u) /\ call'[u].preds = call[u].preds \ {w}
      BY <1>8, <2>2, LateEffect
    <3>2. QED
      BY <1>0, <1>8, <3>1 DEF Kept
  <2>3. QED
    BY <2>1, <2>2
<1>9. ASSUME NEW w \in Workers, RetryDiscovery(w) PROVE CallShape(u)'
  <2> DEFINE d == Discovery(w, call[w].named, call[w].attempt + 1)
  <2>1. d.pc \in {"paths", "entries"} /\ d.named = call[w].named /\ d.keys = call[w].named
    BY DiscoveryShape
  <2>2. call' = [Released(call, w) EXCEPT ![w] = d] /\ known' = known /\ call[w].pc = "queued"
    BY <1>9 DEF RetryDiscovery, TurnCame
  <2>3. CallShape(w)
    BY DEF CallShapes
  <2> HIDE DEF d
  <2>4. QED
    BY <1>8, <2>1, <2>2, <2>3
<1>10. ASSUME NEW w \in Workers, GiveUp(w) PROVE CallShape(u)'
  BY <1>8, <1>10 DEF GiveUp, NoCall
<1>11. ASSUME NEW w \in Workers, NEW e \in Entries, NEW p \in Paths \cup {NoPath}, Move(w, e, p)
       PROVE CallShape(u)'
  BY <1>0, <1>11 DEF Move
<1>12. ASSUME NEW w \in Workers, NEW e \in Entries, NEW p \in Paths, CreateEntry(w, e, p)
       PROVE CallShape(u)'
  BY <1>0, <1>12 DEF CreateEntry
<1>13. ASSUME NEW w \in Workers, FinishWork(w) PROVE CallShape(u)'
  <2>1. known' = known
    BY <1>13 DEF FinishWork
  <2>2. CASE u = w
    BY <1>13, <2>2, FinishWorkEffect DEF NoCall
  <2>3. CASE u # w
    <3>1. Kept(u) /\ call'[u].preds = call[u].preds \ {w}
      BY <1>13, <2>3, FinishWorkEffect
    <3>2. QED
      BY <1>0, <2>1, <3>1 DEF Kept
  <2>4. QED
    BY <2>2, <2>3
<1>14. QED
  BY <1>1, <1>2, <1>3, <1>4, <1>5, <1>6, <1>7, <1>9, <1>10, <1>11, <1>12, <1>13 DEF Next, Step

(* Two that work at the same time share no key.                               *)
LEMMA Exclusion ==
  ASSUME TypeOK, Line, NEW u \in Workers, NEW w \in Workers, u # w, Working(u), Working(w)
  PROVE  call[u].keys \cap call[w].keys = {}
<1>1. <<u, w>> \in before \/ <<w, u>> \in before
  BY DEF Line, Queue, LineOrdered, Working, InLine
<1>2. call[u].preds = {} /\ call[w].preds = {}
  BY DEF Line, Queue, CallShapes, CallShape
<1>3. QED
  BY <1>1, <1>2 DEF Line, Queue, EarlierAwaited

(* Whoever is first at all its keys is before all that hold one of them.      *)
LEMMA FirstLeaves ==
  ASSUME TypeOK, TypeOK', Line, NEW w \in Workers, InLine(w), call[w].preds = {},
         LeaveLine(w), ~InLine(w)',
         \A u \in Workers \ {w} : /\ call'[u].pc = call[u].pc /\ call'[u].keys = call[u].keys
                                  /\ call'[u].preds = call[u].preds \ {w}
  PROVE  Queue'
<1> USE DEF InLine
<1>1. tails \in [Keys -> Workers \cup {NoWorker}] /\ before \subseteq Workers \X Workers
  BY DEF TypeOK
<1>2. \A u, x \in Workers : <<u, x>> \in before' <=> <<u, x>> \in before /\ u # w /\ x # w
  BY DEF LeaveLine
<1>3. TailsInLine'
  BY <1>1, NamesDiffer DEF Line, Queue, TailsInLine, LeaveLine
<1>4. ASSUME NEW u \in Workers \ {w}, InLine(u), NEW k \in call[u].keys, tails[k] = w PROVE FALSE
  <2>1. <<u, w>> \in before
    BY <1>4 DEF Line, Queue, TailsAreLast
  <2>2. k \in Keys
    BY <1>4 DEF TypeOK, Call
  <2>3. k \in call[w].keys
    BY <1>4, <2>2, NamesDiffer DEF Line, Queue, TailsInLine
  <2>4. QED
    BY <2>1, <2>3 DEF Line, Queue, EarlierAwaited
<1>5. TailsAreLast'
  <2> SUFFICES ASSUME NEW u \in Workers, InLine(u)', NEW k \in call'[u].keys
               PROVE  tails'[k] # NoWorker /\ (tails'[k] = u \/ <<u, tails'[k]>> \in before')
    BY DEF TailsAreLast
  <2>1. u # w /\ InLine(u) /\ k \in call[u].keys /\ k \in Keys
    BY DEF TypeOK, Call
  <2>2. tails[k] # NoWorker /\ (tails[k] = u \/ <<u, tails[k]>> \in before) /\ tails[k] # w
    BY <1>4, <2>1 DEF Line, Queue, TailsAreLast
  <2>3. tails'[k] = tails[k] /\ tails[k] \in Workers
    BY <1>1, <2>1, <2>2 DEF LeaveLine
  <2>4. QED
    BY <1>2, <2>1, <2>2, <2>3
<1>6. LineOrdered'
  BY <1>2 DEF Line, Queue, LineOrdered
<1>7. EarlierAwaited'
  <2> SUFFICES ASSUME NEW u \in Workers, NEW x \in Workers, <<u, x>> \in before',
                      NEW k \in call'[u].keys \cap call'[x].keys
               PROVE  \E p \in call'[x].preds :
                        k \in call'[p].keys /\ (p = u \/ <<u, p>> \in before')
    BY DEF EarlierAwaited
  <2>1. <<u, x>> \in before /\ u # w /\ x # w /\ k \in call[u].keys \cap call[x].keys
    BY <1>2
  <2>2. PICK p \in call[x].preds : k \in call[p].keys /\ (p = u \/ <<u, p>> \in before)
    BY <2>1 DEF Line, Queue, EarlierAwaited
  <2>3. p \in Workers
    BY <2>1 DEF TypeOK, Call
  <2>4. p # w
    BY <2>1, <2>2 DEF Line, Queue, EarlierAwaited
  <2>5. QED
    BY <1>2, <2>1, <2>2, <2>3, <2>4
<1>8. QED
  BY <1>3, <1>5, <1>6, <1>7 DEF Queue

(* A step of a call that has not queued.                                       *)
LEMMA OffLine ==
  ASSUME TypeOK, Line, NEW w \in Workers, ~InLine(w), ~InLine(w)',
         UNCHANGED <<tails, before, active>>, \A u \in Workers \ {w} : call'[u] = call[u]
  PROVE  Queue' /\ ActiveAreWorking'
<1>1. \A u \in Workers : /\ InLine(u)' <=> InLine(u)
                         /\ Working(u)' <=> Working(u)
                         /\ InLine(u) => call'[u] = call[u]
  BY DEF InLine, Working
<1>2. \A u, x \in Workers : <<u, x>> \in before => InLine(u) /\ InLine(x)
  BY DEF Line, Queue, LineOrdered
<1>3. \A u \in Workers : call[u].preds \subseteq Workers
  BY DEF TypeOK, Call
<1>4. TailsInLine' /\ TailsAreLast' /\ LineOrdered'
  BY <1>1, <1>2, NamesDiffer DEF Line, Queue, TailsInLine, TailsAreLast, LineOrdered, TypeOK
<1>5. EarlierAwaited'
  BY <1>1, <1>2, <1>3 DEF Line, Queue, EarlierAwaited
<1>6. ActiveAreWorking'
  BY <1>1 DEF Line, ActiveAreWorking, InLine, Working
<1>7. QED
  BY <1>4, <1>5, <1>6 DEF Queue

(* A request that queues becomes the last at all its keys.                    *)
LEMMA EnqueueLine ==
  ASSUME TypeOK, Line, NEW w \in Workers, Enqueue(w)
  PROVE  Queue' /\ ActiveAreWorking'
<1> USE DEF InLine
<1>1. /\ tails \in [Keys -> Workers \cup {NoWorker}] /\ before \subseteq Workers \X Workers
      /\ call \in [Workers -> Call] /\ \A u \in Workers : call[u].keys \subseteq Keys
  BY DEF TypeOK, Call
<1>2. /\ call[w].pc = "entries" /\ call'[w].pc = "queued" /\ call'[w].keys = call[w].keys
      /\ call'[w].preds = Predecessors(w)
      /\ \A u \in Workers \ {w} : call'[u] = call[u]
  BY <1>1 DEF Enqueue, Call
<1>3. /\ \A k \in Keys : tails'[k] = IF k \in call[w].keys THEN w ELSE tails[k]
      /\ \A u, x \in Workers : <<u, x>> \in before' <=>
            <<u, x>> \in before \/ (x = w /\ InLine(u))
  BY DEF Enqueue
<1>4. \A u, x \in Workers : <<u, x>> \in before => u # x /\ InLine(u) /\ InLine(x) /\ u # w /\ x # w
  BY <1>2 DEF Line, Queue, LineOrdered
<1>5. TailsInLine'
  BY <1>1, <1>2, <1>3, NamesDiffer DEF Line, Queue, TailsInLine
<1>6. TailsAreLast'
  <2> SUFFICES ASSUME NEW u \in Workers, InLine(u)', NEW k \in call'[u].keys
               PROVE  tails'[k] # NoWorker /\ (tails'[k] = u \/ <<u, tails'[k]>> \in before')
    BY DEF TailsAreLast
  <2>1. k \in Keys /\ w # NoWorker
    BY <1>1, <1>2, NamesDiffer
  <2>2. CASE k \in call[w].keys
    BY <1>2, <1>3, <2>1, <2>2
  <2>3. CASE k \notin call[w].keys
    <3>1. u # w /\ InLine(u) /\ k \in call[u].keys /\ tails'[k] = tails[k]
      BY <1>2, <1>3, <2>1, <2>3
    <3>2. tails[k] # NoWorker /\ (tails[k] = u \/ <<u, tails[k]>> \in before)
      BY <3>1 DEF Line, Queue, TailsAreLast
    <3>3. QED
      BY <1>1, <1>3, <2>1, <3>1, <3>2
  <2>4. QED
    BY <2>2, <2>3
<1>7. LineOrdered'
  BY <1>2, <1>3, <1>4 DEF Line, Queue, LineOrdered
<1>8. EarlierAwaited'
  <2> SUFFICES ASSUME NEW u \in Workers, NEW x \in Workers, <<u, x>> \in before',
                      NEW k \in call'[u].keys \cap call'[x].keys
               PROVE  \E p \in call'[x].preds :
                        k \in call'[p].keys /\ (p = u \/ <<u, p>> \in before')
    BY DEF EarlierAwaited
  <2>1. k \in call[u].keys /\ k \in call[x].keys /\ k \in Keys
    BY <1>1, <1>2
  <2>2. CASE <<u, x>> \in before
    <3>1. x # w /\ u # w
      BY <1>4, <2>2
    <3>2. PICK p \in call[x].preds : k \in call[p].keys /\ (p = u \/ <<u, p>> \in before)
      BY <2>1, <2>2 DEF Line, Queue, EarlierAwaited
    <3>3. p \in Workers
      BY DEF TypeOK, Call
    <3>4. p # w
      BY <1>4, <3>1, <3>2, <3>3
    <3>5. QED
      BY <1>2, <1>3, <3>1, <3>2, <3>3, <3>4
  <2>3. CASE x = w /\ InLine(u)
    <3>1. tails[k] # NoWorker /\ (tails[k] = u \/ <<u, tails[k]>> \in before)
      BY <2>1, <2>3 DEF Line, Queue, TailsAreLast
    <3>2. tails[k] \in Workers /\ tails[k] \in Predecessors(w) /\ k \in call[tails[k]].keys
      BY <1>1, <2>1, <2>3, <3>1 DEF Predecessors, Line, Queue, TailsInLine
    <3>3. tails[k] # w
      BY <1>2, <1>4, <2>3, <3>1, <3>2
    <3>4. QED
      BY <1>2, <1>3, <2>3, <3>1, <3>2, <3>3
  <2>4. QED
    BY <1>3, <2>2, <2>3
<1>9. ActiveAreWorking'
  <2>1. active' = active
    BY DEF Enqueue
  <2>2. \A u \in Workers : (Working(u)' <=> Working(u)) /\ call'[u].keys = call[u].keys
    BY <1>2 DEF Working
  <2>3. QED
    BY <2>1, <2>2 DEF Line, ActiveAreWorking
<1>10. QED
  BY <1>5, <1>6, <1>7, <1>8, <1>9 DEF Queue

(* Work that starts keeps its place in the line.                              *)
LEMMA StartWorkLine ==
  ASSUME TypeOK, Line, NEW w \in Workers, StartWork(w)
  PROVE  Queue' /\ ActiveAreWorking'
<1>1. /\ \A u \in Workers : call'[u].keys = call[u].keys /\ call'[u].preds = call[u].preds
      /\ \A u \in Workers \ {w} : call'[u].pc = call[u].pc
      /\ call[w].pc = "queued" /\ call'[w].pc = "working"
  <2>1. call[w].pc = "queued" /\ call[w].preds = {}
    BY DEF StartWork, TurnCame
  <2>2. call'[w].pc = "working" /\ call'[w].keys = call[w].keys /\ call'[w].preds = {}
    BY StartWorkEffect DEF NoCall
  <2>3. \A u \in Workers \ {w} : /\ call'[u].keys = call[u].keys /\ call'[u].preds = call[u].preds
                                /\ call'[u].pc = call[u].pc
    BY StartWorkEffect DEF Kept
  <2>4. QED
    BY <2>1, <2>2, <2>3
<1>2. tails' = tails /\ before' = before /\ active' = active \cup call[w].keys
  BY DEF StartWork
<1>3. \A u \in Workers : InLine(u)' <=> InLine(u)
  BY <1>1 DEF InLine
<1>4. \A u \in Workers : call[u].preds \subseteq Workers
  BY DEF TypeOK, Call
<1>5. TailsInLine' /\ TailsAreLast' /\ LineOrdered'
  BY <1>1, <1>2, <1>3, NamesDiffer DEF Line, Queue, TailsInLine, TailsAreLast, LineOrdered, TypeOK
<1>6. EarlierAwaited'
  BY <1>1, <1>2, <1>4 DEF Line, Queue, EarlierAwaited
<1>7. ActiveAreWorking'
  BY <1>1, <1>2 DEF Line, ActiveAreWorking, Working
<1>8. QED
  BY <1>5, <1>6, <1>7 DEF Queue

(* A request whose turn came too late leaves; it never worked.                 *)
LEMMA LateLine ==
  ASSUME TypeOK, TypeOK', Line, NEW w \in Workers, TurnCame(w), LeaveLine(w), UNCHANGED active,
         NEW c, call' = [Released(call, w) EXCEPT ![w] = c], c.pc \notin {"queued", "working"}
  PROVE  Queue' /\ ActiveAreWorking'
<1>1. /\ \A u \in Workers \ {w} : Kept(u) /\ call'[u].preds = call[u].preds \ {w}
      /\ call'[w] = c
  BY LateEffect
<1>2. InLine(w) /\ ~InLine(w)' /\ call[w].preds = {} /\ ~Working(w) /\ ~Working(w)'
  BY <1>1 DEF TurnCame, InLine, Working
<1>3. Queue'
  BY <1>1, <1>2, FirstLeaves DEF Kept
<1>4. ActiveAreWorking'
  BY <1>1, <1>2 DEF Kept, Line, ActiveAreWorking, Working
<1>5. QED
  BY <1>3, <1>4

(* Work that ends gives its place back, and its keys alone.                   *)
LEMMA FinishWorkLine ==
  ASSUME TypeOK, TypeOK', Line, NEW w \in Workers, FinishWork(w)
  PROVE  Queue' /\ ActiveAreWorking'
<1>1. /\ \A u \in Workers \ {w} : Kept(u) /\ call'[u].preds = call[u].preds \ {w}
      /\ call'[w].pc = "idle" /\ Working(w) /\ LeaveLine(w) /\ active' = active \ call[w].keys
  BY FinishWorkEffect DEF FinishWork, NoCall
<1>2. InLine(w) /\ ~InLine(w)' /\ call[w].preds = {}
  BY <1>1 DEF InLine, Working, Line, CallShapes, CallShape
<1>3. Queue'
  BY <1>1, <1>2, FirstLeaves DEF Kept
<1>4. \A u \in Workers : Working(u)' <=> Working(u) /\ u # w
  BY <1>1 DEF Kept, Working
<1>5. \A u \in Workers \ {w} : Working(u) => call[u].keys \cap call[w].keys = {}
  BY <1>1, Exclusion
<1>6. ActiveAreWorking'
  BY <1>1, <1>4, <1>5 DEF Kept, Line, ActiveAreWorking
<1>7. QED
  BY <1>3, <1>6

(* The line stays in order.                                                   *)
LEMMA LineStep == TypeOK /\ TypeOK' /\ Line /\ VisibleAreKnown /\ [Next]_vars => Line'
<1> SUFFICES ASSUME TypeOK, TypeOK', Line, VisibleAreKnown, [Next]_vars PROVE Line'
  OBVIOUS
<1>1. CASE UNCHANGED vars
  BY <1>1 DEF vars, Line, Queue, TailsInLine, TailsAreLast, LineOrdered, EarlierAwaited,
     CallShapes, CallShape, ActiveAreWorking, InLine, Working, Resolving
<1> SUFFICES ASSUME Next PROVE Queue' /\ ActiveAreWorking'
  BY <1>1, CallShapesStep DEF Line
<1>0. call \in [Workers -> Call]
  BY DEF TypeOK
<1>2. ASSUME NEW w \in Workers, Watch(w) PROVE Queue' /\ ActiveAreWorking'
  BY <1>0, <1>2, OffLine DEF Watch, NoCall, InLine
<1>3. ASSUME NEW w \in Workers, Plan(w) PROVE Queue' /\ ActiveAreWorking'
  <2>1. call[w] \in Call /\ call'[w] = [call[w] EXCEPT !.pc = "planned"]
    BY <1>0, <1>3 DEF Plan
  <2>2. ~InLine(w) /\ ~InLine(w)'
    BY <1>3, <2>1 DEF Plan, InLine, Call
  <2>3. QED
    BY <1>0, <1>3, <2>2, OffLine DEF Plan
<1>4. ASSUME NEW w \in Workers, NEW named \in Jobs, WithSyncState(w, named)
      PROVE  Queue' /\ ActiveAreWorking'
  <2>1. ~InLine(w) /\ ~InLine(w)'
    BY <1>0, <1>4, DiscoveryShape DEF WithSyncState, InLine
  <2>2. QED
    BY <1>0, <1>4, <2>1, OffLine DEF WithSyncState
<1>5. ASSUME NEW w \in Workers, NEW p \in Paths, ResolvePath(w, p) PROVE Queue' /\ ActiveAreWorking'
  <2>1. call[w] \in Call /\ call'[w] = Visit(call[w], call[w].todo \ {p}, call[w].keys \cup Owners(p))
    BY <1>0, <1>5 DEF ResolvePath
  <2>2. ~InLine(w) /\ ~InLine(w)'
    BY <1>5, <2>1 DEF ResolvePath, Visit, InLine, Call
  <2>3. QED
    BY <1>0, <1>5, <2>2, OffLine DEF ResolvePath
<1>6. ASSUME NEW w \in Workers, NEW e \in Entries, ResolveEntry(w, e) PROVE Queue' /\ ActiveAreWorking'
  <2>1. call[w] \in Call /\ call'[w].pc = call[w].pc
    BY <1>0, <1>6 DEF ResolveEntry, Call
  <2>2. ~InLine(w) /\ ~InLine(w)'
    BY <1>6, <2>1 DEF ResolveEntry, InLine
  <2>3. QED
    BY <1>0, <1>6, <2>2, OffLine DEF ResolveEntry
<1>7. ASSUME NEW w \in Workers, RetryDiscovery(w) PROVE Queue' /\ ActiveAreWorking'
  <2> DEFINE d == Discovery(w, call[w].named, call[w].attempt + 1)
  <2>1. d.pc \notin {"queued", "working"}
    BY DiscoveryShape
  <2>2. call' = [Released(call, w) EXCEPT ![w] = d]
    BY <1>7 DEF RetryDiscovery
  <2> HIDE DEF d
  <2>3. QED
    BY <1>7, <2>1, <2>2, LateLine DEF RetryDiscovery
<1>8. ASSUME NEW w \in Workers, GiveUp(w) PROVE Queue' /\ ActiveAreWorking'
  BY <1>8, LateLine DEF GiveUp, NoCall
<1>9. ASSUME UNCHANGED <<tails, before, active, call>> PROVE Queue' /\ ActiveAreWorking'
  BY <1>9 DEF Line, Queue, TailsInLine, TailsAreLast, LineOrdered, EarlierAwaited,
     ActiveAreWorking, InLine, Working
<1>10. ASSUME NEW w \in Workers, NEW e \in Entries, NEW p \in Paths \cup {NoPath}, Move(w, e, p)
       PROVE  Queue' /\ ActiveAreWorking'
  BY <1>9, <1>10 DEF Move
<1>11. ASSUME NEW w \in Workers, NEW e \in Entries, NEW p \in Paths, CreateEntry(w, e, p)
       PROVE  Queue' /\ ActiveAreWorking'
  BY <1>9, <1>11 DEF CreateEntry
<1>12. QED
  BY <1>2, <1>3, <1>4, <1>5, <1>6, <1>7, <1>8, <1>10, <1>11,
     EnqueueLine, StartWorkLine, FinishWorkLine DEF Next, Step

-----------------------------------------------------------------------------
(* The snapshots.                                                             *)

Looked == WorkIsTold /\ LookedUpIsTrue /\ WrittenIsTold

(* A step of a call after which it does not work, and which writes nothing:    *)
(* what it is told of, or finds running; what it has looked up; what is stale. *)
Quiet(x) ==
  /\ ~Working(x)' /\ pathOf' = pathOf
  /\ \A u \in Workers \ {x} :
        /\ Kept(u) /\ stale'[u] = stale[u]
        /\ call[u].early \subseteq call'[u].early
        /\ Resolving(u) => call[u].found \subseteq call'[u].found
  /\ Resolving(x)' => \/ active \subseteq call'[x].found
                      \/ Resolving(x) /\ call[x].found \subseteq call'[x].found
  /\ call'[x].planned => \/ active \subseteq call'[x].early
                         \/ call[x].planned /\ call[x].early \subseteq call'[x].early
  /\ call'[x].pc \in {"entries", "queued"} /\ call'[x].keys \cap call'[x].found = {} =>
       \A e \in (call'[x].keys \cap Entries) \ call'[x].todo :
          pathOf[e] \in call'[x].keys \cup {NoPath}
  /\ call'[x].planned /\ call'[x].pc # "watching" =>
       \/ stale'[x] = {}
       \/ /\ call[x].planned /\ call[x].pc # "watching" /\ stale'[x] = stale[x]
          /\ call[x].early \subseteq call'[x].early

(* Such a step leaves the snapshots right.                                    *)
LEMMA QuietStep ==
  ASSUME TypeOK, Line, Snapshots, NEW x \in Workers, Quiet(x)
  PROVE  Looked'
<1>1. WorkIsTold'
  <2> SUFFICES ASSUME NEW u \in Workers, NEW w \in Workers, Working(w)'
               PROVE  /\ Resolving(u)' => call'[w].keys \subseteq call'[u].found
                      /\ call'[u].planned => call'[w].keys \subseteq call'[u].early
    BY DEF WorkIsTold
  <2>1. w # x /\ Working(w) /\ call'[w].keys = call[w].keys
    BY DEF Kept, Working, Quiet
  <2>2. call[w].keys \subseteq active
    BY <2>1 DEF Line, ActiveAreWorking, TypeOK, Call
  <2>3. /\ Resolving(u) => call[w].keys \subseteq call[u].found
        /\ call[u].planned => call[w].keys \subseteq call[u].early
    BY <2>1 DEF Snapshots, WorkIsTold
  <2>4. CASE u = x
    BY <2>1, <2>2, <2>3, <2>4 DEF Quiet
  <2>5. CASE u # x
    <3>1. Kept(u) /\ (Resolving(u)' <=> Resolving(u))
      BY <2>5 DEF Kept, Resolving, Quiet
    <3>2. QED
      BY <2>1, <2>3, <2>5, <3>1 DEF Kept, Quiet
  <2>6. QED
    BY <2>4, <2>5
<1>2. LookedUpIsTrue'
  <2> SUFFICES ASSUME NEW u \in Workers
               PROVE  /\ Working(u)' => Located(u, call[u].keys \cap Entries)'
                      /\ call'[u].pc \in {"entries", "queued"} /\ call'[u].keys \cap call'[u].found = {} =>
                           Located(u, (call[u].keys \cap Entries) \ call[u].todo)'
    BY DEF LookedUpIsTrue
  <2>1. CASE u = x
    BY <2>1 DEF Located, Quiet
  <2>2. CASE u # x
    <3>1. /\ call'[u].pc = call[u].pc /\ call'[u].keys = call[u].keys /\ call'[u].todo = call[u].todo
          /\ call[u].pc \in {"entries", "queued"} => call[u].found \subseteq call'[u].found
      BY <2>2 DEF Kept, Resolving, Quiet
    <3>2. QED
      BY <2>2, <3>1 DEF Snapshots, LookedUpIsTrue, Located, Working, Quiet
  <2>3. QED
    BY <2>1, <2>2
<1>3. WrittenIsTold'
  <2> SUFFICES ASSUME NEW u \in Workers, call'[u].planned, call'[u].pc # "watching", NEW k \in stale'[u]
               PROVE  k \in call'[u].early \/ (k \in Entries /\ pathOf[k] \in call'[u].early)
    BY DEF WrittenIsTold, Quiet
  <2>1. /\ call[u].planned /\ call[u].pc # "watching" /\ k \in stale[u]
        /\ call[u].early \subseteq call'[u].early
    BY DEF Kept, Quiet
  <2>2. QED
    BY <2>1 DEF Snapshots, WrittenIsTold
<1>4. QED
  BY <1>1, <1>2, <1>3 DEF Looked

(* So does work that starts: what it looked up is still true.                 *)
LEMMA StartWorkSnapshots ==
  ASSUME TypeOK, Line, Snapshots, NEW x \in Workers, StartWork(x)
  PROVE  Looked'
<1>1. /\ pathOf' = pathOf /\ call[x].pc = "queued" /\ call[x].keys \cap call[x].found = {}
      /\ call[x].todo = {} /\ \A u \in Workers \ {x} : stale'[u] = stale[u]
  BY DEF StartWork, TurnCame, Current, Line, CallShapes, CallShape, TypeOK
<1>2. /\ call'[x].pc = "working" /\ call'[x].keys = call[x].keys /\ ~call'[x].planned
      /\ ~Resolving(x)' /\ Working(x)'
  <2>1. call'[x] = [NoCall EXCEPT !.pc = "working", !.keys = call[x].keys]
    BY StartWorkEffect
  <2>2. /\ call'[x].pc = "working" /\ call'[x].keys = call[x].keys
        /\ call'[x].planned = NoCall.planned
    BY <2>1 DEF NoCall
  <2>3. ~NoCall.planned
    BY DEF NoCall
  <2>4. QED
    BY <2>2, <2>3 DEF Resolving, Working
<1>3. ASSUME NEW u \in Workers \ {x}
      PROVE  /\ Kept(u) /\ Told(u, call[x].keys)
             /\ (Resolving(u)' <=> Resolving(u)) /\ (Working(u)' <=> Working(u))
  BY StartWorkEffect DEF Kept, Resolving, Working
<1>4. WorkIsTold'
  <2> SUFFICES ASSUME NEW u \in Workers, NEW w \in Workers, Working(w)'
               PROVE  /\ Resolving(u)' => call'[w].keys \subseteq call'[u].found
                      /\ call'[u].planned => call'[w].keys \subseteq call'[u].early
    BY DEF WorkIsTold
  <2>1. CASE u = x
    BY <1>2, <2>1
  <2>2. CASE u # x /\ w = x
    BY <1>2, <1>3, <2>2 DEF Kept, Told
  <2>3. CASE u # x /\ w # x
    <3>1. Working(w) /\ call'[w].keys = call[w].keys
      BY <1>3, <2>3 DEF Kept
    <3>2. /\ Resolving(u) => call[w].keys \subseteq call[u].found
          /\ call[u].planned => call[w].keys \subseteq call[u].early
      BY <3>1 DEF Snapshots, WorkIsTold
    <3>3. QED
      BY <1>3, <2>3, <3>1, <3>2 DEF Kept, Told
  <2>4. QED
    BY <2>1, <2>2, <2>3
<1>5. LookedUpIsTrue'
  <2> SUFFICES ASSUME NEW u \in Workers
               PROVE  /\ Working(u)' => Located(u, call[u].keys \cap Entries)'
                      /\ call'[u].pc \in {"entries", "queued"} /\ call'[u].keys \cap call'[u].found = {} =>
                           Located(u, (call[u].keys \cap Entries) \ call[u].todo)'
    BY DEF LookedUpIsTrue
  <2>1. CASE u = x
    <3>1. Located(x, (call[x].keys \cap Entries) \ call[x].todo)
      BY <1>1 DEF Snapshots, LookedUpIsTrue
    <3>2. QED
      BY <1>1, <1>2, <2>1, <3>1 DEF Located
  <2>2. CASE u # x
    <3>1. /\ call'[u].pc = call[u].pc /\ call'[u].keys = call[u].keys /\ call'[u].todo = call[u].todo
          /\ call[u].pc \in {"entries", "queued"} => call[u].found \subseteq call'[u].found
      BY <1>3, <2>2 DEF Kept, Told, Resolving
    <3>2. QED
      BY <1>1, <3>1 DEF Snapshots, LookedUpIsTrue, Located, Working
  <2>3. QED
    BY <2>1, <2>2
<1>6. WrittenIsTold'
  <2> SUFFICES ASSUME NEW u \in Workers, call'[u].planned, call'[u].pc # "watching", NEW k \in stale'[u]
               PROVE  k \in call'[u].early \/ (k \in Entries /\ pathOf[k] \in call'[u].early)
    BY <1>1 DEF WrittenIsTold
  <2>1. u # x
    BY <1>2
  <2>2. /\ call[u].planned /\ call[u].pc # "watching" /\ k \in stale[u]
        /\ call[u].early \subseteq call'[u].early
    BY <1>1, <1>3, <2>1 DEF Kept, Told
  <2>3. QED
    BY <2>2 DEF Snapshots, WrittenIsTold
<1>7. QED
  BY <1>4, <1>5, <1>6 DEF Looked

(* A write of the work of x: to what it holds, or of an entry nobody knows.    *)
LEMMA WriteSnapshots ==
  ASSUME TypeOK, Line, Snapshots, NEW x \in Workers, Working(x), NEW e \in Entries,
         NEW p \in (call[x].keys \cap Paths) \cup {NoPath},
         e \in call[x].keys \/ (e \notin known /\ p \in Paths),
         pathOf' = [pathOf EXCEPT ![e] = p], call' = call,
         NEW S, S \subseteq {e, p, pathOf[e]}, NoPath \notin S,
         e \notin call[x].keys => S \subseteq {e, p},
         stale' = Written(S)
  PROVE  Looked'
<1>1. pathOf \in [Entries -> Paths \cup {NoPath}]
  BY DEF TypeOK
<1>2. WorkIsTold'
  BY DEF Snapshots, WorkIsTold, Working, Resolving
<1>3. ASSUME NEW u \in Workers \ {x}, e \in call[u].keys
      PROVE  ~Working(u) /\ (Resolving(u) => call[u].keys \cap call[u].found # {})
  <2>1. e \in call[x].keys
    BY <1>3, NamesDiffer DEF Line, CallShapes, CallShape
  <2>2. ~Working(u)
    BY <1>3, <2>1, Exclusion
  <2>3. Resolving(u) => e \in call[u].found
    BY <2>1 DEF Snapshots, WorkIsTold
  <2>4. QED
    BY <1>3, <2>2, <2>3
<1>4. LookedUpIsTrue'
  <2> SUFFICES ASSUME NEW u \in Workers
               PROVE  /\ Working(u) => Located(u, call[u].keys \cap Entries)'
                      /\ call[u].pc \in {"entries", "queued"} /\ call[u].keys \cap call[u].found = {} =>
                           Located(u, (call[u].keys \cap Entries) \ call[u].todo)'
    BY DEF LookedUpIsTrue, Working
  <2>1. CASE u = x
    BY <1>1, <2>1 DEF Snapshots, LookedUpIsTrue, Located, Working
  <2>2. CASE u # x
    BY <1>1, <1>3, <2>2 DEF Snapshots, LookedUpIsTrue, Located, Resolving
  <2>3. QED
    BY <2>1, <2>2
<1>5. WrittenIsTold'
  <2> SUFFICES ASSUME NEW u \in Workers, call[u].planned, call[u].pc # "watching", NEW k \in stale'[u]
               PROVE  k \in call[u].early \/ (k \in Entries /\ pathOf'[k] \in call[u].early)
    BY DEF WrittenIsTold
  <2>1. stale'[u] = stale[u] \cup S
    BY DEF Written
  <2>2. call[x].keys \subseteq call[u].early
    BY DEF Snapshots, WorkIsTold
  <2>3. e \in call[x].keys => pathOf[e] \in call[x].keys \cup {NoPath}
    BY DEF Snapshots, LookedUpIsTrue, Located
  <2>4. e \in call[u].early \/ (p \in call[u].early /\ pathOf'[e] = p)
    BY <1>1, <2>2, NamesDiffer
  <2>5. CASE k \in S
    BY <2>2, <2>3, <2>4, <2>5
  <2>6. CASE k \in stale[u]
    <3>1. k \in call[u].early \/ (k \in Entries /\ pathOf[k] \in call[u].early)
      BY <2>6 DEF Snapshots, WrittenIsTold
    <3>2. QED
      BY <1>1, <2>4, <3>1
  <2>7. QED
    BY <2>1, <2>5, <2>6
<1>6. QED
  BY <1>2, <1>4, <1>5 DEF Looked

(* The snapshots stay right.                                                  *)
LEMMA SnapshotsStep == TypeOK /\ TypeOK' /\ Line /\ Snapshots /\ [Next]_vars => Snapshots'
<1> SUFFICES ASSUME TypeOK, TypeOK', Line, Snapshots, [Next]_vars PROVE Snapshots'
  OBVIOUS
<1>0. call \in [Workers -> Call]
  BY DEF TypeOK
<1>1. CASE UNCHANGED vars
  BY <1>1 DEF vars, Snapshots, VisibleAreKnown, WorkIsTold, LookedUpIsTrue, WrittenIsTold,
     Located, Working, Resolving
<1> SUFFICES ASSUME Next PROVE VisibleAreKnown' /\ Looked'
  BY <1>1 DEF Looked, Snapshots
<1>2. ASSUME NEW w \in Workers, Watch(w) PROVE VisibleAreKnown' /\ Looked'
  <2>1. /\ call'[w].pc = "watching" /\ call'[w].early = active
        /\ \A u \in Workers \ {w} : call'[u] = call[u]
    BY <1>0, <1>2 DEF Watch, NoCall
  <2>2. UNCHANGED <<pathOf, known, stale>>
    BY <1>2 DEF Watch
  <2>3. ~Working(w)' /\ ~Resolving(w)'
    BY <2>1 DEF Working, Resolving
  <2>4. \A u \in Workers \ {w} :
          /\ Kept(u) /\ stale'[u] = stale[u] /\ call[u].early \subseteq call'[u].early
          /\ Resolving(u) => call[u].found \subseteq call'[u].found
    BY <2>1, <2>2 DEF Kept
  <2>5. Quiet(w)
    BY <2>1, <2>2, <2>3, <2>4 DEF Quiet
  <2>6. Looked'
    BY <2>5, QuietStep
  <2>7. QED
    BY <2>2, <2>6 DEF Snapshots, VisibleAreKnown
<1>3. ASSUME NEW w \in Workers, Plan(w) PROVE VisibleAreKnown' /\ Looked'
  <2>1. call[w] \in Call /\ call'[w] = [call[w] EXCEPT !.pc = "planned"]
    BY <1>0, <1>3 DEF Plan
  <2>2. /\ call'[w].pc = "planned" /\ call'[w].early = call[w].early
        /\ call'[w].planned = call[w].planned
        /\ \A u \in Workers \ {w} : call'[u] = call[u]
    BY <1>0, <1>3, <2>1 DEF Plan, Call
  <2>3. UNCHANGED <<pathOf, known>> /\ stale' = [stale EXCEPT ![w] = {}] /\ stale'[w] = {}
    BY <1>3 DEF Plan, TypeOK
  <2>4. Quiet(w)
    BY <2>2, <2>3 DEF Quiet, Working, Resolving, Kept, TypeOK
  <2>5. Looked'
    BY <2>4, QuietStep
  <2>6. QED
    BY <2>3, <2>5 DEF Snapshots, VisibleAreKnown
<1>4. ASSUME NEW w \in Workers, NEW named \in Jobs, WithSyncState(w, named)
      PROVE  VisibleAreKnown' /\ Looked'
  <2> DEFINE d == Discovery(w, named, 1)
  <2>1. /\ d.pc \in {"paths", "entries"} /\ d.found = active /\ d.early = call[w].early
        /\ d.planned = call[w].planned /\ d.keys = named
        /\ d.pc = "entries" => d.todo = named \cap Entries
    BY DiscoveryShape
  <2>2. call'[w] = d /\ \A u \in Workers \ {w} : call'[u] = call[u]
    BY <1>0, <1>4 DEF WithSyncState
  <2>3. UNCHANGED <<pathOf, stale>> /\ known \subseteq known' /\ call[w].pc # "watching"
    BY <1>4 DEF WithSyncState
  <2> HIDE DEF d
  <2>4. ~Working(w)'
    BY <2>1, <2>2 DEF Working
  <2>5. \A u \in Workers \ {w} :
          /\ Kept(u) /\ stale'[u] = stale[u] /\ call[u].early \subseteq call'[u].early
          /\ Resolving(u) => call[u].found \subseteq call'[u].found
    BY <2>2, <2>3 DEF Kept
  <2>6. Quiet(w)
    BY <2>1, <2>2, <2>3, <2>4, <2>5 DEF Quiet
  <2>7. Looked'
    BY <2>6, QuietStep
  <2>8. QED
    BY <2>3, <2>7 DEF Snapshots, VisibleAreKnown
<1>5. ASSUME NEW w \in Workers, NEW p \in Paths, ResolvePath(w, p) PROVE VisibleAreKnown' /\ Looked'
  <2> DEFINE c == Visit(call[w], call[w].todo \ {p}, call[w].keys \cup Owners(p))
  <2>1. call[w] \in Call
    BY <1>0
  <2>2. /\ c.pc \in {"paths", "entries"} /\ c.found = call[w].found /\ c.early = call[w].early
        /\ c.planned = call[w].planned
        /\ c.pc = "entries" => c.todo = c.keys \cap Entries
    BY <2>1 DEF Visit, Call
  <2>3. call'[w] = c /\ \A u \in Workers \ {w} : call'[u] = call[u]
    BY <1>0, <1>5 DEF ResolvePath
  <2>4. UNCHANGED <<pathOf, known, stale>> /\ call[w].pc = "paths"
    BY <1>5 DEF ResolvePath
  <2> HIDE DEF c
  <2>5. Quiet(w)
    BY <2>2, <2>3, <2>4 DEF Quiet, Working, Resolving, Kept
  <2>6. Looked'
    BY <2>5, QuietStep
  <2>7. QED
    BY <2>4, <2>6 DEF Snapshots, VisibleAreKnown
<1>6. ASSUME NEW w \in Workers, NEW e \in Entries, ResolveEntry(w, e)
      PROVE  VisibleAreKnown' /\ Looked'
  <2>1. call[w] \in Call /\ pathOf[e] \in Paths \cup {NoPath}
    BY <1>0 DEF TypeOK
  <2>2. /\ call'[w].pc = "entries" /\ call'[w].found = call[w].found
        /\ call'[w].early = call[w].early /\ call'[w].planned = call[w].planned
        /\ call'[w].todo = call[w].todo \ {e}
        /\ call'[w].keys = call[w].keys \cup ({pathOf[e]} \ {NoPath})
        /\ \A u \in Workers \ {w} : call'[u] = call[u]
    BY <1>0, <1>6, <2>1 DEF ResolveEntry, Call
  <2>3. UNCHANGED <<pathOf, known, stale>> /\ call[w].pc = "entries"
    BY <1>6 DEF ResolveEntry
  <2>4. ASSUME call'[w].keys \cap call'[w].found = {},
               NEW f \in (call'[w].keys \cap Entries) \ call'[w].todo
        PROVE  pathOf[f] \in call'[w].keys \cup {NoPath}
    <3>1. call[w].keys \cap call[w].found = {} /\ pathOf[e] \notin Entries \ {NoPath}
      BY <2>1, <2>2, <2>4, NamesDiffer
    <3>2. f = e \/ f \in (call[w].keys \cap Entries) \ call[w].todo
      BY <2>2, <3>1, NamesDiffer
    <3>3. QED
      BY <2>2, <2>3, <3>1, <3>2 DEF Snapshots, LookedUpIsTrue, Located
  <2>5. Quiet(w)
    BY <2>2, <2>3, <2>4 DEF Quiet, Working, Resolving, Kept
  <2>6. Looked'
    BY <2>5, QuietStep
  <2>7. QED
    BY <2>3, <2>6 DEF Snapshots, VisibleAreKnown
<1>7. ASSUME NEW w \in Workers, Enqueue(w) PROVE VisibleAreKnown' /\ Looked'
  <2>1. call[w] \in Call
    BY <1>0
  <2>2. /\ call'[w].pc = "queued" /\ call'[w].found = call[w].found
        /\ call'[w].early = call[w].early /\ call'[w].planned = call[w].planned
        /\ call'[w].todo = call[w].todo /\ call'[w].keys = call[w].keys
        /\ \A u \in Workers \ {w} : call'[u] = call[u]
    BY <1>0, <1>7, <2>1 DEF Enqueue, Call
  <2>3. UNCHANGED <<pathOf, known, stale>> /\ call[w].pc = "entries"
    BY <1>7 DEF Enqueue
  <2>4. call[w].keys \cap call[w].found = {} => Located(w, (call[w].keys \cap Entries) \ call[w].todo)
    BY <2>3 DEF Snapshots, LookedUpIsTrue
  <2>5. Quiet(w)
    BY <2>2, <2>3, <2>4 DEF Quiet, Working, Resolving, Kept, Located
  <2>6. Looked'
    BY <2>5, QuietStep
  <2>7. QED
    BY <2>3, <2>6 DEF Snapshots, VisibleAreKnown
<1>8. ASSUME NEW w \in Workers, RetryDiscovery(w) PROVE VisibleAreKnown' /\ Looked'
  <2> DEFINE d == Discovery(w, call[w].named, call[w].attempt + 1)
  <2>1. /\ d.pc \in {"paths", "entries"} /\ d.found = active /\ d.early = call[w].early
        /\ d.planned = call[w].planned /\ d.keys = call[w].named
        /\ d.pc = "entries" => d.todo = call[w].named \cap Entries
    BY DiscoveryShape
  <2>2. call' = [Released(call, w) EXCEPT ![w] = d]
    BY <1>8 DEF RetryDiscovery
  <2> HIDE DEF d
  <2>3. call'[w] = d /\ \A u \in Workers \ {w} : Kept(u) /\ Told(u, {})
    BY <2>2, LateEffect
  <2>4. UNCHANGED <<pathOf, known, stale>> /\ call[w].pc = "queued"
    BY <1>8 DEF RetryDiscovery, TurnCame
  <2>5. ~Working(w)'
    BY <2>1, <2>3 DEF Working
  <2>6. \A u \in Workers \ {w} :
          /\ Kept(u) /\ stale'[u] = stale[u] /\ call[u].early \subseteq call'[u].early
          /\ Resolving(u) => call[u].found \subseteq call'[u].found
    BY <2>3, <2>4 DEF Told
  <2>7. Quiet(w)
    BY <2>1, <2>3, <2>4, <2>5, <2>6 DEF Quiet
  <2>8. Looked'
    BY <2>7, QuietStep
  <2>9. QED
    BY <2>4, <2>8 DEF Snapshots, VisibleAreKnown
<1>9. ASSUME NEW w \in Workers, call'[w] = NoCall, UNCHANGED <<pathOf, known>>,
             \A u \in Workers \ {w} : /\ Kept(u) /\ stale'[u] = stale[u]
                                     /\ call[u].early \subseteq call'[u].early
                                     /\ call[u].found \subseteq call'[u].found
      PROVE  VisibleAreKnown' /\ Looked'
  <2>1. call'[w].pc = "idle" /\ ~call'[w].planned
    BY <1>9 DEF NoCall
  <2>2. Quiet(w)
    BY <1>9, <2>1 DEF Quiet, Working, Resolving
  <2>3. Looked'
    BY <2>2, QuietStep
  <2>4. QED
    BY <1>9, <2>3 DEF Snapshots, VisibleAreKnown
<1>10. ASSUME NEW w \in Workers, GiveUp(w) PROVE VisibleAreKnown' /\ Looked'
  <2>1. /\ call'[w] = NoCall
        /\ \A u \in Workers \ {w} : Kept(u) /\ Told(u, {})
    BY <1>10, LateEffect DEF GiveUp
  <2>2. UNCHANGED <<pathOf, known>> /\ \A u \in Workers \ {w} : stale'[u] = stale[u]
    BY <1>10 DEF GiveUp, TypeOK
  <2>3. QED
    BY <1>9, <2>1, <2>2 DEF Told
<1>11. ASSUME NEW w \in Workers, FinishWork(w) PROVE VisibleAreKnown' /\ Looked'
  <2>1. /\ call'[w] = NoCall
        /\ \A u \in Workers \ {w} : Kept(u) /\ Told(u, call[w].keys)
    BY <1>11, FinishWorkEffect
  <2>2. UNCHANGED <<pathOf, known, stale>>
    BY <1>11 DEF FinishWork
  <2>3. QED
    BY <1>9, <2>1, <2>2 DEF Told
<1>12. ASSUME NEW w \in Workers, NEW e \in Entries, NEW p \in Paths \cup {NoPath}, Move(w, e, p)
       PROVE  VisibleAreKnown' /\ Looked'
  <2>1. e \in known
    BY <1>12, NamesDiffer DEF Move, Line, CallShapes, CallShape
  <2>2. VisibleAreKnown'
    BY <1>12, <2>1 DEF Move, Snapshots, VisibleAreKnown, TypeOK
  <2> DEFINE S == {e, p, pathOf[e]} \cap Keys
  <2>3. NoPath \notin S /\ S \subseteq {e, p, pathOf[e]}
    BY NamesDiffer DEF Keys
  <2>4. /\ Working(w) /\ p \in (call[w].keys \cap Paths) \cup {NoPath} /\ e \in call[w].keys
        /\ pathOf' = [pathOf EXCEPT ![e] = p] /\ call' = call /\ stale' = Written(S)
    BY <1>12 DEF Move
  <2> HIDE DEF S
  <2>5. QED
    BY <2>2, <2>3, <2>4, WriteSnapshots
<1>13. ASSUME NEW w \in Workers, NEW e \in Entries, NEW p \in Paths, CreateEntry(w, e, p)
       PROVE  VisibleAreKnown' /\ Looked'
  <2>1. VisibleAreKnown'
    BY <1>13 DEF CreateEntry, Snapshots, VisibleAreKnown, TypeOK
  <2> DEFINE S == {e, p}
  <2>2. NoPath \notin S /\ S \subseteq {e, p, pathOf[e]} /\ S \subseteq {e, p}
    BY NamesDiffer
  <2>3. /\ Working(w) /\ p \in (call[w].keys \cap Paths) \cup {NoPath} /\ e \notin known
        /\ pathOf' = [pathOf EXCEPT ![e] = p] /\ call' = call /\ stale' = Written(S)
    BY <1>13 DEF CreateEntry
  <2> HIDE DEF S
  <2>4. QED
    BY <2>1, <2>2, <2>3, WriteSnapshots
<1>14. ASSUME NEW w \in Workers, StartWork(w) PROVE VisibleAreKnown' /\ Looked'
  BY <1>14, StartWorkSnapshots DEF StartWork, Snapshots, VisibleAreKnown
<1>15. QED
  BY <1>2, <1>3, <1>4, <1>5, <1>6, <1>7, <1>8, <1>10, <1>11, <1>12, <1>13, <1>14 DEF Next, Step

(* Where nobody has called, all of it holds.                                  *)
LEMMA InitInv == Init => IInv
<1> SUFFICES ASSUME Init PROVE IInv
  OBVIOUS
<1>1. TypeOK
  BY NoCallTyped DEF Init, TypeOK
<1>2. \A w \in Workers : call[w] = NoCall /\ stale[w] = {}
  BY DEF Init
<1>3. Line
  BY <1>2 DEF Init, NoCall, Line, Queue, TailsInLine, TailsAreLast, LineOrdered, EarlierAwaited,
     CallShapes, CallShape, ActiveAreWorking, InLine, Working, Resolving
<1>4. Snapshots
  BY <1>2 DEF Init, NoCall, Snapshots, VisibleAreKnown, WorkIsTold, LookedUpIsTrue, WrittenIsTold,
     Working, Resolving
<1>5. QED
  BY <1>1, <1>3, <1>4 DEF IInv

(* The inductive invariant.                                                   *)
LEMMA IndInv == Spec => []IInv
<1>1. IInv /\ [Next]_vars => IInv'
  BY TypeStep, LineStep, SnapshotsStep DEF IInv, Snapshots
<1>2. QED
  BY InitInv, <1>1, PTL DEF Spec

(* Whatever the calls do, each variable keeps to its type.                     *)
THEOREM KeyedTypeCorrect == Spec => []TypeOK
<1>1. IInv => TypeOK
  BY DEF IInv
<1>2. QED
  BY <1>1, IndInv, PTL

(* Two calls that work at the same time have no entry and no path in common,   *)
(* counting the entries at the paths of each and the paths of its entries: the *)
(* lookups that run() made before it queued still hold when its turn comes.    *)
THEOREM DisjointFootprints == Spec => []FootprintsDisjoint
<1>1. IInv => FootprintsDisjoint
  <2> SUFFICES ASSUME IInv, NEW u \in Workers, NEW w \in Workers, u # w, Working(u), Working(w)
               PROVE  Footprint(u) \cap Footprint(w) = {}
    BY DEF FootprintsDisjoint
  <2> DEFINE Places(x) == {pathOf[e] : e \in call[x].keys \cap Entries} \ {NoPath}
             Holders(x) == UNION {Owners(p) : p \in call[x].keys \cap Paths}
  <2>1. call[u].keys \cap call[w].keys = {}
    BY Exclusion DEF IInv
  <2>2. ASSUME NEW x \in {u, w}
        PROVE  Places(x) \subseteq call[x].keys /\ Places(x) \subseteq Paths
    BY DEF IInv, Snapshots, LookedUpIsTrue, Located, TypeOK
  <2>3. Holders(u) \cap call[w].keys = {} /\ Holders(w) \cap call[u].keys = {}
    <3>1. ASSUME NEW x \in {u, w}, NEW y \in {u, w}, x # y, NEW e \in Holders(x), e \in call[y].keys
          PROVE  FALSE
      <4>1. PICK p \in call[x].keys \cap Paths : e \in Entries /\ pathOf[e] = p
        BY DEF Owners
      <4>2. p \in Places(y)
        BY <3>1, <4>1, NamesDiffer
      <4>3. QED
        BY <2>1, <2>2, <3>1, <4>1, <4>2
    <3>2. QED
      BY <3>1
  <2>4. Holders(u) \cap Holders(w) = {} /\ Holders(u) \cup Holders(w) \subseteq Entries
    BY <2>1 DEF Owners
  <2>5. ASSUME NEW x \in Workers, NEW k \in Footprint(x)
        PROVE  k \in call[x].keys \/ k \in Holders(x) \/ k \in Places(x)
    BY DEF Footprint
  <2> HIDE DEF Places, Holders
  <2>6. Places(u) \cap Places(w) = {} /\ Places(u) \cap call[w].keys = {} /\ Places(w) \cap call[u].keys = {}
    BY <2>1, <2>2
  <2>7. Places(u) \cap Holders(w) = {} /\ Places(w) \cap Holders(u) = {}
    BY <2>2, <2>4, NamesDiffer
  <2>8. QED
    BY <2>1, <2>3, <2>4, <2>5, <2>6, <2>7
<1>2. QED
  BY <1>1, IndInv, PTL

(* Work prepared outside the lock starts only on a plan that is still true: no *)
(* key of it was written since the caller read the state it planned with.      *)
THEOREM FreshPlans == Spec => PlansAreFresh
<1>1. IInv /\ [Next]_vars =>
        [\A w \in Workers : ~Working(w) /\ Working(w)' /\ call[w].planned
                            => call[w].keys \cap stale[w] = {}]_vars
  <2> SUFFICES ASSUME IInv, [Next]_vars, NEW w \in Workers, ~Working(w), Working(w)', call[w].planned
               PROVE  call[w].keys \cap stale[w] = {}
    OBVIOUS
  <2>1. StartWork(w)
    <3>0. call \in [Workers -> Call] /\ call[w] \in Call
      BY DEF IInv, TypeOK
    <3>1. ASSUME NEW x \in Workers, x # w, FinishWork(x) PROVE FALSE
      BY <3>1, FinishWorkEffect DEF IInv, Kept, Working
    <3>2. ASSUME NEW x \in Workers, x # w, StartWork(x) PROVE FALSE
      BY <3>2, StartWorkEffect DEF IInv, Kept, Working
    <3>3. ASSUME NEW x \in Workers, NEW c, call' = [Released(call, x) EXCEPT ![x] = c], c.pc # "working"
          PROVE  FALSE
      <4>1. TypeOK
        BY DEF IInv
      <4>2. call'[x] = c /\ \A y \in Workers \ {x} : Kept(y)
        BY <3>3, <4>1, LateEffect
      <4>3. QED
        BY <3>3, <4>2 DEF Kept, Working
    <3>4. FinishWork(w) => FALSE
      BY DEF FinishWork
    <3>5. ASSUME NEW x \in Workers, RetryDiscovery(x) PROVE FALSE
      <4>1. Discovery(x, call[x].named, call[x].attempt + 1).pc # "working"
        BY DiscoveryShape DEF IInv
      <4>2. QED
        BY <3>3, <3>5, <4>1 DEF RetryDiscovery
    <3>6. ASSUME NEW x \in Workers, GiveUp(x) PROVE FALSE
      <4>1. NoCall.pc # "working"
        BY DEF NoCall
      <4>2. QED
        BY <3>3, <3>6, <4>1 DEF GiveUp
    <3>7. ASSUME NEW x \in Workers, Watch(x) PROVE FALSE
      BY <3>0, <3>7 DEF Watch, NoCall, Working
    <3>8. ASSUME NEW x \in Workers, Plan(x) PROVE FALSE
      BY <3>0, <3>8 DEF Plan, Working, Call
    <3>9. ASSUME NEW x \in Workers, NEW named \in Jobs, WithSyncState(x, named) PROVE FALSE
      <4>1. Discovery(x, named, 1).pc # "working"
        BY DiscoveryShape DEF IInv
      <4>2. QED
        BY <3>0, <3>9, <4>1 DEF WithSyncState, Working
    <3>10. ASSUME NEW x \in Workers, NEW p \in Paths, ResolvePath(x, p) PROVE FALSE
      <4>1. call[x] \in Call
        BY <3>0
      <4>2. Visit(call[x], call[x].todo \ {p}, call[x].keys \cup Owners(p)).pc # "working"
        BY <4>1 DEF Visit, Call
      <4>3. call' = [call EXCEPT ![x] = Visit(call[x], call[x].todo \ {p}, call[x].keys \cup Owners(p))]
        BY <3>10 DEF ResolvePath
      <4>4. QED
        BY <3>0, <4>2, <4>3 DEF Working
    <3>11. ASSUME NEW x \in Workers, NEW e \in Entries, ResolveEntry(x, e) PROVE FALSE
      <4>1. call[x] \in Call
        BY <3>0
      <4>2. call'[x].pc = call[x].pc /\ \A y \in Workers \ {x} : call'[y] = call[y]
        BY <3>0, <3>11, <4>1 DEF ResolveEntry, Call
      <4>3. QED
        BY <4>2 DEF Working
    <3>12. ASSUME NEW x \in Workers, Enqueue(x) PROVE FALSE
      <4>1. call[x] \in Call
        BY <3>0
      <4>2. call'[x].pc = "queued" /\ \A y \in Workers \ {x} : call'[y] = call[y]
        BY <3>0, <3>12, <4>1 DEF Enqueue, Call
      <4>3. QED
        BY <4>2 DEF Working
    <3>13. call' # call
      BY DEF Working
    <3>14. QED
      BY <3>1, <3>2, <3>4, <3>5, <3>6, <3>7, <3>8, <3>9, <3>10, <3>11, <3>12, <3>13
         DEF Next, Step, Move, CreateEntry, vars
  <2>2. /\ call[w].pc = "queued" /\ call[w].keys \cap call[w].found = {}
        /\ call[w].keys \cap call[w].early = {} /\ call[w].todo = {}
    BY <2>1 DEF StartWork, TurnCame, Current, IInv, Line, CallShapes, CallShape
  <2>3. Located(w, call[w].keys \cap Entries)
    <3>1. Located(w, (call[w].keys \cap Entries) \ call[w].todo)
      BY <2>2 DEF IInv, Snapshots, LookedUpIsTrue
    <3>2. QED
      BY <2>2, <3>1 DEF Located
  <2>4. ASSUME NEW k \in call[w].keys \cap stale[w] PROVE FALSE
    <3>1. k \in call[w].early \/ (k \in Entries /\ pathOf[k] \in call[w].early)
      BY <2>2 DEF IInv, Snapshots, WrittenIsTold
    <3>2. k \in Entries /\ pathOf[k] \in call[w].early
      BY <2>2, <3>1
    <3>3. pathOf[k] \in call[w].keys \cup {NoPath}
      BY <2>3, <3>2 DEF Located
    <3>4. NoPath \notin call[w].early
      BY NamesDiffer DEF IInv, TypeOK, Call, Keys
    <3>5. QED
      BY <2>2, <3>2, <3>3, <3>4
  <2>5. QED
    BY <2>4
<1>2. QED
  BY <1>1, IndInv, PTL DEF Spec, PlansAreFresh

-----------------------------------------------------------------------------
(* The lock that run() is.                                                    *)

Wanted == [w \in Workers |-> IF InLine(w) THEN call[w].keys ELSE {}]
Granted == {w \in Workers : Working(w)}

(* A step that leaves the line as it is.                                       *)
LEMMA LockStutter ==
  ASSUME before' = before,
         \A u \in Workers : /\ InLine(u)' <=> InLine(u)
                            /\ Working(u)' <=> Working(u)
                            /\ InLine(u) => call'[u].keys = call[u].keys
  PROVE  UNCHANGED Lock!vars
<1>1. Wanted' = Wanted
  BY DEF Wanted
<1>2. Granted' = Granted
  BY DEF Granted
<1>3. QED
  BY <1>1, <1>2 DEF Wanted, Granted, Lock!vars

(* A request that leaves the line, after its work or without it.               *)
LEMMA LockRelease ==
  ASSUME TypeOK, Line, NEW w \in Workers, InLine(w), ~InLine(w)', LeaveLine(w),
         \A u \in Workers \ {w} : Kept(u)
  PROVE  Lock!Release(w)
<1>1. Wanted' = [Wanted EXCEPT ![w] = {}]
  BY DEF Wanted, Kept, InLine
<1>2. Granted' = Granted \ {w}
  BY DEF Granted, Kept, InLine, Working
<1>3. Wanted[w] # {}
  BY DEF Wanted, Line, CallShapes, CallShape, InLine, Working, Resolving
<1>4. before' = {r \in before : w \notin {r[1], r[2]}}
  BY DEF LeaveLine
<1>5. QED
  BY <1>1, <1>2, <1>3, <1>4 DEF Wanted, Granted, Lock!Release, Lock!Waiting

(* A request that queues arrives at the lock.                                 *)
LEMMA LockRequest ==
  ASSUME TypeOK, Line, NEW w \in Workers, Enqueue(w), NEW keys, keys = call[w].keys
  PROVE  Lock!Request(w, keys)
<1>1. call \in [Workers -> Call] /\ call[w] \in Call
  BY DEF TypeOK
<1>2. /\ call[w].pc = "entries" /\ call'[w].pc = "queued" /\ call'[w].keys = call[w].keys
      /\ \A u \in Workers \ {w} : call'[u] = call[u]
  BY <1>1 DEF Enqueue, Call
<1>3. call[w].keys # {} /\ Wanted[w] = {}
  BY <1>2 DEF Wanted, Line, CallShapes, CallShape, Resolving, InLine
<1>4. Wanted' = [Wanted EXCEPT ![w] = call[w].keys]
  BY <1>2 DEF Wanted, InLine
<1>5. Granted' = Granted
  BY <1>2 DEF Granted, Working
<1>6. \A x \in Workers : InLine(x) <=> Wanted[x] # {}
  BY DEF Wanted, Line, CallShapes, CallShape, InLine, Working, Resolving
<1>7. before' = before \cup {<<u, w>> : u \in {x \in Workers : Wanted[x] # {}}}
  BY <1>6 DEF Enqueue
<1>8. QED
  BY <1>3, <1>4, <1>5, <1>7 DEF Wanted, Granted, Lock!Request, Lock!Waiting

(* A request that waits for nobody has no earlier rival left: the lock may grant it.*)
LEMMA LockGrant ==
  ASSUME TypeOK, Line, NEW w \in Workers, StartWork(w)
  PROVE  Lock!Grant(w)
<1>1. /\ call[w].pc = "queued" /\ call[w].preds = {} /\ before' = before
      /\ call'[w].pc = "working" /\ call'[w].keys = call[w].keys
  <2>1. call[w].pc = "queued" /\ call[w].preds = {} /\ before' = before
    BY DEF StartWork, TurnCame
  <2>2. call'[w].pc = "working" /\ call'[w].keys = call[w].keys
    BY StartWorkEffect DEF NoCall
  <2>3. QED
    BY <2>1, <2>2
<1>2. \A u \in Workers \ {w} : call'[u].pc = call[u].pc /\ call'[u].keys = call[u].keys
  BY StartWorkEffect DEF Kept
<1>3. Wanted' = Wanted
  BY <1>1, <1>2 DEF Wanted, InLine
<1>4. Granted' = Granted \cup {w} /\ w \notin Granted
  BY <1>1, <1>2 DEF Granted, Working
<1>5. Wanted[w] # {}
  BY <1>1 DEF Wanted, Line, CallShapes, CallShape, InLine, Resolving
<1>6. ASSUME NEW u \in Workers, <<u, w>> \in before PROVE Wanted[u] \cap Wanted[w] = {}
  <2>1. call[u].keys \cap call[w].keys = {}
    BY <1>1, <1>6 DEF Line, Queue, EarlierAwaited
  <2>2. QED
    BY <2>1 DEF Wanted
<1>7. QED
  BY <1>1, <1>3, <1>4, <1>5, <1>6 DEF Wanted, Granted, Lock!Grant, Lock!Waiting, Lock!Conflict

(* run() serves the requests for keys as KeyLock says: those that conflict one *)
(* after the other, in the order in which they queued.                         *)
THEOREM RunImplementsLock == Spec => ImplementsKeyLock
<1>1. Init => Lock!Init
  <2> SUFFICES ASSUME Init PROVE Lock!Init
    OBVIOUS
  <2>1. \A w \in Workers : ~InLine(w) /\ ~Working(w)
    BY DEF Init, NoCall, InLine, Working
  <2>2. QED
    BY <2>1 DEF Init, Lock!Init
<1>2. IInv /\ [Next]_vars => [Lock!Next]_(Lock!vars)
  <2> SUFFICES ASSUME IInv, [Next]_vars PROVE Lock!Next \/ UNCHANGED Lock!vars
    OBVIOUS
  <2>0. TypeOK /\ Line /\ call \in [Workers -> Call]
    BY DEF IInv, TypeOK
  <2>1. ASSUME UNCHANGED <<call, before>> PROVE UNCHANGED Lock!vars
    BY <2>1, LockStutter DEF InLine, Working
  <2>2. ASSUME NEW w \in Workers, ~InLine(w), ~InLine(w)', before' = before,
               \A u \in Workers \ {w} : call'[u] = call[u]
        PROVE  UNCHANGED Lock!vars
    <3>1. \A u \in Workers : /\ InLine(u)' <=> InLine(u)
                             /\ Working(u)' <=> Working(u)
                             /\ InLine(u) => call'[u].keys = call[u].keys
      BY <2>2 DEF InLine, Working
    <3>2. QED
      BY <2>2, <3>1, LockStutter
  <2>3. ASSUME NEW w \in Workers, Watch(w) PROVE UNCHANGED Lock!vars
    BY <2>0, <2>2, <2>3 DEF Watch, NoCall, InLine
  <2>4. ASSUME NEW w \in Workers, Plan(w) PROVE UNCHANGED Lock!vars
    <3>1. call[w] \in Call /\ call'[w] = [call[w] EXCEPT !.pc = "planned"]
      BY <2>0, <2>4 DEF Plan
    <3>2. ~InLine(w) /\ ~InLine(w)'
      BY <2>4, <3>1 DEF Plan, InLine, Call
    <3>3. QED
      BY <2>0, <2>2, <2>4, <3>2 DEF Plan
  <2>5. ASSUME NEW w \in Workers, NEW named \in Jobs, WithSyncState(w, named) PROVE UNCHANGED Lock!vars
    <3>1. ~InLine(w) /\ ~InLine(w)'
      BY <2>0, <2>5, DiscoveryShape DEF WithSyncState, InLine
    <3>2. QED
      BY <2>0, <2>2, <2>5, <3>1 DEF WithSyncState
  <2>6. ASSUME NEW w \in Workers, NEW p \in Paths, ResolvePath(w, p) PROVE UNCHANGED Lock!vars
    <3>1. call[w] \in Call /\ call'[w] = Visit(call[w], call[w].todo \ {p}, call[w].keys \cup Owners(p))
      BY <2>0, <2>6 DEF ResolvePath
    <3>2. ~InLine(w) /\ ~InLine(w)'
      BY <2>6, <3>1 DEF ResolvePath, Visit, InLine, Call
    <3>3. QED
      BY <2>0, <2>2, <2>6, <3>2 DEF ResolvePath
  <2>7. ASSUME NEW w \in Workers, NEW e \in Entries, ResolveEntry(w, e) PROVE UNCHANGED Lock!vars
    <3>1. call[w] \in Call /\ call'[w].pc = call[w].pc
      BY <2>0, <2>7 DEF ResolveEntry, Call
    <3>2. ~InLine(w) /\ ~InLine(w)'
      BY <2>7, <3>1 DEF ResolveEntry, InLine
    <3>3. QED
      BY <2>0, <2>2, <2>7, <3>2 DEF ResolveEntry
  <2>8. ASSUME NEW w \in Workers, Enqueue(w) PROVE Lock!Next
    <3>1. PICK keys \in SUBSET Keys : keys = call[w].keys
      BY <2>0 DEF Call
    <3>2. Lock!Request(w, keys)
      BY <2>0, <2>8, <3>1, LockRequest
    <3>3. QED
      BY <3>2 DEF Lock!Next
  <2>9. ASSUME NEW w \in Workers, StartWork(w) PROVE Lock!Next
    <3>1. Lock!Grant(w)
      BY <2>0, <2>9, LockGrant
    <3>2. QED
      BY <3>1 DEF Lock!Next
  <2>10. ASSUME NEW w \in Workers, NEW c, TurnCame(w), LeaveLine(w),
                call' = [Released(call, w) EXCEPT ![w] = c], c.pc \notin {"queued", "working"}
         PROVE  Lock!Next
    <3>1. call'[w] = c /\ \A u \in Workers \ {w} : Kept(u)
      BY <2>0, <2>10, LateEffect
    <3>2. Lock!Release(w)
      BY <2>0, <2>10, <3>1, LockRelease DEF TurnCame, InLine
    <3>3. QED
      BY <3>2 DEF Lock!Next
  <2>11. ASSUME NEW w \in Workers, RetryDiscovery(w) PROVE Lock!Next
    <3>1. Discovery(w, call[w].named, call[w].attempt + 1).pc \notin {"queued", "working"}
      BY <2>0, DiscoveryShape
    <3>2. QED
      BY <2>10, <2>11, <3>1 DEF RetryDiscovery
  <2>12. ASSUME NEW w \in Workers, GiveUp(w) PROVE Lock!Next
    <3>1. NoCall.pc \notin {"queued", "working"}
      BY DEF NoCall
    <3>2. QED
      BY <2>10, <2>12, <3>1 DEF GiveUp
  <2>13. ASSUME NEW w \in Workers, FinishWork(w) PROVE Lock!Next
    <3>1. /\ call'[w].pc = "idle" /\ Working(w) /\ LeaveLine(w)
          /\ \A u \in Workers \ {w} : Kept(u)
      <4>1. Working(w) /\ LeaveLine(w)
        BY <2>13 DEF FinishWork
      <4>2. call'[w] = NoCall /\ \A u \in Workers \ {w} : Kept(u)
        BY <2>0, <2>13, FinishWorkEffect
      <4>3. NoCall.pc = "idle"
        BY DEF NoCall
      <4>4. QED
        BY <4>1, <4>2, <4>3
    <3>2. Lock!Release(w)
      BY <2>0, <3>1, LockRelease DEF Working, InLine
    <3>3. QED
      BY <3>2 DEF Lock!Next
  <2>14. QED
    BY <2>1, <2>3, <2>4, <2>5, <2>6, <2>7, <2>8, <2>9, <2>11, <2>12, <2>13
       DEF Next, Step, Move, CreateEntry, vars
<1>3. QED
  BY <1>1, <1>2, IndInv, PTL DEF Spec, ImplementsKeyLock, Lock!Spec

=============================================================================

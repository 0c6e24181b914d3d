------------------------------ MODULE PullPlan -------------------------------
(***************************************************************************)
(* How a device applies what other devices did to several entries: renames *)
(* and swaps, entries that meet at one path, local files and edits in the  *)
(* way.  PullManifestPlanner plans a window of listed states, the plans    *)
(* are grouped by the entries and paths they touch, and each group is      *)
(* applied to the vault and the store (PullEntryStateApplier), while the   *)
(* user works and reconcile records what it finds.                         *)
(*                                                                         *)
(* A group is applied as one step: StateCoordinator shows that it is, and  *)
(* a plan that others' work made stale is made again.  Files are not       *)
(* merged (LocalEdits has one mergeable file) and the user's own steps are *)
(* recorded with them.  Push is one step.                                  *)
(***************************************************************************)
EXTENDS Naturals, FiniteSets, FiniteSetsExt, Functions

CONSTANTS
    Theirs, Mine,       \* entry ids of other devices and of this one
    Paths, Texts,
    Managed,            \* shouldUseLatestRemoteVersion: the vault's settings
    Refused,            \* shouldApplyRemotePath says no
    None,
    PageSize,           \* DEFAULT_PULL_BATCH, no more than the apply window
    MaxCopies, MaxSeq, MaxEdits, MaxFailures,  \* bounds
    TheyMove,           \* other devices rename entries
    UserMoves,          \* the user renames and deletes files
    UserReuses,         \* and puts new ones where a renamed one was
    Meet,               \* several entries are given one path
    Restores,           \* other devices restore deleted entries
    Flickers,           \* files come and go where a renamed one was
    SameSecond          \* planning and preparing share their time stamp

ASSUME PullPlanAssumption ==
    /\ Theirs \cap Mine = {}
    /\ Managed \cup Refused \subseteq Paths /\ Managed \cap Refused = {}
    /\ PageSize \in Nat \ {0} /\ MaxCopies \in Nat \ {0}
    /\ {MaxSeq, MaxEdits, MaxFailures} \subseteq Nat
    /\ {TheyMove, UserMoves, UserReuses, Meet, Restores, Flickers,
        SameSecond} \subseteq BOOLEAN

Entries == Theirs \cup Mine
\* A conflict copy is named after its file.  Conflict copies are not synced.
Copies == Paths \X (1..MaxCopies)
AllPaths == Paths \cup Copies
Original(p) == IF p \in Copies THEN p[1] ELSE p
Synced == Paths \ Refused

VARIABLES
    server,         \* the state of each entry at the coordinator, or None
    seq,            \* its cursor
    past,           \* the paths and texts entries have had there
    rem, loc,       \* remoteKnown and localKnown states of each entry
    dirty,          \* its pending mutation
    vault,          \* the text at each path, None where there is no file
    cursor,         \* lastPulledCursor
    pull,           \* pullOnce
    mine,           \* history: the texts the user has written and not removed
    removed,        \* history: the entries whose files the user has deleted
    edits, failures \* what happened so far, for the bounds

store == <<rem, loc, dirty>>
remote == <<server, seq, past>>
history == <<mine, removed>>
vars == <<remote, store, vault, cursor, pull, history, edits, failures>>

NoPull == [on |-> FALSE, owed |-> FALSE, applying |-> FALSE, ready |-> FALSE, more |-> FALSE,
           final |-> FALSE, target |-> 0, after |-> 0, page |-> {},
           window |-> {}, done |-> {}]
\* A pull that failed is tried again before anything is pushed.
PullOwed == [NoPull EXCEPT !.owed = TRUE]

Init ==
    /\ server = [e \in Entries |-> None] /\ seq = 0 /\ past = {}
    /\ rem = [e \in Entries |-> None] /\ loc = rem /\ dirty = rem
    /\ vault = [p \in AllPaths |-> None]
    /\ cursor = 0 /\ pull = NoPull /\ mine = {} /\ removed = {}
    /\ edits = 0 /\ failures = 0

-----------------------------------------------------------------------------
(* The store.                                                               *)

\* toCombinedEntryRow()
Row(e) == IF loc[e] # None THEN loc[e] ELSE rem[e]
Known(e) == Row(e) # None
Rev(e) == IF rem[e] = None THEN 0 ELSE rem[e].rev

LocalAt(p) == {e \in Entries : loc[e] # None /\ ~loc[e].deleted /\ loc[e].path = p}

\* getRemoteStateByPath()
RemoteAt(p) == {e \in Entries : rem[e] # None /\ ~rem[e].deleted /\ rem[e].path = p}

\* getEntryByPath(): the entry shown at a path, if any.
OwnersOf(p) ==
    IF LocalAt(p) # {} THEN LocalAt(p)
    ELSE {e \in RemoteAt(p) : loc[e] = None \/ loc[e].path = p}

Files == {p \in AllPaths : vault[p] # None}

State(i, p) == [rev |-> i.rev, path |-> p, text |-> i.text, deleted |-> i.deleted]
LocalState(p, t) == [path |-> p, text |-> t, deleted |-> FALSE]
LocallyGone == [path |-> None, text |-> None, deleted |-> TRUE]
Pending(op, p, t, base) ==      \* at: createdAt
    [op |-> op, path |-> p, text |-> t, base |-> base, at |-> edits]
Forgotten == [rem |-> None, loc |-> None, dirty |-> None]

-----------------------------------------------------------------------------
(* Other devices and push.                                                  *)

Commit(e, p, t, gone) ==
    /\ seq' = seq + 1
    /\ server' = [server EXCEPT ![e] =
         [e |-> e, rev |-> IF @ = None THEN 1 ELSE @.rev + 1,
          path |-> p, text |-> t, deleted |-> gone, seq |-> seq + 1]]
    /\ past' = IF gone THEN past ELSE past \cup {<<e, p, t>>}

\* No other entry has, or has had, that path.
Fresh(e, p) == \A f \in Entries \ {e} :
                 /\ \A t \in Texts : <<f, p, t>> \notin past
                 /\ loc[f] # None => loc[f].path # p
                 /\ dirty[f] # None => dirty[f].path # p

\* Another device creates, edits, renames or restores an entry, or deletes it.
theyCommit(e, p, t, gone) ==
    /\ seq < MaxSeq
    /\ IF server[e] = None THEN e \in Theirs /\ ~gone
       ELSE IF server[e].deleted THEN Restores /\ ~gone /\ <<e, p, t>> \in past
       ELSE /\ gone => p = server[e].path /\ t = server[e].text
            /\ gone \/ p # server[e].path \/ t # server[e].text
            /\ TheyMove \/ p = server[e].path
    /\ Meet \/ Fresh(e, p)
    /\ Commit(e, p, IF gone THEN None ELSE t, gone)
    /\ UNCHANGED <<store, vault, cursor, pull, history, edits, failures>>

\* The store's unique indexes over the paths of live remote and local states.
Taken(records, p, e) ==
    \E f \in Entries \ {e} : \E r \in {records[f].rem, records[f].loc} :
       r # None /\ ~r.deleted /\ r.path = p
Records == [e \in Entries |-> [rem |-> rem[e], loc |-> loc[e], dirty |-> dirty[e]]]
RemTaken(records, p, e) ==
    Taken([f \in Entries |-> [records[f] EXCEPT !.loc = None]], p, e)

\* Faulty variant: at once, whatever the entry's last state is.
pushAnyway(e) ==
    /\ ~pull.on /\ dirty[e] # None /\ seq < MaxSeq
    /\ Commit(e, dirty[e].path, dirty[e].text, dirty[e].op = "delete")
    /\ rem' = [rem EXCEPT ![e] = [rev |-> server'[e].rev, path |-> dirty[e].path,
                                  text |-> dirty[e].text, deleted |-> dirty[e].op = "delete"]]
    /\ dirty' = [dirty EXCEPT ![e] = None]
    /\ UNCHANGED <<loc, vault, cursor, pull, history, edits, failures>>

\* The coordinator accepts the oldest pending mutation that was made on its
\* entry's last state.  The store may refuse what came of it.
push(e) ==
    /\ ~pull.on /\ ~pull.owed /\ dirty[e] # None /\ seq < MaxSeq
    /\ \A f \in Entries : dirty[f] # None => dirty[e].at <= dirty[f].at
    /\ dirty[e].base = IF server[e] = None THEN 0 ELSE server[e].rev
    /\ LET d == dirty[e]
            gone == d.op = "delete"
        IN /\ Commit(e, d.path, d.text, gone)
           /\ IF ~gone /\ RemTaken(Records, d.path, e)
              THEN UNCHANGED store
              ELSE /\ rem' = [rem EXCEPT ![e] = [rev |-> server'[e].rev, path |-> d.path,
                                                text |-> d.text, deleted |-> gone]]
                   /\ dirty' = [dirty EXCEPT ![e] = None]
                   /\ UNCHANGED loc
    /\ UNCHANGED <<vault, cursor, pull, history, edits, failures>>

-----------------------------------------------------------------------------
(* The user, recorded by SyncEventRecorder.                                 *)

\* findPendingDeleteLocalEntryByPath()
PendingDeleteAt(p) == {e \in Entries : dirty[e] # None /\ dirty[e].op = "delete"
                                      /\ dirty[e].path = p}

\* Such an entry, or the entry shown there, or a new one.
EntryFor(p) ==
    LET unused == {e \in Mine : ~Known(e) /\ dirty[e] = None /\ server[e] = None}
    IN CASE LocalAt(p) # {} -> LocalAt(p)
         [] PendingDeleteAt(p) # {} -> PendingDeleteAt(p)
         [] OwnersOf(p) # {} -> OwnersOf(p)
         [] OTHER -> unused

RecordUpsert(e, p, t) ==
    /\ dirty' = [dirty EXCEPT ![e] = Pending("upsert", p, t, Rev(e))]
    /\ loc' = [loc EXCEPT ![e] = LocalState(p, t)]
    /\ UNCHANGED rem

\* recordDelete(): an entry the coordinator never had is forgotten.
RecordDelete(e, p) ==
    IF Rev(e) = 0
    THEN /\ loc' = [loc EXCEPT ![e] = None]
         /\ dirty' = [dirty EXCEPT ![e] = None]
         /\ rem' = [rem EXCEPT ![e] = None]
    ELSE /\ loc' = [loc EXCEPT ![e] = LocallyGone]
         /\ dirty' = [dirty EXCEPT ![e] = Pending("delete", p, None, Rev(e))]
         /\ UNCHANGED rem

\* What the user's step at p leaves of the texts to keep: not the one there,
\* unless it is elsewhere too.
Without(p) == mine \ {t \in mine : vault[p] = t
                                   /\ \A q \in Files \ {p} : vault[q] # t}
Keep(p, t) == IF p \in Managed THEN {} ELSE {t}

UserMay == edits < MaxEdits /\ edits' = edits + 1
                            /\ UNCHANGED <<remote, cursor, pull, failures>>

MovedAway(p) == \E e \in RemoteAt(p) : loc[e] # None /\ loc[e].path # p /\ ~loc[e].deleted

userWrites(p, t) ==
    /\ UserMay /\ vault[p] # t /\ (MovedAway(p) => UserReuses)
    /\ vault' = [vault EXCEPT ![p] = t]
    /\ mine' = Without(p) \cup Keep(p, t)
    /\ \E e \in EntryFor(p) : (Meet \/ Fresh(e, p)) /\ RecordUpsert(e, p, t)
    /\ UNCHANGED removed

userRenames(p, q) ==
    /\ UserMay /\ UserMoves /\ vault[p] # None /\ vault[q] = None
    /\ MovedAway(q) => UserReuses
    /\ vault' = [vault EXCEPT ![p] = None, ![q] = vault[p]]
    /\ \E e \in LocalAt(p) : (Meet \/ Fresh(e, q)) /\ RecordUpsert(e, q, vault[p])
    /\ mine' = IF q \in Managed THEN Without(p) ELSE mine
    /\ UNCHANGED removed

userDeletes(p) ==
    /\ UserMay /\ UserMoves /\ vault[p] # None
    /\ vault' = [vault EXCEPT ![p] = None]
    /\ mine' = Without(p)
    /\ \E e \in LocalAt(p) : RecordDelete(e, p) /\ removed' = removed \cup {e}

\* A file is made and deleted again before it is read: recordDelete() takes the
\* entry the coordinator has at that path.
userFlickers(p) ==
    /\ UserMay /\ vault[p] = None /\ LocalAt(p) = {} /\ (MovedAway(p) => Flickers)
    /\ \E e \in RemoteAt(p) : RecordDelete(e, p)
    /\ UNCHANGED <<vault, history>>

-----------------------------------------------------------------------------
(* Reconcile: what is on disk against what is recorded.                     *)

Unrecorded == {p \in Files \cap Synced : \A e \in LocalAt(p) : loc[e].text # vault[p]}
Missing == {e \in Entries : loc[e] # None /\ ~loc[e].deleted
                            /\ loc[e].path \in Synced \ Files}

\* A changed file is its entry's, one that has moved its old entry's, another
\* one's is a new entry.
ReconcileTo(p) ==
    LET moved == {e \in Missing : loc[e].text = vault[p]}
    IN IF LocalAt(p) = {} /\ PendingDeleteAt(p) = {} /\ moved # {} THEN moved
       ELSE EntryFor(p)

reconcileOnce ==
    /\ Unrecorded \cup Missing # {}
    /\ \E who \in {f \in [Unrecorded -> Entries] :
                     /\ IsInjective(f)
                     /\ \A p \in Unrecorded : f[p] \in ReconcileTo(p)} :
         LET at == Inverse(who, Unrecorded, Entries)
             seen == Range(who)
             gone == Missing \ seen
         IN /\ loc' = [e \in Entries |->
                  IF e \in seen THEN LocalState(at[e], vault[at[e]])
                  ELSE IF e \notin gone THEN loc[e]
                  ELSE IF Rev(e) = 0 THEN None ELSE LocallyGone]
            /\ dirty' = [e \in Entries |->
                  IF e \in seen
                  THEN Pending("upsert", at[e], vault[at[e]], Rev(e))
                  ELSE IF e \notin gone THEN dirty[e]
                  ELSE IF Rev(e) = 0 THEN None
                  ELSE Pending("delete", loc[e].path, None, Rev(e))]
            /\ rem' = [e \in Entries |-> IF e \in gone /\ Rev(e) = 0 THEN None
                                         ELSE rem[e]]
    /\ UNCHANGED <<remote, vault, cursor, pull, history, edits, failures>>

-----------------------------------------------------------------------------
(* SyncPullService: pages and windows.                                      *)

\* The states listed after what has been fetched, page by page.
Listed == {server[e] : e \in {f \in Entries : server[f] # None}}
After(from, to) == {i \in Listed : i.seq > from /\ i.seq <= to}
PageOf(items) == {i \in items : Cardinality({j \in items : j.seq < i.seq}) < PageSize}

Fetched(p, from, to) ==
    LET items == After(from, to)
        page == PageOf(items)
    IN [p EXCEPT !.page = page, !.ready = TRUE, !.more = page # items,
                 !.target = to, !.after = IF page = {} THEN from
                                          ELSE Max({i.seq : i \in page})]

PullOnly == UNCHANGED <<remote, store, vault, history, edits, failures>>

pullStart ==
    /\ ~pull.on /\ (cursor < seq \/ pull.owed)
    /\ pull' = [Fetched(NoPull, cursor, seq) EXCEPT !.on = TRUE]
    /\ UNCHANGED cursor /\ PullOnly

\* One page is fetched while the last one is applied.
pullPrefetch ==
    /\ pull.on /\ pull.more /\ ~pull.ready
    /\ pull' = Fetched(pull, pull.after, pull.target)
    /\ UNCHANGED cursor /\ PullOnly

\* Faulty variant: every page is taken for the last.
pullTakeFinal ==
    /\ pull.on /\ pull.ready /\ ~pull.applying
    /\ pull' = [pull EXCEPT !.window = @ \cup pull.page, !.page = {}, !.ready = FALSE,
                            !.applying = TRUE, !.final = TRUE]
    /\ UNCHANGED cursor /\ PullOnly
pullTake ==
    /\ pull.on /\ pull.ready /\ ~pull.applying
    /\ pull' = [pull EXCEPT !.window = @ \cup pull.page, !.page = {}, !.ready = FALSE,
                            !.applying = TRUE, !.final = ~pull.more]
    /\ UNCHANGED cursor /\ PullOnly

-----------------------------------------------------------------------------
(* PullManifestPlanner.                                                     *)

Ids(items) == {i.e : i \in items}
Earlier(items, i) == {j \in items : j.seq < i.seq}
Free(paths, p) == {k \in 1..MaxCopies : <<Original(p), k>> \notin paths}
\* getAvailableConflictCopyPath(), the nth free one.
FreeCopy(paths, p, n) ==
    <<Original(p), CHOOSE k \in Free(paths, p) :
                     Cardinality({m \in Free(paths, p) : m <= k}) = n>>

Adopts(i, o) ==         \* findAdoptableLocalPathOwner()
    /\ ~i.deleted /\ o # i.e /\ Rev(o) = 0 /\ Row(o).path = i.path /\ ~Row(o).deleted
    /\ dirty[o] # None /\ dirty[o].op = "upsert" /\ dirty[o].path = i.path

\* Entries that have the path of a state and neither move nor are adopted.
External(i, moving) ==
    IF i.deleted THEN {}
    ELSE {o \in OwnersOf(i.path) : o # i.e /\ o \notin moving /\ ~Adopts(i, o)}

ShownAt(e) == IF Known(e) THEN Row(e).path ELSE None
HasFile(e) == ShownAt(e) # None /\ ~Row(e).deleted

\* Faulty variant: the first state wins it.
OverruledByFirst(i, states) ==
    /\ i.path \in Managed
    /\ \E j \in states : /\ ~j.deleted /\ j.path = i.path /\ j.e # i.e
                         /\ i.deleted \/ j.seq < i.seq

\* The latest live state at a managed path wins it.
Overruled(i, states) ==
    /\ i.path \in Managed
    /\ \E j \in states : /\ ~j.deleted /\ j.path = i.path /\ j.e # i.e
                         /\ i.deleted \/ j.seq > i.seq

\* Faulty variant: nothing waits.
WaitingNone(active) == {}

\* What waits for a later page, as the owner of its path may move there.
Waiting(active) ==
    LET closed(D) == \A i \in active \ D : i.path \in Managed \/ External(i, Ids(active \ D)) = {}
    IN IF pull.final THEN {}
       ELSE CHOOSE D \in SUBSET active : closed(D)
              /\ \A E \in SUBSET active : closed(E) => D \subseteq E

\* What becomes of a state: its path, or a conflict copy if another state or an
\* entry that stays has that.
PlanFor(i, planned, delta) ==
    LET collides(j) == /\ ~j.deleted /\ j.path \notin Managed
                       /\ \/ External(j, delta) # {}
                          \/ \E k \in Earlier(planned, j) :
                               ~k.deleted /\ k.path = j.path /\ External(k, delta) = {}
        before == {j \in Earlier(planned, i) : collides(j) /\ Original(j.path) = Original(i.path)}
        final == IF i.deleted THEN None ELSE IF ~collides(i) THEN i.path
                 ELSE FreeCopy(Files, i.path, 1 + Cardinality(before))
        adopted == {o \in OwnersOf(i.path) : Adopts(i, o)}
        same == \E o \in adopted : dirty[o].text = i.text /\ Row(o).text = i.text
    IN [e |-> i.e, seq |-> i.seq, state |-> i, final |-> final,
        adopted |-> adopted, same |-> same,
        move |->                                        \* planVaultMove()
          /\ ~i.deleted /\ ~collides(i) /\ HasFile(i.e) /\ adopted = {} /\ dirty[i.e] = None
          /\ ShownAt(i.e) # final /\ ShownAt(i.e) \in Files /\ final \notin Files,
        overtaken |-> IF i.path \in Managed THEN External(i, delta) ELSE {},
        skip |->                                        \* markAlreadyCurrentVaultWrites()
          \/ same /\ final = i.path
          \/ /\ ~i.deleted /\ ~collides(i) /\ adopted = {} /\ dirty[i.e] = None
             /\ rem[i.e] = State(i, final) /\ loc[i.e] = LocalState(final, i.text)]

\* What waits holds back all that comes after it, for the cursor's sake.
PlanManifest ==
    LET valid == {i \in pull.window : i.path \notin Refused}
        todo(items) == {i \in items : i.e \notin pull.done}
        superseded == todo({i \in valid : Overruled(i, valid)})
        active == todo(valid) \ superseded
        waiting == Waiting(active)
        held == {i \in active : \E j \in waiting : j.seq <= i.seq}
        delta == Ids(active \ held)
        late == {i \in active \ held : /\ ~pull.final /\ i.path \notin Managed
                                       /\ External(i, delta) # {}}
        planned == active \ (held \cup late)
    IN [plans |-> {PlanFor(i, planned, delta) : i \in planned},
        superseded |-> superseded, skipped |-> todo(pull.window \ valid),
        deferred |-> held \cup late]

-----------------------------------------------------------------------------
(* groupPullApplications: what shares an entry or a path goes together.     *)

UsesEntry(n, m) == {n.e}         \* Faulty variant: by entry only.
Uses(n, m) ==
    (IF n \in m.plans
     THEN {n.final, n.state.path} \cup n.adopted \cup n.overtaken ELSE {n.path})
    \cup {n.e, ShownAt(n.e)}

Rank(n, m) == n.seq + IF n \in m.plans THEN 0
                      ELSE IF n \in m.superseded THEN MaxSeq ELSE 2 * MaxSeq

\* The group of the first state that is left.
FirstGroup(m) ==
    LET nodes == m.plans \cup m.superseded \cup m.skipped
        uses == [n \in nodes |-> Uses(n, m) \ {None}]
        first == CHOOSE n \in nodes : \A o \in nodes : Rank(n, m) <= Rank(o, m)
        closed(S) == \A n \in S, o \in nodes \ S : uses[n] \cap uses[o] = {}
        group == CHOOSE S \in SUBSET nodes : first \in S /\ closed(S)
                   /\ \A T \in SUBSET nodes : first \in T /\ closed(T) => S \subseteq T
    IN [plans |-> group \cap m.plans, superseded |-> group \cap m.superseded,
        skipped |-> group \cap m.skipped, members |-> Ids(group),
        reserved |-> {n.final : n \in m.plans}]

-----------------------------------------------------------------------------
(* PullPendingMutationHandler: the local work a state meets.                *)

\* findConflictingPendingMutation(): the entry's own, or else the oldest at the
\* paths it comes to and from.
Meets(n) ==
    LET paths == {n.final, ShownAt(n.e)} \ {None}
        met == IF n.same THEN {} ELSE IF dirty[n.e] # None THEN {n.e}
               ELSE {f \in Entries : dirty[f] # None /\ dirty[f].path \in paths}
    IN {f \in met : \A g \in met : dirty[f].at <= dirty[g].at}

\* isSameEntryPendingMutationAlreadyRemote()
AlreadyRemote(n, f) ==
    /\ f = n.e
    /\ IF dirty[f].op = "delete"
       THEN n.state.deleted /\ dirty[f].path = n.state.path
       ELSE /\ ~n.state.deleted /\ dirty[f].path = n.final
            /\ dirty[f].text = n.state.text /\ vault[n.final] = n.state.text

\* prepareConflictingPendingMutation(): the mutations the group meets, and of
\* those the ones whose files are copied, for the first state that meets them.
Met(g) == UNION {Meets(n) : n \in g.plans}
CopiedNot(g) == {}      \* Faulty variant: nothing is copied.
\* Faulty variant: only the entry's own mutation is.
CopiedOwn(g) ==
    {f \in Met(g) : /\ dirty[f].op = "upsert" /\ dirty[f].path \in Files
                    /\ \E n \in g.plans : f = n.e /\ f \in Meets(n) /\ ~AlreadyRemote(n, f)}
Copied(g) ==
    {f \in Met(g) :
       /\ dirty[f].op = "upsert" /\ dirty[f].path \in Files \ Managed
       /\ \E n \in g.plans : /\ f \in Meets(n) /\ ~AlreadyRemote(n, f)
                             /\ \A o \in Earlier(g.plans, n) : f \notin Meets(o)}
CopyOf(f, g) ==
    FreeCopy(IF SameSecond THEN Files ELSE Files \cup g.reserved, dirty[f].path, 1)

-----------------------------------------------------------------------------
(* PullEntryStateApplier: the vault and the store after a group.            *)

Erase(v, S) == [p \in AllPaths |-> IF p \in S THEN None ELSE v[p]]

\* findSupersededPathsToRemove() and writeVaultBinary(), then moves and
\* pathsToRemoveForPlan(), then writes.
WithCopies(g) ==
    LET lost == {ShownAt(e) : e \in {f \in Ids(g.superseded) : HasFile(f)}} \ g.reserved
        copied == Copied(g)
    IN [p \in AllPaths |->
          IF \E f \in copied : CopyOf(f, g) = p
          THEN vault[dirty[CHOOSE f \in copied : CopyOf(f, g) = p].path]
          ELSE Erase(vault, lost)[p]]

\* Faulty variant: a file that moves stays where it was, too.
ClearedNot(v, g) ==
    LET moving == {n \in g.plans : n.move}
    IN [p \in AllPaths |->
          IF \E n \in moving : n.final = p
          THEN v[ShownAt((CHOOSE n \in moving : n.final = p).e)] ELSE v[p]]
Cleared(v, g) ==
    LET moving == {n \in g.plans : n.move}
        moved == [p \in AllPaths |->
                    IF \E n \in moving : n.final = p
                    THEN v[ShownAt((CHOOSE n \in moving : n.final = p).e)]
                    ELSE IF \E n \in moving : ShownAt(n.e) = p THEN None ELSE v[p]]
        left == {n \in g.plans \ moving : HasFile(n.e) /\ ShownAt(n.e) # n.final}
    IN Erase(moved, {ShownAt(n.e) : n \in left})

Written(v, g) ==
    LET written == {n \in g.plans : n.final # None /\ ~n.skip}
    IN [p \in AllPaths |-> IF \E n \in written : n.final = p
                           THEN (CHOOSE n \in written : n.final = p).state.text ELSE v[p]]

Applied(n) ==           \* upsertEntry()
    LET i == n.state
        path == IF i.deleted THEN i.path ELSE n.final
    IN [rem |-> State(i, path), dirty |-> None,
        loc |-> [path |-> path, text |-> i.text, deleted |-> i.deleted]]

\* applySkippedRemoteStates() and applySupersededRemoteEntries()
AfterOthers(g) ==
    LET overtaken == UNION {n.overtaken : n \in g.plans}
        of(items, e) == CHOOSE i \in items : i.e = e
    IN [e \in Entries |->
          IF e \in Ids(g.superseded)
          THEN LET i == of(g.superseded, e)
               IN [Forgotten EXCEPT !.rem = State(i, IF i.deleted THEN i.path ELSE None)]
          ELSE IF e \in overtaken
          THEN [Forgotten EXCEPT !.rem = IF rem[e] = None \/ rem[e].deleted THEN rem[e]
                                         ELSE [rem[e] EXCEPT !.path = None]]
          ELSE IF e \in Ids(g.skipped)
          THEN LET i == of(g.skipped, e) IN [Records[e] EXCEPT !.rem = State(i, i.path)]
          ELSE Records[e]]

\* applyPreparedPendingConflict(), applyAdoptedLocalEntries() and
\* clearChangingStorePaths()
\* Faulty variant: what moves keeps its path until it is written.
AfterClearingNone(g) ==
    LET adopted == UNION {n.adopted : n \in g.plans}
        others == AfterOthers(g)
    IN [e \in Entries |-> IF e \in adopted THEN Forgotten ELSE others[e]]
AfterClearing(g) ==
    LET adopted == UNION {n.adopted : n \in g.plans}
        leaving == {n.e : n \in {o \in g.plans : ShownAt(o.e) \notin {None, o.final}}}
        others == AfterOthers(g)
        met == Met(g)
    IN [e \in Entries |->
          IF e \in adopted \cup leaving THEN Forgotten
          ELSE IF e \in met THEN [others[e] EXCEPT !.dirty = None] ELSE others[e]]

AfterUpserts(records, plans) ==
    [e \in Entries |-> IF e \in Ids(plans) THEN Applied(CHOOSE n \in plans : n.e = e)
                       ELSE records[e]]

\* The store refuses a state at a path another entry still has.
RefusesSkipped(g) ==
    \E i \in g.skipped :
       ~i.deleted /\ RemTaken([e \in Entries |->
             IF e \in Ids(Earlier(g.skipped, i)) THEN AfterOthers(g)[e] ELSE Records[e]],
           i.path, i.e)
Refuses(g) ==
    \E n \in g.plans :
       n.final # None /\ Taken(AfterUpserts(AfterClearing(g), Earlier(g.plans, n)), n.final, n.e)

Restarted == pull' = PullOwed /\ UNCHANGED <<cursor, store>>

Left(m) == m.plans \cup m.superseded \cup m.skipped # {}

applyGroup(g) ==
    /\ LET records == AfterUpserts(AfterClearing(g), g.plans)
       IN IF RefusesSkipped(g) THEN Restarted /\ UNCHANGED vault
          ELSE /\ vault' = Written(Cleared(WithCopies(g), g), g)
               /\ IF Refuses(g) THEN Restarted
                  ELSE /\ rem' = [e \in Entries |-> records[e].rem]
                       /\ loc' = [e \in Entries |-> records[e].loc]
                       /\ dirty' = [e \in Entries |-> records[e].dirty]
                       /\ pull' = [pull EXCEPT !.done = @ \cup g.members]
                       /\ UNCHANGED cursor
    /\ UNCHANGED <<remote, history, edits, failures>>

MayFail == failures < MaxFailures /\ failures' = failures + 1
                                  /\ UNCHANGED <<remote, history, edits>>

\* A copy, a removal or a write fails: the records are restored, not the files.
applyFails(g) ==
    /\ MayFail /\ Restarted
    /\ LET copied == WithCopies(g)
       IN vault' \in {copied, Cleared(copied, g), Written(Cleared(copied, g), g)}

\* The session ends.
pullFails == pull.on /\ MayFail /\ Restarted /\ UNCHANGED vault

\* Faulty variants: the cursor passes what waits; the window is kept.
windowDonePast(deferred) ==
    /\ cursor' = IF pull.final THEN pull.target
                 ELSE Max({i.seq : i \in pull.window} \cup {cursor})
    /\ pull' = IF pull.final THEN NoPull
               ELSE [pull EXCEPT !.window = {}, !.done = {}, !.applying = FALSE]
    /\ PullOnly
windowDoneKept(deferred) ==
    /\ cursor' = Max({cursor} \cup {i.seq : i \in pull.window})
    /\ pull' = IF pull.final THEN [pull EXCEPT !.on = FALSE, !.applying = FALSE]
               ELSE [pull EXCEPT !.window = {}, !.done = {}, !.applying = FALSE]
    /\ PullOnly

\* getSafeCheckpointCursor()
windowDone(deferred) ==
    LET safe == IF deferred # {} THEN Min({i.seq : i \in deferred}) - 1
                ELSE IF pull.final THEN pull.target
                ELSE Max({i.seq : i \in pull.window} \cup {0})
    IN /\ cursor' = Max({cursor, safe})
       /\ pull' = IF pull.final THEN NoPull
                  ELSE [pull EXCEPT !.window = deferred, !.done = {}, !.applying = FALSE]
       /\ PullOnly

\* applyManifestWindow(): group after group, then the cursor.
applyWindow ==
    /\ pull.applying
    /\ \E m \in {PlanManifest} :
         \/ Left(m) /\ \E g \in {FirstGroup(m)} : applyGroup(g) \/ applyFails(g)
         \/ ~Left(m) /\ windowDone(m.deferred)

-----------------------------------------------------------------------------
Next ==
    \/ \E e \in Entries :
         \/ push(e)
         \/ \E p \in Paths, t \in Texts :
              theyCommit(e, p, t, FALSE) \/ theyCommit(e, p, t, TRUE)
    \/ \E p \in Synced :
         \/ \E t \in Texts : userWrites(p, t)
         \/ \E q \in Synced : userRenames(p, q)
         \/ userDeletes(p) \/ userFlickers(p)
    \/ reconcileOnce
    \/ pullStart \/ pullPrefetch \/ pullTake \/ applyWindow \/ pullFails

Spec == Init /\ [][Next]_vars

-----------------------------------------------------------------------------
MaybeText == Texts \cup {None}

TypeOK ==
    /\ seq \in 0..MaxSeq /\ cursor \in 0..seq
    /\ vault \in [AllPaths -> MaybeText]
    /\ \A e \in Entries :
         /\ server[e] # None => server[e].path \in AllPaths /\ server[e].seq \in 1..seq
         /\ rem[e] # None => rem[e].path \in AllPaths \cup {None}
         /\ loc[e] # None => loc[e].path \in AllPaths \cup {None}
         /\ dirty[e] # None => dirty[e].path \in AllPaths
    /\ pull.on \/ pull \in {NoPull, PullOwed}
    /\ mine \subseteq Texts /\ removed \subseteq Entries

\* What the user has written and not removed is in the vault, in its file or in
\* a conflict copy, or among the versions the coordinator has.
NothingLost ==
    \A t \in mine : \/ \E p \in Files : vault[p] = t
                   \/ \E v \in past : v[3] = t

\* A deletion is pushed only of an entry whose file the user has deleted: no
\* removal by a pull that failed or was cut short is taken for one.
OnlyUsersDelete ==
    [][\A e \in Entries :
         (/\ dirty[e] # None /\ dirty[e].op = "delete"
          /\ dirty'[e] = None /\ server'[e] # server[e]) => e \in removed]_vars

AtRest ==
    /\ ~pull.on /\ cursor = seq /\ Unrecorded \cup Missing = {}
    /\ \A e \in Entries : dirty[e] = None
Current(p) == {i \in Listed : ~i.deleted /\ i.path = p}

\* When everything has been exchanged, each path has what a live entry has
\* there, each live entry's text is at its path or in a copy beside it, and a
\* managed path has what came to it last.
Converged ==
    AtRest =>
      /\ \A p \in Synced : vault[p] # None => \E i \in Current(p) : vault[p] = i.text
      /\ \A p \in Synced \ Managed : \A i \in Current(p) :
           \E q \in Files : Original(q) = Original(p) /\ vault[q] = i.text
      /\ \A p \in Managed : \A i \in Current(p) :
           (\A j \in Listed : j.path = p => j.seq <= i.seq) => vault[p] = i.text

\* The store takes everything a pull gives it.
StoreAccepts ==
    pull.applying =>
      \A m \in {PlanManifest} :
        Left(m) => \A g \in {FirstGroup(m)} : ~RefusesSkipped(g) /\ ~Refuses(g)
=============================================================================

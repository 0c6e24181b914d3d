----------------------------- MODULE LocalStore -----------------------------
(***************************************************************************)
(* The local state store as the sync engine uses it (SyncStore, as the       *)
(* SQLite store of the CLI keeps it): every call that changes entries is one *)
(* transaction, which a path that another entry holds or a base blob that is *)
(* not cached rolls back.  Only an accepted push is applied in two steps: a  *)
(* plan, whose metadata takes time to seal, and a transaction that repeats   *)
(* the plan when the entry has changed meanwhile.                            *)
(* Each entry's log stands for what devices pushed to the server.            *)
(***************************************************************************)
EXTENDS EntryRecord, SequencesExt

CONSTANTS
  TextPaths,     \* paths of Markdown files, which are merged
  CrossRenames,  \* do users give other files names of Markdown files, or theirs away?
  Trades,        \* do users give a file a name that another one had, and the server still has?
  MaxRetries,    \* ACCEPTED_PUSH_BATCH_MAX_RETRIES
  MaxRevision,   \* Bound: revisions of an entry
  MaxMutations,  \* Bound: mutations recorded
  MaxRestores    \* Bound: states taken back and entries forgotten

StoreAssumption == TextPaths \subseteq Paths /\ MaxRetries \in Nat \ {0}

VARIABLES
  rows,      \* [Entries -> record, or None]
  cached,    \* blobs of the cache
  log,       \* [Entries -> states on the server, by revision]
  acked,     \* [Entries -> accepted push that is not applied yet, or None]
  ack,       \* the batch of accepted pushes that is being applied, or None
  mutations, \* mutations recorded, the last one's id
  restores,  \* for the bound
  outcome    \* of the last call

vars == <<rows, cached, log, acked, ack, mutations, restores, outcome>>

Accepted == [id : 1..MaxMutations, op : {"upsert", "delete"}, path : Paths,
             blob : Blobs \cup {None}, revision : 1..MaxRevision]
Plans == [id : 1..MaxMutations, sealed : Seals(MaxRevision)]

IsAck ==
  ack = None \/ /\ ack.batch \in Seq(Entries) /\ IsInjective(ack.batch)
                /\ ack.plans = None \/ ack.plans \in [Entries -> Plans \cup {None}]
                /\ ack.attempt \in 1..MaxRetries

TypeOK ==
  /\ rows \in [Entries -> EntryRecords(MaxMutations, MaxRevision) \cup {None}]
  /\ cached \subseteq Blobs
  /\ \A e \in Entries : \A i \in DOMAIN log[e] : log[e][i] \in Remotes(MaxRevision)
  /\ acked \in [Entries -> Accepted \cup {None}]
  /\ IsAck
  /\ mutations \in 0..MaxMutations
  /\ restores \in 0..MaxRestores
  /\ outcome \in {"ok", "taken", "refused", "uncached", "changed"}

Init ==
  /\ rows = [e \in Entries |-> None]
  /\ cached = {}
  /\ log = [e \in Entries |-> <<>>]
  /\ acked = [e \in Entries |-> None]
  /\ ack = None
  /\ mutations = 0
  /\ restores = 0
  /\ outcome = "ok"

-----------------------------------------------------------------------------
(* One transaction.                                                         *)

Known(e) == IF rows[e] = None THEN EmptyEntryRecord ELSE rows[e]

\* The unique indexes of the paths.
Unique(to) ==
  \A e, f \in {x \in Entries : to[x] # None} :
    e # f => /\ remotePathKey(to[e]) # None => remotePathKey(to[e]) # remotePathKey(to[f])
             /\ localPathKey(to[e]) # None => localPathKey(to[e]) # localPathKey(to[f])

\* Faulty variant: INSERT OR REPLACE, which deletes the record that is in the way.
PutReplacing(to) ==
  /\ rows' = IF Unique(to) THEN to
             ELSE [e \in Entries |-> IF to[e] = rows[e] /\ ~Unique([to EXCEPT ![e] = None])
                                     THEN to[e] ELSE IF to[e] = rows[e] THEN None ELSE to[e]]
  /\ outcome' = "ok"

\* The records are put, or what is there stays.
Put(to) ==
  IF Unique(to)
  THEN rows' = to /\ outcome' = "ok"
  ELSE rows' = rows /\ outcome' = "taken"

\* One statement after the other: a path must be free when an entry takes it.
AllPut(batch, to) ==
  \A n \in 0..Len(batch) :
    Unique([e \in Entries |-> IF e \in {batch[i] : i \in 1..n} THEN to[e] ELSE rows[e]])

PutEntry(e, row) == Put([rows EXCEPT ![e] = row])

-----------------------------------------------------------------------------
(* Calls for one entry, and what they make of its record.                    *)

\* Faulty variant: a record that is dirty gets the state as its base, too.
AppliedRemoteToBase(row, state) == copyRemoteToBase([row EXCEPT !.remote = state])

AppliedRemote(row, state) ==
  LET updated == [row EXCEPT !.remote = state]
  IN  IF row.pending = None THEN copyRemoteToBase(updated) ELSE updated

\* A record without local, remote and pending state is deleted.
Kept(row) == IF row.local = None /\ row.remote = None /\ row.pending = None THEN None ELSE row

\* Faulty variant: the path of a deleted file stays.
upsertedKeepsPath(state) ==
  [remote |-> state, base |-> [revision |-> state.revision, blob |-> state.blob],
   local |-> [path |-> state.path, blob |-> state.blob, deleted |-> state.deleted], pending |-> None]

upserted(state) ==
  [remote |-> state, base |-> [revision |-> state.revision, blob |-> state.blob],
   local |-> IF state.deleted THEN [path |-> None, blob |-> None, deleted |-> TRUE]
             ELSE [path |-> state.path, blob |-> state.blob, deleted |-> FALSE],
   pending |-> None]

Changed(call, row) ==
  CASE call.kind = "applyRemoteState" -> AppliedRemote(row, call.state)
    [] call.kind = "clearRemoteState" -> Kept([row EXCEPT !.remote = None])
    [] call.kind = "applyLocalState" -> [row EXCEPT !.local = call.local]
    [] call.kind = "clearLocalState" -> Kept([row EXCEPT !.local = None])
    [] call.kind = "upsertEntry" -> upserted(call.state)
    [] call.kind = "clearDirtyEntry" -> clearPendingMutation(row)
    [] call.kind = "updateDirtyEntry" -> toDirtyEntryRecord(row, call.mutation)
    [] call.kind = "deleteEntry" -> None

\* The entry has a file there, or one is being recorded for it.
HasFile(e, path) ==
  /\ rows[e] # None
  /\ \/ localPathKey(rows[e]) = path
     \/ rows[e].pending # None /\ rows[e].pending.op = "upsert" /\ rows[e].pending.path = path

States(e) == {log[e][i] : i \in DOMAIN log[e]}

\* States of the server that a pull brings: the blobs of Markdown files come first,
\* and a state that loses its path to another entry has none.
Pulled(e) ==
  LET ready(s) == s.path \in TextPaths /\ ~s.deleted => s.blob \in cached
      newer == {s \in States(e) : /\ rows[e] # None /\ rows[e].remote # None
                                     => s.revision > rows[e].remote.revision
                                  /\ ready(s)}
      free(s) == s.deleted \/ \A f \in Entries \ {e} : ~HasFile(f, s.path)
  IN  {s \in newer : free(s)} \cup {[s EXCEPT !.path = None] : s \in {t \in newer : ~t.deleted}}

\* What the engine asks the store to do with an entry.
Calls(e) ==
  {[kind |-> "applyRemoteState", state |-> s] : s \in Pulled(e)}
  \cup (IF rows[e] = None THEN {}
        ELSE
        (IF restores < MaxRestores
         THEN {[kind |-> k] : k \in {"clearRemoteState", "clearLocalState", "deleteEntry"}} ELSE {})
        \cup {[kind |-> "applyLocalState", local |-> [path |-> s.path, blob |-> s.blob, deleted |-> FALSE]] :
                s \in {t \in States(e) : ~t.deleted /\ rows[e].remote = t}}
        \cup {[kind |-> "applyLocalState", local |-> [path |-> m.path, blob |-> m.blob, deleted |-> FALSE]] :
                m \in {x \in {rows[e].pending} : x # None /\ x.op = "upsert"}}
        \cup {[kind |-> "upsertEntry", state |-> s] :
                s \in {t \in Pulled(e) : rows[e].pending = None /\ (t.deleted \/ t.path # None)}}
        \cup (IF rows[e].pending = None THEN {}
              ELSE {[kind |-> "clearDirtyEntry"],
                    [kind |-> "updateDirtyEntry",
                     mutation |-> [rows[e].pending EXCEPT !.blocked = ~@]]}))

IsRestore(call) == call.kind \in {"clearRemoteState", "clearLocalState", "deleteEntry"}

Do(e) ==
  \E call \in Calls(e) :
    /\ PutEntry(e, Changed(call, Known(e)))
    /\ restores' = IF IsRestore(call) THEN restores + 1 ELSE restores
    /\ UNCHANGED <<cached, log, acked, ack, mutations>>

-----------------------------------------------------------------------------
(* Edits are recorded: replaceDirtyEntry(), applyReconcileEntryUpdates().     *)

MutationBase(e) ==
  IF Known(e).remote = None THEN NoBase
  ELSE [revision |-> rows[e].remote.revision, blob |-> rows[e].remote.blob]

Mutation(id, op, path, blob, base) ==
  [id |-> id, op |-> op, path |-> path, blob |-> blob, base |-> base,
   sealed |-> MetadataContext(op, blob, base), blocked |-> FALSE]

\* A file is taken for the entry that holds its path, or for one that has lost its
\* file; with a state on the server that has no path it is for no other.
MayHold(e, path) ==
  LET remote == Known(e).remote
      owner(f) == \/ HasFile(f, path)
                  \/ remotePathKey(rows[f]) = path /\ (rows[f].local = None \/ ~Trades)
  IN  /\ \A f \in Entries \ {e} : rows[f] = None \/ ~owner(f)
      /\ remote # None /\ ~remote.deleted =>
           /\ remote.path # None
           /\ CrossRenames \/ (path \in TextPaths <=> remote.path \in TextPaths)

\* requireBaseBlob: Markdown files need the blob they were changed from.
shouldRequireBaseBlob(e, path) ==
  Known(e).remote # None /\ ~rows[e].remote.deleted /\ path \in TextPaths

\* assertRequiredBaseBlob()
baseMissing(e, mutation) ==
  /\ mutation.op = "upsert" /\ shouldRequireBaseBlob(e, mutation.path)
  /\ mutation.base.blob \notin cached

\* What is recorded for an entry: a mutation, with the file's state or without,
\* or that the entry is gone, or that its file is no longer synced.
Updates(e, id) ==
  {[entry |-> e, mutation |-> Mutation(id, "upsert", p, b, MutationBase(e)), local |-> l] :
     p \in {x \in Paths : MayHold(e, x)}, b \in Blobs, l \in BOOLEAN}
  \cup (IF Known(e).local = None \/ rows[e].local.deleted THEN {}
        ELSE {[entry |-> e, local |-> TRUE,
               mutation |-> IF rows[e].remote = None THEN None
                            ELSE Mutation(id, "delete", rows[e].local.path, None, MutationBase(e))]})

Recorded(u) ==
  LET row == Known(u.entry)
      dirty == toDirtyEntryRecord(row, u.mutation)
      m == u.mutation
  IN  IF m = None THEN None
      ELSE IF ~u.local THEN dirty
      ELSE [dirty EXCEPT !.local = IF m.op = "delete" THEN [path |-> None, blob |-> None, deleted |-> TRUE]
                                   ELSE [path |-> m.path, blob |-> m.blob, deleted |-> FALSE]]

\* The updates of one or more entries, in one transaction.
record(S) ==
  /\ mutations + Cardinality(S) <= MaxMutations
  /\ \E ids \in [S -> (mutations + 1)..(mutations + Cardinality(S))] :
       /\ \A e, f \in S : e # f => ids[e] # ids[f]
       /\ \E u \in [S -> UNION {Updates(e, ids[e]) : e \in S}] :
            /\ \A e \in S : u[e] \in Updates(e, ids[e])
            /\ \A e, f \in S : e # f => /\ u[e].mutation # None /\ u[f].mutation # None
                                       /\ u[e].mutation.path # u[f].mutation.path
            /\ IF \E e \in S : u[e].mutation # None /\ baseMissing(e, u[e].mutation)
               THEN outcome' = "uncached" /\ UNCHANGED rows
               ELSE Put([e \in Entries |-> IF e \in S THEN Recorded(u[e]) ELSE rows[e]])
  /\ mutations' = mutations + Cardinality(S)
  /\ UNCHANGED <<cached, log, acked, ack, restores>>

\* A pull has merged a pending mutation with a state of the server.
rebase(e) ==
  /\ rows[e] # None /\ rows[e].pending # None
  /\ mutations < MaxMutations
  /\ \E s \in {x \in Pulled(e) : ~x.deleted /\ x.path \in TextPaths}, b \in Blobs :
       PutEntry(e, toDirtyEntryRecord(rows[e],
         Mutation(mutations + 1, "upsert", s.path, b, [revision |-> s.revision, blob |-> s.blob])))
  /\ mutations' = mutations + 1
  /\ UNCHANGED <<cached, log, acked, ack, restores>>

-----------------------------------------------------------------------------
(* The server, blobs that come with a pull, accepted pushes.                 *)

otherDevice(e) ==
  /\ Len(log[e]) < MaxRevision
  /\ \E p \in Paths, b \in Blobs, d \in BOOLEAN :
       log' = [log EXCEPT ![e] = Append(@, [path |-> p, revision |-> Len(@) + 1,
                                            blob |-> IF d THEN None ELSE b, deleted |-> d])]
  /\ UNCHANGED <<rows, cached, acked, ack, mutations, restores, outcome>>

putBlob(e) ==
  /\ \E s \in States(e) : /\ ~s.deleted /\ s.path \in TextPaths
                          /\ cached' = cached \cup {s.blob}
  /\ UNCHANGED <<rows, log, acked, ack, mutations, restores, outcome>>

\* The server accepts the pending mutation; the answer is on its way.
push(e) ==
  /\ rows[e] # None /\ rows[e].pending # None /\ ~rows[e].pending.blocked
  /\ acked[e] = None
  /\ LET m == rows[e].pending
     IN  /\ m.base.revision = Len(log[e]) /\ Len(log[e]) < MaxRevision
         /\ log' = [log EXCEPT ![e] = Append(@, [path |-> m.path, revision |-> Len(@) + 1, blob |-> m.blob,
                                                  deleted |-> m.op = "delete"])]
         /\ acked' = [acked EXCEPT ![e] = [id |-> m.id, op |-> m.op, path |-> m.path, blob |-> m.blob,
                                            revision |-> m.base.revision + 1]]
  /\ UNCHANGED <<rows, cached, ack, mutations, restores, outcome>>

\* The answer is lost, or the device restarts before it is applied.
lost ==
  /\ \E e \in Entries : acked[e] # None
  /\ acked' = [e \in Entries |-> None]
  /\ ack' = None
  /\ UNCHANGED <<rows, cached, log, mutations, restores, outcome>>

applyAcceptedPushBatch(batch) ==
  /\ ack = None
  /\ \A i \in DOMAIN batch : acked[batch[i]] # None
  /\ ack' = [batch |-> batch, plans |-> None, attempt |-> 1]
  /\ UNCHANGED <<rows, cached, log, acked, mutations, restores, outcome>>

InBatch == {ack.batch[i] : i \in DOMAIN ack.batch}

planBatch ==
  /\ ack # None /\ ack.plans = None
  /\ ack' = [ack EXCEPT !.plans = [e \in Entries |-> IF e \in InBatch
                                                     THEN planAcceptedPushApply(Known(e), acked[e]) ELSE None]]
  /\ UNCHANGED <<rows, cached, log, acked, mutations, restores, outcome>>

Applied(e) == applyAcceptedPushToEntry(Known(e), acked[e], ack.plans[e])

\* Faulty variant: the blob is not kept.
RemoteCacheBlobsNone(S) == {}

\* remoteCacheBlob: the bases of Markdown files.
RemoteCacheBlobs(S) ==
  {acked[e].blob : e \in {x \in S : acked[x].op = "upsert" /\ acked[x].path \in TextPaths}}

Applicable == \A e \in InBatch : Applied(e) # Retry

AllApplied == [e \in Entries |-> IF e \in InBatch THEN Applied(e) ELSE rows[e]]

batchEnds == /\ acked' = [e \in Entries |-> IF e \in InBatch THEN None ELSE acked[e]]
             /\ ack' = None

applyBatch ==
  /\ ack # None /\ ack.plans # None
  /\ \/ /\ Applicable /\ AllPut(ack.batch, AllApplied)
        /\ rows' = AllApplied
        /\ cached' = cached \cup RemoteCacheBlobs(InBatch)
        /\ outcome' = "ok"
        /\ batchEnds
     \/ /\ Applicable /\ ~AllPut(ack.batch, AllApplied)
        /\ outcome' = "refused"
        /\ batchEnds
        /\ UNCHANGED <<rows, cached>>
     \/ /\ ~Applicable /\ ack.attempt < MaxRetries
        /\ ack' = [ack EXCEPT !.attempt = @ + 1, !.plans = None]
        /\ UNCHANGED <<rows, cached, acked, outcome>>
     \/ /\ ~Applicable /\ ack.attempt = MaxRetries
        /\ outcome' = "changed"
        /\ batchEnds
        /\ UNCHANGED <<rows, cached>>
  /\ UNCHANGED <<log, mutations, restores>>

Batches == UNION {SetToSeqs(S) : S \in SUBSET Entries \ {{}}}

Next ==
  \/ \E e \in Entries : Do(e) \/ rebase(e) \/ otherDevice(e) \/ putBlob(e) \/ push(e)
  \/ \E S \in SUBSET Entries \ {{}} : record(S)
  \/ \E batch \in Batches : applyAcceptedPushBatch(batch)
  \/ lost \/ planBatch \/ applyBatch

Spec == Init /\ [][Next]_vars

-----------------------------------------------------------------------------

\* The record of a pending mutation keeps the base it was made from, whatever is
\* pulled or accepted meanwhile: a merge starts there.
BaseOfPending ==
  \A e \in Entries : rows[e] # None /\ rows[e].pending # None => rows[e].base = rows[e].pending.base

\* The metadata of a pending mutation opens on other devices: it is sealed for the
\* revision it will be pushed as, also when an accepted push has moved its base.
MetadataOpens ==
  \A e \in Entries : rows[e] # None /\ rows[e].pending # None =>
    LET m == rows[e].pending IN m.sealed = MetadataContext(m.op, m.blob, m.base)

\* A pending mutation is never lost to a call for another entry.
OthersPendingKept ==
  [][\A e \in Entries : rows[e] # None /\ rows[e].pending # None
       /\ (rows'[e] = None \/ rows'[e].pending # rows[e].pending)
       => \A f \in Entries \ {e} : rows'[f] = rows[f] \/ ack # None \/ mutations' # mutations]_vars

\* What is known of the server never goes back because of a late answer.
RemoteForward ==
  [][ack # None /\ restores' = restores =>
       \A e \in Entries : rows[e] # None /\ rows[e].remote # None =>
         rows'[e] # None /\ rows'[e].remote # None /\ rows'[e].remote.revision >= rows[e].remote.revision]_vars

\* An edit made while another was pushed survives the answer.
NewerEditKept ==
  [][\A e \in Entries : acked[e] # None /\ acked'[e] = None /\ rows[e] # None /\ rows[e].pending # None
       /\ rows[e].pending.id # acked[e].id
       => rows'[e] # None /\ rows'[e].pending # None /\ rows'[e].pending.id = rows[e].pending.id]_vars

\* A file that was renamed offline is recorded under its entry: a base is always
\* there for what needs it.
RenamesRecorded == outcome # "uncached"

\* What the server has accepted is applied: no path is in its way.
AcceptedApplied == outcome # "refused"
=============================================================================

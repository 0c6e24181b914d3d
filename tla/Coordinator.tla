----------------------------- MODULE Coordinator -----------------------------
(***************************************************************************)
(* The sync coordinator of one vault: its SQLite tables (entries, versions,*)
(* blobs, the state row), the object store that holds the ciphertext, and  *)
(* the request handlers that run over both.                                *)
(*                                                                         *)
(* A handler is split at its awaits: what lies between two awaits is one   *)
(* step, and one synchronous SQLite transaction is never interleaved with  *)
(* anything.  Serialized tells the two runtimes apart: the Node runtime    *)
(* queues whole handlers on a per-vault lock, a Durable Object lets other  *)
(* handlers run while one awaits the object store or the control database. *)
(***************************************************************************)
EXTENDS Naturals, Sequences, FiniteSetsExt

CONSTANTS
  Entries, Blobs, Mutations, Procs, NoBlob, NoMutation,
  Sizes,          \* ciphertext sizes a client may declare
  Policies,       \* vault policies: storage limit, file size limit, retention
  InitialPauses,  \* the pause states a stored vault may start from
  Serialized,     \* TRUE: the per-vault lock of the Node runtime
  Ops,            \* the requests the environment makes
  Grace,          \* blobGracePeriodMs
  StaleAfter,     \* STAGED_BLOB_STALE_MS
  BucketLength,   \* AUTO_ENTRY_VERSION_BUCKET_MS
  RepairLimit,    \* MAX_REPAIRABLE_STALE_STAGED_BLOBS
  GcBatch,        \* GC_BATCH_SIZE
  MaxBatch,       \* bound: mutations of one commit message
  MaxTime         \* bound: the clock stops here

AllOps == {"commit", "restore", "upload", "gc", "purge", "delete_blob",
           "repair", "pause", "policy", "crash"}

ASSUME ValueAssumption == NoBlob \notin Blobs /\ NoMutation \notin Mutations
ASSUME FiniteAssumption == IsFiniteSet(Entries) /\ IsFiniteSet(Blobs) /\ Entries # {}
ASSUME NumberAssumption ==
  /\ Sizes \subseteq Nat
  /\ Grace \in Nat /\ StaleAfter \in Nat /\ BucketLength \in Nat \ {0}
  /\ RepairLimit \in Nat /\ GcBatch \in Nat \ {0}
  /\ MaxBatch \in Nat \ {0} /\ MaxTime \in Nat
ASSUME PolicyAssumption == Policies \subseteq [storage : Nat, file : Nat, retention : Nat]
ASSUME PauseAssumption == InitialPauses \subseteq {"none", "manual", "repair"}
ASSUME OpsAssumption == Serialized \in BOOLEAN /\ Ops \subseteq AllOps

(* No HTTP route reaches the coordinator's deleteBlob.  Under this condition *)
(* on the constants it does not interleave with other requests either.       *)
DeleteBlobIsLocked == "delete_blob" \in Ops => Serialized

VARIABLES
  entries,    \* the entries table (rev = 0: no row)
  versions,   \* the entry_versions table
  records,    \* the blobs table (state = "none": no row)
  used,       \* coordinator_state.storage_used_bytes
  cursor,     \* coordinator_state.current_cursor
  limits,     \* coordinator_state: storage limit, file size limit, retention
  pause,      \* coordinator_state.sync_pause_reason: none, manual or repair
  objects,    \* the blobs whose ciphertext is in the object store
  now,        \* Date.now()
  sent,       \* the mutations that clients and restores have made up so far
  task,       \* what each handler in progress remembers across its awaits
  log         \* history: the accepted revisions in order, for the properties

vars == <<entries, versions, records, used, cursor, limits, pause, objects,
          now, sent, task, log>>
tables == <<entries, versions, records, used, cursor>>

-----------------------------------------------------------------------------
(* Rows and handlers.                                                       *)

MaybeBlob == Blobs \cup {NoBlob}
NoRecord == [state |-> "none", size |-> 0, createdAt |-> 0, deleteAfter |-> 0]
NoEntry == [rev |-> 0, blob |-> NoBlob, seq |-> 0, last |-> NoMutation]
Unsent == [by |-> "nobody", entry |-> CHOOSE e \in Entries : TRUE, base |-> 0, blob |-> NoBlob]

\* A mutation with blob = NoBlob is a delete, any other an upsert.
Mutation == [by : {"nobody", "client", "server"}, entry : Entries, base : Nat, blob : MaybeBlob]
EntryRow == [rev : Nat, blob : MaybeBlob, seq : Nat, last : Mutations \cup {NoMutation}]
VersionRow == [entry : Entries, rev : Nat, blob : MaybeBlob, bucket : Nat, expiresAt : Nat,
               reason : {"auto", "before_delete", "before_restore"}]
\* delete_after IS NULL exactly for live rows; the model writes 0 for it.
BlobRow == [state : {"none", "staged", "live", "pending_delete"}, size : Nat,
            createdAt : Nat, deleteAfter : Nat]

Idle == [pc |-> "idle", batch |-> << >>, seen |-> {}, missing |-> {}, blobs |-> {},
         next |-> 0, at |-> 0, restoring |-> FALSE, wasPaused |-> FALSE, issue |-> FALSE]

Points == {"idle", "put", "exists", "tx", "gc_delete", "gc_record", "purge_collect",
           "blob_delete", "object_delete", "blob_record", "repair", "repair_object", "repair_resume"}
Task == [pc : Points, batch : Seq(Mutations), seen : SUBSET Mutations,
         missing : SUBSET Blobs, blobs : SUBSET Blobs, next : Nat, at : Nat,
         restoring : BOOLEAN, wasPaused : BOOLEAN, issue : BOOLEAN]

\* JavaScript runs to completion: nothing runs while a synchronous section does.
Preemptible == \A q \in Procs : task[q].pc \notin {"tx", "repair"}

\* Faulty variant of the lock: commits ask the object store before taking it.
LockedAfterExists(q) == task[q].pc \notin {"idle", "put", "exists"}

\* The object PUT of an upload is outside the vault lock, all else inside.
HoldsLock(q) == task[q].pc \notin {"idle", "put"}
Admitted == Preemptible /\ (Serialized => \A q \in Procs : ~HoldsLock(q))
Starts(p, op) == op \in Ops /\ task[p].pc = "idle" /\ Admitted
Resumes(p, pc) == task[p].pc = pc /\ Preemptible

Goto(p, t) == task' = [task EXCEPT ![p] = t]
Done(p) == Goto(p, Idle)

-----------------------------------------------------------------------------
(* Blob references and collectability.                                      *)

HasCurrentReference(b) == \E e \in Entries : entries[e].blob = b
HasRetainedHistory(b, t) == \E v \in versions : v.blob = b /\ v.expiresAt > t
\* Faulty variant: only current entries pin a blob.
IsBlobCurrent(b, t) == HasCurrentReference(b)
IsBlobPinned(b, t) == HasCurrentReference(b) \/ HasRetainedHistory(b, t)

\* Faulty variant: the grace period is not waited for.
CollectibleAtOnce(b, t) == records[b].state \in {"staged", "pending_delete"} /\ ~IsBlobPinned(b, t)

CollectibleBlob(b, t) ==
  /\ records[b].state \in {"staged", "pending_delete"}
  /\ records[b].deleteAfter <= t
  /\ ~IsBlobPinned(b, t)

Unexpired(t) == {v \in versions : v.expiresAt > t}

SizeOfRecords(B) == MapThenSumSet(LAMBDA b : records[b].size, B)

\* adjustStorageUsedBytes(-n): never below zero.
LessUsed(n) == IF n > used THEN 0 ELSE used - n

\* Deletes the rows of B and gives their bytes back, in one transaction.
DeleteBlobRows(B) ==
  /\ records' = [b \in Blobs |-> IF b \in B THEN NoRecord ELSE records[b]]
  /\ used' = LessUsed(SizeOfRecords(B))

-----------------------------------------------------------------------------
(* Uploads: stage the record, then put the object.                          *)

\* stageBlob refuses and pauses the vault: a referenced blob still staged.
StageBlobPauses(p) ==
  /\ Starts(p, "upload")
  /\ pause = "none"
  /\ \E b \in Blobs : /\ records[b].state = "staged"
                      /\ IsBlobPinned(b, now)
                      /\ now >= records[b].createdAt + StaleAfter
  /\ pause' = "repair"
  /\ UNCHANGED <<tables, limits, objects, now, sent, task, log>>

WithinFileSize(s) == limits.file = 0 \/ s <= limits.file
\* Faulty variant: each file is compared with the limit on its own.
WithinQuotaAlone(s) == limits.storage = 0 \/ s <= limits.storage
WithinQuota(s) == limits.storage = 0 \/ used + s <= limits.storage

StageBlob(p) ==
  /\ Starts(p, "upload")
  /\ pause = "none"
  /\ \E b \in Blobs, s \in Sizes :
       LET known == records[b].state # "none"
       IN  /\ WithinFileSize(s)
           /\ known => ~IsBlobPinned(b, now) /\ records[b].size = s
           /\ known \/ WithinQuota(s)
           /\ records' = [records EXCEPT ![b] =
                [state |-> "staged", size |-> s, deleteAfter |-> now + Grace,
                 createdAt |-> IF known THEN @.createdAt ELSE now]]
           /\ used' = IF known THEN used ELSE used + s
           /\ Goto(p, [Idle EXCEPT !.pc = "put", !.blobs = {b}])
  /\ UNCHANGED <<entries, versions, cursor, limits, pause, objects, now, sent, log>>

\* The object PUT ends: stored, or not (then abortStagedBlob keeps the record
\* and only moves the GC alarm).
PutObject(p) ==
  /\ Resumes(p, "put")
  /\ objects' \in {objects, objects \cup task[p].blobs}
  /\ Done(p)
  /\ UNCHANGED <<tables, limits, pause, now, sent, log>>

-----------------------------------------------------------------------------
(* Commits.                                                                 *)

\* A client records a local change against a revision of the entry it knows.
NewMutation(m) ==
  /\ "commit" \in Ops /\ Preemptible
  /\ sent[m].by = "nobody"
  /\ \E e \in Entries, b \in MaybeBlob : \E base \in 0 .. entries[e].rev :
       sent' = [sent EXCEPT ![m] = [by |-> "client", entry |-> e, base |-> base, blob |-> b]]
  /\ UNCHANGED <<tables, limits, pause, objects, now, task, log>>

\* Faulty variant: the blob of a delete (null) is looked up as well.
CommitAskingForNull(p, made, batch, restoring) ==
  Goto(p, [Idle EXCEPT !.pc = "exists", !.batch = batch, !.restoring = restoring,
                       !.blobs = {made[m].blob : m \in Range(batch)}])

\* commitMutations starts by asking the object store for every blob; made is
\* the table of mutations that the batch refers to.
CommitMutations(p, made, batch, restoring) ==
  Goto(p, [Idle EXCEPT !.pc = "exists", !.batch = batch, !.restoring = restoring,
                       !.blobs = {made[m].blob : m \in Range(batch)} \ {NoBlob}])

\* A commit message of a client: the first try or a retry of any mutation.
StartCommit(p) ==
  /\ Starts(p, "commit")
  /\ \E n \in 1 .. MaxBatch :
       \E batch \in [1 .. n -> {m \in Mutations : sent[m].by = "client"}] :
         CommitMutations(p, sent, batch, FALSE)
  /\ UNCHANGED <<tables, limits, pause, objects, now, sent, log>>

\* restoreEntryVersion(s): unexpired versions of entries at their current
\* revision, committed under fresh mutation ids.
StartRestore(p) ==
  /\ Starts(p, "restore")
  /\ \E n \in 1 .. MaxBatch :
       \E vs \in [1 .. n -> Unexpired(now)],
          ms \in [1 .. n -> {m \in Mutations : sent[m].by = "nobody"}] :
         /\ \A i, j \in 1 .. n : ms[i] = ms[j] => i = j
         /\ sent' = [m \in Mutations |->
              IF \E i \in 1 .. n : ms[i] = m
              THEN LET v == vs[CHOOSE i \in 1 .. n : ms[i] = m]
                   IN  [by |-> "server", entry |-> v.entry,
                        base |-> entries[v.entry].rev, blob |-> v.blob]
              ELSE sent[m]]
         /\ CommitMutations(p, sent', ms, TRUE)
  /\ UNCHANGED <<tables, limits, pause, objects, now, log>>

\* exists() answers for one blob.
CheckBlob(p) ==
  /\ Resumes(p, "exists")
  /\ \E b \in task[p].blobs :
       Goto(p, [task[p] EXCEPT !.blobs = @ \ {b},
                               !.missing = IF b \in objects THEN @ ELSE @ \cup {b}])
  /\ UNCHANGED <<tables, limits, pause, objects, now, sent, log>>

\* Faulty variant: the pause is not looked at again after the await.
BeginCommitAnyway(p) ==
  /\ Resumes(p, "exists")
  /\ task[p].blobs = {}
  /\ Goto(p, [task[p] EXCEPT !.pc = "tx"])
  /\ UNCHANGED <<tables, limits, pause, objects, now, sent, log>>

\* All answers are in: the transaction starts, or finds the vault paused.
BeginCommit(p) ==
  /\ Resumes(p, "exists")
  /\ task[p].blobs = {}
  /\ IF pause = "none" THEN Goto(p, [task[p] EXCEPT !.pc = "tx"]) ELSE Done(p)
  /\ UNCHANGED <<tables, limits, pause, objects, now, sent, log>>

\* Faulty variant: no stale-base check.
SkipsFreshOnly(p, m) ==
  \/ m \in task[p].seen \/ entries[sent[m].entry].last = m
  \/ sent[m].blob \in task[p].missing
  \/ sent[m].blob # NoBlob /\ records[sent[m].blob].state = "none"

\* The mutation is answered without a write: a duplicate in the batch, the
\* entry's own last mutation (accepted again), a stale base, an absent
\* object, an absent record.
Skips(p, m) ==
  LET c == sent[m]
      current == entries[c.entry]
  IN  \/ m \in task[p].seen
      \/ current.last = m
      \/ current.rev # c.base
      \/ c.blob \in task[p].missing
      \/ c.blob # NoBlob /\ records[c.blob].state = "none"

SkipMutation(p) ==
  /\ task[p].pc = "tx" /\ task[p].batch # << >>
  /\ Skips(p, Head(task[p].batch))
  /\ Goto(p, [task[p] EXCEPT !.batch = Tail(@), !.seen = @ \cup {Head(task[p].batch)}])
  /\ UNCHANGED <<tables, limits, pause, objects, now, sent, log>>

\* The version rows a mutation leaves: the state it replaces when it deletes
\* or restores, else a sample of its own state, one per entry and bucket.
NewVersions(c, restoring) ==
  LET current == entries[c.entry]
      forced == c.blob = NoBlob \/ restoring
      bucket == now \div BucketLength
      row == [entry |-> c.entry, rev |-> current.rev, blob |-> current.blob,
              bucket |-> 0, expiresAt |-> now + limits.retention,
              reason |-> IF c.blob = NoBlob THEN "before_delete" ELSE "before_restore"]
      sampled == \E v \in versions :
                   v.entry = c.entry /\ v.reason = "auto" /\ v.bucket = bucket
  IN  IF forced
      THEN IF current.rev = 0 THEN {} ELSE {row}
      ELSE IF c.base = 0 \/ sampled THEN {}
      ELSE {[row EXCEPT !.rev = current.rev + 1, !.blob = c.blob,
                        !.bucket = bucket, !.reason = "auto"]}

\* Faulty variant: a replaced blob retires whoever else holds it.
RetiresAlways(c, b) == entries[c.entry].blob = b

\* The mutation replaces b, and no other entry holds it.
Retires(c, b) ==
  /\ entries[c.entry].blob = b
  /\ \A e \in Entries \ {c.entry} : entries[e].blob # b

\* The new blob goes live, a replaced one retires once no entry holds it.
BlobRowsAfter(c) ==
  [b \in Blobs |->
    IF records[b].state = "none" THEN NoRecord
    ELSE IF b = c.blob THEN [records[b] EXCEPT !.state = "live", !.deleteAfter = 0]
    ELSE IF Retires(c, b)
    THEN [records[b] EXCEPT !.state = "pending_delete", !.deleteAfter = now]
    ELSE records[b]]

\* The cursor the loop has reached: nextCursor ?? readCursor().
ReachedCursor(p) == IF task[p].next = 0 THEN cursor ELSE task[p].next

ApplyMutation(p) ==
  /\ task[p].pc = "tx" /\ task[p].batch # << >>
  /\ LET m == Head(task[p].batch)
         c == sent[m]
         seq == ReachedCursor(p) + 1
     IN  /\ ~Skips(p, m)
         /\ versions' = versions \cup NewVersions(c, task[p].restoring)
         /\ records' = BlobRowsAfter(c)
         /\ entries' = [entries EXCEPT ![c.entry] =
              [rev |-> c.base + 1, blob |-> c.blob, seq |-> seq, last |-> m]]
         /\ Goto(p, [task[p] EXCEPT !.batch = Tail(@), !.seen = @ \cup {m}, !.next = seq])
         /\ log' = Append(log, [mutation |-> m, entry |-> c.entry,
                                rev |-> c.base + 1, blob |-> c.blob])
  /\ UNCHANGED <<used, cursor, limits, pause, objects, now, sent>>

\* saveCommit and the end of the transaction.
FinishCommit(p) ==
  /\ task[p].pc = "tx" /\ task[p].batch = << >>
  /\ cursor' = ReachedCursor(p)
  /\ Done(p)
  /\ UNCHANGED <<entries, versions, records, used, limits, pause, objects, now, sent, log>>

-----------------------------------------------------------------------------
(* Garbage collection, purge and deletion: objects first, then records.     *)

\* A batch of collectible blobs for deleteMany; the handler ends if there is none.
Collect(p, due) ==
  \E batch \in SUBSET due :
    /\ Cardinality(batch) <= GcBatch
    /\ batch # due => Cardinality(batch) = GcBatch
    /\ IF batch = {} THEN Done(p)
       ELSE Goto(p, [Idle EXCEPT !.pc = "gc_delete", !.blobs = batch, !.at = now])

\* runGc, past the mayCollect answer.
RunGc(p) ==
  /\ Starts(p, "gc")
  /\ versions' = Unexpired(now)
  /\ Collect(p, {b \in Blobs : CollectibleBlob(b, now)})
  /\ UNCHANGED <<entries, records, used, cursor, limits, pause, objects, now, sent, log>>

\* deleteMany: some objects are gone, some of those are reported so.
DeleteObjects(p) ==
  /\ Resumes(p, "gc_delete")
  /\ \E gone \in SUBSET task[p].blobs : \E reported \in SUBSET gone :
       /\ objects' = objects \ gone
       /\ IF reported = {} THEN Done(p)
          ELSE Goto(p, [task[p] EXCEPT !.pc = "gc_record", !.blobs = reported])
  /\ UNCHANGED <<tables, limits, pause, now, sent, log>>

\* Faulty variant: the bytes of every listed blob are given back.
DeleteRecordsOfBatch(p) ==
  /\ Resumes(p, "gc_record")
  /\ records' = [b \in Blobs |-> IF b \in task[p].blobs /\ CollectibleBlob(b, task[p].at)
                                THEN NoRecord ELSE records[b]]
  /\ used' = LessUsed(SizeOfRecords(task[p].blobs))
  /\ Done(p)
  /\ UNCHANGED <<entries, versions, cursor, limits, pause, objects, now, sent, log>>

\* The records of the deleted objects go, if they are still collectible.
DeleteRecords(p) ==
  /\ Resumes(p, "gc_record")
  /\ DeleteBlobRows({b \in task[p].blobs : CollectibleBlob(b, task[p].at)})
  /\ Done(p)
  /\ UNCHANGED <<entries, versions, cursor, limits, pause, objects, now, sent, log>>

Purgeable(e) ==
  /\ entries[e].rev > 0 /\ entries[e].blob = NoBlob
  /\ \E v \in Unexpired(now) : v.entry = e /\ v.blob # NoBlob

\* purgeDeletedEntries: drop the history of deleted entries.
PurgeDeletedEntries(p) ==
  /\ Starts(p, "purge")
  /\ pause = "none"
  /\ \E purged \in SUBSET {e \in Entries : Purgeable(e)} :
       /\ purged # {}
       /\ versions' = {v \in versions : v.entry \notin purged}
       /\ Goto(p, [Idle EXCEPT !.pc = "purge_collect",
                     !.blobs = {v.blob : v \in versions \ versions'} \ {NoBlob}])
  /\ UNCHANGED <<entries, records, used, cursor, limits, pause, objects, now, sent, log>>

\* markUnpinnedBlobPendingDelete on each blob of B.
MarkUnpinned(B) ==
  [b \in Blobs |->
    IF b \in B /\ records[b].state \in {"live", "pending_delete"} /\ ~IsBlobPinned(b, now)
    THEN [records[b] EXCEPT
            !.state = "pending_delete",
            !.deleteAfter = IF records[b].state = "live" \/ @ > now THEN now ELSE @]
    ELSE records[b]]

\* collectPurgedBlobs, past the mayCollect answer (the last disjunct: refused).
CollectPurgedBlobs(p) ==
  /\ Resumes(p, "purge_collect")
  /\ UNCHANGED <<entries, used, cursor, limits, pause, objects, now, sent, log>>
  /\ \/ /\ versions' = Unexpired(now)
        /\ records' = MarkUnpinned(task[p].blobs)
        /\ LET collectible == {b \in task[p].blobs : CollectibleBlob(b, now)'}
           IN  IF collectible = {} THEN Done(p)
               ELSE Goto(p, [Idle EXCEPT !.pc = "gc_delete", !.blobs = collectible, !.at = now])
     \/ /\ Done(p)
        /\ UNCHANGED <<versions, records>>

\* deleteBlob: not for a pinned blob; a blob with a record loses it after the
\* await, whatever became of it meanwhile.
DeleteBlob(p) ==
  /\ Starts(p, "delete_blob")
  /\ pause = "none"
  /\ \E b \in Blobs :
       /\ records[b].state # "none" => ~IsBlobPinned(b, now)
       /\ Goto(p, [Idle EXCEPT !.blobs = {b}, !.pc =
            IF records[b].state = "none" THEN "object_delete" ELSE "blob_delete"])
  /\ UNCHANGED <<tables, limits, pause, objects, now, sent, log>>

DeleteBlobObject(p) ==
  /\ \/ Resumes(p, "blob_delete") /\ Goto(p, [task[p] EXCEPT !.pc = "blob_record"])
     \/ Resumes(p, "object_delete") /\ Done(p)
  /\ objects' = objects \ task[p].blobs
  /\ UNCHANGED <<tables, limits, pause, now, sent, log>>

DeleteBlobRecord(p) ==
  /\ Resumes(p, "blob_record")
  /\ DeleteBlobRows(task[p].blobs)
  /\ Done(p)
  /\ UNCHANGED <<entries, versions, cursor, limits, pause, objects, now, sent, log>>

-----------------------------------------------------------------------------
(* Repair of stale staged blobs: record first, then object.                 *)

StaleStaged(t) == {b \in Blobs : records[b].state = "staged" /\ records[b].createdAt + StaleAfter <= t}

RepairSyncState(p) ==
  /\ Starts(p, "repair")
  /\ pause # "manual"
  /\ Cardinality(StaleStaged(now)) <= RepairLimit
  /\ Goto(p, [Idle EXCEPT !.pc = "repair", !.blobs = StaleStaged(now), !.at = now,
                          !.wasPaused = (pause = "repair")])
  /\ UNCHANGED <<tables, limits, pause, objects, now, sent, log>>

Repairing(p) == task[p].pc = "repair" \/ Resumes(p, "repair_resume")

\* One blob of the loop: drop its row if it is staged and unpinned, then await
\* the deletion of its object; a referenced blob is left as an issue.
RepairBlob(p) ==
  /\ Repairing(p)
  /\ \E b \in task[p].blobs :
       LET referenced == \/ records[b].state \in {"live", "pending_delete"}
                         \/ records[b].state = "staged" /\ IsBlobPinned(b, task[p].at)
       IN  IF referenced
           THEN /\ Goto(p, [task[p] EXCEPT !.pc = "repair", !.blobs = @ \ {b}, !.issue = TRUE])
                /\ UNCHANGED <<records, used>>
           ELSE /\ DeleteBlobRows({b})
                /\ Goto(p, [task[p] EXCEPT !.pc = "repair_object", !.blobs = @ \ {b},
                                           !.missing = {b}])
  /\ UNCHANGED <<entries, versions, cursor, limits, pause, objects, now, sent, log>>

RepairObject(p) ==
  /\ Resumes(p, "repair_object")
  /\ \E failed \in BOOLEAN :
       /\ objects' \in {objects \ task[p].missing} \cup (IF failed THEN {objects} ELSE {})
       /\ Goto(p, [task[p] EXCEPT !.pc = "repair_resume", !.missing = {}, !.issue = @ \/ failed])
  /\ UNCHANGED <<tables, limits, pause, now, sent, log>>

\* The pause read at the start decides; it is not read again.
FinishRepair(p) ==
  /\ Repairing(p)
  /\ task[p].blobs = {}
  /\ pause' = IF task[p].wasPaused /\ ~task[p].issue /\ StaleStaged(task[p].at) = {}
              THEN "none" ELSE pause
  /\ Done(p)
  /\ UNCHANGED <<tables, limits, objects, now, sent, log>>

-----------------------------------------------------------------------------
(* Operator pause, policy, failures, time.                                  *)

\* setSyncPause never touches a repair pause.
SetSyncPause ==
  /\ "pause" \in Ops /\ Admitted
  /\ pause # "repair"
  /\ pause' \in {"none", "manual"}
  /\ UNCHANGED <<tables, limits, objects, now, sent, task, log>>

ApplyVaultPolicy ==
  /\ "policy" \in Ops /\ Admitted
  /\ limits' \in Policies
  /\ UNCHANGED <<tables, pause, objects, now, sent, task, log>>

\* The object store answers a handler's await with an error: it throws.
ObjectStoreFails(p) ==
  /\ Preemptible
  /\ task[p].pc \in {"exists", "gc_delete", "blob_delete", "object_delete"}
  /\ Done(p)
  /\ UNCHANGED <<tables, limits, pause, objects, now, sent, log>>

\* The process stops and starts again between two steps: SQLite and the
\* objects stay, the handlers in progress are gone.
Crash ==
  /\ "crash" \in Ops /\ Preemptible
  /\ task' = [p \in Procs |-> Idle]
  /\ UNCHANGED <<tables, limits, pause, objects, now, sent, log>>

Tick ==
  /\ Preemptible /\ now < MaxTime
  /\ now' = now + 1
  /\ UNCHANGED <<tables, limits, pause, objects, sent, task, log>>

-----------------------------------------------------------------------------
\* A vault that an earlier release paused may hold uploads it never finished.
StrandedRow(s) == [state |-> "staged", size |-> s, createdAt |-> 0, deleteAfter |-> Grace]

Init ==
  /\ entries = [e \in Entries |-> NoEntry]
  /\ versions = {}
  /\ limits \in Policies /\ pause \in InitialPauses
  /\ records \in [Blobs -> {NoRecord} \cup
                     {StrandedRow(s) : s \in IF pause = "repair" THEN Sizes ELSE {}}]
  /\ objects \in SUBSET {b \in Blobs : records[b].state = "staged"}
  /\ used = SizeOfRecords(Blobs) /\ cursor = 0 /\ now = 1
  /\ sent = [m \in Mutations |-> Unsent]
  /\ task = [p \in Procs |-> Idle]
  /\ log = << >>

Upload(p) == StageBlobPauses(p) \/ StageBlob(p) \/ PutObject(p)
Commit(p) == \/ StartCommit(p) \/ StartRestore(p) \/ CheckBlob(p) \/ BeginCommit(p)
             \/ SkipMutation(p) \/ ApplyMutation(p) \/ FinishCommit(p)
Collection(p) == \/ RunGc(p) \/ DeleteObjects(p) \/ DeleteRecords(p)
                 \/ PurgeDeletedEntries(p) \/ CollectPurgedBlobs(p)
                 \/ DeleteBlob(p) \/ DeleteBlobObject(p) \/ DeleteBlobRecord(p)
Repair(p) == RepairSyncState(p) \/ RepairBlob(p) \/ RepairObject(p) \/ FinishRepair(p)

Next ==
  \/ \E p \in Procs : Upload(p) \/ Commit(p) \/ Collection(p) \/ Repair(p) \/ ObjectStoreFails(p)
  \/ \E m \in Mutations : NewMutation(m)
  \/ SetSyncPause \/ ApplyVaultPolicy \/ Crash \/ Tick

Spec == Init /\ [][Next]_vars

-----------------------------------------------------------------------------
(* Properties.                                                              *)

(* The state is made of rows of the declared shapes.  used is left to        *)
(* UsageExact, which says which number it is.                                *)
TypeOK ==
  /\ entries \in [Entries -> EntryRow]
  /\ versions \subseteq VersionRow
  /\ records \in [Blobs -> BlobRow]
  /\ cursor \in Nat /\ now \in Nat
  /\ limits \in Policies
  /\ pause \in {"none", "manual", "repair"}
  /\ objects \subseteq Blobs
  /\ sent \in [Mutations -> Mutation]
  /\ task \in [Procs -> Task]
  /\ log \in Seq([mutation : Mutations, entry : Entries, rev : Nat, blob : MaybeBlob])

(* The lifecycle state of a blob row never disagrees with the entries table: *)
(* a row is live exactly while some current entry holds the blob.            *)
LiveIffReferenced ==
  \A b \in Blobs : records[b].state = "live" <=> HasCurrentReference(b)

(* What LiveIffReferenced rests on.  Handlers that the lock admits are alone; *)
(* a deleteBlob that awaits the object store is locked, and the blob it is    *)
(* about to forget is in no entry.                                            *)
LockHeldOnce == Serialized => \A p, q \in Procs : HoldsLock(p) /\ HoldsLock(q) => p = q
DoomedUnreferenced ==
  \A p \in Procs : task[p].pc \in {"blob_delete", "blob_record"} =>
    Serialized /\ \A b \in task[p].blobs : ~HasCurrentReference(b)
LifecycleInv == TypeOK /\ LockHeldOnce /\ DoomedUnreferenced /\ LiveIffReferenced

(* The ciphertext of every current entry can be downloaded: GC, purge,       *)
(* repair and deleteBlob never take an object away under a live entry.       *)
CurrentBlobStored ==
  \A e \in Entries : entries[e].blob # NoBlob => entries[e].blob \in objects

(* What CurrentBlobStored rests on under the lock.  An object about to be     *)
(* deleted is in no entry, and a commit has an answer, or waits for one, for  *)
(* the blob of each mutation that it has not decided yet.                     *)
ObjectsAtRisk(p) ==
  IF task[p].pc \in {"gc_delete", "blob_delete", "object_delete"} THEN task[p].blobs
  ELSE IF task[p].pc = "repair_object" THEN task[p].missing ELSE {}
AtRiskUnreferenced == \A p \in Procs : \A b \in ObjectsAtRisk(p) : ~HasCurrentReference(b)
CommitAnswered ==
  \A p \in Procs : task[p].pc \in {"exists", "tx"} =>
    /\ task[p].pc = "tx" => task[p].blobs = {}
    /\ \A m \in Range(task[p].batch) :
         /\ sent[m].by # "nobody"
         /\ sent[m].blob \in {NoBlob} \cup task[p].blobs \cup task[p].missing \cup objects
StorageInv == LifecycleInv /\ AtRiskUnreferenced /\ CommitAnswered /\ CurrentBlobStored

(* Every version a client can still ask to restore has its row and object.   *)
HistoryRestorable ==
  \A v \in Unexpired(now) :
    v.blob # NoBlob => records[v.blob].state # "none" /\ v.blob \in objects

(* The storage counter is the sum of the blob rows, across retried stages,   *)
(* repeated and partial deletions.                                           *)
UsageExact == used = SizeOfRecords(Blobs)

Log == INSTANCE EntryLog

(* The entries table is the projection of the accepted log: each row holds   *)
(* its newest revision, under its own cursor, and the stored cursor is the   *)
(* length of the log whenever no commit is between its first and last write. *)
EntriesProjectLog ==
  /\ \A e \in Entries :
       LET row == entries[e] IN
       /\ Log!IsHead(log, e, row.seq)
       /\ IF row.seq = 0 THEN row = NoEntry
          ELSE /\ log[row.seq].rev = row.rev /\ log[row.seq].blob = row.blob
               /\ log[row.seq].mutation = row.last
  /\ IF \E p \in Procs : task[p].pc = "tx"
     THEN \A p \in Procs : task[p].pc = "tx" => ReachedCursor(p) = Len(log)
     ELSE cursor = Len(log)

(* The coordinator implements the append-only log: no mutation is accepted   *)
(* twice, none on a revision it was not based on, none is ever undone.       *)
ImplementsLog == Log!Spec

(* While the vault is paused nothing is committed and no upload is admitted, *)
(* also for a commit that was waiting for the object store when it began.    *)
PausedVaultIsFrozen ==
  [][pause # "none" =>
       /\ UNCHANGED <<entries, log>>
       /\ \A b \in Blobs : records[b].state = "none" => records'[b].state = "none"]_vars

(* Staging never takes the stored bytes over the limit in force.             *)
QuotaRespected ==
  [][used' > used => limits.storage = 0 \/ used' <= limits.storage]_vars

(* For the whole grace period an uploaded blob stays committable: neither    *)
(* its row nor its object is collected, unless a repair has found it stale:  *)
(* a second upload moves the deadline, and not the age a repair goes by.     *)
FoundStale(b) == \E p \in Procs : b \in task[p].blobs \cup task[p].missing
                                   /\ task[p].pc \in {"repair", "repair_object", "repair_resume"}
GracePeriodHonoured ==
  [][\A b \in Blobs :
       records[b].state = "staged" /\ now < records[b].deleteAfter /\ ~FoundStale(b) =>
         records'[b].state # "none" /\ (b \in objects => b \in objects')]_vars

(* "Sync repair does not clear manual pauses."                               *)
RepairKeepsManualPause ==
  [][pause = "manual" /\ (\E p \in Procs : FinishRepair(p)) => pause' = "manual"]_vars
=============================================================================

--------------------------- MODULE CoordinatorProofs ---------------------------
(* What holds of the coordinator for every vault, clock, policy and schedule,  *)
(* whichever requests the environment makes and on either runtime: types, the  *)
(* lock and the life of a blob; a paused vault is frozen; the entries table is *)
(* the projection of an append-only log that the coordinator implements, with  *)
(* all that the log promises; and the storage counter is the sum of the blob   *)
(* rows, and staging never takes it over the limit.  Under the per-vault lock  *)
(* the ciphertext of every current entry, and of every version that can be     *)
(* restored, stays in the object store, and an upload for its grace period.    *)
EXTENDS Coordinator, SequenceTheorems, FiniteSetTheorems, WellFoundedInduction, TLAPS

(* The memory of a handler that does nothing is well formed.                   *)
LEMMA IdleIsTask == Idle \in Task
BY DEF Idle, Task, Points

(* A handler that remembers something well formed leaves the others alone.     *)
LEMMA TaskUpdated ==
  ASSUME task \in [Procs -> Task], NEW p \in Procs, NEW t \in Task,
         task' = [task EXCEPT ![p] = t]
  PROVE  task' \in [Procs -> Task]
OBVIOUS

(* Every vault starts well formed.                                            *)
LEMMA TypeInit == Init => TypeOK
<1> SUFFICES ASSUME Init
             PROVE  TypeOK
  OBVIOUS
<1>1. Unsent \in Mutation
  BY FiniteAssumption DEF Unsent, Mutation, MaybeBlob
<1>2. NoEntry \in EntryRow
  BY DEF NoEntry, EntryRow, MaybeBlob
<1>3. records \in [Blobs -> BlobRow]
  BY NumberAssumption DEF Init, NoRecord, StrandedRow, BlobRow
<1>4. pause \in {"none", "manual", "repair"} /\ limits \in Policies /\ now \in Nat
  BY PauseAssumption DEF Init
<1>5. objects \subseteq Blobs
  BY DEF Init
<1>6. QED
  BY <1>1, <1>2, <1>3, <1>4, <1>5, IdleIsTask DEF Init, TypeOK

(* Deleting rows keeps the blobs table well formed.                            *)
LEMMA TypeDeleteRows ==
  ASSUME records \in [Blobs -> BlobRow], NEW B, DeleteBlobRows(B)
  PROVE  records' \in [Blobs -> BlobRow]
<1>1. NoRecord \in BlobRow
  BY DEF NoRecord, BlobRow
<1>2. QED
  BY <1>1 DEF DeleteBlobRows

(* An upload is admitted, refused with a pause, or ends.                       *)
LEMMA TypeUpload ==
  ASSUME TypeOK, NEW p \in Procs, Upload(p)
  PROVE  TypeOK'
<1>1. CASE StageBlobPauses(p)
  BY <1>1 DEF StageBlobPauses, TypeOK, tables
<1>2. CASE StageBlob(p)
  <2>1. PICK b \in Blobs, s \in Sizes :
          LET known == records[b].state # "none"
          IN  /\ records' = [records EXCEPT ![b] =
                   [state |-> "staged", size |-> s, deleteAfter |-> now + Grace,
                    createdAt |-> IF known THEN @.createdAt ELSE now]]
              /\ Goto(p, [Idle EXCEPT !.pc = "put", !.blobs = {b}])
    BY Zenon, <1>2 DEF StageBlob
  <2>2. records' \in [Blobs -> BlobRow]
    BY <2>1, NumberAssumption DEF TypeOK, BlobRow
  <2>3. [Idle EXCEPT !.pc = "put", !.blobs = {b}] \in Task
    BY IdleIsTask DEF Task, Points
  <2>4. task' \in [Procs -> Task]
    BY <2>1, <2>3, TaskUpdated DEF Goto, TypeOK
  <2>5. QED
    BY <1>2, <2>2, <2>4 DEF StageBlob, TypeOK
<1>3. CASE PutObject(p)
  <2>1. task[p].blobs \subseteq Blobs
    BY DEF TypeOK, Task
  <2>2. task' \in [Procs -> Task]
    BY <1>3, IdleIsTask, TaskUpdated DEF PutObject, Done, Goto, TypeOK
  <2>3. QED
    BY <1>3, <2>1, <2>2 DEF PutObject, TypeOK, tables
<1>4. QED
  BY <1>1, <1>2, <1>3 DEF Upload

(* A commit in progress remembers mutations and blobs.                         *)
LEMMA CommitIsTask ==
  ASSUME NEW made \in [Mutations -> Mutation], NEW n \in Nat,
         NEW batch \in [1 .. n -> Mutations], NEW restoring \in BOOLEAN
  PROVE  [Idle EXCEPT !.pc = "exists", !.batch = batch, !.restoring = restoring,
                      !.blobs = {made[m].blob : m \in Range(batch)} \ {NoBlob}] \in Task
<1>1. batch \in Seq(Mutations)
  BY SeqDef
<1>2. {made[m].blob : m \in Range(batch)} \ {NoBlob} \subseteq Blobs
  BY DEF Range, Mutation, MaybeBlob
<1>3. QED
  BY Zenon, <1>1, <1>2, IdleIsTask DEF Task, Points

(* The version rows of a mutation are well formed.                             *)
LEMMA TypeNewVersions ==
  ASSUME TypeOK, NEW c \in Mutation, NEW restoring \in BOOLEAN
  PROVE  NewVersions(c, restoring) \subseteq VersionRow
<1>1. now \div BucketLength \in Nat
  BY NumberAssumption DEF TypeOK
<1>2. limits.retention \in Nat
  BY PolicyAssumption DEF TypeOK
<1>3. entries[c.entry] \in EntryRow
  BY DEF TypeOK, Mutation
<1> DEFINE row == [entry |-> c.entry, rev |-> entries[c.entry].rev,
                   blob |-> entries[c.entry].blob, bucket |-> 0,
                   expiresAt |-> now + limits.retention,
                   reason |-> IF c.blob = NoBlob THEN "before_delete" ELSE "before_restore"]
           sample == [row EXCEPT !.rev = entries[c.entry].rev + 1, !.blob = c.blob,
                                 !.bucket = now \div BucketLength, !.reason = "auto"]
<1>4. row \in VersionRow
  BY <1>2, <1>3 DEF VersionRow, EntryRow, Mutation, TypeOK
<1>5. sample \in VersionRow
  <2>1. c.blob \in MaybeBlob /\ entries[c.entry].rev + 1 \in Nat
    BY <1>3 DEF EntryRow, Mutation
  <2> HIDE DEF row
  <2>2. QED
    BY <1>1, <1>4, <2>1 DEF VersionRow
<1>6. NewVersions(c, restoring) \subseteq {row, sample}
  BY DEF NewVersions
<1>7. QED
  BY <1>4, <1>5, <1>6

(* A commit starts, asks, decides each mutation and ends.                      *)
LEMMA TypeCommit ==
  ASSUME TypeOK, NEW p \in Procs, Commit(p)
  PROVE  TypeOK'
<1>1. CASE StartCommit(p)
  <2>1. PICK n \in 1 .. MaxBatch :
          \E batch \in [1 .. n -> {m \in Mutations : sent[m].by = "client"}] :
            CommitMutations(p, sent, batch, FALSE)
    BY <1>1 DEF StartCommit
  <2> PICK batch \in [1 .. n -> {m \in Mutations : sent[m].by = "client"}] :
        CommitMutations(p, sent, batch, FALSE)
    BY <2>1
  <2>2. n \in Nat /\ batch \in [1 .. n -> Mutations]
    BY NumberAssumption
  <2>3. task' \in [Procs -> Task]
    BY Zenon, <2>1, <2>2, CommitIsTask, TaskUpdated DEF CommitMutations, Goto, TypeOK
  <2>4. QED
    BY <1>1, <2>3 DEF StartCommit, TypeOK, tables
<1>2. CASE StartRestore(p)
  <2>1. PICK n \in 1 .. MaxBatch :
          \E vs \in [1 .. n -> Unexpired(now)],
             ms \in [1 .. n -> {m \in Mutations : sent[m].by = "nobody"}] :
            /\ sent' = [m \in Mutations |->
                 IF \E i \in 1 .. n : ms[i] = m
                 THEN LET v == vs[CHOOSE i \in 1 .. n : ms[i] = m]
                      IN  [by |-> "server", entry |-> v.entry,
                           base |-> entries[v.entry].rev, blob |-> v.blob]
                 ELSE sent[m]]
            /\ CommitMutations(p, sent', ms, TRUE)
    BY <1>2 DEF StartRestore
  <2>2. PICK vs \in [1 .. n -> Unexpired(now)],
             ms \in [1 .. n -> {m \in Mutations : sent[m].by = "nobody"}] :
            /\ sent' = [m \in Mutations |->
                 IF \E i \in 1 .. n : ms[i] = m
                 THEN LET v == vs[CHOOSE i \in 1 .. n : ms[i] = m]
                      IN  [by |-> "server", entry |-> v.entry,
                           base |-> entries[v.entry].rev, blob |-> v.blob]
                 ELSE sent[m]]
            /\ CommitMutations(p, sent', ms, TRUE)
    BY <2>1
  <2>3. sent' \in [Mutations -> Mutation]
    <3> SUFFICES ASSUME NEW m \in Mutations, \E i \in 1 .. n : ms[i] = m
                 PROVE  LET v == vs[CHOOSE i \in 1 .. n : ms[i] = m]
                        IN  [by |-> "server", entry |-> v.entry,
                             base |-> entries[v.entry].rev, blob |-> v.blob] \in Mutation
      BY <2>2 DEF TypeOK
    <3> DEFINE j == CHOOSE i \in 1 .. n : ms[i] = m
    <3>1. j \in 1 .. n
      OBVIOUS
    <3> HIDE DEF j
    <3>2. vs[j] \in VersionRow
      BY <2>2, <3>1 DEF Unexpired, TypeOK
    <3>3. entries[vs[j].entry].rev \in Nat
      BY <3>2 DEF VersionRow, TypeOK, EntryRow
    <3>4. QED
      BY <3>2, <3>3 DEF j, VersionRow, Mutation
  <2>4. n \in Nat /\ ms \in [1 .. n -> Mutations]
    BY <2>2, NumberAssumption
  <2>5. task' \in [Procs -> Task]
    BY Zenon, <2>2, <2>3, <2>4, CommitIsTask, TaskUpdated DEF CommitMutations, Goto, TypeOK
  <2>6. QED
    BY <1>2, <2>3, <2>5 DEF StartRestore, TypeOK, tables
<1>3. CASE CheckBlob(p)
  <2>1. PICK b \in task[p].blobs :
          Goto(p, [task[p] EXCEPT !.blobs = @ \ {b},
                                  !.missing = IF b \in objects THEN @ ELSE @ \cup {b}])
    BY Zenon, <1>3 DEF CheckBlob
  <2>2. [task[p] EXCEPT !.blobs = @ \ {b},
                        !.missing = IF b \in objects THEN @ ELSE @ \cup {b}] \in Task
    <3>1. task[p].blobs \ {b} \subseteq Blobs /\ b \in Blobs
      BY <2>1 DEF TypeOK, Task
    <3>2. task[p] \in Task /\ task[p].missing \cup {b} \subseteq Blobs
      BY <3>1 DEF TypeOK, Task
    <3>3. QED
      BY <3>1, <3>2 DEF Task
  <2>3. task' \in [Procs -> Task]
    BY <2>1, <2>2, TaskUpdated DEF Goto, TypeOK
  <2>4. QED
    BY <1>3, <2>3 DEF CheckBlob, TypeOK, tables
<1>4. CASE BeginCommit(p)
  <2>1. [task[p] EXCEPT !.pc = "tx"] \in Task
    BY DEF TypeOK, Task, Points
  <2>2. task' \in [Procs -> Task]
    BY <1>4, <2>1, IdleIsTask, TaskUpdated DEF BeginCommit, Goto, Done, TypeOK
  <2>3. QED
    BY <1>4, <2>2 DEF BeginCommit, TypeOK, tables
<1>5. CASE SkipMutation(p)
  <2>1. Head(task[p].batch) \in Mutations /\ Tail(task[p].batch) \in Seq(Mutations)
    BY <1>5 DEF SkipMutation, TypeOK, Task
  <2>2. [task[p] EXCEPT !.batch = Tail(@), !.seen = @ \cup {Head(task[p].batch)}] \in Task
    BY <2>1 DEF TypeOK, Task
  <2>3. task' \in [Procs -> Task]
    BY <1>5, <2>2, TaskUpdated DEF SkipMutation, Goto, TypeOK
  <2>4. QED
    BY <1>5, <2>3 DEF SkipMutation, TypeOK, tables
<1>6. CASE ApplyMutation(p)
  <2> DEFINE m == Head(task[p].batch)
             c == sent[m]
             seq == ReachedCursor(p) + 1
  <2>1. m \in Mutations /\ Tail(task[p].batch) \in Seq(Mutations)
    BY <1>6 DEF ApplyMutation, TypeOK, Task
  <2>2. seq \in Nat
    BY DEF ReachedCursor, TypeOK, Task
  <2>3. /\ versions' = versions \cup NewVersions(c, task[p].restoring)
        /\ records' = BlobRowsAfter(c)
        /\ entries' = [entries EXCEPT ![c.entry] =
             [rev |-> c.base + 1, blob |-> c.blob, seq |-> seq, last |-> m]]
        /\ task' = [task EXCEPT ![p] =
             [task[p] EXCEPT !.batch = Tail(@), !.seen = @ \cup {m}, !.next = seq]]
        /\ log' = Append(log, [mutation |-> m, entry |-> c.entry,
                               rev |-> c.base + 1, blob |-> c.blob])
        /\ UNCHANGED <<used, cursor, limits, pause, objects, now, sent>>
    BY <1>6 DEF ApplyMutation, Goto
  <2>4. c \in Mutation /\ task[p].restoring \in BOOLEAN
    BY <2>1 DEF TypeOK, Task
  <2> HIDE DEF m, c, seq
  <2>5. versions' \subseteq VersionRow
    BY <2>3, <2>4, TypeNewVersions DEF TypeOK
  <2>6. records' \in [Blobs -> BlobRow]
    BY Zenon, <2>3 DEF BlobRowsAfter, TypeOK, BlobRow, NoRecord
  <2>7. entries' \in [Entries -> EntryRow]
    <3>1. [rev |-> c.base + 1, blob |-> c.blob, seq |-> seq, last |-> m] \in EntryRow
      BY <2>1, <2>2, <2>4 DEF EntryRow, Mutation
    <3>2. QED
      BY <2>3, <3>1 DEF TypeOK
  <2>8. task' \in [Procs -> Task]
    <3>1. [task[p] EXCEPT !.batch = Tail(@), !.seen = @ \cup {m}, !.next = seq] \in Task
      BY <2>1, <2>2 DEF TypeOK, Task
    <3>2. QED
      BY <2>3, <3>1, TaskUpdated DEF TypeOK
  <2>9. log' \in Seq([mutation : Mutations, entry : Entries, rev : Nat, blob : MaybeBlob])
    BY <2>1, <2>3, <2>4 DEF TypeOK, Mutation
  <2>10. QED
    BY <2>3, <2>5, <2>6, <2>7, <2>8, <2>9 DEF TypeOK
<1>7. CASE FinishCommit(p)
  <2>1. ReachedCursor(p) \in Nat
    BY DEF ReachedCursor, TypeOK, Task
  <2>2. task' \in [Procs -> Task]
    BY <1>7, IdleIsTask, TaskUpdated DEF FinishCommit, Done, Goto, TypeOK
  <2>3. QED
    BY <1>7, <2>1, <2>2 DEF FinishCommit, TypeOK
<1>8. QED
  BY <1>1, <1>2, <1>3, <1>4, <1>5, <1>6, <1>7 DEF Commit

(* Garbage collection, purge and deletion remember blobs and delete rows.       *)
LEMMA TypeCollection ==
  ASSUME TypeOK, NEW p \in Procs, Collection(p)
  PROVE  TypeOK'
<1>1. CASE RunGc(p)
  <2>1. versions' \subseteq VersionRow
    BY <1>1 DEF RunGc, Unexpired, TypeOK
  <2>2. Collect(p, {b \in Blobs : CollectibleBlob(b, now)})
    BY <1>1 DEF RunGc
  <2>3. PICK batch \in SUBSET {b \in Blobs : CollectibleBlob(b, now)} :
          IF batch = {} THEN Done(p)
          ELSE Goto(p, [Idle EXCEPT !.pc = "gc_delete", !.blobs = batch, !.at = now])
    BY Zenon, <2>2 DEF Collect
  <2>4. [Idle EXCEPT !.pc = "gc_delete", !.blobs = batch, !.at = now] \in Task
    BY IdleIsTask DEF Task, Points, TypeOK
  <2>5. task' \in [Procs -> Task]
    BY <2>3, <2>4, IdleIsTask, TaskUpdated DEF Goto, Done, TypeOK
  <2>6. QED
    BY <1>1, <2>1, <2>5 DEF RunGc, TypeOK
<1>2. CASE DeleteObjects(p)
  <2>1. PICK gone \in SUBSET task[p].blobs, reported \in SUBSET task[p].blobs :
          /\ objects' = objects \ gone
          /\ IF reported = {} THEN Done(p)
             ELSE Goto(p, [task[p] EXCEPT !.pc = "gc_record", !.blobs = reported])
    BY Zenon, <1>2 DEF DeleteObjects
  <2>2. [task[p] EXCEPT !.pc = "gc_record", !.blobs = reported] \in Task
    <3>1. task[p] \in Task /\ reported \in SUBSET Blobs
      BY DEF TypeOK, Task
    <3>2. [task[p] EXCEPT !.pc = "gc_record"] \in Task
      BY <3>1 DEF Task, Points
    <3>3. QED
      BY <3>1, <3>2 DEF Task
  <2>3. task' \in [Procs -> Task]
    BY <2>1, <2>2, IdleIsTask, TaskUpdated DEF Goto, Done, TypeOK
  <2>4. QED
    BY <1>2, <2>1, <2>3 DEF DeleteObjects, TypeOK, tables
<1>3. CASE DeleteRecords(p)
  <2>1. task' \in [Procs -> Task]
    BY <1>3, IdleIsTask, TaskUpdated DEF DeleteRecords, Goto, Done, TypeOK
  <2>2. records' \in [Blobs -> BlobRow]
    BY <1>3, TypeDeleteRows DEF DeleteRecords, TypeOK
  <2>3. QED
    BY <1>3, <2>1, <2>2 DEF DeleteRecords, TypeOK
<1>4. CASE PurgeDeletedEntries(p)
  <2> DEFINE t == [Idle EXCEPT !.pc = "purge_collect",
                     !.blobs = {v.blob : v \in versions \ versions'} \ {NoBlob}]
  <2>1. versions' \subseteq VersionRow
    BY <1>4 DEF PurgeDeletedEntries, TypeOK
  <2>2. {v.blob : v \in versions \ versions'} \ {NoBlob} \subseteq Blobs
    BY DEF TypeOK, VersionRow, MaybeBlob
  <2>3. t \in Task
    BY Zenon, <2>2, IdleIsTask DEF Task, Points
  <2>4. task' = [task EXCEPT ![p] = t]
    BY <1>4 DEF PurgeDeletedEntries, Goto
  <2> HIDE DEF t
  <2>5. task' \in [Procs -> Task]
    BY <2>3, <2>4, TaskUpdated DEF TypeOK
  <2>6. QED
    BY <1>4, <2>1, <2>5 DEF PurgeDeletedEntries, TypeOK
<1>5. CASE CollectPurgedBlobs(p)
  <2> DEFINE collectible == {b \in task[p].blobs : CollectibleBlob(b, now)'}
             t == [Idle EXCEPT !.pc = "gc_delete", !.blobs = collectible, !.at = now]
  <2>1. /\ \/ versions' = Unexpired(now) /\ records' = MarkUnpinned(task[p].blobs)
           \/ UNCHANGED <<versions, records>>
        /\ task' = [task EXCEPT ![p] = t] \/ task' = [task EXCEPT ![p] = Idle]
        /\ UNCHANGED <<entries, used, cursor, limits, pause, objects, now, sent, log>>
    BY <1>5 DEF CollectPurgedBlobs, Done, Goto
  <2>2. collectible \subseteq Blobs
    BY DEF TypeOK, Task
  <2>3. t \in Task
    BY Zenon, <2>2, IdleIsTask DEF Task, Points, TypeOK
  <2> HIDE DEF t
  <2>4. task' \in [Procs -> Task]
    BY <2>1, <2>3, IdleIsTask, TaskUpdated DEF TypeOK
  <2>5. MarkUnpinned(task[p].blobs) \in [Blobs -> BlobRow]
    BY Zenon DEF MarkUnpinned, TypeOK, BlobRow
  <2>6. records' \in [Blobs -> BlobRow] /\ versions' \subseteq VersionRow
    BY <2>1, <2>5 DEF Unexpired, TypeOK
  <2>7. QED
    BY <2>1, <2>4, <2>6 DEF TypeOK
<1>6. CASE DeleteBlob(p)
  <2>1. PICK b \in Blobs :
          Goto(p, [Idle EXCEPT !.blobs = {b}, !.pc =
            IF records[b].state = "none" THEN "object_delete" ELSE "blob_delete"])
    BY Zenon, <1>6 DEF DeleteBlob
  <2>2. [Idle EXCEPT !.blobs = {b}, !.pc =
            IF records[b].state = "none" THEN "object_delete" ELSE "blob_delete"] \in Task
    BY IdleIsTask DEF Task, Points
  <2>3. task' \in [Procs -> Task]
    BY <2>1, <2>2, TaskUpdated DEF Goto, TypeOK
  <2>4. QED
    BY <1>6, <2>3 DEF DeleteBlob, TypeOK, tables
<1>7. CASE DeleteBlobObject(p)
  <2>1. [task[p] EXCEPT !.pc = "blob_record"] \in Task
    BY DEF Task, Points, TypeOK
  <2>2. task' \in [Procs -> Task]
    BY <1>7, <2>1, IdleIsTask, TaskUpdated DEF DeleteBlobObject, Goto, Done, TypeOK
  <2>3. QED
    BY <1>7, <2>2 DEF DeleteBlobObject, TypeOK, tables
<1>8. CASE DeleteBlobRecord(p)
  <2>1. task' \in [Procs -> Task]
    BY <1>8, IdleIsTask, TaskUpdated DEF DeleteBlobRecord, Goto, Done, TypeOK
  <2>2. records' \in [Blobs -> BlobRow]
    BY <1>8, TypeDeleteRows DEF DeleteBlobRecord, TypeOK
  <2>3. QED
    BY <1>8, <2>1, <2>2 DEF DeleteBlobRecord, TypeOK
<1>9. QED
  BY <1>1, <1>2, <1>3, <1>4, <1>5, <1>6, <1>7, <1>8 DEF Collection

(* A repair walks over blobs, drops rows and may end the pause.                 *)
LEMMA TypeRepair ==
  ASSUME TypeOK, NEW p \in Procs, Repair(p)
  PROVE  TypeOK'
<1>1. CASE RepairSyncState(p)
  <2>1. StaleStaged(now) \subseteq Blobs /\ now \in Nat /\ (pause = "repair") \in BOOLEAN
    BY DEF StaleStaged, TypeOK
  <2>2. [Idle EXCEPT !.pc = "repair", !.blobs = StaleStaged(now), !.at = now,
                     !.wasPaused = (pause = "repair")] \in Task
    BY <2>1, IdleIsTask DEF Task, Points
  <2>3. task' \in [Procs -> Task]
    BY <1>1, <2>2, TaskUpdated DEF RepairSyncState, Goto, TypeOK
  <2>4. QED
    BY <1>1, <2>3 DEF RepairSyncState, TypeOK, tables
<1>2. CASE RepairBlob(p)
  <2>1. PICK b \in task[p].blobs :
          \/ /\ Goto(p, [task[p] EXCEPT !.pc = "repair", !.blobs = @ \ {b}, !.issue = TRUE])
             /\ UNCHANGED <<records, used>>
          \/ /\ DeleteBlobRows({b})
             /\ Goto(p, [task[p] EXCEPT !.pc = "repair_object", !.blobs = @ \ {b},
                                        !.missing = {b}])
    BY Zenon, <1>2 DEF RepairBlob
  <2>2. task[p] \in Task /\ task[p].blobs \ {b} \subseteq Blobs /\ {b} \subseteq Blobs
    BY <2>1 DEF TypeOK, Task
  <2>3. /\ [task[p] EXCEPT !.pc = "repair", !.blobs = @ \ {b}, !.issue = TRUE] \in Task
        /\ [task[p] EXCEPT !.pc = "repair_object", !.blobs = @ \ {b}, !.missing = {b}] \in Task
    BY <2>2 DEF Task, Points
  <2>4. task' \in [Procs -> Task]
    BY <2>1, <2>3, TaskUpdated DEF Goto, TypeOK
  <2>5. records' \in [Blobs -> BlobRow]
    BY <2>1, TypeDeleteRows DEF TypeOK
  <2>6. QED
    BY <1>2, <2>4, <2>5 DEF RepairBlob, TypeOK
<1>3. CASE RepairObject(p)
  <2>1. PICK failed \in BOOLEAN :
          /\ objects' \in {objects \ task[p].missing} \cup (IF failed THEN {objects} ELSE {})
          /\ Goto(p, [task[p] EXCEPT !.pc = "repair_resume", !.missing = {}, !.issue = @ \/ failed])
    BY Zenon, <1>3 DEF RepairObject
  <2>2. (task[p].issue \/ failed) \in BOOLEAN
    OBVIOUS
  <2>3. [task[p] EXCEPT !.pc = "repair_resume", !.missing = {}, !.issue = @ \/ failed] \in Task
    <3>1. task[p] \in Task
      BY DEF TypeOK
    <3>2. ASSUME NEW t \in Task, NEW issue \in BOOLEAN
          PROVE  [t EXCEPT !.pc = "repair_resume", !.missing = {}, !.issue = issue] \in Task
      BY DEF Task, Points
    <3>3. QED
      BY <2>2, <3>1, <3>2
  <2>4. task' \in [Procs -> Task]
    BY <2>1, <2>3, TaskUpdated DEF Goto, TypeOK
  <2>5. objects' \subseteq Blobs
    BY <2>1 DEF TypeOK
  <2>6. QED
    BY <1>3, <2>4, <2>5 DEF RepairObject, TypeOK, tables
<1>4. CASE FinishRepair(p)
  <2>1. task' \in [Procs -> Task]
    BY <1>4, IdleIsTask, TaskUpdated DEF FinishRepair, Goto, Done, TypeOK
  <2>2. QED
    BY <1>4, <2>1 DEF FinishRepair, TypeOK, tables
<1>5. QED
  BY <1>1, <1>2, <1>3, <1>4 DEF Repair

(* The remaining steps: new mutations, pause, policy, failures and time.        *)
LEMMA TypeEnvironment ==
  ASSUME TypeOK,
         \/ \E m \in Mutations : NewMutation(m)
         \/ \E p \in Procs : ObjectStoreFails(p)
         \/ SetSyncPause \/ ApplyVaultPolicy \/ Crash \/ Tick
  PROVE  TypeOK'
<1>1. CASE \E m \in Mutations : NewMutation(m)
  <2>1. PICK m \in Mutations, e \in Entries, b \in MaybeBlob :
          \E base \in 0 .. entries[e].rev :
            sent' = [sent EXCEPT ![m] = [by |-> "client", entry |-> e, base |-> base, blob |-> b]]
    BY <1>1 DEF NewMutation
  <2>2. entries[e].rev \in Nat
    BY DEF TypeOK, EntryRow
  <2>3. sent' \in [Mutations -> Mutation]
    BY <2>1, <2>2 DEF TypeOK, Mutation
  <2>4. QED
    BY <1>1, <2>3 DEF NewMutation, TypeOK, tables
<1>2. CASE \E p \in Procs : ObjectStoreFails(p)
  <2>1. task' \in [Procs -> Task]
    BY <1>2, IdleIsTask, TaskUpdated DEF ObjectStoreFails, Goto, Done, TypeOK
  <2>2. QED
    BY <1>2, <2>1 DEF ObjectStoreFails, TypeOK, tables
<1>3. CASE SetSyncPause
  BY <1>3 DEF SetSyncPause, TypeOK, tables
<1>4. CASE ApplyVaultPolicy
  BY <1>4 DEF ApplyVaultPolicy, TypeOK, tables
<1>5. CASE Crash
  BY <1>5, IdleIsTask DEF Crash, TypeOK, tables
<1>6. CASE Tick
  BY <1>6 DEF Tick, TypeOK, tables
<1>7. QED
  BY <1>1, <1>2, <1>3, <1>4, <1>5, <1>6

(* Every step of a handler, an operator or the environment keeps it so.        *)
LEMMA TypeStep == TypeOK /\ [Next]_vars => TypeOK'
<1> SUFFICES ASSUME TypeOK, [Next]_vars
             PROVE  TypeOK'
  OBVIOUS
<1>1. ASSUME NEW p \in Procs, Upload(p) PROVE TypeOK'
  BY <1>1, TypeUpload
<1>2. ASSUME NEW p \in Procs, Commit(p) PROVE TypeOK'
  BY <1>2, TypeCommit
<1>3. ASSUME NEW p \in Procs, Collection(p) PROVE TypeOK'
  BY <1>3, TypeCollection
<1>4. ASSUME NEW p \in Procs, Repair(p) PROVE TypeOK'
  BY <1>4, TypeRepair
<1>5. CASE \/ \E m \in Mutations : NewMutation(m)
           \/ \E p \in Procs : ObjectStoreFails(p)
           \/ SetSyncPause \/ ApplyVaultPolicy \/ Crash \/ Tick
  BY <1>5, TypeEnvironment
<1>6. CASE UNCHANGED vars
  BY <1>6 DEF vars, TypeOK
<1>7. QED
  BY <1>1, <1>2, <1>3, <1>4, <1>5, <1>6 DEF Next

(* Every reachable state is made of well formed rows and handlers, on either   *)
(* runtime and whatever requests are made.                                     *)
THEOREM CoordinatorTypeOK == Spec => []TypeOK
BY TypeInit, TypeStep, PTL DEF Spec

-----------------------------------------------------------------------------
(* The lifecycle state of a blob row agrees with the entries table, as long as *)
(* no deleteBlob interleaves with other requests: a row is live exactly while  *)
(* a current entry holds its blob.                                             *)

HandlerStep(p) == Upload(p) \/ Commit(p) \/ Collection(p) \/ Repair(p) \/ ObjectStoreFails(p)

(* A step changes one handler at most, and one that is not under the lock gets  *)
(* past its idle and put points only where the lock admits it.                 *)
LEMMA OneHandlerStep ==
  ASSUME TypeOK, NEW p \in Procs, HandlerStep(p)
  PROVE  \E t \in Task :
           /\ task' = [task EXCEPT ![p] = t]
           /\ t.pc \in {"idle", "put"} \/ HoldsLock(p) \/ Admitted
<1>1. TypeOK'
  BY TypeStep DEF HandlerStep, Next
<1>2. task'[p] \in Task /\ task \in [Procs -> Task]
  BY <1>1 DEF TypeOK
<1>3. task' = [task EXCEPT ![p] = task'[p]]
  <2>1. CASE Upload(p)
    BY Zenon, <2>1, <1>2 DEF Upload, StageBlobPauses, StageBlob, PutObject, Goto, Done
  <2>2. CASE Commit(p)
    BY Zenon, <2>2, <1>2 DEF Commit, StartCommit, StartRestore, CommitMutations, CheckBlob,
       BeginCommit, SkipMutation, ApplyMutation, FinishCommit, Goto, Done
  <2>3. CASE Collection(p)
    BY Zenon, <2>3, <1>2 DEF Collection, RunGc, Collect, DeleteObjects, DeleteRecords,
       PurgeDeletedEntries, CollectPurgedBlobs, DeleteBlob, DeleteBlobObject,
       DeleteBlobRecord, Goto, Done
  <2>4. CASE Repair(p)
    BY Zenon, <2>4, <1>2 DEF Repair, RepairSyncState, RepairBlob, RepairObject, FinishRepair, Goto, Done
  <2>5. CASE ObjectStoreFails(p)
    BY <2>5, <1>2 DEF ObjectStoreFails, Goto, Done
  <2>6. QED
    BY <2>1, <2>2, <2>3, <2>4, <2>5 DEF HandlerStep
<1>4. task'[p].pc \in {"idle", "put"} \/ HoldsLock(p) \/ Admitted
  <2>1. CASE Upload(p)
    <3>1. CASE StageBlobPauses(p)
      BY <3>1 DEF StageBlobPauses, Starts
    <3>2. CASE StageBlob(p)
      <4>1. PICK b \in Blobs : task' = [task EXCEPT ![p] = [Idle EXCEPT !.pc = "put", !.blobs = {b}]]
        BY Zenon, <3>2 DEF StageBlob, Goto
      <4>2. task'[p].pc = "put"
        BY <4>1, <1>2 DEF Idle
      <4>3. QED
        BY <4>2
    <3>3. CASE PutObject(p)
      BY <3>3, <1>2 DEF PutObject, Goto, Done, Idle
    <3>4. QED
      BY <2>1, <3>1, <3>2, <3>3 DEF Upload
  <2>2. CASE Commit(p)
    BY Zenon, <2>2 DEF Commit, StartCommit, StartRestore, CheckBlob, BeginCommit, SkipMutation,
       ApplyMutation, FinishCommit, Starts, Resumes, HoldsLock
  <2>3. CASE Collection(p)
    BY Zenon, <2>3 DEF Collection, RunGc, DeleteObjects, DeleteRecords, PurgeDeletedEntries,
       CollectPurgedBlobs, DeleteBlob, DeleteBlobObject, DeleteBlobRecord, Starts, Resumes,
       HoldsLock
  <2>4. CASE Repair(p)
    BY Zenon, <2>4 DEF Repair, RepairSyncState, RepairBlob, RepairObject, FinishRepair, Repairing,
       Starts, Resumes, HoldsLock
  <2>5. CASE ObjectStoreFails(p)
    BY <2>5 DEF ObjectStoreFails, HoldsLock
  <2>6. QED
    BY <2>1, <2>2, <2>3, <2>4, <2>5 DEF HandlerStep
<1>5. QED
  BY <1>2, <1>3, <1>4

(* Where the handler of each kind can be after a step.                         *)
LEMMA Destinations ==
  ASSUME TypeOK, NEW p \in Procs
  PROVE  /\ Upload(p) => task'[p].pc \in {"idle", "put"}
         /\ Commit(p) => task'[p].pc \in {"idle", "exists", "tx"}
         /\ Collection(p) => task'[p].pc \in {"idle", "gc_delete", "gc_record", "purge_collect",
                                             "blob_delete", "object_delete", "blob_record"}
         /\ Repair(p) => task'[p].pc \in {"idle", "repair", "repair_object", "repair_resume"}
         /\ ObjectStoreFails(p) => task'[p].pc = "idle"
<1>1. task[p] \in Task /\ task \in [Procs -> Task]
  BY DEF TypeOK
<1>2. Idle.pc = "idle"
  BY DEF Idle
<1>3. ASSUME Upload(p)
      PROVE  task'[p].pc \in {"idle", "put"}
  <2>1. CASE StageBlobPauses(p)
    BY <2>1 DEF StageBlobPauses, Starts
  <2>2. CASE StageBlob(p)
    <3>1. PICK b \in Blobs : task' = [task EXCEPT ![p] = [Idle EXCEPT !.pc = "put", !.blobs = {b}]]
      BY Zenon, <2>2 DEF StageBlob, Goto
    <3>2. QED
      BY <1>1, <3>1, IdleIsTask DEF Task
  <2>3. CASE PutObject(p)
    BY <1>1, <1>2, <2>3 DEF PutObject, Goto, Done
  <2>4. QED
    BY <1>3, <2>1, <2>2, <2>3 DEF Upload
<1>4. ASSUME Commit(p)
      PROVE  task'[p].pc \in {"idle", "exists", "tx"}
  <2>1. ASSUME NEW made, NEW batch, NEW restoring, CommitMutations(p, made, batch, restoring)
        PROVE  task'[p].pc = "exists"
    BY <1>1, <2>1, IdleIsTask DEF CommitMutations, Goto, Task
  <2>2. CASE StartCommit(p)
    BY <2>1, <2>2 DEF StartCommit
  <2>3. CASE StartRestore(p)
    BY <2>1, <2>3 DEF StartRestore
  <2>4. CASE CheckBlob(p)
    <3>1. PICK b, missing : task' = [task EXCEPT ![p] =
            [task[p] EXCEPT !.blobs = @ \ {b}, !.missing = missing]]
      BY Zenon, <2>4 DEF CheckBlob, Goto
    <3>2. QED
      BY <1>1, <2>4, <3>1 DEF CheckBlob, Resumes, Task
  <2>5. CASE BeginCommit(p)
    BY <1>1, <1>2, <2>5 DEF BeginCommit, Goto, Done, Task
  <2>6. CASE SkipMutation(p)
    BY <1>1, <2>6 DEF SkipMutation, Goto, Task
  <2>7. CASE ApplyMutation(p)
    BY <1>1, <2>7 DEF ApplyMutation, Goto, Task
  <2>8. CASE FinishCommit(p)
    BY <1>1, <1>2, <2>8 DEF FinishCommit, Goto, Done
  <2>9. QED
    BY <1>4, <2>2, <2>3, <2>4, <2>5, <2>6, <2>7, <2>8 DEF Commit
<1>5. ASSUME Collection(p)
      PROVE  task'[p].pc \in {"idle", "gc_delete", "gc_record", "purge_collect",
                             "blob_delete", "object_delete", "blob_record"}
  <2>1. ASSUME NEW B, Goto(p, [Idle EXCEPT !.pc = "gc_delete", !.blobs = B, !.at = now])
        PROVE  task'[p].pc = "gc_delete"
    BY <1>1, <2>1, IdleIsTask DEF Goto, Task
  <2>2. ASSUME Done(p)
        PROVE  task'[p].pc = "idle"
    BY <1>1, <1>2, <2>2 DEF Goto, Done
  <2>3. CASE RunGc(p)
    BY Zenon, <2>1, <2>2, <2>3 DEF RunGc, Collect
  <2>4. CASE DeleteObjects(p)
    <3>1. PICK B : \/ task' = [task EXCEPT ![p] = [task[p] EXCEPT !.pc = "gc_record", !.blobs = B]]
                   \/ Done(p)
      BY Zenon, <2>4 DEF DeleteObjects, Goto
    <3>2. QED
      BY <1>1, <2>2, <3>1 DEF Task
  <2>5. CASE DeleteRecords(p) \/ DeleteBlobRecord(p)
    BY <2>2, <2>5 DEF DeleteRecords, DeleteBlobRecord
  <2>6. CASE PurgeDeletedEntries(p)
    <3>1. PICK B : task' = [task EXCEPT ![p] = [Idle EXCEPT !.pc = "purge_collect", !.blobs = B]]
      BY Zenon, <2>6 DEF PurgeDeletedEntries, Goto
    <3>2. QED
      BY <1>1, <3>1, IdleIsTask DEF Task
  <2>7. CASE CollectPurgedBlobs(p)
    BY Zenon, <2>1, <2>2, <2>7 DEF CollectPurgedBlobs
  <2>8. CASE DeleteBlob(p)
    <3>1. PICK b \in Blobs : task' = [task EXCEPT ![p] = [Idle EXCEPT !.blobs = {b}, !.pc =
            IF records[b].state = "none" THEN "object_delete" ELSE "blob_delete"]]
      BY Zenon, <2>8 DEF DeleteBlob, Goto
    <3>2. QED
      BY <1>1, <3>1, IdleIsTask DEF Task
  <2>9. CASE DeleteBlobObject(p)
    BY <1>1, <2>2, <2>9 DEF DeleteBlobObject, Goto, Task
  <2>10. QED
    BY <1>5, <2>3, <2>4, <2>5, <2>6, <2>7, <2>8, <2>9 DEF Collection
<1>6. ASSUME Repair(p)
      PROVE  task'[p].pc \in {"idle", "repair", "repair_object", "repair_resume"}
  <2>1. CASE RepairSyncState(p)
    BY <1>1, <2>1, IdleIsTask DEF RepairSyncState, Goto, Task
  <2>2. CASE RepairBlob(p)
    <3>1. PICK b \in Blobs :
            \/ task' = [task EXCEPT ![p] = [task[p] EXCEPT !.pc = "repair", !.blobs = @ \ {b},
                                                         !.issue = TRUE]]
            \/ task' = [task EXCEPT ![p] = [task[p] EXCEPT !.pc = "repair_object",
                                             !.blobs = @ \ {b}, !.missing = {b}]]
      BY Zenon, <1>1, <2>2 DEF RepairBlob, Goto, Task
    <3>2. QED
      BY <1>1, <3>1 DEF Task
  <2>3. CASE RepairObject(p)
    BY <1>1, <2>3 DEF RepairObject, Goto, Task
  <2>4. CASE FinishRepair(p)
    BY <1>1, <1>2, <2>4 DEF FinishRepair, Goto, Done
  <2>5. QED
    BY <1>6, <2>1, <2>2, <2>3, <2>4 DEF Repair
<1>7. ASSUME ObjectStoreFails(p)
      PROVE  task'[p].pc = "idle"
  BY <1>1, <1>2, <1>7 DEF ObjectStoreFails, Goto, Done
<1>8. QED
  BY <1>3, <1>4, <1>5, <1>6, <1>7

(* The lock has one holder.                                                    *)
LEMMA LockStep ==
  ASSUME TypeOK, LockHeldOnce, [Next]_vars
  PROVE  LockHeldOnce'
<1>1. ASSUME NEW p \in Procs, HandlerStep(p)
      PROVE  LockHeldOnce'
  <2>1. PICK t \in Task : /\ task' = [task EXCEPT ![p] = t]
                          /\ t.pc \in {"idle", "put"} \/ HoldsLock(p) \/ Admitted
    BY <1>1, OneHandlerStep
  <2>2. \A q \in Procs : q # p => HoldsLock(q)' = HoldsLock(q)
    BY <2>1 DEF HoldsLock, TypeOK
  <2>3. HoldsLock(p)' => HoldsLock(p) \/ Admitted
    BY <2>1 DEF HoldsLock, TypeOK
  <2>4. QED
    BY <2>2, <2>3 DEF LockHeldOnce, Admitted
<1>2. CASE UNCHANGED task
  BY <1>2 DEF LockHeldOnce, HoldsLock
<1>3. CASE Crash
  BY <1>3 DEF Crash, LockHeldOnce, HoldsLock, Idle
<1>4. QED
  BY <1>1, <1>2, <1>3 DEF Next, HandlerStep, NewMutation, SetSyncPause, ApplyVaultPolicy, Tick, vars

(* A step that leaves the entries alone keeps deleteBlob off referenced blobs.  *)
LEMMA DoomedKept ==
  ASSUME TypeOK, DeleteBlobIsLocked, DoomedUnreferenced, NEW p \in Procs, HandlerStep(p),
         entries' = entries
  PROVE  DoomedUnreferenced'
<1>1. TypeOK' /\ \E t : task' = [task EXCEPT ![p] = t]
  BY TypeStep, OneHandlerStep DEF HandlerStep, Next
<1>2. \A q \in Procs : q # p => task'[q] = task[q]
  BY <1>1 DEF TypeOK
<1>3. ASSUME task'[p].pc \in {"blob_delete", "blob_record"}
      PROVE  Serialized /\ \A b \in task'[p].blobs : ~HasCurrentReference(b)
  <2>1. CASE DeleteBlob(p)
    <3>1. PICK b \in Blobs :
            /\ records[b].state # "none" => ~IsBlobPinned(b, now)
            /\ task' = [task EXCEPT ![p] = [Idle EXCEPT !.blobs = {b}, !.pc =
                 IF records[b].state = "none" THEN "object_delete" ELSE "blob_delete"]]
      BY Zenon, <2>1 DEF DeleteBlob, Goto
    <3>2. task'[p].blobs = {b} /\ (records[b].state # "none")
      BY <3>1, <1>3 DEF TypeOK, Idle
    <3>3. Serialized
      BY <2>1 DEF DeleteBlob, Starts, DeleteBlobIsLocked
    <3>4. QED
      BY <3>1, <3>2, <3>3 DEF IsBlobPinned
  <2>2. CASE DeleteBlobObject(p)
    <3>1. task[p].pc = "blob_delete" /\ task'[p].blobs = task[p].blobs
      BY <2>2, <1>3 DEF DeleteBlobObject, Resumes, Goto, Done, Idle, TypeOK, Task
    <3>2. QED
      BY <3>1 DEF DoomedUnreferenced
  <2>3. CASE ~DeleteBlob(p) /\ ~DeleteBlobObject(p)
    <3>1. Collection(p)
      BY <1>3, Destinations DEF HandlerStep
    <3>2. ASSUME NEW B, Goto(p, [Idle EXCEPT !.pc = "gc_delete", !.blobs = B, !.at = now])
          PROVE  FALSE
      BY <1>3, <3>2, IdleIsTask DEF Goto, Task, TypeOK
    <3>3. ~Done(p)
      BY <1>3 DEF Goto, Done, Idle, TypeOK
    <3>4. CASE DeleteObjects(p)
      <4>1. PICK B : task' = [task EXCEPT ![p] = [task[p] EXCEPT !.pc = "gc_record", !.blobs = B]]
        BY Zenon, <3>3, <3>4 DEF DeleteObjects, Goto
      <4>2. QED
        BY <4>1, <1>3 DEF Task, TypeOK
    <3>5. CASE PurgeDeletedEntries(p)
      <4>1. PICK B : task' = [task EXCEPT ![p] = [Idle EXCEPT !.pc = "purge_collect", !.blobs = B]]
        BY Zenon, <3>5 DEF PurgeDeletedEntries, Goto
      <4>2. QED
        BY <4>1, <1>3, IdleIsTask DEF Task, TypeOK
    <3>6. QED
      BY Zenon, <2>3, <3>1, <3>2, <3>3, <3>4, <3>5 DEF Collection, RunGc, Collect, DeleteRecords,
         CollectPurgedBlobs, DeleteBlobRecord
  <2>4. QED
    BY <2>1, <2>2, <2>3
<1>4. QED
  BY <1>2, <1>3 DEF DoomedUnreferenced, HasCurrentReference

(* Only the mutation of a commit writes the entries table.                     *)
LEMMA EntriesKept ==
  ASSUME NEW p \in Procs, HandlerStep(p), ~ApplyMutation(p)
  PROVE  entries' = entries
<1>1. CASE Upload(p)
  BY Zenon, <1>1 DEF Upload, StageBlobPauses, StageBlob, PutObject, tables
<1>2. CASE Commit(p)
  BY Zenon, <1>2 DEF Commit, StartCommit, StartRestore, CheckBlob, BeginCommit, SkipMutation,
     FinishCommit, tables
<1>3. CASE Collection(p)
  BY Zenon, <1>3 DEF Collection, RunGc, DeleteObjects, DeleteRecords, PurgeDeletedEntries,
     CollectPurgedBlobs, DeleteBlob, DeleteBlobObject, DeleteBlobRecord, tables
<1>4. CASE Repair(p)
  BY Zenon, <1>4 DEF Repair, RepairSyncState, RepairBlob, RepairObject, FinishRepair, tables
<1>5. CASE ObjectStoreFails(p)
  BY <1>5 DEF ObjectStoreFails, tables
<1>6. QED
  BY <1>1, <1>2, <1>3, <1>4, <1>5 DEF HandlerStep

(* While a commit is in its transaction no deleteBlob is under way.            *)
LEMMA DoomedDuringCommit ==
  ASSUME TypeOK, LockHeldOnce, DoomedUnreferenced, NEW p \in Procs, ApplyMutation(p)
  PROVE  DoomedUnreferenced'
<1>1. task[p].pc = "tx" /\ task \in [Procs -> Task]
  BY DEF ApplyMutation, TypeOK
<1>2. \A q \in Procs : task[q].pc \notin {"blob_delete", "blob_record"}
  BY <1>1 DEF DoomedUnreferenced, LockHeldOnce, HoldsLock
<1>3. \A q \in Procs : task'[q].pc = task[q].pc
  BY <1>1 DEF ApplyMutation, Goto, Task
<1>4. QED
  BY <1>2, <1>3 DEF DoomedUnreferenced

(* A mutation makes its blob live and retires the one it replaces.             *)
LEMMA LiveDuringCommit ==
  ASSUME TypeOK, LiveIffReferenced, NEW p \in Procs, ApplyMutation(p)
  PROVE  LiveIffReferenced'
<1> DEFINE m == Head(task[p].batch)
           c == sent[m]
<1>1. m \in Mutations /\ c \in Mutation
  BY DEF ApplyMutation, TypeOK, Task, Mutation
<1>2. c.entry \in Entries /\ c.blob \in MaybeBlob
  BY <1>1 DEF Mutation
<1>3. c.blob # NoBlob => records[c.blob].state # "none"
  BY Zenon DEF ApplyMutation, Skips
<1>4. records' = BlobRowsAfter(c)
  BY DEF ApplyMutation
<1>5. \A e \in Entries : entries'[e].blob = IF e = c.entry THEN c.blob ELSE entries[e].blob
  BY <1>2 DEF ApplyMutation, TypeOK
<1> HIDE DEF c, m
<1>6. ASSUME NEW b \in Blobs
      PROVE  records'[b].state = "live" <=> \E e \in Entries : entries'[e].blob = b
  <2>1. records[b].state = "live" <=> \E e \in Entries : entries[e].blob = b
    BY DEF LiveIffReferenced, HasCurrentReference
  <2>2. records[b] \in BlobRow
    BY DEF TypeOK
  <2>3. CASE records[b].state = "none"
    <3>1. records'[b].state = "none"
      BY Zenon, <1>4, <2>3 DEF BlobRowsAfter, NoRecord
    <3>2. c.blob # b
      BY <1>3, <2>3, ValueAssumption
    <3>3. QED
      BY <1>5, <2>1, <2>3, <3>1, <3>2
  <2>4. CASE records[b].state # "none" /\ b = c.blob
    <3>1. records'[b].state = "live"
      BY Zenon, <1>4, <2>2, <2>4 DEF BlobRowsAfter, BlobRow
    <3>2. QED
      BY <1>2, <1>5, <2>4, <3>1
  <2>5. CASE records[b].state # "none" /\ b # c.blob /\ Retires(c, b)
    <3>1. records'[b].state = "pending_delete"
      BY Zenon, <1>4, <2>2, <2>5 DEF BlobRowsAfter, BlobRow
    <3>2. QED
      BY <1>5, <2>5, <3>1 DEF Retires
  <2>6. CASE records[b].state # "none" /\ b # c.blob /\ ~Retires(c, b)
    <3>1. records'[b] = records[b]
      BY Zenon, <1>4, <2>6 DEF BlobRowsAfter
    <3>2. QED
      BY <1>2, <1>5, <2>1, <2>6, <3>1 DEF Retires
  <2>7. QED
    BY <2>3, <2>4, <2>5, <2>6
<1>7. QED
  BY <1>6 DEF LiveIffReferenced, HasCurrentReference

(* The other handlers only touch rows of blobs that no entry holds.            *)
LEMMA LiveOtherwise ==
  ASSUME TypeOK, DoomedUnreferenced, LiveIffReferenced,
         NEW p \in Procs, HandlerStep(p), entries' = entries
  PROVE  LiveIffReferenced'
<1>1. SUFFICES ASSUME NEW b \in Blobs
               PROVE  \/ records'[b].state = records[b].state
                      \/ ~HasCurrentReference(b) /\ records'[b].state # "live"
  BY DEF LiveIffReferenced, HasCurrentReference
<1>2. records[b].state = "live" <=> HasCurrentReference(b)
  BY DEF LiveIffReferenced
<1>3. CASE UNCHANGED records
  BY <1>3
<1>4. CASE StageBlob(p)
  <2>1. PICK x \in Blobs, s \in Sizes :
          /\ records[x].state # "none" => ~IsBlobPinned(x, now)
          /\ \E t : records' = [records EXCEPT ![x] =
               [state |-> "staged", size |-> s, deleteAfter |-> now + Grace, createdAt |-> t]]
    BY <1>4 DEF StageBlob
  <2>2. QED
    BY <1>2, <2>1 DEF TypeOK, IsBlobPinned, LiveIffReferenced
<1>5. ASSUME NEW B, DeleteBlobRows(B), b \in B => records[b].state # "live"
      PROVE  \/ records'[b].state = records[b].state
             \/ ~HasCurrentReference(b) /\ records'[b].state # "live"
  BY <1>2, <1>5 DEF DeleteBlobRows, NoRecord
<1>6. CASE DeleteRecords(p)
  BY <1>5, <1>6 DEF DeleteRecords, CollectibleBlob
<1>7. CASE DeleteBlobRecord(p)
  BY <1>2, <1>5, <1>7 DEF DeleteBlobRecord, Resumes, DoomedUnreferenced
<1>8. CASE RepairBlob(p)
  BY <1>3, <1>5, <1>8 DEF RepairBlob
<1>9. CASE CollectPurgedBlobs(p)
  BY Zenon, <1>2, <1>3, <1>9 DEF CollectPurgedBlobs, MarkUnpinned, IsBlobPinned, TypeOK, BlobRow
<1>10. CASE Upload(p) /\ ~StageBlob(p)
  BY <1>3, <1>10 DEF Upload, StageBlobPauses, PutObject, tables
<1>11. CASE Commit(p) /\ ~ApplyMutation(p)
  BY Zenon, <1>3, <1>11 DEF Commit, StartCommit, StartRestore, CheckBlob, BeginCommit, SkipMutation,
     FinishCommit, tables
<1>12. CASE ApplyMutation(p)
  BY <1>12, LiveDuringCommit DEF LiveIffReferenced, HasCurrentReference
<1>13. CASE \/ RunGc(p) \/ DeleteObjects(p) \/ PurgeDeletedEntries(p)
            \/ DeleteBlob(p) \/ DeleteBlobObject(p)
  BY Zenon, <1>3, <1>13 DEF RunGc, DeleteObjects, PurgeDeletedEntries, DeleteBlob, DeleteBlobObject, tables
<1>14. CASE RepairSyncState(p) \/ RepairObject(p) \/ FinishRepair(p) \/ ObjectStoreFails(p)
  BY Zenon, <1>3, <1>14 DEF RepairSyncState, RepairObject, FinishRepair, ObjectStoreFails, tables
<1>15. QED
  BY <1>4, <1>6, <1>7, <1>8, <1>9, <1>10, <1>11, <1>12, <1>13, <1>14
     DEF HandlerStep, Upload, Commit, Collection, Repair

(* A vault starts with one handler in the lock at most and no live rows.       *)
LEMMA LifecycleInit == Init => LifecycleInv
<1> SUFFICES ASSUME Init
             PROVE  LifecycleInv
  OBVIOUS
<1>1. TypeOK
  BY TypeInit
<1>2. LockHeldOnce /\ DoomedUnreferenced
  BY DEF Init, LockHeldOnce, DoomedUnreferenced, HoldsLock, Idle
<1>3. \A b \in Blobs : records[b].state # "live"
  BY DEF Init, NoRecord, StrandedRow
<1>4. \A b \in Blobs : ~HasCurrentReference(b)
  BY ValueAssumption DEF Init, HasCurrentReference, NoEntry
<1>5. QED
  BY <1>1, <1>2, <1>3, <1>4 DEF LifecycleInv, LiveIffReferenced

(* Every step keeps a blob live exactly while a current entry names it.        *)
LEMMA LifecycleStep ==
  ASSUME DeleteBlobIsLocked, LifecycleInv, [Next]_vars
  PROVE  LifecycleInv'
<1>1. TypeOK /\ LockHeldOnce /\ DoomedUnreferenced /\ LiveIffReferenced
  BY DEF LifecycleInv
<1>2. TypeOK' /\ LockHeldOnce'
  BY <1>1, TypeStep, LockStep
<1>3. ASSUME NEW p \in Procs, HandlerStep(p)
      PROVE  DoomedUnreferenced' /\ LiveIffReferenced'
  <2>1. CASE ApplyMutation(p)
    BY <1>1, <2>1, DoomedDuringCommit, LiveDuringCommit
  <2>2. CASE ~ApplyMutation(p)
    BY <1>1, <1>3, <2>2, EntriesKept, DoomedKept, LiveOtherwise
  <2>3. QED
    BY <2>1, <2>2
<1>4. CASE UNCHANGED <<entries, records>> /\ (UNCHANGED task \/ Crash)
  <2>1. LiveIffReferenced'
    BY <1>1, <1>4 DEF LiveIffReferenced, HasCurrentReference
  <2>2. DoomedUnreferenced'
    BY <1>1, <1>4 DEF DoomedUnreferenced, HasCurrentReference, Crash, Idle
  <2>3. QED
    BY <1>2, <2>1, <2>2 DEF LifecycleInv
<1>5. QED
  BY <1>2, <1>3, <1>4 DEF LifecycleInv, Next, HandlerStep, NewMutation, SetSyncPause,
     ApplyVaultPolicy, Crash, Tick, vars, tables

(* The state of a blob row never disagrees with the entries table, on either   *)
(* runtime, if no deleteBlob interleaves with other requests.                  *)
THEOREM BlobLifecycleAgrees ==
  ASSUME DeleteBlobIsLocked
  PROVE  Spec => []LiveIffReferenced
<1>1. LifecycleInv /\ [Next]_vars => LifecycleInv'
  BY LifecycleStep
<1>2. LifecycleInv => LiveIffReferenced
  BY DEF LifecycleInv
<1>3. QED
  BY LifecycleInit, <1>1, <1>2, PTL DEF Spec

(* The per-vault lock has one holder, whatever fails or crashes.               *)
THEOREM OneLockHolder == Spec => []LockHeldOnce
<1>1. Init => TypeOK /\ LockHeldOnce
  BY LifecycleInit DEF LifecycleInv
<1>2. TypeOK /\ LockHeldOnce /\ [Next]_vars => TypeOK' /\ LockHeldOnce'
  BY TypeStep, LockStep
<1>3. QED
  BY <1>1, <1>2, PTL DEF Spec

-----------------------------------------------------------------------------
(* Commits: the pause, and the log of the entries.                             *)

(* The mutations that somebody made stay as they were made.                    *)
LEMMA SentStable ==
  ASSUME TypeOK, NEW p \in Procs, HandlerStep(p), NEW m \in Mutations, sent[m].by # "nobody"
  PROVE  sent'[m] = sent[m]
<1>1. CASE Upload(p)
  BY Zenon, <1>1 DEF Upload, StageBlobPauses, StageBlob, PutObject
<1>2. CASE StartRestore(p)
  <2>1. PICK n \in 1 .. MaxBatch :
          \E vs \in [1 .. n -> Unexpired(now)],
             ms \in [1 .. n -> {k \in Mutations : sent[k].by = "nobody"}] :
            /\ \A i, j \in 1 .. n : ms[i] = ms[j] => i = j
            /\ sent' = [k \in Mutations |->
                 IF \E i \in 1 .. n : ms[i] = k
                 THEN LET v == vs[CHOOSE i \in 1 .. n : ms[i] = k]
                      IN  [by |-> "server", entry |-> v.entry,
                           base |-> entries[v.entry].rev, blob |-> v.blob]
                 ELSE sent[k]]
            /\ CommitMutations(p, sent', ms, TRUE)
    BY <1>2 DEF StartRestore
  <2>2. PICK vs \in [1 .. n -> Unexpired(now)],
             ms \in [1 .. n -> {k \in Mutations : sent[k].by = "nobody"}] :
          /\ sent' = [k \in Mutations |->
               IF \E i \in 1 .. n : ms[i] = k
               THEN LET v == vs[CHOOSE i \in 1 .. n : ms[i] = k]
                    IN  [by |-> "server", entry |-> v.entry,
                         base |-> entries[v.entry].rev, blob |-> v.blob]
               ELSE sent[k]]
          /\ CommitMutations(p, sent', ms, TRUE)
    BY <2>1
  <2>3. \A i \in 1 .. n : ms[i] \in {k \in Mutations : sent[k].by = "nobody"}
    BY <2>2
  <2>4. \A i \in 1 .. n : ms[i] # m
    BY <2>3
  <2>5. QED
    BY <2>2, <2>4
<1>3. CASE Commit(p) /\ ~StartRestore(p)
  BY Zenon, <1>3 DEF Commit, StartCommit, CheckBlob, BeginCommit, SkipMutation, ApplyMutation, FinishCommit
<1>4. CASE Collection(p)
  BY Zenon, <1>4 DEF Collection, RunGc, DeleteObjects, DeleteRecords, PurgeDeletedEntries,
     CollectPurgedBlobs, DeleteBlob, DeleteBlobObject, DeleteBlobRecord
<1>5. CASE Repair(p)
  BY Zenon, <1>5 DEF Repair, RepairSyncState, RepairBlob, RepairObject, FinishRepair
<1>6. CASE ObjectStoreFails(p)
  BY <1>6 DEF ObjectStoreFails
<1>7. QED
  BY <1>1, <1>2, <1>3, <1>4, <1>5, <1>6 DEF HandlerStep

(* A batch without its first mutation has no new mutations.                    *)
LEMMA RestOfBatch ==
  ASSUME NEW S, NEW s \in Seq(S), s # << >>
  PROVE  Range(Tail(s)) \subseteq Range(s) /\ Head(s) \in Range(s)
<1>1. Tail(s) \in Seq(S) /\ Len(Tail(s)) = Len(s) - 1 /\ Len(s) \in Nat \ {0}
  BY HeadTailProperties, EmptySeq
<1>2. \A i \in 1 .. Len(Tail(s)) : Tail(s)[i] = s[i + 1] /\ i + 1 \in 1 .. Len(s)
  BY <1>1, HeadTailProperties
<1>3. Head(s) = s[1]
  BY HeadTailProperties
<1>4. DOMAIN s = 1 .. Len(s) /\ DOMAIN Tail(s) = 1 .. Len(Tail(s))
  BY <1>1
<1>5. QED
  BY <1>1, <1>2, <1>3, <1>4 DEF Range

\* The synchronous sections of the handlers exclude one another.
InSection(p) == task[p].pc \in {"tx", "repair"}
OneSection == \A p, q \in Procs : InSection(p) /\ InSection(q) => p = q

\* A transaction only begins in a vault that is not paused, and nothing pauses it.
TxUnpaused == \A p \in Procs : task[p].pc = "tx" => pause = "none"
SectionInv == TypeOK /\ OneSection /\ TxUnpaused

(* A handler in a synchronous section is the only one that runs.               *)
LEMMA RunsAlone ==
  ASSUME NEW p \in Procs, HandlerStep(p)
  PROVE  Preemptible \/ InSection(p)
<1>1. CASE Upload(p)
  BY Zenon, <1>1 DEF Upload, StageBlobPauses, StageBlob, PutObject, Starts, Admitted, Resumes
<1>2. CASE Commit(p)
  BY Zenon, <1>2 DEF Commit, StartCommit, StartRestore, CheckBlob, BeginCommit, SkipMutation,
     ApplyMutation, FinishCommit, Starts, Admitted, Resumes, InSection
<1>3. CASE Collection(p)
  BY Zenon, <1>3 DEF Collection, RunGc, DeleteObjects, DeleteRecords, PurgeDeletedEntries,
     CollectPurgedBlobs, DeleteBlob, DeleteBlobObject, DeleteBlobRecord, Starts, Admitted, Resumes
<1>4. CASE Repair(p)
  BY Zenon, <1>4 DEF Repair, RepairSyncState, RepairBlob, RepairObject, FinishRepair, Repairing,
     Starts, Admitted, Resumes, InSection
<1>5. CASE ObjectStoreFails(p)
  BY <1>5 DEF ObjectStoreFails
<1> QED
  BY <1>1, <1>2, <1>3, <1>4, <1>5 DEF HandlerStep

(* A handler is in a transaction because it was, or because it begins one.     *)
LEMMA EntersTx ==
  ASSUME TypeOK, NEW p \in Procs, HandlerStep(p), task'[p].pc = "tx"
  PROVE  /\ Commit(p) /\ pause' = pause /\ cursor' = cursor
         /\ \/ task[p].pc = "tx"
            \/ BeginCommit(p) /\ pause = "none" /\ Preemptible
<1>1. Commit(p)
  BY Destinations DEF HandlerStep
<1>2. task[p] \in Task /\ task \in [Procs -> Task] /\ Idle.pc = "idle"
  BY DEF TypeOK, Idle
<1>3. ASSUME NEW made, NEW batch, NEW restoring, CommitMutations(p, made, batch, restoring)
      PROVE  FALSE
  BY <1>2, <1>3, IdleIsTask DEF CommitMutations, Goto, Task
<1>4. CASE StartCommit(p)
  BY <1>3, <1>4 DEF StartCommit
<1>5. CASE StartRestore(p)
  BY <1>3, <1>5 DEF StartRestore
<1>6. CASE CheckBlob(p)
  <2>1. PICK b, missing : task' = [task EXCEPT ![p] =
          [task[p] EXCEPT !.blobs = @ \ {b}, !.missing = missing]]
    BY Zenon, <1>6 DEF CheckBlob, Goto
  <2> QED
    BY <1>2, <1>6, <2>1 DEF CheckBlob, Resumes, Task
<1>7. CASE BeginCommit(p)
  BY <1>1, <1>2, <1>7 DEF BeginCommit, Resumes, Done, Goto, tables
<1>8. CASE SkipMutation(p) \/ ApplyMutation(p)
  BY <1>1, <1>8 DEF SkipMutation, ApplyMutation, tables
<1>9. CASE FinishCommit(p)
  BY <1>2, <1>9 DEF FinishCommit, Done, Goto
<1> QED
  BY <1>1, <1>4, <1>5, <1>6, <1>7, <1>8, <1>9 DEF Commit

(* Sections stay apart, and the pause only changes outside transactions.       *)
LEMMA SectionStep == SectionInv /\ [Next]_vars => SectionInv'
<1> SUFFICES ASSUME SectionInv, [Next]_vars
             PROVE  SectionInv'
  OBVIOUS
<1>1. TypeOK /\ OneSection /\ TxUnpaused /\ TypeOK'
  BY TypeStep DEF SectionInv
<1>2. ASSUME NEW p \in Procs, HandlerStep(p)
      PROVE  OneSection' /\ TxUnpaused'
  <2>1. \A q \in Procs : q # p => task'[q] = task[q]
    BY <1>1, <1>2, OneHandlerStep DEF TypeOK
  <2>2. \A q \in Procs : q # p => ~InSection(q)
    BY <1>1, <1>2, RunsAlone DEF OneSection, InSection, Preemptible
  <2>3. OneSection'
    BY <2>1, <2>2 DEF OneSection, InSection
  <2>4. task'[p].pc = "tx" => pause' = "none"
    BY <1>1, <1>2, EntersTx DEF TxUnpaused
  <2>5. TxUnpaused'
    BY <2>1, <2>2, <2>4 DEF TxUnpaused, InSection
  <2> QED
    BY <2>3, <2>5
<1>3. CASE SetSyncPause
  BY <1>1, <1>3 DEF SectionInv, SetSyncPause, Admitted, Preemptible, OneSection, TxUnpaused, InSection
<1>4. CASE Crash
  BY <1>1, <1>4 DEF SectionInv, Crash, Idle, OneSection, TxUnpaused, InSection
<1>5. CASE UNCHANGED <<task, pause>>
  BY <1>1, <1>5 DEF SectionInv, OneSection, TxUnpaused, InSection
<1> QED
  BY <1>1, <1>2, <1>3, <1>4, <1>5
     DEF SectionInv, Next, HandlerStep, NewMutation, ApplyVaultPolicy, Tick, vars

(* No handler runs in a vault that starts.                                     *)
LEMMA SectionInit == Init => SectionInv
BY TypeInit DEF Init, Idle, SectionInv, OneSection, TxUnpaused, InSection

(* What a step may not do to a paused vault.                                   *)
Frozen ==
  pause # "none" =>
    /\ UNCHANGED <<entries, log>>
    /\ \A b \in Blobs : records[b].state = "none" => records'[b].state = "none"

(* Only a mutation lengthens the log.                                          *)
LEMMA LogKept ==
  ASSUME NEW p \in Procs, HandlerStep(p), ~ApplyMutation(p)
  PROVE  log' = log
<1>1. CASE Upload(p)
  BY Zenon, <1>1 DEF Upload, StageBlobPauses, StageBlob, PutObject
<1>2. CASE Commit(p)
  BY Zenon, <1>2 DEF Commit, StartCommit, StartRestore, CheckBlob, BeginCommit, SkipMutation,
     FinishCommit
<1>3. CASE Collection(p)
  BY Zenon, <1>3 DEF Collection, RunGc, DeleteObjects, DeleteRecords, PurgeDeletedEntries,
     CollectPurgedBlobs, DeleteBlob, DeleteBlobObject, DeleteBlobRecord
<1>4. CASE Repair(p)
  BY Zenon, <1>4 DEF Repair, RepairSyncState, RepairBlob, RepairObject, FinishRepair
<1>5. CASE ObjectStoreFails(p)
  BY <1>5 DEF ObjectStoreFails
<1> QED
  BY <1>1, <1>2, <1>3, <1>4, <1>5 DEF HandlerStep

(* Only a staging makes a row where there was none.                            *)
LEMMA NoNewRows ==
  ASSUME TypeOK, NEW p \in Procs, HandlerStep(p), ~StageBlob(p),
         NEW b \in Blobs, records[b].state = "none"
  PROVE  records'[b].state = "none"
<1>1. ASSUME NEW B, DeleteBlobRows(B)
      PROVE  records'[b].state = "none"
  BY <1>1 DEF DeleteBlobRows, NoRecord
<1>2. CASE DeleteRecords(p) \/ DeleteBlobRecord(p)
  BY <1>1, <1>2 DEF DeleteRecords, DeleteBlobRecord
<1>3. CASE RepairBlob(p)
  BY <1>1, <1>3 DEF RepairBlob
<1>4. CASE CollectPurgedBlobs(p)
  BY Zenon, <1>4 DEF CollectPurgedBlobs, MarkUnpinned
<1>5. CASE ApplyMutation(p)
  BY Zenon, <1>5 DEF ApplyMutation, BlobRowsAfter, NoRecord
<1>6. CASE Upload(p)
  BY <1>6 DEF Upload, StageBlobPauses, PutObject, tables
<1>7. CASE Commit(p) /\ ~ApplyMutation(p)
  BY Zenon, <1>7 DEF Commit, StartCommit, StartRestore, CheckBlob, BeginCommit, SkipMutation,
     FinishCommit, tables
<1>8. CASE RunGc(p) \/ DeleteObjects(p) \/ PurgeDeletedEntries(p) \/ DeleteBlob(p) \/ DeleteBlobObject(p)
  BY Zenon, <1>8 DEF RunGc, DeleteObjects, PurgeDeletedEntries, DeleteBlob, DeleteBlobObject, tables
<1>9. CASE RepairSyncState(p) \/ RepairObject(p) \/ FinishRepair(p) \/ ObjectStoreFails(p)
  BY Zenon, <1>9 DEF RepairSyncState, RepairObject, FinishRepair, ObjectStoreFails, tables
<1> QED
  BY <1>2, <1>3, <1>4, <1>5, <1>6, <1>7, <1>8, <1>9
     DEF HandlerStep, Collection, Repair

(* No step moves a paused vault.                                               *)
LEMMA FrozenStep == SectionInv /\ [Next]_vars => Frozen
<1> SUFFICES ASSUME SectionInv, [Next]_vars, pause # "none"
             PROVE  /\ UNCHANGED <<entries, log>>
                    /\ \A b \in Blobs : records[b].state = "none" => records'[b].state = "none"
  BY DEF Frozen
<1>1. ASSUME NEW p \in Procs, HandlerStep(p)
      PROVE  /\ UNCHANGED <<entries, log>>
             /\ \A b \in Blobs : records[b].state = "none" => records'[b].state = "none"
  <2>1. ~ApplyMutation(p) /\ ~StageBlob(p)
    BY Zenon DEF ApplyMutation, StageBlob, SectionInv, TxUnpaused
  <2> QED
    BY <1>1, <2>1, EntriesKept, LogKept, NoNewRows DEF SectionInv
<1> QED
  BY <1>1 DEF Next, HandlerStep, NewMutation, SetSyncPause, ApplyVaultPolicy, Crash, Tick,
     vars, tables

(* While the vault is paused nothing is committed and no upload is admitted,   *)
(* also for a commit that was waiting for the object store when it began.      *)
THEOREM PausedMeansFrozen == Spec => PausedVaultIsFrozen
<1>1. SectionInv /\ [Next]_vars => [Frozen]_vars
  BY FrozenStep
<1>2. SectionInv /\ [Next]_vars => SectionInv'
  BY SectionStep
<1> QED
  BY SectionInit, <1>1, <1>2, PTL DEF Spec, PausedVaultIsFrozen, Frozen

-----------------------------------------------------------------------------
(* The log.                                                                    *)

\* The two parts of EntriesProjectLog: rows ...
RowsProject ==
  \A e \in Entries :
    LET row == entries[e] IN
    /\ Log!IsHead(log, e, row.seq)
    /\ IF row.seq = 0 THEN row = NoEntry
       ELSE /\ log[row.seq].rev = row.rev /\ log[row.seq].blob = row.blob
            /\ log[row.seq].mutation = row.last

\* ... and cursors: the stored one lags behind the log only inside a transaction.
CursorAtEnd ==
  /\ \A p \in Procs : task[p].pc = "tx" => ReachedCursor(p) = Len(log)
  /\ (\A p \in Procs : task[p].pc # "tx") => cursor = Len(log)

\* A commit decides mutations that somebody made, and starts from the stored cursor.
Batches ==
  \A p \in Procs : task[p].pc \in {"exists", "tx"} =>
    /\ task[p].pc = "exists" => task[p].next = 0
    /\ \A m \in Range(task[p].batch) : sent[m].by # "nobody"

\* A revision in the log is what its mutation asked for, and no newer than the row.
Remembered(i) ==
  LET r == log[i]
      c == sent[r.mutation]
  IN  /\ c.by # "nobody" /\ r.entry = c.entry /\ r.rev = c.base + 1
      /\ r.rev <= entries[r.entry].rev
LogRemembers == \A i \in 1 .. Len(log) : Remembered(i)

\* Revisions are counted no faster than cursors.
RevWithinSeq == \A e \in Entries : entries[e].rev <= entries[e].seq

(* The inductive invariant: the rows project the log, and the log remembers    *)
(* the mutations, which is why one that is in it never passes as new.          *)
LogInv ==
  /\ SectionInv /\ RowsProject /\ CursorAtEnd /\ Batches /\ LogRemembers /\ RevWithinSeq

(* The invariant has the projection in it.                                     *)
LEMMA LogInvProjects == LogInv => EntriesProjectLog
BY DEF LogInv, EntriesProjectLog, RowsProject, CursorAtEnd

Revisions == [mutation : Mutations, entry : Entries, rev : Nat, blob : MaybeBlob]

(* One more revision at the end changes nothing before it.                     *)
LEMMA Appended ==
  ASSUME NEW S, NEW l \in Seq(S), NEW r, NEW k, k = Append(l, r)
  PROVE  /\ Len(k) = Len(l) + 1 /\ Len(l) \in Nat
         /\ \A i \in 1 .. Len(l) : k[i] = l[i]
         /\ k[Len(l) + 1] = r
OBVIOUS

(* What an accepted mutation writes.                                           *)
LEMMA Applies ==
  ASSUME LogInv, NEW p \in Procs, ApplyMutation(p)
  PROVE  \E m \in Mutations, e \in Entries, base \in Nat, b \in MaybeBlob :
           /\ sent[m].by # "nobody" /\ sent[m].entry = e /\ sent[m].base = base /\ sent[m].blob = b
           /\ entries[e].rev = base /\ ~Log!InLog(log, m)
           /\ entries' = [entries EXCEPT ![e] =
                [rev |-> base + 1, blob |-> b, seq |-> Len(log) + 1, last |-> m]]
           /\ log' = Append(log, [mutation |-> m, entry |-> e, rev |-> base + 1, blob |-> b])
<1> PICK m : m = Head(task[p].batch)
  OBVIOUS
<1>1. /\ TypeOK /\ task[p] \in Task /\ task[p].pc = "tx" /\ task[p].batch # << >>
      /\ sent \in [Mutations -> Mutation]
  BY DEF ApplyMutation, LogInv, SectionInv, TypeOK
<1>2. m \in Range(task[p].batch) /\ m \in Mutations
  BY <1>1, RestOfBatch DEF Task
<1>3. sent[m].by # "nobody"
  BY <1>1, <1>2 DEF LogInv, Batches
<1>4. ReachedCursor(p) = Len(log)
  BY <1>1 DEF LogInv, CursorAtEnd
<1>5. sent[m].entry \in Entries /\ sent[m].base \in Nat /\ sent[m].blob \in MaybeBlob
  BY <1>1, <1>2 DEF Mutation
<1>6. entries[sent[m].entry].rev = sent[m].base
  BY Zenon DEF ApplyMutation, Skips
<1>7. ~Log!InLog(log, m)
  <2> SUFFICES ASSUME NEW i \in 1 .. Len(log), log[i].mutation = m
               PROVE  FALSE
    BY DEF Log!InLog
  <2>1. log[i].rev = sent[m].base + 1 /\ log[i].entry = sent[m].entry
        /\ log[i].rev <= entries[log[i].entry].rev
    BY DEF LogInv, LogRemembers, Remembered
  <2> QED
    BY <1>5, <1>6, <2>1
<1>8. /\ entries' = [entries EXCEPT ![sent[m].entry] =
           [rev |-> sent[m].base + 1, blob |-> sent[m].blob, seq |-> Len(log) + 1, last |-> m]]
      /\ log' = Append(log, [mutation |-> m, entry |-> sent[m].entry,
                             rev |-> sent[m].base + 1, blob |-> sent[m].blob])
  BY <1>4 DEF ApplyMutation
<1> QED
  BY <1>2, <1>3, <1>5, <1>6, <1>7, <1>8

(* An accepted mutation is the new head of its entry and of no other.          *)
LEMMA AcceptedStep ==
  ASSUME LogInv, NEW p \in Procs, ApplyMutation(p)
  PROVE  RowsProject' /\ LogRemembers' /\ RevWithinSeq' /\ Log!Next
<1>1. PICK m \in Mutations, e \in Entries, base \in Nat, b \in MaybeBlob :
           /\ sent[m].by # "nobody" /\ sent[m].entry = e /\ sent[m].base = base /\ sent[m].blob = b
           /\ entries[e].rev = base /\ ~Log!InLog(log, m)
           /\ entries' = [entries EXCEPT ![e] =
                [rev |-> base + 1, blob |-> b, seq |-> Len(log) + 1, last |-> m]]
           /\ log' = Append(log, [mutation |-> m, entry |-> e, rev |-> base + 1, blob |-> b])
  BY Applies
<1> PICK r : r = [mutation |-> m, entry |-> e, rev |-> base + 1, blob |-> b]
  OBVIOUS
<1> PICK n : n = Len(log) + 1
  OBVIOUS
<1>2. /\ entries \in [Entries -> EntryRow] /\ log \in Seq(Revisions)
      /\ \A x \in Entries : entries[x].seq \in Nat /\ entries[x].rev \in Nat
  BY DEF LogInv, SectionInv, TypeOK, Revisions, EntryRow
<1>3. r \in Revisions /\ r.mutation = m /\ r.entry = e /\ r.rev = base + 1 /\ r.blob = b
  BY DEF Revisions
<1>4. /\ Len(log') = n /\ Len(log) \in Nat
      /\ \A i \in 1 .. Len(log) : log'[i] = log[i]
      /\ log'[n] = r
  BY <1>1, <1>2, <1>3, Appended
<1>5. /\ entries'[e].rev = base + 1 /\ entries'[e].blob = b /\ entries'[e].seq = n
      /\ entries'[e].last = m
      /\ \A x \in Entries \ {e} : entries'[x] = entries[x]
  BY <1>1, <1>2
<1>6. sent' = sent
  BY DEF ApplyMutation
<1>7. \A x \in Entries : Log!IsHead(log, x, entries[x].seq)
  BY DEF LogInv, RowsProject
<1>8. RowsProject'
  <2>1. ASSUME NEW x \in Entries, x # e
        PROVE  /\ Log!IsHead(log', x, entries'[x].seq)
               /\ IF entries'[x].seq = 0 THEN entries'[x] = NoEntry
                  ELSE /\ log'[entries'[x].seq].rev = entries'[x].rev
                       /\ log'[entries'[x].seq].blob = entries'[x].blob
                       /\ log'[entries'[x].seq].mutation = entries'[x].last
    <3>1. entries'[x] = entries[x] /\ entries[x].seq \in 0 .. Len(log)
      BY <1>5, <1>7, <2>1 DEF Log!IsHead
    <3>2. entries[x].seq > 0 => log'[entries[x].seq] = log[entries[x].seq]
      BY <1>2, <1>4, <3>1
    <3>3. Log!IsHead(log', x, entries[x].seq)
      <4>1. entries[x].seq \in 0 .. Len(log')
        BY <1>4, <3>1
      <4>2. \A j \in entries[x].seq + 1 .. Len(log') : log'[j].entry # x
        BY <1>2, <1>3, <1>4, <1>7, <2>1 DEF Log!IsHead
      <4>3. entries[x].seq > 0 => log'[entries[x].seq].entry = x
        BY <1>7, <3>2 DEF Log!IsHead
      <4> QED
        BY <4>1, <4>2, <4>3 DEF Log!IsHead
    <3> QED
      BY <1>2, <3>1, <3>2, <3>3 DEF LogInv, RowsProject
  <2>2. /\ Log!IsHead(log', e, n) /\ n # 0
        /\ log'[n].rev = entries'[e].rev /\ log'[n].blob = entries'[e].blob
        /\ log'[n].mutation = entries'[e].last
    BY <1>3, <1>4, <1>5 DEF Log!IsHead
  <2> QED
    BY <1>5, <2>1, <2>2 DEF RowsProject
<1>9. LogRemembers'
  <2>1. ASSUME NEW i \in 1 .. Len(log)
        PROVE  Remembered(i)'
    <3>1. Remembered(i) /\ log'[i] = log[i] /\ log[i] \in Revisions
      BY <1>2, <1>4 DEF LogInv, LogRemembers
    <3>2. log[i].rev <= entries'[log[i].entry].rev
      <4>1. log[i].rev \in Nat /\ log[i].entry \in Entries
        BY <3>1 DEF Revisions
      <4>2. CASE log[i].entry = e
        BY <1>1, <1>5, <3>1, <4>1, <4>2 DEF Remembered
      <4>3. CASE log[i].entry # e
        BY <1>5, <3>1, <4>1, <4>3 DEF Remembered
      <4> QED
        BY <4>2, <4>3
    <3> QED
      BY <1>6, <3>1, <3>2 DEF Remembered
  <2>2. Remembered(n)'
    BY <1>1, <1>3, <1>4, <1>5, <1>6 DEF Remembered
  <2> QED
    BY <1>4, <2>1, <2>2 DEF LogRemembers
<1>10. RevWithinSeq'
  <2>1. base <= Len(log)
    BY <1>1, <1>2, <1>4, <1>7 DEF LogInv, RevWithinSeq, Log!IsHead
  <2> QED
    BY <1>2, <1>4, <1>5, <2>1 DEF LogInv, RevWithinSeq
<1>11. Log!Next
  <2>1. base \in 0 .. Len(log)
    BY <1>1, <1>2, <1>4, <1>7 DEF LogInv, RevWithinSeq, Log!IsHead
  <2>2. Log!RevisionAt(log, entries[e].seq) = base
    BY <1>1 DEF LogInv, RowsProject, Log!RevisionAt, NoEntry
  <2>3. \E i \in 0 .. Len(log) : Log!IsHead(log, e, i) /\ Log!RevisionAt(log, i) = base
    BY <1>7, <2>2 DEF Log!IsHead
  <2>4. Log!Accept(m, e, base, b)
    BY <1>1, <2>3 DEF Log!Accept
  <2> QED
    BY <2>1, <2>4 DEF Log!Next, MaybeBlob
<1> QED
  BY <1>8, <1>9, <1>10, <1>11

(* What has been sent stays sent, whoever else takes a step.                   *)
LEMMA SentKept ==
  ASSUME TypeOK, [Next]_vars, NEW m \in Mutations, sent[m].by # "nobody"
  PROVE  sent'[m] = sent[m]
<1>1. ASSUME NEW k \in Mutations, NewMutation(k)
      PROVE  sent'[m] = sent[m]
  BY <1>1 DEF NewMutation, TypeOK
<1> QED
  BY SentStable, <1>1 DEF Next, HandlerStep, SetSyncPause, ApplyVaultPolicy, Crash, Tick, vars

(* A step that appends nothing leaves rows and log in agreement.               *)
LEMMA QuietStep ==
  ASSUME LogInv, [Next]_vars, UNCHANGED <<entries, log>>
  PROVE  RowsProject' /\ LogRemembers' /\ RevWithinSeq'
<1>1. TypeOK /\ log \in Seq(Revisions)
  BY DEF LogInv, SectionInv, TypeOK, Revisions
<1>2. RowsProject' /\ RevWithinSeq'
  BY DEF LogInv, RowsProject, RevWithinSeq
<1>3. ASSUME NEW i \in 1 .. Len(log)
      PROVE  Remembered(i)'
  <2>1. log[i].mutation \in Mutations
    <3>1. log[i] \in Revisions
      BY <1>1
    <3> QED
      BY <3>1 DEF Revisions
  <2>2. Remembered(i)
    BY DEF LogInv, LogRemembers
  <2>3. sent'[log[i].mutation] = sent[log[i].mutation]
    BY <1>1, <2>1, <2>2, SentKept DEF Remembered
  <2> QED
    BY <2>2, <2>3 DEF Remembered
<1> QED
  BY <1>2, <1>3 DEF LogRemembers

(* Only the end of a transaction writes the cursor.                            *)
LEMMA CursorKept ==
  ASSUME NEW p \in Procs, HandlerStep(p), ~FinishCommit(p)
  PROVE  cursor' = cursor
<1>1. CASE Upload(p)
  BY Zenon, <1>1 DEF Upload, StageBlobPauses, StageBlob, PutObject, tables
<1>2. CASE Commit(p)
  BY Zenon, <1>2 DEF Commit, StartCommit, StartRestore, CheckBlob, BeginCommit, SkipMutation,
     ApplyMutation, tables
<1>3. CASE Collection(p)
  BY Zenon, <1>3 DEF Collection, RunGc, DeleteObjects, DeleteRecords, PurgeDeletedEntries,
     CollectPurgedBlobs, DeleteBlob, DeleteBlobObject, DeleteBlobRecord, tables
<1>4. CASE Repair(p)
  BY Zenon, <1>4 DEF Repair, RepairSyncState, RepairBlob, RepairObject, FinishRepair, tables
<1>5. CASE ObjectStoreFails(p)
  BY <1>5 DEF ObjectStoreFails, tables
<1> QED
  BY <1>1, <1>2, <1>3, <1>4, <1>5 DEF HandlerStep

(* Inside a transaction a handler skips, applies or finishes.                  *)
LEMMA TxStep ==
  ASSUME NEW p \in Procs, HandlerStep(p), task[p].pc = "tx"
  PROVE  SkipMutation(p) \/ ApplyMutation(p) \/ FinishCommit(p)
<1>1. ~Preemptible
  BY DEF Preemptible
<1>2. ~Upload(p)
  BY <1>1 DEF Upload, StageBlobPauses, StageBlob, PutObject, Starts, Resumes
<1>3. ~Collection(p)
  BY <1>1 DEF Collection, RunGc, DeleteObjects, DeleteRecords, PurgeDeletedEntries,
     CollectPurgedBlobs, DeleteBlob, DeleteBlobObject, DeleteBlobRecord, Starts, Resumes
<1>4. ~Repair(p)
  BY <1>1 DEF Repair, RepairSyncState, RepairBlob, RepairObject, FinishRepair, Repairing,
     Starts, Resumes
<1>5. ~ObjectStoreFails(p)
  BY <1>1 DEF ObjectStoreFails
<1>6. ~StartCommit(p) /\ ~StartRestore(p) /\ ~CheckBlob(p) /\ ~BeginCommit(p)
  BY <1>1 DEF StartCommit, StartRestore, CheckBlob, BeginCommit, Starts, Resumes
<1> QED
  BY <1>2, <1>3, <1>4, <1>5, <1>6 DEF HandlerStep, Commit

(* The stored cursor and the cursor of the loop both follow the log.           *)
LEMMA CursorStep ==
  ASSUME LogInv, NEW p \in Procs, HandlerStep(p)
  PROVE  CursorAtEnd'
<1>1. /\ TypeOK /\ OneSection /\ CursorAtEnd /\ Batches
      /\ task[p] \in Task /\ task \in [Procs -> Task]
      /\ cursor \in Nat /\ Len(log) \in Nat
  BY DEF LogInv, SectionInv, TypeOK
<1>2. \A q \in Procs : q # p => task'[q] = task[q]
  BY <1>1, OneHandlerStep DEF TypeOK
<1>3. \A q \in Procs : q # p => task[q].pc # "tx"
  BY <1>1, RunsAlone DEF OneSection, InSection, Preemptible
<1>4. CASE SkipMutation(p)
  <2>1. /\ task[p].pc = "tx" /\ task'[p].pc = "tx" /\ task'[p].next = task[p].next
        /\ cursor' = cursor /\ log' = log
    BY <1>1, <1>4 DEF SkipMutation, Goto, Task, tables
  <2> QED
    BY <1>1, <1>2, <1>3, <2>1 DEF CursorAtEnd, ReachedCursor
<1>5. CASE ApplyMutation(p)
  <2>1. /\ task[p].pc = "tx" /\ task'[p].pc = "tx" /\ task'[p].next = ReachedCursor(p) + 1
        /\ cursor' = cursor
    BY <1>1, <1>5 DEF ApplyMutation, Goto, Task
  <2>2. ReachedCursor(p) = Len(log)
    BY <1>1, <2>1 DEF CursorAtEnd
  <2>3. Len(log') = Len(log) + 1
    <3>1. PICK r : log' = Append(log, r)
      BY <1>5 DEF ApplyMutation
    <3> QED
      BY <1>1, <3>1 DEF TypeOK
  <2> QED
    BY <1>1, <1>2, <1>3, <2>1, <2>2, <2>3 DEF CursorAtEnd, ReachedCursor
<1>6. CASE FinishCommit(p)
  <2>1. /\ task[p].pc = "tx" /\ task'[p].pc = "idle" /\ cursor' = ReachedCursor(p) /\ log' = log
    BY <1>1, <1>6 DEF FinishCommit, Done, Goto, Idle
  <2> QED
    BY <1>1, <1>2, <1>3, <2>1 DEF CursorAtEnd
<1>7. CASE ~SkipMutation(p) /\ ~ApplyMutation(p) /\ ~FinishCommit(p)
  <2>1. task[p].pc # "tx" /\ cursor' = cursor /\ log' = log
    BY <1>7, TxStep, CursorKept, LogKept
  <2>2. cursor = Len(log)
    BY <1>1, <1>3, <2>1 DEF CursorAtEnd
  <2>3. CASE task'[p].pc = "tx"
    <3>1. BeginCommit(p) /\ task[p].pc = "exists"
      BY <1>1, <2>1, <2>3, EntersTx DEF BeginCommit, Resumes
    <3>2. task'[p].next = 0
      BY <1>1, <2>3, <3>1 DEF BeginCommit, Done, Goto, Task, Idle, Batches
    <3> QED
      BY <1>2, <1>3, <2>1, <2>2, <2>3, <3>2 DEF CursorAtEnd, ReachedCursor
  <2>4. CASE task'[p].pc # "tx"
    BY <1>2, <1>3, <2>1, <2>2, <2>4 DEF CursorAtEnd
  <2> QED
    BY <2>3, <2>4
<1> QED
  BY <1>4, <1>5, <1>6, <1>7

(* The batch of a commit keeps naming mutations that were sent.                *)
LEMMA BatchStep ==
  ASSUME LogInv, NEW p \in Procs, HandlerStep(p), task'[p].pc \in {"exists", "tx"}
  PROVE  /\ task'[p].pc = "exists" => task'[p].next = 0
         /\ \A m \in Range(task'[p].batch) : sent'[m].by # "nobody"
<1>1. /\ TypeOK /\ Batches /\ task[p] \in Task /\ task \in [Procs -> Task] /\ Idle.pc = "idle"
      /\ Idle.next = 0
  BY DEF LogInv, SectionInv, TypeOK, Idle
<1>2. Commit(p)
  BY <1>1, Destinations DEF HandlerStep
<1>3. ASSUME NEW made, NEW batch, NEW restoring, CommitMutations(p, made, batch, restoring)
      PROVE  task'[p].next = 0 /\ task'[p].batch = batch
  BY <1>1, <1>3, IdleIsTask DEF CommitMutations, Goto, Task
<1>4. CASE StartCommit(p)
  <2>1. PICK n \in 1 .. MaxBatch :
          \E batch \in [1 .. n -> {m \in Mutations : sent[m].by = "client"}] :
            CommitMutations(p, sent, batch, FALSE)
    BY <1>4 DEF StartCommit
  <2>2. PICK batch \in [1 .. n -> {m \in Mutations : sent[m].by = "client"}] :
          CommitMutations(p, sent, batch, FALSE)
    BY <2>1
  <2>3. \A m \in Range(batch) : sent[m].by = "client"
    BY DEF Range
  <2>4. sent' = sent
    BY <1>4 DEF StartCommit
  <2> QED
    BY <1>3, <2>2, <2>3, <2>4
<1>5. CASE StartRestore(p)
  <2>1. PICK n \in 1 .. MaxBatch :
          \E vs \in [1 .. n -> Unexpired(now)],
             ms \in [1 .. n -> {k \in Mutations : sent[k].by = "nobody"}] :
            /\ sent' = [k \in Mutations |->
                 IF \E i \in 1 .. n : ms[i] = k
                 THEN LET v == vs[CHOOSE i \in 1 .. n : ms[i] = k]
                      IN  [by |-> "server", entry |-> v.entry,
                           base |-> entries[v.entry].rev, blob |-> v.blob]
                 ELSE sent[k]]
            /\ CommitMutations(p, sent', ms, TRUE)
    BY Zenon, <1>5 DEF StartRestore
  <2>2. PICK vs \in [1 .. n -> Unexpired(now)],
             ms \in [1 .. n -> {k \in Mutations : sent[k].by = "nobody"}] :
          /\ sent' = [k \in Mutations |->
               IF \E i \in 1 .. n : ms[i] = k
               THEN LET v == vs[CHOOSE i \in 1 .. n : ms[i] = k]
                    IN  [by |-> "server", entry |-> v.entry,
                         base |-> entries[v.entry].rev, blob |-> v.blob]
               ELSE sent[k]]
          /\ CommitMutations(p, sent', ms, TRUE)
    BY <2>1
  <2>3. ASSUME NEW m \in Range(ms)
        PROVE  sent'[m].by = "server"
    <3>1. m \in Mutations /\ \E i \in 1 .. n : ms[i] = m
      BY DEF Range
    <3> QED
      BY <2>2, <3>1
  <2>4. task'[p].next = 0 /\ task'[p].batch = ms
    BY Zenon, <1>1, <2>2, IdleIsTask DEF CommitMutations, Goto, Task
  <2> QED
    BY <2>3, <2>4
<1>6. CASE CheckBlob(p)
  <2>1. PICK b, missing : task' = [task EXCEPT ![p] =
          [task[p] EXCEPT !.blobs = @ \ {b}, !.missing = missing]]
    BY Zenon, <1>6 DEF CheckBlob, Goto
  <2>2. /\ task[p].pc = "exists" /\ sent' = sent
        /\ task'[p].next = task[p].next /\ task'[p].batch = task[p].batch
    BY <1>1, <1>6, <2>1 DEF CheckBlob, Resumes, Task
  <2> QED
    BY <1>1, <2>2 DEF Batches
<1>7. CASE BeginCommit(p)
  <2>1. task[p].pc = "exists" /\ sent' = sent
    BY <1>7 DEF BeginCommit, Resumes
  <2>2. task' = [task EXCEPT ![p] = [task[p] EXCEPT !.pc = "tx"]]
    BY <1>1, <1>7 DEF BeginCommit, Goto, Done
  <2>3. task'[p].next = task[p].next /\ task'[p].batch = task[p].batch
    BY <1>1, <2>2 DEF Task
  <2> QED
    BY <1>1, <2>1, <2>3 DEF Batches
<1>8. CASE SkipMutation(p) \/ ApplyMutation(p)
  <2>1. /\ task[p].pc = "tx" /\ task[p].batch # << >> /\ sent' = sent
        /\ task'[p].pc = "tx" /\ task'[p].batch = Tail(task[p].batch)
    <3>1. CASE SkipMutation(p)
      <4>1. task[p].pc = "tx" /\ task[p].batch # << >> /\ sent' = sent
        BY <3>1 DEF SkipMutation
      <4>2. PICK seen : task' = [task EXCEPT ![p] =
              [task[p] EXCEPT !.batch = Tail(@), !.seen = seen]]
        BY Zenon, <3>1 DEF SkipMutation, Goto
      <4> QED
        BY <1>1, <4>1, <4>2 DEF Task
    <3>2. CASE ApplyMutation(p)
      <4>1. task[p].pc = "tx" /\ task[p].batch # << >> /\ sent' = sent
        BY <3>2 DEF ApplyMutation
      <4>2. PICK seen, next : task' = [task EXCEPT ![p] =
              [task[p] EXCEPT !.batch = Tail(@), !.seen = seen, !.next = next]]
        BY Zenon, <3>2 DEF ApplyMutation, Goto
      <4> QED
        BY <1>1, <4>1, <4>2 DEF Task
    <3> QED
      BY <1>8, <3>1, <3>2
  <2>2. Range(Tail(task[p].batch)) \subseteq Range(task[p].batch)
    BY <1>1, <2>1, RestOfBatch DEF Task
  <2> QED
    BY <1>1, <2>1, <2>2 DEF Batches
<1>9. CASE FinishCommit(p)
  BY <1>1, <1>9 DEF FinishCommit, Goto, Done
<1> QED
  BY <1>2, <1>4, <1>5, <1>6, <1>7, <1>8, <1>9 DEF Commit

(* So do the batches of all commits.                                           *)
LEMMA BatchesStep ==
  ASSUME LogInv, [Next]_vars
  PROVE  Batches'
<1>1. TypeOK /\ Batches
  BY DEF LogInv, SectionInv
<1>2. ASSUME NEW q \in Procs, task'[q] = task[q], task'[q].pc \in {"exists", "tx"}
      PROVE  /\ task'[q].pc = "exists" => task'[q].next = 0
             /\ \A m \in Range(task'[q].batch) : sent'[m].by # "nobody"
  <2>1. Range(task[q].batch) \subseteq Mutations
    BY <1>1 DEF TypeOK, Task, Range
  <2> QED
    BY <1>1, <1>2, <2>1, SentKept DEF Batches
<1>3. ASSUME NEW p \in Procs, HandlerStep(p)
      PROVE  Batches'
  <2>1. \A q \in Procs : q # p => task'[q] = task[q]
    BY <1>1, <1>3, OneHandlerStep DEF TypeOK
  <2> QED
    BY <1>2, <1>3, <2>1, BatchStep DEF Batches
<1>4. CASE Crash
  BY <1>4 DEF Crash, Idle, Batches
<1>5. CASE UNCHANGED task
  BY <1>2, <1>5 DEF Batches
<1> QED
  BY <1>3, <1>4, <1>5 DEF Next, HandlerStep, NewMutation, SetSyncPause, ApplyVaultPolicy,
     Tick, vars

(* Every step keeps the invariant, and is a step of the log or none.           *)
LEMMA LogStep == LogInv /\ [Next]_vars => LogInv' /\ [Log!Next]_log
<1> SUFFICES ASSUME LogInv, [Next]_vars
             PROVE  LogInv' /\ [Log!Next]_log
  OBVIOUS
<1>1. SectionInv' /\ Batches'
  BY SectionStep, BatchesStep DEF LogInv
<1>2. ASSUME NEW p \in Procs, HandlerStep(p)
      PROVE  LogInv' /\ [Log!Next]_log
  <2>1. CursorAtEnd'
    BY <1>2, CursorStep
  <2>2. CASE ApplyMutation(p)
    BY <1>1, <2>1, <2>2, AcceptedStep DEF LogInv
  <2>3. CASE ~ApplyMutation(p)
    BY <1>1, <1>2, <2>1, <2>3, EntriesKept, LogKept, QuietStep DEF LogInv
  <2> QED
    BY <2>2, <2>3
<1>3. ASSUME UNCHANGED <<entries, log, cursor>>, UNCHANGED task \/ Crash
      PROVE  LogInv' /\ [Log!Next]_log
  <2>1. CursorAtEnd'
    <3>1. CASE UNCHANGED task
      BY <1>3, <3>1 DEF LogInv, CursorAtEnd, ReachedCursor
    <3>2. CASE Crash
      BY <1>3, <3>2 DEF LogInv, CursorAtEnd, Crash, Preemptible, Idle
    <3> QED
      BY <1>3, <3>1, <3>2
  <2> QED
    BY <1>1, <1>3, <2>1, QuietStep DEF LogInv
<1> QED
  BY <1>2, <1>3 DEF Next, HandlerStep, NewMutation, SetSyncPause, ApplyVaultPolicy, Crash,
     Tick, vars, tables

(* An empty vault has an empty log.                                            *)
LEMMA LogInit == Init => LogInv /\ Log!Init
<1> SUFFICES ASSUME Init
             PROVE  LogInv /\ Log!Init
  OBVIOUS
<1>1. SectionInv /\ Log!Init
  BY SectionInit DEF Init, Log!Init
<1>2. Len(log) = 0
  BY DEF Init
<1>3. RowsProject
  BY <1>2 DEF Init, NoEntry, RowsProject, Log!IsHead
<1>4. CursorAtEnd /\ Batches
  BY <1>2 DEF Init, Idle, CursorAtEnd, Batches
<1>5. LogRemembers /\ RevWithinSeq
  BY <1>2 DEF Init, NoEntry, LogRemembers, RevWithinSeq
<1> QED
  BY <1>1, <1>3, <1>4, <1>5 DEF LogInv

(* The invariant holds of every behaviour.                                     *)
LEMMA LogAlways == Spec => []LogInv
<1>1. LogInv /\ [Next]_vars => LogInv'
  BY LogStep
<1> QED
  BY LogInit, <1>1, PTL DEF Spec

(* The entries table is always the projection of the accepted log.             *)
THEOREM TableProjectsLog == Spec => []EntriesProjectLog
BY LogAlways, LogInvProjects, PTL

(* The coordinator implements the append-only log, on either runtime and with  *)
(* any retries: no mutation is accepted twice, none on a revision it was not   *)
(* based on, and none is ever undone.                                          *)
THEOREM CoordinatorImplementsLog == Spec => ImplementsLog
<1>1. LogInv /\ [Next]_vars => [Log!Next]_log
  BY LogStep
<1> QED
  BY LogInit, LogAlways, <1>1, PTL DEF Spec, ImplementsLog, Log!Spec

-----------------------------------------------------------------------------
(* What the log promises.                                                      *)

(* The log only ever holds revisions.                                         *)
THEOREM LogTypeOK == Log!Spec => []Log!TypeOK
<1>1. Log!Init => Log!TypeOK
  BY DEF Log!Init, Log!TypeOK
<1>2. Log!TypeOK /\ [Log!Next]_log => Log!TypeOK'
  <2> SUFFICES ASSUME Log!TypeOK, [Log!Next]_log
               PROVE  Log!TypeOK'
    OBVIOUS
  <2>1. CASE Log!Next
    <3>1. PICK m \in Mutations, e \in Entries, b \in Blobs \cup {NoBlob}, base \in 0 .. Len(log) :
             Log!Accept(m, e, base, b)
      BY <2>1 DEF Log!Next
    <3>2. [mutation |-> m, entry |-> e, rev |-> base + 1, blob |-> b] \in Log!Revision
      BY DEF Log!Revision
    <3>3. QED
      BY <3>1, <3>2 DEF Log!Accept, Log!TypeOK
  <2>2. CASE UNCHANGED log
    BY <2>2 DEF Log!TypeOK
  <2>3. QED
    BY <2>1, <2>2
<1>3. QED
  BY <1>1, <1>2, PTL DEF Log!Spec

(* A mutation that is retried or resent never enters the log a second time.   *)
THEOREM NoMutationTwice == Log!Spec => []Log!AppliedOnce
<1>1. Log!Init => Log!AppliedOnce
  BY DEF Log!Init, Log!AppliedOnce
<1>2. Log!TypeOK /\ Log!AppliedOnce /\ [Log!Next]_log => Log!AppliedOnce'
  <2> SUFFICES ASSUME Log!TypeOK, Log!AppliedOnce, [Log!Next]_log
               PROVE  Log!AppliedOnce'
    OBVIOUS
  <2>1. CASE Log!Next
    <3>1. PICK m \in Mutations, e \in Entries, b \in Blobs \cup {NoBlob}, base \in 0 .. Len(log) :
             Log!Accept(m, e, base, b)
      BY <2>1 DEF Log!Next
    <3> DEFINE r == [mutation |-> m, entry |-> e, rev |-> base + 1, blob |-> b]
    <3>2. /\ Len(log') = Len(log) + 1 /\ Len(log) \in Nat
          /\ \A i \in 1 .. Len(log) : log'[i] = log[i]
          /\ log'[Len(log) + 1] = r
      <4>1. log' = Append(log, r)
        BY <3>1 DEF Log!Accept
      <4> HIDE DEF r
      <4>2. QED
        BY <4>1, Appended DEF Log!TypeOK
    <3>3. \A i \in 1 .. Len(log) : log[i].mutation # m
      BY <3>1 DEF Log!Accept, Log!InLog
    <3>4. QED
      BY <3>2, <3>3 DEF Log!AppliedOnce
  <2>2. CASE UNCHANGED log
    BY <2>2 DEF Log!AppliedOnce
  <2>3. QED
    BY <2>1, <2>2
<1>3. QED
  BY <1>1, <1>2, LogTypeOK, PTL DEF Log!Spec

(* Every revision in the log replaces the one before it of the same entry.    *)
THEOREM ConsecutiveRevisions == Log!Spec => []Log!RevisionsAreConsecutive
<1>1. Log!Init => Log!RevisionsAreConsecutive
  BY DEF Log!Init, Log!RevisionsAreConsecutive
<1>2. Log!TypeOK /\ Log!RevisionsAreConsecutive /\ [Log!Next]_log => Log!RevisionsAreConsecutive'
  <2> SUFFICES ASSUME Log!TypeOK, Log!RevisionsAreConsecutive, [Log!Next]_log
               PROVE  Log!RevisionsAreConsecutive'
    OBVIOUS
  <2>1. CASE Log!Next
    <3>1. PICK m \in Mutations, e \in Entries, b \in Blobs \cup {NoBlob}, base \in 0 .. Len(log) :
             Log!Accept(m, e, base, b)
      BY <2>1 DEF Log!Next
    <3> DEFINE r == [mutation |-> m, entry |-> e, rev |-> base + 1, blob |-> b]
    <3>2. /\ Len(log') = Len(log) + 1 /\ Len(log) \in Nat
          /\ \A i \in 1 .. Len(log) : log'[i] = log[i]
          /\ log'[Len(log) + 1] = r
      <4>1. log' = Append(log, r)
        BY <3>1 DEF Log!Accept
      <4> HIDE DEF r
      <4>2. QED
        BY <4>1, Appended DEF Log!TypeOK
    <3>3. PICK h \in 0 .. Len(log) : Log!IsHead(log, e, h) /\ Log!RevisionAt(log, h) = base
      BY <3>1 DEF Log!Accept
    <3> DEFINE P(l, i) ==
          \/ l[i].rev = 1 /\ \A k \in 1 .. i - 1 : l[k].entry # l[i].entry
          \/ \E j \in 1 .. i - 1 : /\ l[j].entry = l[i].entry
                                   /\ l[i].rev = l[j].rev + 1
                                   /\ \A k \in j + 1 .. i - 1 : l[k].entry # l[i].entry
    <3>4. ASSUME NEW i \in 1 .. Len(log)
          PROVE  P(log', i)
      <4>1. P(log, i)
        BY DEF Log!RevisionsAreConsecutive
      <4>2. \A k \in 1 .. i : log'[k] = log[k]
        BY <3>2
      <4>3. i \in 1 .. i /\ \A k \in 1 .. i - 1 : k \in 1 .. i
        OBVIOUS
      <4>4. CASE log[i].rev = 1 /\ \A k \in 1 .. i - 1 : log[k].entry # log[i].entry
        BY <4>2, <4>3, <4>4
      <4>5. ASSUME NEW j \in 1 .. i - 1, log[j].entry = log[i].entry, log[i].rev = log[j].rev + 1,
                   \A k \in j + 1 .. i - 1 : log[k].entry # log[i].entry
            PROVE  P(log', i)
        <5>1. log'[j] = log[j] /\ log'[i] = log[i] /\ \A k \in j + 1 .. i - 1 : log'[k] = log[k]
          BY <4>2, <4>3
        <5>2. QED
          BY <4>5, <5>1
      <4>6. QED
        BY <4>1, <4>4, <4>5
    <3>5. P(log', Len(log) + 1)
      <4> DEFINE n == Len(log) + 1
      <4>1. /\ log'[n].entry = e /\ log'[n].rev = base + 1
            /\ \A k \in 1 .. n - 1 : log'[k] = log[k]
        BY <3>2
      <4>2. CASE h = 0
        <5>1. base = 0 /\ \A k \in 1 .. n - 1 : log[k].entry # e
          BY <3>3, <4>2 DEF Log!IsHead, Log!RevisionAt
        <5>2. QED
          BY <4>1, <5>1
      <4>3. CASE h # 0
        <5>1. /\ h \in 1 .. n - 1 /\ log[h].entry = e /\ log[h].rev = base
              /\ \A k \in h + 1 .. n - 1 : log[k].entry # e
          BY <3>3, <4>3 DEF Log!IsHead, Log!RevisionAt
        <5>2. QED
          BY <4>1, <5>1
      <4>4. QED
        BY <4>2, <4>3
    <3>6. \A i \in 1 .. Len(log') : P(log', i)
      BY <3>2, <3>4, <3>5
    <3>7. QED
      BY <3>6 DEF Log!RevisionsAreConsecutive
  <2>2. CASE UNCHANGED log
    BY <2>2 DEF Log!RevisionsAreConsecutive
  <2>3. QED
    BY <2>1, <2>2
<1>3. QED
  BY <1>1, <1>2, LogTypeOK, PTL DEF Log!Spec

(* Whatever is retried, resent, restored or repaired, no mutation is applied   *)
(* twice by the coordinator, and the revisions of an entry follow each other.  *)
THEOREM CoordinatorKeepsLog == Spec => [](Log!AppliedOnce /\ Log!RevisionsAreConsecutive)
<1>1. Spec => Log!Spec
  BY CoordinatorImplementsLog DEF ImplementsLog
<1>2. QED
  BY <1>1, NoMutationTwice, ConsecutiveRevisions, PTL


-----------------------------------------------------------------------------
(* What is stored, and for how long.                                           *)

(* Objects only disappear in a step of a handler that put them at risk, and    *)
(* such a handler holds the lock.                                              *)
LEMMA ObjectsShrink ==
  ASSUME NEW p \in Procs, HandlerStep(p)
  PROVE  objects \ objects' \subseteq ObjectsAtRisk(p)
<1>1. CASE Upload(p)
  BY Zenon, <1>1 DEF Upload, StageBlobPauses, StageBlob, PutObject
<1>2. CASE Commit(p)
  BY Zenon, <1>2 DEF Commit, StartCommit, StartRestore, CheckBlob, BeginCommit, SkipMutation,
     ApplyMutation, FinishCommit
<1>3. CASE DeleteObjects(p) \/ DeleteBlobObject(p)
  BY Zenon, <1>3 DEF DeleteObjects, DeleteBlobObject, ObjectsAtRisk, Resumes
<1>4. CASE Collection(p) /\ ~DeleteObjects(p) /\ ~DeleteBlobObject(p)
  BY Zenon, <1>4 DEF Collection, RunGc, DeleteRecords, PurgeDeletedEntries, CollectPurgedBlobs,
     DeleteBlob, DeleteBlobRecord
<1>5. CASE Repair(p)
  BY Zenon, <1>5 DEF Repair, RepairSyncState, RepairBlob, RepairObject, FinishRepair, ObjectsAtRisk, Resumes
<1>6. CASE ObjectStoreFails(p)
  BY <1>6 DEF ObjectStoreFails
<1>7. QED
  BY <1>1, <1>2, <1>3, <1>4, <1>5, <1>6 DEF HandlerStep

(* What a handler puts at risk is in no entry.                                 *)
LEMMA RiskTaken ==
  ASSUME TypeOK, LiveIffReferenced, AtRiskUnreferenced,
         NEW p \in Procs, HandlerStep(p), entries' = entries
  PROVE  \A b \in ObjectsAtRisk(p)' : ~HasCurrentReference(b)
<1>1. task'[p] \in Task /\ task \in [Procs -> Task] /\ task[p] \in Task
  BY TypeStep DEF HandlerStep, Next, TypeOK
<1>2. ASSUME task'[p].pc \notin {"gc_delete", "blob_delete", "object_delete", "repair_object"}
      PROVE  \A b \in ObjectsAtRisk(p)' : ~HasCurrentReference(b)
  BY <1>2 DEF ObjectsAtRisk
<1>3. ASSUME task'[p] = Idle
      PROVE  \A b \in ObjectsAtRisk(p)' : ~HasCurrentReference(b)
  BY <1>2, <1>3 DEF Idle
<1>4. ASSUME NEW B, task' = [task EXCEPT ![p] = [Idle EXCEPT !.pc = "gc_delete", !.blobs = B, !.at = now]],
             \A b \in B : ~HasCurrentReference(b)
      PROVE  \A b \in ObjectsAtRisk(p)' : ~HasCurrentReference(b)
  BY <1>1, <1>4, IdleIsTask DEF ObjectsAtRisk, Task
<1>5. CASE Upload(p) \/ Commit(p) \/ ObjectStoreFails(p)
  BY <1>2, <1>5, Destinations
<1>7. CASE Collection(p)
  <2>1. CASE RunGc(p)
    BY Zenon, <1>1, <1>3, <1>4, <2>1 DEF RunGc, Collect, CollectibleBlob, IsBlobPinned, Goto, Done
  <2>2. CASE DeleteObjects(p)
    <3>1. PICK reported : task' = [task EXCEPT ![p] =
                            [task[p] EXCEPT !.pc = "gc_record", !.blobs = reported]]
                          \/ task' = [task EXCEPT ![p] = Idle]
      BY Zenon, <2>2 DEF DeleteObjects, Goto, Done
    <3>2. QED
      BY <1>1, <1>2, <1>3, <3>1 DEF Task
  <2>3. CASE DeleteRecords(p) \/ DeleteBlobRecord(p)
    BY <1>1, <1>3, <2>3 DEF DeleteRecords, DeleteBlobRecord, Goto, Done
  <2>4. CASE PurgeDeletedEntries(p)
    <3>1. PICK B : task' = [task EXCEPT ![p] = [Idle EXCEPT !.pc = "purge_collect", !.blobs = B]]
      BY Zenon, <2>4 DEF PurgeDeletedEntries, Goto
    <3>2. QED
      BY <1>1, <1>2, <3>1, IdleIsTask DEF Task
  <2>5. CASE CollectPurgedBlobs(p)
    <3>1. \A b \in Blobs : CollectibleBlob(b, now)' => ~HasCurrentReference(b)
      BY DEF CollectibleBlob, IsBlobPinned, HasCurrentReference
    <3>2. task[p].blobs \subseteq Blobs
      BY <1>1 DEF Task
    <3>3. CASE task' = [task EXCEPT ![p] = Idle]
      BY <1>1, <1>3, <3>3
    <3>4. CASE task' = [task EXCEPT ![p] = [Idle EXCEPT !.pc = "gc_delete",
                 !.blobs = {b \in task[p].blobs : CollectibleBlob(b, now)'}, !.at = now]]
      <4> DEFINE B == {b \in task[p].blobs : CollectibleBlob(b, now)'}
      <4>1. \A b \in B : ~HasCurrentReference(b)
        BY <3>1, <3>2
      <4>2. task' = [task EXCEPT ![p] = [Idle EXCEPT !.pc = "gc_delete", !.blobs = B, !.at = now]]
        BY <3>4
      <4> HIDE DEF B
      <4>3. QED
        BY Zenon, <1>4, <4>1, <4>2
    <3>5. QED
      BY <2>5, <3>3, <3>4 DEF CollectPurgedBlobs, Goto, Done
  <2>6. CASE DeleteBlob(p)
    <3>1. PICK b \in Blobs :
            /\ records[b].state # "none" => ~IsBlobPinned(b, now)
            /\ task' = [task EXCEPT ![p] = [Idle EXCEPT !.blobs = {b}, !.pc =
                 IF records[b].state = "none" THEN "object_delete" ELSE "blob_delete"]]
      BY Zenon, <2>6 DEF DeleteBlob, Goto
    <3>2. ~HasCurrentReference(b)
      BY <3>1 DEF IsBlobPinned, LiveIffReferenced
    <3>3. task'[p].blobs = {b} /\ task'[p].pc \in {"object_delete", "blob_delete"}
      BY <1>1, <3>1, IdleIsTask DEF Task
    <3>4. QED
      BY <3>2, <3>3 DEF ObjectsAtRisk
  <2>7. CASE DeleteBlobObject(p)
    BY <1>1, <1>2, <1>3, <2>7 DEF DeleteBlobObject, Goto, Done, Task
  <2>8. QED
    BY <1>7, <2>1, <2>2, <2>3, <2>4, <2>5, <2>6, <2>7 DEF Collection
<1>8. CASE Repair(p)
  <2>1. CASE RepairSyncState(p)
    BY <1>1, <1>2, <2>1, IdleIsTask DEF RepairSyncState, Goto, Task
  <2>2. CASE RepairBlob(p)
    <3>1. PICK b \in Blobs :
            \/ task' = [task EXCEPT ![p] = [task[p] EXCEPT !.pc = "repair", !.blobs = @ \ {b},
                                                         !.issue = TRUE]]
            \/ /\ task' = [task EXCEPT ![p] = [task[p] EXCEPT !.pc = "repair_object",
                                                !.blobs = @ \ {b}, !.missing = {b}]]
               /\ records[b].state \notin {"live", "pending_delete"}
      BY Zenon, <1>1, <2>2 DEF RepairBlob, Goto, Task
    <3>2. CASE task' = [task EXCEPT ![p] = [task[p] EXCEPT !.pc = "repair", !.blobs = @ \ {b},
                                                         !.issue = TRUE]]
      BY <1>1, <1>2, <3>2 DEF Task
    <3>3. CASE /\ task' = [task EXCEPT ![p] = [task[p] EXCEPT !.pc = "repair_object",
                                                !.blobs = @ \ {b}, !.missing = {b}]]
               /\ records[b].state \notin {"live", "pending_delete"}
      <4>1. task'[p].pc = "repair_object" /\ task'[p].missing = {b}
        BY <1>1, <3>3 DEF Task
      <4>2. ~HasCurrentReference(b)
        BY <3>3 DEF LiveIffReferenced
      <4>3. QED
        BY <4>1, <4>2 DEF ObjectsAtRisk
    <3>4. QED
      BY <3>1, <3>2, <3>3
  <2>3. CASE RepairObject(p)
    BY <1>1, <1>2, <2>3 DEF RepairObject, Goto, Task
  <2>4. CASE FinishRepair(p)
    BY <1>1, <1>3, <2>4 DEF FinishRepair, Goto, Done
  <2>5. QED
    BY <1>8, <2>1, <2>2, <2>3, <2>4 DEF Repair
<1>9. QED
  BY <1>5, <1>7, <1>8 DEF HandlerStep

(* A commit keeps an answer, or waits for one, for each mutation of its batch.  *)
LEMMA CommitKeepsAnswers ==
  ASSUME TypeOK, CommitAnswered, NEW p \in Procs, Commit(p),
         task'[p].pc \in {"exists", "tx"}
  PROVE  /\ task'[p].pc = "tx" => task'[p].blobs = {}
         /\ \A m \in Range(task'[p].batch) :
              /\ sent'[m].by # "nobody"
              /\ sent'[m].blob \in {NoBlob} \cup task'[p].blobs \cup task'[p].missing \cup objects'
<1>1. task[p] \in Task /\ task \in [Procs -> Task]
  BY DEF TypeOK
<1>2. Idle.pc = "idle"
  BY DEF Idle
<1>3. ASSUME NEW made, NEW batch, NEW restoring, CommitMutations(p, made, batch, restoring)
      PROVE  /\ task'[p].pc = "exists" /\ task'[p].batch = batch
             /\ task'[p].blobs = {made[m].blob : m \in Range(batch)} \ {NoBlob}
  BY <1>1, <1>3, IdleIsTask DEF CommitMutations, Goto, Task
<1>4. CASE StartCommit(p)
  <2>1. PICK n \in 1 .. MaxBatch :
          \E batch \in [1 .. n -> {m \in Mutations : sent[m].by = "client"}] :
            CommitMutations(p, sent, batch, FALSE)
    BY <1>4 DEF StartCommit
  <2>2. PICK batch \in [1 .. n -> {m \in Mutations : sent[m].by = "client"}] :
          CommitMutations(p, sent, batch, FALSE)
    BY <2>1
  <2>3. \A m \in Range(batch) : sent[m].by = "client"
    BY DEF Range
  <2>4. sent' = sent
    BY <1>4 DEF StartCommit
  <2>5. /\ task'[p].pc = "exists" /\ task'[p].batch = batch
        /\ task'[p].blobs = {sent[m].blob : m \in Range(batch)} \ {NoBlob}
    BY <1>3, <2>2
  <2>6. QED
    BY <2>3, <2>4, <2>5
<1>5. CASE StartRestore(p)
  <2>1. PICK n \in 1 .. MaxBatch :
          \E vs \in [1 .. n -> Unexpired(now)],
             ms \in [1 .. n -> {k \in Mutations : sent[k].by = "nobody"}] :
            /\ \A i, j \in 1 .. n : ms[i] = ms[j] => i = j
            /\ sent' = [k \in Mutations |->
                 IF \E i \in 1 .. n : ms[i] = k
                 THEN LET v == vs[CHOOSE i \in 1 .. n : ms[i] = k]
                      IN  [by |-> "server", entry |-> v.entry,
                           base |-> entries[v.entry].rev, blob |-> v.blob]
                 ELSE sent[k]]
            /\ CommitMutations(p, sent', ms, TRUE)
    BY <1>5 DEF StartRestore
  <2>2. PICK vs \in [1 .. n -> Unexpired(now)],
             ms \in [1 .. n -> {k \in Mutations : sent[k].by = "nobody"}] :
          /\ sent' = [k \in Mutations |->
               IF \E i \in 1 .. n : ms[i] = k
               THEN LET v == vs[CHOOSE i \in 1 .. n : ms[i] = k]
                    IN  [by |-> "server", entry |-> v.entry,
                         base |-> entries[v.entry].rev, blob |-> v.blob]
               ELSE sent[k]]
          /\ CommitMutations(p, sent', ms, TRUE)
    BY <2>1
  <2>3. ASSUME NEW m \in Range(ms)
        PROVE  sent'[m].by = "server"
    <3>1. m \in Mutations /\ \E i \in 1 .. n : ms[i] = m
      BY DEF Range
    <3>2. QED
      BY <2>2, <3>1
  <2>4. /\ task'[p].pc = "exists" /\ task'[p].batch = ms
        /\ task'[p].blobs = {sent'[m].blob : m \in Range(ms)} \ {NoBlob}
    BY Zenon, <1>1, <2>2, IdleIsTask DEF CommitMutations, Goto, Task
  <2>5. QED
    BY <2>3, <2>4
<1>6. CASE CheckBlob(p)
  <2>1. PICK b \in task[p].blobs : task' = [task EXCEPT ![p] = [task[p] EXCEPT
          !.blobs = @ \ {b}, !.missing = IF b \in objects THEN @ ELSE @ \cup {b}]]
    BY Zenon, <1>6 DEF CheckBlob, Goto
  <2>2. /\ task'[p].blobs = task[p].blobs \ {b} /\ task'[p].batch = task[p].batch
        /\ task'[p].missing = IF b \in objects THEN task[p].missing ELSE task[p].missing \cup {b}
        /\ task'[p].pc = task[p].pc
    BY <1>1, <2>1 DEF Task
  <2>3. task[p].pc = "exists" /\ sent' = sent /\ objects' = objects
    BY <1>6 DEF CheckBlob, Resumes
  <2>4. QED
    BY <2>2, <2>3 DEF CommitAnswered
<1>7. CASE BeginCommit(p)
  <2>1. task[p].pc = "exists" /\ task[p].blobs = {} /\ sent' = sent /\ objects' = objects
    BY <1>7 DEF BeginCommit, Resumes
  <2>2. task' = [task EXCEPT ![p] = [task[p] EXCEPT !.pc = "tx"]]
    BY <1>1, <1>2, <1>7 DEF BeginCommit, Goto, Done
  <2>3. /\ task'[p].blobs = task[p].blobs /\ task'[p].batch = task[p].batch
        /\ task'[p].missing = task[p].missing
    BY <1>1, <2>2 DEF Task
  <2>4. QED
    BY <2>1, <2>3 DEF CommitAnswered
<1>8. CASE SkipMutation(p) \/ ApplyMutation(p)
  <2>1. /\ task[p].pc = "tx" /\ task[p].batch # << >> /\ sent' = sent /\ objects' = objects
        /\ task'[p].blobs = task[p].blobs /\ task'[p].batch = Tail(task[p].batch)
        /\ task'[p].missing = task[p].missing
    <3>1. CASE SkipMutation(p)
      <4>1. task[p].pc = "tx" /\ task[p].batch # << >> /\ sent' = sent /\ objects' = objects
        BY <3>1 DEF SkipMutation
      <4>2. PICK seen : task' = [task EXCEPT ![p] =
              [task[p] EXCEPT !.batch = Tail(@), !.seen = seen]]
        BY Zenon, <3>1 DEF SkipMutation, Goto
      <4> QED
        BY <1>1, <4>1, <4>2 DEF Task
    <3>2. CASE ApplyMutation(p)
      <4>1. task[p].pc = "tx" /\ task[p].batch # << >> /\ sent' = sent /\ objects' = objects
        BY <3>2 DEF ApplyMutation
      <4>2. PICK seen, next : task' = [task EXCEPT ![p] =
              [task[p] EXCEPT !.batch = Tail(@), !.seen = seen, !.next = next]]
        BY Zenon, <3>2 DEF ApplyMutation, Goto
      <4> QED
        BY <1>1, <4>1, <4>2 DEF Task
    <3> QED
      BY <1>8, <3>1, <3>2
  <2>2. Range(Tail(task[p].batch)) \subseteq Range(task[p].batch)
    BY <1>1, <2>1, RestOfBatch DEF Task
  <2>3. QED
    BY <2>1, <2>2 DEF CommitAnswered
<1>9. CASE FinishCommit(p)
  BY <1>1, <1>2, <1>9 DEF FinishCommit, Goto, Done
<1>10. QED
  BY <1>4, <1>5, <1>6, <1>7, <1>8, <1>9 DEF Commit

(* Under the lock the step of one handler keeps what the others rely on.        *)
LEMMA StorageHandlerStep ==
  ASSUME Serialized, StorageInv, NEW p \in Procs, HandlerStep(p)
  PROVE  AtRiskUnreferenced' /\ CommitAnswered' /\ CurrentBlobStored'
<1>1. /\ TypeOK /\ LiveIffReferenced /\ LockHeldOnce
      /\ AtRiskUnreferenced /\ CommitAnswered /\ CurrentBlobStored
  BY DEF StorageInv, LifecycleInv
<1>2. task[p] \in Task /\ task'[p] \in Task /\ \A q \in Procs : q # p => task'[q] = task[q]
  BY <1>1, TypeStep, OneHandlerStep DEF HandlerStep, Next, TypeOK
<1>3. HoldsLock(p) => \A q \in Procs : q # p => task[q].pc \in {"idle", "put"}
  BY <1>1 DEF LockHeldOnce, HoldsLock
<1>4. objects \ objects' # {} => HoldsLock(p)
  BY ObjectsShrink DEF ObjectsAtRisk, HoldsLock
<1>5. AtRiskUnreferenced'
  <2>1. CASE ApplyMutation(p)
    <3>1. task[p].pc = "tx" /\ HoldsLock(p)
      BY <2>1 DEF ApplyMutation, HoldsLock
    <3>2. task'[p].pc \in {"idle", "exists", "tx"}
      BY <1>1, <2>1, Destinations DEF Commit
    <3>3. \A q \in Procs : ObjectsAtRisk(q)' = {}
      BY <1>2, <1>3, <3>1, <3>2 DEF ObjectsAtRisk
    <3>4. QED
      BY <3>3 DEF AtRiskUnreferenced
  <2>2. CASE ~ApplyMutation(p)
    <3>1. entries' = entries
      BY <2>2, EntriesKept
    <3>2. \A b \in ObjectsAtRisk(p)' : ~HasCurrentReference(b)
      BY <1>1, <3>1, RiskTaken
    <3>3. \A q \in Procs : q # p => ObjectsAtRisk(q)' = ObjectsAtRisk(q)
      BY <1>2 DEF ObjectsAtRisk
    <3>4. QED
      BY <1>1, <3>1, <3>2, <3>3 DEF AtRiskUnreferenced, HasCurrentReference
  <2>3. QED
    BY <2>1, <2>2
<1>6. CommitAnswered'
  <2>1. ASSUME NEW q \in Procs, q # p, task'[q].pc \in {"exists", "tx"}
        PROVE  /\ task'[q].pc = "tx" => task'[q].blobs = {}
               /\ \A m \in Range(task'[q].batch) :
                    /\ sent'[m].by # "nobody"
                    /\ sent'[m].blob \in {NoBlob} \cup task'[q].blobs \cup task'[q].missing
                                               \cup objects'
    <3>1. task'[q] = task[q] /\ task[q] \in Task
      BY <1>1, <1>2, <2>1 DEF TypeOK
    <3>2. objects \subseteq objects'
      BY <1>3, <1>4, <2>1, <3>1
    <3>3. Range(task[q].batch) \subseteq Mutations
      BY <3>1 DEF Task, Range
    <3>4. \A m \in Range(task[q].batch) : sent'[m] = sent[m]
      BY <1>1, <2>1, <3>1, <3>3, SentStable DEF CommitAnswered
    <3>5. QED
      BY <1>1, <2>1, <3>1, <3>2, <3>4 DEF CommitAnswered
  <2>2. ASSUME task'[p].pc \in {"exists", "tx"}
        PROVE  /\ task'[p].pc = "tx" => task'[p].blobs = {}
               /\ \A m \in Range(task'[p].batch) :
                    /\ sent'[m].by # "nobody"
                    /\ sent'[m].blob \in {NoBlob} \cup task'[p].blobs \cup task'[p].missing
                                               \cup objects'
    <3>1. Commit(p)
      BY <1>1, <2>2, Destinations DEF HandlerStep
    <3>2. QED
      BY <1>1, <2>2, <3>1, CommitKeepsAnswers
  <2>3. QED
    BY <2>1, <2>2 DEF CommitAnswered
<1>7. CurrentBlobStored'
  <2>1. CASE ApplyMutation(p)
    <3> DEFINE m == Head(task[p].batch)
               c == sent[m]
    <3>1. /\ m \in Range(task[p].batch) /\ m \in Mutations
          /\ task[p].pc = "tx" /\ ~Skips(p, m) /\ objects' = objects
      BY <1>2, <2>1, RestOfBatch DEF ApplyMutation, Task
    <3>2. c.blob # NoBlob => c.blob \in objects
      BY <1>1, <3>1 DEF CommitAnswered, Skips
    <3>3. \A e \in Entries : entries'[e].blob \in {c.blob, entries[e].blob}
      BY <1>1, <2>1 DEF ApplyMutation, TypeOK
    <3> HIDE DEF c, m
    <3>4. QED
      BY <1>1, <3>1, <3>2, <3>3 DEF CurrentBlobStored
  <2>2. CASE ~ApplyMutation(p)
    <3>1. entries' = entries
      BY <2>2, EntriesKept
    <3>2. \A b \in objects : b \notin objects' => ~HasCurrentReference(b)
      BY <1>1, ObjectsShrink DEF AtRiskUnreferenced
    <3>3. QED
      BY <1>1, <3>1, <3>2 DEF CurrentBlobStored, HasCurrentReference
  <2>3. QED
    BY <2>1, <2>2
<1>8. QED
  BY <1>5, <1>6, <1>7

(* Every step keeps what is stored.                                            *)
LEMMA StorageStep ==
  ASSUME Serialized, StorageInv, [Next]_vars
  PROVE  StorageInv'
<1>1. /\ LifecycleInv /\ AtRiskUnreferenced /\ CommitAnswered /\ CurrentBlobStored
      /\ DeleteBlobIsLocked
  BY DEF StorageInv, DeleteBlobIsLocked
<1>2. LifecycleInv'
  BY <1>1, LifecycleStep
<1>3. ASSUME NEW p \in Procs, HandlerStep(p)
      PROVE  StorageInv'
  BY <1>2, <1>3, StorageHandlerStep DEF StorageInv
<1>4. ASSUME UNCHANGED <<entries, objects>>, UNCHANGED task \/ Crash,
             \A m \in Mutations : sent[m].by # "nobody" => sent'[m] = sent[m]
      PROVE  StorageInv'
  <2>1. CurrentBlobStored'
    BY <1>1, <1>4 DEF CurrentBlobStored
  <2>2. AtRiskUnreferenced'
    BY <1>1, <1>4 DEF AtRiskUnreferenced, ObjectsAtRisk, HasCurrentReference, Crash, Idle
  <2>3. CommitAnswered'
    <3>1. CASE Crash
      BY <3>1 DEF Crash, Idle, CommitAnswered
    <3>2. CASE UNCHANGED task
      <4>1. \A q \in Procs : Range(task[q].batch) \subseteq Mutations
        BY <1>1 DEF LifecycleInv, TypeOK, Task, Range
      <4>2. QED
        BY <1>1, <1>4, <3>2, <4>1 DEF CommitAnswered
    <3>3. QED
      BY <1>4, <3>1, <3>2
  <2>4. QED
    BY <1>2, <2>1, <2>2, <2>3 DEF StorageInv
<1>5. CASE \E m \in Mutations : NewMutation(m)
  <2>1. \A m \in Mutations : sent[m].by # "nobody" => sent'[m] = sent[m]
    BY <1>1, <1>5 DEF NewMutation, LifecycleInv, TypeOK
  <2>2. QED
    BY <1>4, <1>5, <2>1 DEF NewMutation, tables
<1>6. CASE SetSyncPause \/ ApplyVaultPolicy \/ Crash \/ Tick \/ UNCHANGED vars
  BY <1>4, <1>6 DEF SetSyncPause, ApplyVaultPolicy, Crash, Tick, vars, tables
<1>7. QED
  BY <1>3, <1>5, <1>6 DEF Next, HandlerStep

(* A vault that starts has no entries.                                         *)
LEMMA StorageInit == Init => StorageInv
<1> SUFFICES ASSUME Init
             PROVE  StorageInv
  OBVIOUS
<1>1. LifecycleInv
  BY LifecycleInit
<1>2. AtRiskUnreferenced /\ CommitAnswered
  BY DEF Init, Idle, AtRiskUnreferenced, ObjectsAtRisk, CommitAnswered
<1>3. CurrentBlobStored
  BY DEF Init, NoEntry, CurrentBlobStored
<1> QED
  BY <1>1, <1>2, <1>3 DEF StorageInv

(* On the Node runtime every current entry can be downloaded, through crashes, *)
(* failing deletions, purges, repairs and any schedule of handlers.            *)
THEOREM CurrentBlobsStay ==
  ASSUME Serialized
  PROVE  Spec => []CurrentBlobStored
<1>1. StorageInv /\ [Next]_vars => StorageInv'
  BY StorageStep
<1>2. StorageInv => CurrentBlobStored
  BY DEF StorageInv
<1>3. QED
  BY StorageInit, <1>1, <1>2, PTL DEF Spec

-----------------------------------------------------------------------------
(* Versions and the grace period.                                              *)

\* What a handler is about to delete, object or row.
Doomed(p) ==
  ObjectsAtRisk(p) \cup (IF task[p].pc = "blob_record" THEN task[p].blobs ELSE {})

\* What was collected at a time was collectible then, and time only goes on.
AtNotFuture == \A p \in Procs : task[p].at <= now
DoomedUnpinned == \A p \in Procs : \A b \in Doomed(p) : ~IsBlobPinned(b, now)

(* The inductive invariant: nothing pinned by an entry or by a version that has *)
(* not expired is about to be deleted.                                          *)
HistoryInv == StorageInv /\ AtNotFuture /\ DoomedUnpinned /\ HistoryRestorable

(* A blob that nothing pins now is not pinned by the passing of time.          *)
LEMMA PinsExpire ==
  ASSUME TypeOK, NEW b, NEW s \in Nat, NEW t \in Nat, s <= t, IsBlobPinned(b, t)
  PROVE  IsBlobPinned(b, s)
<1>1. \A v \in versions : v.expiresAt \in Nat
  BY DEF TypeOK, VersionRow
<1> QED
  BY <1>1 DEF IsBlobPinned, HasRetainedHistory

(* Handlers do not move the clock, and only a mutation adds versions.          *)
LEMMA VersionsShrink ==
  ASSUME NEW p \in Procs, HandlerStep(p)
  PROVE  now' = now /\ (ApplyMutation(p) \/ versions' \subseteq versions)
<1>1. CASE Upload(p)
  BY Zenon, <1>1 DEF Upload, StageBlobPauses, StageBlob, PutObject, tables
<1>2. CASE Commit(p)
  BY Zenon, <1>2 DEF Commit, StartCommit, StartRestore, CheckBlob, BeginCommit, SkipMutation,
     ApplyMutation, FinishCommit, tables
<1>3. CASE Collection(p)
  BY Zenon, <1>3 DEF Collection, RunGc, DeleteObjects, DeleteRecords, PurgeDeletedEntries, Unexpired,
     CollectPurgedBlobs, DeleteBlob, DeleteBlobObject, DeleteBlobRecord, tables
<1>4. CASE Repair(p)
  BY Zenon, <1>4 DEF Repair, RepairSyncState, RepairBlob, RepairObject, FinishRepair, tables
<1>5. CASE ObjectStoreFails(p)
  BY <1>5 DEF ObjectStoreFails, tables
<1> QED
  BY <1>1, <1>2, <1>3, <1>4, <1>5 DEF HandlerStep

(* A handler remembers the time it started collecting, or none.                *)
LEMMA AtKept ==
  ASSUME TypeOK, NEW p \in Procs, HandlerStep(p)
  PROVE  task'[p].at \in {0, task[p].at, now}
<1>1. task[p] \in Task /\ task \in [Procs -> Task] /\ Idle.at = 0
  BY DEF TypeOK, Idle
<1>2. CASE Done(p)
  BY <1>1, <1>2 DEF Done, Goto
<1>3. CASE Upload(p)
  <2>1. CASE StageBlobPauses(p)
    BY <2>1 DEF StageBlobPauses
  <2>2. CASE StageBlob(p)
    <3>1. PICK b \in Blobs : task' = [task EXCEPT ![p] = [Idle EXCEPT !.pc = "put", !.blobs = {b}]]
      BY Zenon, <2>2 DEF StageBlob, Goto
    <3> QED
      BY <1>1, <3>1, IdleIsTask DEF Task
  <2> QED
    BY <1>2, <1>3, <2>1, <2>2 DEF Upload, PutObject
<1>4. CASE Commit(p)
  <2>1. ASSUME NEW made, NEW batch, NEW restoring, CommitMutations(p, made, batch, restoring)
        PROVE  task'[p].at = 0
    BY <1>1, <2>1, IdleIsTask DEF CommitMutations, Goto, Task
  <2>2. CASE StartCommit(p)
    BY <2>1, <2>2 DEF StartCommit
  <2>3. CASE StartRestore(p)
    BY <2>1, <2>3 DEF StartRestore
  <2>4. CASE CheckBlob(p)
    <3>1. PICK b, missing : task' = [task EXCEPT ![p] =
            [task[p] EXCEPT !.blobs = @ \ {b}, !.missing = missing]]
      BY Zenon, <2>4 DEF CheckBlob, Goto
    <3> QED
      BY <1>1, <3>1 DEF Task
  <2>5. CASE BeginCommit(p)
    <3>1. Done(p) \/ task' = [task EXCEPT ![p] = [task[p] EXCEPT !.pc = "tx"]]
      BY <2>5 DEF BeginCommit, Goto
    <3> QED
      BY <1>1, <1>2, <3>1 DEF Task
  <2>6. CASE SkipMutation(p)
    <3>1. PICK batch, seen :
            task' = [task EXCEPT ![p] = [task[p] EXCEPT !.batch = batch, !.seen = seen]]
      BY Zenon, <2>6 DEF SkipMutation, Goto
    <3> QED
      BY <1>1, <3>1 DEF Task
  <2>7. CASE ApplyMutation(p)
    <3>1. PICK batch, seen, next : task' = [task EXCEPT ![p] =
            [task[p] EXCEPT !.batch = batch, !.seen = seen, !.next = next]]
      BY Zenon, <2>7 DEF ApplyMutation, Goto
    <3> QED
      BY <1>1, <3>1 DEF Task
  <2> QED
    BY <1>2, <1>4, <2>2, <2>3, <2>4, <2>5, <2>6, <2>7 DEF Commit, FinishCommit
<1>5. CASE Collection(p)
  <2>1. ASSUME NEW B, Goto(p, [Idle EXCEPT !.pc = "gc_delete", !.blobs = B, !.at = now])
        PROVE  task'[p].at = now
    BY <1>1, <2>1, IdleIsTask DEF Goto, Task
  <2>2. CASE RunGc(p)
    BY Zenon, <1>2, <2>1, <2>2 DEF RunGc, Collect
  <2>3. CASE DeleteObjects(p)
    <3>1. PICK B : \/ task' = [task EXCEPT ![p] = [task[p] EXCEPT !.pc = "gc_record", !.blobs = B]]
                   \/ Done(p)
      BY Zenon, <2>3 DEF DeleteObjects, Goto
    <3> QED
      BY <1>1, <1>2, <3>1 DEF Task
  <2>4. CASE PurgeDeletedEntries(p)
    <3>1. PICK B : task' = [task EXCEPT ![p] = [Idle EXCEPT !.pc = "purge_collect", !.blobs = B]]
      BY Zenon, <2>4 DEF PurgeDeletedEntries, Goto
    <3> QED
      BY <1>1, <3>1, IdleIsTask DEF Task
  <2>5. CASE CollectPurgedBlobs(p)
    BY Zenon, <1>2, <2>1, <2>5 DEF CollectPurgedBlobs
  <2>6. CASE DeleteBlob(p)
    <3>1. PICK b, pc : task' = [task EXCEPT ![p] = [Idle EXCEPT !.blobs = {b}, !.pc = pc]]
      BY Zenon, <2>6 DEF DeleteBlob, Goto
    <3> QED
      BY <1>1, <3>1, IdleIsTask DEF Task
  <2>7. CASE DeleteBlobObject(p)
    BY <1>1, <1>2, <2>7 DEF DeleteBlobObject, Goto, Task
  <2> QED
    BY <1>2, <1>5, <2>2, <2>3, <2>4, <2>5, <2>6, <2>7
       DEF Collection, DeleteRecords, DeleteBlobRecord
<1>6. CASE Repair(p)
  <2>1. CASE RepairSyncState(p)
    BY <1>1, <2>1, IdleIsTask DEF RepairSyncState, Goto, Task
  <2>2. CASE RepairBlob(p)
    <3>1. PICK b \in Blobs :
            \/ task' = [task EXCEPT ![p] = [task[p] EXCEPT !.pc = "repair", !.blobs = @ \ {b},
                                                         !.issue = TRUE]]
            \/ task' = [task EXCEPT ![p] = [task[p] EXCEPT !.pc = "repair_object",
                                             !.blobs = @ \ {b}, !.missing = {b}]]
      BY Zenon, <1>1, <2>2 DEF RepairBlob, Goto, Task
    <3> QED
      BY <1>1, <3>1 DEF Task
  <2>3. CASE RepairObject(p)
    BY <1>1, <2>3 DEF RepairObject, Goto, Task
  <2> QED
    BY <1>2, <1>6, <2>1, <2>2, <2>3 DEF Repair, FinishRepair
<1> QED
  BY <1>2, <1>3, <1>4, <1>5, <1>6 DEF HandlerStep, ObjectStoreFails

(* What a handler dooms, nothing pins.                                         *)
LEMMA DoomTaken ==
  ASSUME HistoryInv, NEW p \in Procs, HandlerStep(p)
  PROVE  \A b \in Doomed(p)' : ~IsBlobPinned(b, now)
<1>1. /\ task'[p] \in Task /\ task \in [Procs -> Task] /\ task[p] \in Task /\ TypeOK
      /\ LiveIffReferenced /\ DoomedUnpinned /\ HistoryRestorable /\ AtNotFuture
  BY TypeStep DEF HandlerStep, Next, TypeOK, HistoryInv, StorageInv, LifecycleInv
<1>2. ASSUME task'[p].pc \notin {"gc_delete", "blob_delete", "object_delete", "repair_object",
                                "blob_record"}
      PROVE  \A b \in Doomed(p)' : ~IsBlobPinned(b, now)
  BY <1>2 DEF Doomed, ObjectsAtRisk
<1>3. CASE task'[p] = Idle
  BY <1>2, <1>3 DEF Idle
<1>4. ASSUME NEW B, task' = [task EXCEPT ![p] = [Idle EXCEPT !.pc = "gc_delete", !.blobs = B, !.at = now]],
             \A b \in B : ~IsBlobPinned(b, now)
      PROVE  \A b \in Doomed(p)' : ~IsBlobPinned(b, now)
  BY <1>1, <1>4, IdleIsTask DEF Doomed, ObjectsAtRisk, Task
<1>5. CASE Upload(p) \/ Commit(p) \/ ObjectStoreFails(p)
  BY <1>1, <1>2, <1>5, Destinations
<1>6. CASE Collection(p)
  <2>1. CASE RunGc(p)
    BY Zenon, <1>1, <1>3, <1>4, <2>1 DEF RunGc, Collect, CollectibleBlob, Goto, Done
  <2>2. CASE DeleteObjects(p)
    <3>1. PICK reported : task' = [task EXCEPT ![p] =
                            [task[p] EXCEPT !.pc = "gc_record", !.blobs = reported]]
                          \/ task' = [task EXCEPT ![p] = Idle]
      BY Zenon, <2>2 DEF DeleteObjects, Goto, Done
    <3> QED
      BY <1>1, <1>2, <1>3, <3>1 DEF Task
  <2>3. CASE DeleteRecords(p) \/ DeleteBlobRecord(p)
    BY <1>1, <1>3, <2>3 DEF DeleteRecords, DeleteBlobRecord, Goto, Done
  <2>4. CASE PurgeDeletedEntries(p)
    <3>1. PICK B : task' = [task EXCEPT ![p] = [Idle EXCEPT !.pc = "purge_collect", !.blobs = B]]
      BY Zenon, <2>4 DEF PurgeDeletedEntries, Goto
    <3> QED
      BY <1>1, <1>2, <3>1, IdleIsTask DEF Task
  <2>5. CASE CollectPurgedBlobs(p)
    <3>1. CASE task' = [task EXCEPT ![p] = Idle]
      BY <1>1, <1>3, <3>1
    <3>2. CASE /\ task' = [task EXCEPT ![p] = [Idle EXCEPT !.pc = "gc_delete",
                    !.blobs = {b \in task[p].blobs : CollectibleBlob(b, now)'}, !.at = now]]
               /\ versions' = Unexpired(now)
      <4> DEFINE B == {b \in task[p].blobs : CollectibleBlob(b, now)'}
      <4>1. /\ \A b \in B : ~IsBlobPinned(b, now)'
            /\ now' = now /\ entries' = entries
        BY <2>5 DEF CollectibleBlob, CollectPurgedBlobs
      <4>2. \A b \in B : ~IsBlobPinned(b, now)
        BY <3>2, <4>1 DEF IsBlobPinned, HasCurrentReference, HasRetainedHistory, Unexpired
      <4>3. task' = [task EXCEPT ![p] = [Idle EXCEPT !.pc = "gc_delete", !.blobs = B, !.at = now]]
        BY <3>2
      <4> HIDE DEF B
      <4> QED
        BY Zenon, <1>4, <4>2, <4>3
    <3> QED
      BY <2>5, <3>1, <3>2 DEF CollectPurgedBlobs, Goto, Done
  <2>6. CASE DeleteBlob(p)
    <3>1. PICK b \in Blobs :
            /\ records[b].state # "none" => ~IsBlobPinned(b, now)
            /\ task' = [task EXCEPT ![p] = [Idle EXCEPT !.blobs = {b}, !.pc =
                 IF records[b].state = "none" THEN "object_delete" ELSE "blob_delete"]]
      BY Zenon, <2>6 DEF DeleteBlob, Goto
    <3>2. ~IsBlobPinned(b, now)
      <4>1. b # NoBlob
        BY ValueAssumption
      <4>2. ASSUME records[b].state = "none"
            PROVE  ~HasCurrentReference(b) /\ ~HasRetainedHistory(b, now)
        BY <1>1, <4>1, <4>2
           DEF LiveIffReferenced, HistoryRestorable, HasRetainedHistory, Unexpired
      <4> QED
        BY <3>1, <4>2 DEF IsBlobPinned
    <3>3. task'[p].blobs = {b} /\ task'[p].pc \in {"object_delete", "blob_delete"}
      BY <1>1, <3>1, IdleIsTask DEF Task
    <3> QED
      BY <3>2, <3>3 DEF Doomed, ObjectsAtRisk
  <2>7. CASE DeleteBlobObject(p)
    <3>1. CASE task[p].pc = "blob_delete" /\ task' = [task EXCEPT ![p] = [task[p] EXCEPT !.pc = "blob_record"]]
      <4>1. task'[p].pc = "blob_record" /\ task'[p].blobs = task[p].blobs
        BY <1>1, <3>1 DEF Task
      <4>2. Doomed(p)' = task[p].blobs /\ task[p].blobs \subseteq Doomed(p)
        BY <3>1, <4>1 DEF Doomed, ObjectsAtRisk
      <4> QED
        BY <1>1, <4>2 DEF DoomedUnpinned
    <3>2. CASE task' = [task EXCEPT ![p] = Idle]
      BY <1>1, <1>3, <3>2
    <3> QED
      BY <2>7, <3>1, <3>2 DEF DeleteBlobObject, Resumes, Goto, Done
  <2> QED
    BY <1>6, <2>1, <2>2, <2>3, <2>4, <2>5, <2>6, <2>7 DEF Collection
<1>7. CASE Repair(p)
  <2>1. CASE RepairSyncState(p)
    BY <1>1, <1>2, <2>1, IdleIsTask DEF RepairSyncState, Goto, Task
  <2>2. CASE RepairBlob(p)
    <3>1. PICK b \in Blobs :
            \/ task' = [task EXCEPT ![p] = [task[p] EXCEPT !.pc = "repair", !.blobs = @ \ {b},
                                                         !.issue = TRUE]]
            \/ /\ task' = [task EXCEPT ![p] = [task[p] EXCEPT !.pc = "repair_object",
                                                !.blobs = @ \ {b}, !.missing = {b}]]
               /\ records[b].state \notin {"live", "pending_delete"}
               /\ records[b].state = "staged" => ~IsBlobPinned(b, task[p].at)
      BY Zenon, <1>1, <2>2 DEF RepairBlob, Goto, Task
    <3>2. CASE task' = [task EXCEPT ![p] = [task[p] EXCEPT !.pc = "repair", !.blobs = @ \ {b},
                                                         !.issue = TRUE]]
      BY <1>1, <1>2, <3>2 DEF Task
    <3>3. CASE /\ task' = [task EXCEPT ![p] = [task[p] EXCEPT !.pc = "repair_object",
                                                !.blobs = @ \ {b}, !.missing = {b}]]
               /\ records[b].state \notin {"live", "pending_delete"}
               /\ records[b].state = "staged" => ~IsBlobPinned(b, task[p].at)
      <4>1. task'[p].pc = "repair_object" /\ task'[p].missing = {b}
        BY <1>1, <3>3 DEF Task
      <4>2. CASE records[b].state = "staged"
        <5>1. task[p].at \in Nat /\ now \in Nat /\ task[p].at <= now
          BY <1>1 DEF Task, TypeOK, AtNotFuture
        <5>2. ~IsBlobPinned(b, now)
          BY <1>1, <3>3, <4>2, <5>1, PinsExpire
        <5> QED
          BY <4>1, <5>2 DEF Doomed, ObjectsAtRisk
      <4>3. CASE records[b].state = "none"
        <5>1. b # NoBlob
          BY ValueAssumption
        <5>2. ~IsBlobPinned(b, now)
          BY <1>1, <4>3, <5>1 DEF LiveIffReferenced, HistoryRestorable, IsBlobPinned,
             HasRetainedHistory, Unexpired
        <5> QED
          BY <4>1, <5>2 DEF Doomed, ObjectsAtRisk
      <4> QED
        BY <1>1, <3>3, <4>2, <4>3 DEF TypeOK, BlobRow
    <3> QED
      BY <3>1, <3>2, <3>3
  <2>3. CASE RepairObject(p)
    BY <1>1, <1>2, <2>3 DEF RepairObject, Goto, Task
  <2>4. CASE FinishRepair(p)
    BY <1>1, <1>3, <2>4 DEF FinishRepair, Goto, Done
  <2> QED
    BY <1>7, <2>1, <2>2, <2>3, <2>4 DEF Repair
<1> QED
  BY <1>5, <1>6, <1>7 DEF HandlerStep

(* Rows disappear in three steps; each of them has a reason that holds now.    *)
LEMMA RowsGone ==
  ASSUME TypeOK, NEW p \in Procs, HandlerStep(p),
         NEW b \in Blobs, records[b].state # "none", records'[b].state = "none"
  PROVE  \/ DeleteRecords(p) /\ CollectibleBlob(b, task[p].at)
         \/ DeleteBlobRecord(p) /\ task[p].pc = "blob_record" /\ b \in task[p].blobs
         \/ /\ RepairBlob(p) /\ Repairing(p) /\ b \in task[p].blobs
            /\ records[b].state = "staged" /\ ~IsBlobPinned(b, task[p].at)
<1>1. records[b] \in BlobRow
  BY DEF TypeOK
<1>2. ASSUME NEW B, DeleteBlobRows(B)
      PROVE  b \in B
  BY <1>2 DEF DeleteBlobRows
<1>3. CASE DeleteRecords(p)
  BY <1>2, <1>3 DEF DeleteRecords
<1>4. CASE DeleteBlobRecord(p)
  BY <1>2, <1>4 DEF DeleteBlobRecord, Resumes
<1>5. CASE RepairBlob(p)
  <2>1. PICK x \in task[p].blobs :
          \/ UNCHANGED <<records, used>>
          \/ /\ DeleteBlobRows({x})
             /\ ~(\/ records[x].state \in {"live", "pending_delete"}
                  \/ records[x].state = "staged" /\ IsBlobPinned(x, task[p].at))
    BY <1>5 DEF RepairBlob
  <2> QED
    BY Zenon, <1>1, <1>2, <1>5, <2>1 DEF RepairBlob, BlobRow
<1>6. CASE StageBlob(p)
  <2>1. PICK x \in Blobs, s \in Sizes : \E t : records' = [records EXCEPT ![x] =
               [state |-> "staged", size |-> s, deleteAfter |-> now + Grace, createdAt |-> t]]
    BY <1>6 DEF StageBlob
  <2> QED
    BY <2>1 DEF TypeOK
<1>7. CASE CollectPurgedBlobs(p)
  <2>1. records' = records \/ records' = MarkUnpinned(task[p].blobs)
    BY <1>7 DEF CollectPurgedBlobs
  <2>2. \/ records'[b] = records[b]
        \/ \E t : records'[b] = [records[b] EXCEPT !.state = "pending_delete", !.deleteAfter = t]
    BY Zenon, <1>1, <2>1 DEF MarkUnpinned, BlobRow
  <2> QED
    BY Zenon, <1>1, <2>2 DEF BlobRow
<1>8. CASE ApplyMutation(p)
  <2> PICK c : c = sent[Head(task[p].batch)]
    OBVIOUS
  <2>1. records' = BlobRowsAfter(c)
    BY <1>8 DEF ApplyMutation
  <2>2. \/ records'[b] = [records[b] EXCEPT !.state = "live", !.deleteAfter = 0]
        \/ records'[b] = [records[b] EXCEPT !.state = "pending_delete", !.deleteAfter = now]
        \/ records'[b] = records[b]
    BY Zenon, <2>1 DEF BlobRowsAfter
  <2> QED
    BY <1>1, <2>2 DEF BlobRow
<1>9. CASE Upload(p) /\ ~StageBlob(p)
  BY <1>9 DEF Upload, StageBlobPauses, PutObject, tables
<1>10. CASE Commit(p) /\ ~ApplyMutation(p)
  BY Zenon, <1>10 DEF Commit, StartCommit, StartRestore, CheckBlob, BeginCommit, SkipMutation,
     FinishCommit, tables
<1>11. CASE RunGc(p) \/ DeleteObjects(p) \/ PurgeDeletedEntries(p) \/ DeleteBlob(p) \/ DeleteBlobObject(p)
  BY Zenon, <1>11 DEF RunGc, DeleteObjects, PurgeDeletedEntries, DeleteBlob, DeleteBlobObject, tables
<1>12. CASE RepairSyncState(p) \/ RepairObject(p) \/ FinishRepair(p) \/ ObjectStoreFails(p)
  BY Zenon, <1>12 DEF RepairSyncState, RepairObject, FinishRepair, ObjectStoreFails, tables
<1> QED
  BY <1>3, <1>4, <1>5, <1>6, <1>7, <1>8, <1>9, <1>10, <1>11, <1>12
     DEF HandlerStep, Collection, Repair

(* A mutation's versions have rows and objects: the state that it replaces is   *)
(* current, and its own blob has been answered for.                            *)
LEMMA NewVersionsStored ==
  ASSUME StorageInv, NEW p \in Procs, ApplyMutation(p),
         NEW v, v \in versions', v \notin versions, v.blob # NoBlob
  PROVE  v.blob \in Blobs /\ records[v.blob].state # "none" /\ v.blob \in objects
<1>1. /\ TypeOK /\ CurrentBlobStored /\ LiveIffReferenced /\ CommitAnswered
      /\ task[p] \in Task /\ sent \in [Mutations -> Mutation] /\ entries \in [Entries -> EntryRow]
  BY DEF StorageInv, LifecycleInv, TypeOK
<1> PICK m : m = Head(task[p].batch)
  OBVIOUS
<1>2. /\ m \in Range(task[p].batch) /\ m \in Mutations
      /\ task[p].pc = "tx" /\ ~Skips(p, m)
  BY <1>1, RestOfBatch DEF ApplyMutation, Task
<1> PICK c : c = sent[m]
  OBVIOUS
<1>3. c \in Mutation /\ c.entry \in Entries /\ c.blob \in MaybeBlob
  BY <1>1, <1>2 DEF Mutation
<1>4. c.blob # NoBlob => c.blob \in Blobs /\ records[c.blob].state # "none" /\ c.blob \in objects
  BY <1>1, <1>2, <1>3 DEF CommitAnswered, Skips, MaybeBlob
<1>5. v \in NewVersions(c, task[p].restoring)
  BY DEF ApplyMutation
<1>6. v.blob \in {entries[c.entry].blob, c.blob}
  <2> PICK row : row = [entry |-> c.entry, rev |-> entries[c.entry].rev,
                        blob |-> entries[c.entry].blob, bucket |-> 0,
                        expiresAt |-> now + limits.retention,
                        reason |-> IF c.blob = NoBlob THEN "before_delete" ELSE "before_restore"]
    OBVIOUS
  <2>1. \/ v = row
        \/ v = [row EXCEPT !.rev = entries[c.entry].rev + 1, !.blob = c.blob,
                           !.bucket = now \div BucketLength, !.reason = "auto"]
    BY <1>5 DEF NewVersions
  <2>2. CASE v = row
    BY <2>2
  <2>3. ASSUME NEW rev, NEW bucket, v = [row EXCEPT !.rev = rev, !.blob = c.blob, !.bucket = bucket,
                                                !.reason = "auto"]
        PROVE  v.blob = c.blob
    BY Zenon, <2>3
  <2> QED
    BY Zenon, <2>1, <2>2, <2>3
<1>7. ASSUME v.blob = entries[c.entry].blob
      PROVE  v.blob \in Blobs /\ records[v.blob].state # "none" /\ v.blob \in objects
  <2>1. v.blob \in Blobs
    BY <1>1, <1>3, <1>7 DEF EntryRow, MaybeBlob
  <2>2. HasCurrentReference(v.blob)
    BY <1>3, <1>7 DEF HasCurrentReference
  <2> QED
    BY Zenon, <1>1, <1>3, <1>7, <2>1, <2>2 DEF LiveIffReferenced, CurrentBlobStored
<1> QED
  BY <1>4, <1>6, <1>7

(* Under the lock the step of one handler keeps every version restorable.      *)
LEMMA HistoryHandlerStep ==
  ASSUME Serialized, HistoryInv, NEW p \in Procs, HandlerStep(p)
  PROVE  AtNotFuture' /\ DoomedUnpinned' /\ HistoryRestorable'
<1>1. /\ TypeOK /\ StorageInv /\ LockHeldOnce /\ LiveIffReferenced /\ AtNotFuture
      /\ DoomedUnpinned /\ HistoryRestorable /\ now \in Nat
  BY DEF HistoryInv, StorageInv, LifecycleInv, TypeOK
<1>2. task[p] \in Task /\ task'[p] \in Task /\ \A q \in Procs : q # p => task'[q] = task[q]
  BY <1>1, TypeStep, OneHandlerStep DEF HandlerStep, Next, TypeOK
<1>3. now' = now /\ (ApplyMutation(p) \/ versions' \subseteq versions)
  BY VersionsShrink
<1>4. AtNotFuture'
  BY <1>1, <1>2, <1>3, AtKept DEF AtNotFuture
<1>5. DoomedUnpinned'
  <2>1. CASE ApplyMutation(p)
    <3>1. task[p].pc = "tx" /\ task'[p].pc \in {"idle", "exists", "tx"}
      BY Zenon, <1>1, <2>1, Destinations DEF ApplyMutation, Commit
    <3>2. \A q \in Procs : q # p => task[q].pc \in {"idle", "put"}
      BY <1>1, <3>1 DEF LockHeldOnce, HoldsLock
    <3>3. \A q \in Procs : Doomed(q)' = {}
      BY <1>2, <3>1, <3>2 DEF Doomed, ObjectsAtRisk
    <3> QED
      BY <3>3 DEF DoomedUnpinned
  <2>2. CASE ~ApplyMutation(p)
    <3>1. entries' = entries
      BY <2>2, EntriesKept
    <3>2. \A b : IsBlobPinned(b, now)' => IsBlobPinned(b, now)
      BY <1>3, <2>2, <3>1 DEF IsBlobPinned, HasCurrentReference, HasRetainedHistory
    <3>3. \A q \in Procs : q # p => Doomed(q)' = Doomed(q)
      BY <1>2 DEF Doomed, ObjectsAtRisk
    <3>4. \A b \in Doomed(p)' : ~IsBlobPinned(b, now)
      BY DoomTaken
    <3> QED
      BY <1>1, <3>2, <3>3, <3>4 DEF DoomedUnpinned
  <2> QED
    BY <2>1, <2>2
<1>6. ASSUME NEW b \in Blobs, IsBlobPinned(b, now), records[b].state # "none"
      PROVE  records'[b].state # "none"
  <2> SUFFICES ASSUME records'[b].state = "none"
               PROVE  FALSE
    OBVIOUS
  <2>1. task[p].at \in Nat /\ task[p].at <= now
    BY <1>1, <1>2 DEF Task, AtNotFuture
  <2>2. IsBlobPinned(b, task[p].at)
    BY <1>1, <1>6, <2>1, PinsExpire
  <2>3. task[p].pc = "blob_record" /\ b \in task[p].blobs
    BY <1>1, <1>6, <2>2, RowsGone DEF CollectibleBlob
  <2> QED
    BY <1>1, <1>6, <2>3 DEF DoomedUnpinned, Doomed
<1>7. ASSUME NEW b \in objects, IsBlobPinned(b, now)
      PROVE  b \in objects'
  BY <1>1, <1>7, ObjectsShrink DEF DoomedUnpinned, Doomed
<1>8. HistoryRestorable'
  <2> SUFFICES ASSUME NEW v \in versions', v.expiresAt > now, v.blob # NoBlob
               PROVE  records'[v.blob].state # "none" /\ v.blob \in objects'
    BY <1>3 DEF HistoryRestorable, Unexpired
  <2>1. CASE v \in versions
    <3>1. /\ records[v.blob].state # "none" /\ v.blob \in objects /\ v.blob \in Blobs
          /\ IsBlobPinned(v.blob, now)
      BY <1>1, <2>1 DEF HistoryRestorable, Unexpired, IsBlobPinned, HasRetainedHistory, TypeOK
    <3> QED
      BY <1>6, <1>7, <3>1
  <2>2. CASE v \notin versions
    <3>1. ApplyMutation(p)
      BY <1>3, <2>2
    <3>2. v.blob \in Blobs /\ records[v.blob].state # "none" /\ v.blob \in objects
      BY <1>1, <2>2, <3>1, NewVersionsStored
    <3>3. objects' = objects
      BY <3>1 DEF ApplyMutation
    <3>4. records'[v.blob].state # "none"
      <4>1. ~DeleteRecords(p) /\ ~DeleteBlobRecord(p) /\ ~RepairBlob(p)
        BY <3>1 DEF ApplyMutation, DeleteRecords, DeleteBlobRecord, RepairBlob, Repairing, Resumes
      <4> QED
        BY <1>1, <3>2, <4>1, RowsGone
    <3> QED
      BY <3>2, <3>3, <3>4
  <2> QED
    BY <2>1, <2>2
<1> QED
  BY <1>4, <1>5, <1>8

(* So does every step.                                                        *)
LEMMA HistoryStep ==
  ASSUME Serialized, HistoryInv, [Next]_vars
  PROVE  HistoryInv'
<1>1. /\ StorageInv /\ AtNotFuture /\ DoomedUnpinned /\ HistoryRestorable /\ TypeOK
      /\ now \in Nat /\ task \in [Procs -> Task]
  BY DEF HistoryInv, StorageInv, LifecycleInv, TypeOK
<1>2. StorageInv'
  BY <1>1, StorageStep
<1>3. ASSUME NEW p \in Procs, HandlerStep(p)
      PROVE  HistoryInv'
  BY <1>2, <1>3, HistoryHandlerStep DEF HistoryInv
<1>4. ASSUME UNCHANGED <<entries, versions, records, objects>>, UNCHANGED task \/ Crash,
             now' \in Nat, now <= now'
      PROVE  HistoryInv'
  <2>1. \A b : IsBlobPinned(b, now)' => IsBlobPinned(b, now)
    <3>1. \A b : IsBlobPinned(b, now)' <=> IsBlobPinned(b, now')
      BY <1>4 DEF IsBlobPinned, HasCurrentReference, HasRetainedHistory
    <3> QED
      BY <1>1, <1>4, <3>1, PinsExpire
  <2>2. HistoryRestorable'
    <3>1. \A v \in versions : v.expiresAt \in Nat
      BY <1>1 DEF TypeOK, VersionRow
    <3> QED
      BY <1>1, <1>4, <3>1 DEF HistoryRestorable, Unexpired
  <2>3. CASE UNCHANGED task
    <3>1. \A p \in Procs : task[p].at \in Nat
      BY <1>1 DEF Task
    <3>2. AtNotFuture'
      BY <1>1, <1>4, <2>3, <3>1 DEF AtNotFuture
    <3>3. DoomedUnpinned'
      BY <1>1, <2>1, <2>3 DEF DoomedUnpinned, Doomed, ObjectsAtRisk
    <3> QED
      BY <1>2, <2>2, <3>2, <3>3 DEF HistoryInv
  <2>4. CASE Crash
    <3>1. AtNotFuture' /\ DoomedUnpinned'
      BY <1>4, <2>4 DEF Crash, Idle, AtNotFuture, DoomedUnpinned, Doomed, ObjectsAtRisk
    <3> QED
      BY <1>2, <2>2, <3>1 DEF HistoryInv
  <2> QED
    BY <1>4, <2>3, <2>4
<1>5. CASE (\E m \in Mutations : NewMutation(m)) \/ SetSyncPause \/ ApplyVaultPolicy \/ Crash
           \/ UNCHANGED vars
  BY <1>1, <1>4, <1>5 DEF NewMutation, SetSyncPause, ApplyVaultPolicy, Crash, vars, tables
<1>6. CASE Tick
  BY <1>1, <1>4, <1>6 DEF Tick, tables
<1> QED
  BY <1>3, <1>5, <1>6 DEF Next, HandlerStep

(* A vault that starts has no versions.                                        *)
LEMMA HistoryInit == Init => HistoryInv
BY StorageInit DEF Init, Idle, HistoryInv, AtNotFuture, DoomedUnpinned, Doomed, ObjectsAtRisk,
   HistoryRestorable, Unexpired

(* On the Node runtime every version that a client can still ask to restore    *)
(* has its row and its ciphertext, whatever is collected, purged or repaired.  *)
THEOREM VersionsStayRestorable ==
  ASSUME Serialized
  PROVE  Spec => []HistoryRestorable
<1>1. HistoryInv /\ [Next]_vars => HistoryInv'
  BY HistoryStep
<1>2. HistoryInv => HistoryRestorable
  BY DEF HistoryInv
<1> QED
  BY HistoryInit, <1>1, <1>2, PTL DEF Spec

-----------------------------------------------------------------------------
(* The grace period.  No HTTP route reaches the coordinator's deleteBlob.      *)

\* No handler is between the steps of a deleteBlob.
NoDeletions == \A p \in Procs : task[p].pc \notin {"blob_delete", "object_delete", "blob_record"}

\* What GC is about to delete is due, and is not staged again meanwhile.
GcDue ==
  \A p \in Procs : task[p].pc = "gc_delete" =>
    \A b \in task[p].blobs : records[b].state = "staged" => records[b].deleteAfter <= now

(* The inductive invariant of the grace period.                                *)
GraceInv == TypeOK /\ LockHeldOnce /\ AtNotFuture /\ NoDeletions /\ GcDue

(* Rows are written under the lock, or where the lock is free.                 *)
LEMMA RowsWrittenUnderLock ==
  ASSUME NEW p \in Procs, HandlerStep(p), records' # records
  PROVE  HoldsLock(p) \/ Admitted
<1>1. CASE Upload(p)
  BY Zenon, <1>1 DEF Upload, StageBlobPauses, StageBlob, PutObject, Starts, tables
<1>2. CASE Commit(p)
  BY Zenon, <1>2 DEF Commit, StartCommit, StartRestore, CheckBlob, BeginCommit, SkipMutation,
     ApplyMutation, FinishCommit, tables, HoldsLock
<1>3. CASE Collection(p)
  BY Zenon, <1>3 DEF Collection, RunGc, DeleteObjects, DeleteRecords, PurgeDeletedEntries,
     CollectPurgedBlobs, DeleteBlob, DeleteBlobObject, DeleteBlobRecord, Resumes, HoldsLock, tables
<1>4. CASE Repair(p)
  BY Zenon, <1>4 DEF Repair, RepairSyncState, RepairBlob, RepairObject, FinishRepair, Repairing,
     Resumes, HoldsLock, tables
<1>5. CASE ObjectStoreFails(p)
  BY <1>5 DEF ObjectStoreFails, tables
<1> QED
  BY <1>1, <1>2, <1>3, <1>4, <1>5 DEF HandlerStep

(* A handler that starts deleting objects has just found them due.             *)
LEMMA DueTaken ==
  ASSUME GraceInv, NEW p \in Procs, HandlerStep(p), task'[p].pc = "gc_delete"
  PROVE  \A b \in task'[p].blobs : records'[b].state = "staged" => records'[b].deleteAfter <= now'
<1>1. /\ task'[p] \in Task /\ task \in [Procs -> Task] /\ task[p] \in Task /\ TypeOK
  BY TypeStep DEF HandlerStep, Next, TypeOK, GraceInv
<1>2. Collection(p)
  BY <1>1, Destinations DEF HandlerStep
<1>3. ~Done(p)
  BY <1>1 DEF Done, Goto, Idle
<1>4. ASSUME NEW B, Goto(p, [Idle EXCEPT !.pc = "gc_delete", !.blobs = B, !.at = now])
      PROVE  task'[p].blobs = B
  BY <1>1, <1>4, IdleIsTask DEF Goto, Task
<1>5. CASE RunGc(p)
  <2>1. PICK batch \in SUBSET {b \in Blobs : CollectibleBlob(b, now)} :
          Goto(p, [Idle EXCEPT !.pc = "gc_delete", !.blobs = batch, !.at = now])
    BY Zenon, <1>3, <1>5 DEF RunGc, Collect
  <2> QED
    BY Zenon, <1>4, <1>5, <2>1 DEF RunGc, CollectibleBlob
<1>6. CASE CollectPurgedBlobs(p)
  <2> DEFINE B == {b \in task[p].blobs : CollectibleBlob(b, now)'}
  <2>1. Goto(p, [Idle EXCEPT !.pc = "gc_delete", !.blobs = B, !.at = now])
    BY <1>3, <1>6 DEF CollectPurgedBlobs
  <2>2. \A b \in B : records'[b].deleteAfter <= now'
    BY DEF CollectibleBlob
  <2> HIDE DEF B
  <2> QED
    BY Zenon, <1>4, <2>1, <2>2
<1>7. CASE DeleteObjects(p)
  <2>1. PICK B : task' = [task EXCEPT ![p] = [task[p] EXCEPT !.pc = "gc_record", !.blobs = B]]
    BY Zenon, <1>3, <1>7 DEF DeleteObjects, Goto
  <2> QED
    BY <1>1, <2>1 DEF Task
<1>8. CASE PurgeDeletedEntries(p)
  <2>1. PICK B : task' = [task EXCEPT ![p] = [Idle EXCEPT !.pc = "purge_collect", !.blobs = B]]
    BY Zenon, <1>8 DEF PurgeDeletedEntries, Goto
  <2> QED
    BY <1>1, <2>1, IdleIsTask DEF Task
<1>9. CASE DeleteBlob(p)
  <2>1. PICK b \in Blobs : task' = [task EXCEPT ![p] = [Idle EXCEPT !.blobs = {b}, !.pc =
          IF records[b].state = "none" THEN "object_delete" ELSE "blob_delete"]]
    BY Zenon, <1>9 DEF DeleteBlob, Goto
  <2> QED
    BY <1>1, <2>1, IdleIsTask DEF Task
<1>10. CASE DeleteBlobObject(p)
  BY <1>1, <1>3, <1>10 DEF DeleteBlobObject, Goto, Task
<1> QED
  BY <1>2, <1>3, <1>5, <1>6, <1>7, <1>8, <1>9, <1>10
     DEF Collection, DeleteRecords, DeleteBlobRecord

(* Without deleteBlob requests no deleteBlob is under way.                     *)
LEMMA NoDeletionsStep ==
  ASSUME "delete_blob" \notin Ops, TypeOK, NoDeletions, NEW p \in Procs, HandlerStep(p)
  PROVE  task'[p].pc \notin {"blob_delete", "object_delete", "blob_record"}
<1>1. task[p] \in Task /\ task \in [Procs -> Task]
  BY DEF TypeOK
<1>2. CASE Collection(p)
  <2>1. ~DeleteBlob(p)
    BY Zenon DEF DeleteBlob, Starts
  <2>2. ~DeleteBlobObject(p) /\ ~DeleteBlobRecord(p)
    BY DEF DeleteBlobObject, DeleteBlobRecord, Resumes, NoDeletions
  <2>3. ASSUME NEW B, Goto(p, [Idle EXCEPT !.pc = "gc_delete", !.blobs = B, !.at = now])
        PROVE  task'[p].pc = "gc_delete"
    BY <1>1, <2>3, IdleIsTask DEF Goto, Task
  <2>4. ASSUME Done(p)
        PROVE  task'[p].pc = "idle"
    BY <1>1, <2>4 DEF Goto, Done, Idle
  <2>5. CASE RunGc(p) \/ CollectPurgedBlobs(p) \/ DeleteRecords(p)
    BY Zenon, <2>3, <2>4, <2>5 DEF RunGc, Collect, CollectPurgedBlobs, DeleteRecords
  <2>6. CASE DeleteObjects(p)
    <3>1. PICK B : \/ task' = [task EXCEPT ![p] = [task[p] EXCEPT !.pc = "gc_record", !.blobs = B]]
                   \/ Done(p)
      BY Zenon, <2>6 DEF DeleteObjects, Goto
    <3> QED
      <4>1. CASE Done(p)
        BY <2>4, <4>1
      <4>2. CASE task' = [task EXCEPT ![p] = [task[p] EXCEPT !.pc = "gc_record", !.blobs = B]]
        BY <1>1, <4>2 DEF Task
      <4>3. QED
        BY <3>1, <4>1, <4>2
  <2>7. CASE PurgeDeletedEntries(p)
    <3>1. PICK B : task' = [task EXCEPT ![p] = [Idle EXCEPT !.pc = "purge_collect", !.blobs = B]]
      BY Zenon, <2>7 DEF PurgeDeletedEntries, Goto
    <3> QED
      BY <1>1, <3>1, IdleIsTask DEF Task
  <2> QED
    BY <1>2, <2>1, <2>2, <2>5, <2>6, <2>7 DEF Collection
<1> QED
  BY <1>2, Destinations DEF HandlerStep

(* Every step keeps what is about to be deleted due.                           *)
LEMMA GraceStep ==
  ASSUME Serialized, "delete_blob" \notin Ops, GraceInv, [Next]_vars
  PROVE  GraceInv'
<1>1. /\ TypeOK /\ LockHeldOnce /\ AtNotFuture /\ NoDeletions /\ GcDue
      /\ now \in Nat /\ records \in [Blobs -> BlobRow] /\ task \in [Procs -> Task]
  BY DEF GraceInv, TypeOK
<1>2. TypeOK' /\ LockHeldOnce'
  BY <1>1, TypeStep, LockStep
<1>3. ASSUME NEW p \in Procs, HandlerStep(p)
      PROVE  GraceInv'
  <2>1. \A q \in Procs : q # p => task'[q] = task[q]
    BY <1>1, <1>3, OneHandlerStep DEF TypeOK
  <2>2. now' = now
    BY <1>3, VersionsShrink
  <2>3. AtNotFuture'
    BY <1>1, <1>3, <2>1, <2>2, AtKept DEF AtNotFuture
  <2>4. NoDeletions'
    BY <1>1, <1>3, <2>1, NoDeletionsStep DEF NoDeletions
  <2>5. ASSUME NEW q \in Procs, q # p, task[q].pc = "gc_delete"
        PROVE  records' = records
    <3>1. HoldsLock(q)
      BY <2>5 DEF HoldsLock
    <3>2. ~Admitted /\ ~HoldsLock(p)
      BY <1>1, <2>5, <3>1 DEF LockHeldOnce, Admitted
    <3> QED
      BY <1>3, <3>2, RowsWrittenUnderLock
  <2>6. GcDue'
    BY <1>1, <1>3, <2>1, <2>2, <2>5, DueTaken DEF GcDue
  <2> QED
    BY <1>2, <2>3, <2>4, <2>6 DEF GraceInv
<1>4. ASSUME UNCHANGED records, UNCHANGED task \/ Crash, now' \in Nat, now <= now'
      PROVE  GraceInv'
  <2>1. CASE UNCHANGED task
    <3>1. \A p \in Procs : task[p].at \in Nat /\ task[p].blobs \subseteq Blobs
      BY <1>1 DEF Task
    <3>2. \A b \in Blobs : records[b].deleteAfter \in Nat
      BY <1>1 DEF BlobRow
    <3>3. AtNotFuture' /\ NoDeletions'
      BY <1>1, <1>4, <2>1, <3>1 DEF AtNotFuture, NoDeletions
    <3>4. GcDue'
      BY <1>1, <1>4, <2>1, <3>1, <3>2 DEF GcDue
    <3> QED
      BY <1>2, <3>3, <3>4 DEF GraceInv
  <2>2. CASE Crash
    <3>1. AtNotFuture' /\ NoDeletions' /\ GcDue'
      BY <1>4, <2>2 DEF Crash, Idle, AtNotFuture, NoDeletions, GcDue
    <3> QED
      BY <1>2, <3>1 DEF GraceInv
  <2> QED
    BY <1>4, <2>1, <2>2
<1>5. CASE (\E m \in Mutations : NewMutation(m)) \/ SetSyncPause \/ ApplyVaultPolicy \/ Crash
           \/ UNCHANGED vars
  BY <1>1, <1>4, <1>5 DEF NewMutation, SetSyncPause, ApplyVaultPolicy, Crash, vars, tables
<1>6. CASE Tick
  BY <1>1, <1>4, <1>6 DEF Tick, tables
<1> QED
  BY <1>3, <1>5, <1>6 DEF Next, HandlerStep

(* What a step may not do to an upload in its grace period.                    *)
Kept ==
  \A b \in Blobs :
    records[b].state = "staged" /\ now < records[b].deleteAfter /\ ~FoundStale(b) =>
      records'[b].state # "none" /\ (b \in objects => b \in objects')

(* No step takes an upload in its grace period.                                *)
LEMMA KeptStep ==
  ASSUME GraceInv, [Next]_vars
  PROVE  Kept
<1> SUFFICES ASSUME NEW b \in Blobs, records[b].state = "staged", now < records[b].deleteAfter,
                    ~FoundStale(b)
             PROVE  records'[b].state # "none" /\ (b \in objects => b \in objects')
  BY DEF Kept
<1>1. /\ TypeOK /\ AtNotFuture /\ NoDeletions /\ GcDue
      /\ now \in Nat /\ records[b] \in BlobRow /\ task \in [Procs -> Task]
  BY DEF GraceInv, TypeOK
<1>2. ASSUME NEW p \in Procs, HandlerStep(p)
      PROVE  records'[b].state # "none" /\ (b \in objects => b \in objects')
  <2>1. ~(DeleteRecords(p) /\ CollectibleBlob(b, task[p].at))
    <3>1. task[p].at \in Nat /\ task[p].at <= now /\ records[b].deleteAfter \in Nat
      BY <1>1 DEF Task, AtNotFuture, BlobRow
    <3> QED
      BY <1>1, <3>1 DEF CollectibleBlob
  <2>2. task[p].pc # "blob_record"
    BY <1>1 DEF NoDeletions
  <2>3. ~(Repairing(p) /\ b \in task[p].blobs)
    BY DEF Repairing, Resumes, FoundStale
  <2>4. records'[b].state # "none"
    BY <1>1, <1>2, <2>1, <2>2, <2>3, RowsGone
  <2>5. b \notin ObjectsAtRisk(p)
    <3>1. records[b].deleteAfter \in Nat
      BY <1>1 DEF BlobRow
    <3>2. task[p].pc = "gc_delete" => b \notin task[p].blobs
      BY <1>1, <3>1 DEF GcDue
    <3>3. task[p].pc = "repair_object" => b \notin task[p].missing
      BY DEF FoundStale
    <3> QED
      BY <1>1, <3>2, <3>3 DEF ObjectsAtRisk, NoDeletions
  <2> QED
    BY <1>2, <2>4, <2>5, ObjectsShrink
<1> QED
  BY <1>2 DEF Next, HandlerStep, NewMutation, SetSyncPause, ApplyVaultPolicy, Crash, Tick, vars,
     tables

(* On the Node runtime an uploaded blob stays committable for the whole grace  *)
(* period: neither its row nor its object is collected, unless a repair has    *)
(* found it stale.                                                             *)
THEOREM GracePeriodKept ==
  ASSUME Serialized, "delete_blob" \notin Ops
  PROVE  Spec => GracePeriodHonoured
<1>1. Init => GraceInv
  BY LifecycleInit DEF Init, Idle, LifecycleInv, GraceInv, AtNotFuture, NoDeletions, GcDue
<1>2. GraceInv /\ [Next]_vars => GraceInv'
  BY GraceStep
<1>3. GraceInv /\ [Next]_vars => [Kept]_vars
  BY KeptStep
<1> QED
  BY <1>1, <1>2, <1>3, PTL DEF Spec, GracePeriodHonoured, Kept

-----------------------------------------------------------------------------
(* The storage counter.  The sum is a fold of the community modules.  Its value *)
(* is found without an induction rule: numbering every byte of every blob gives *)
(* a set whose cardinality satisfies the fold's equation, and no other function *)
(* does, for a smallest set on which one differed would contradict its own      *)
(* step.                                                                        *)

\* The sum of the sizes of the rows of S in the table f.
Total(f, S) == MapThenSumSet(LAMBDA b : f[b].size, S)

\* The bytes of the blobs of S, numbered in each blob, and how many they are.
Bytes(f, S) == UNION {{b} \X (1 .. f[b].size) : b \in S}
Count(f, S) == Cardinality(Bytes(f, S))

(* Finitely many blobs have finitely many bytes.                               *)
LEMMA BytesFinite ==
  ASSUME NEW S, IsFiniteSet(S), NEW f, \A b \in S : f[b].size \in Nat
  PROVE  IsFiniteSet(Bytes(f, S))
<1> DEFINE part == [b \in S |-> {b} \X (1 .. f[b].size)]
           Parts == {{b} \X (1 .. f[b].size) : b \in S}
<1>1. part \in Surjection(S, Parts)
  BY DEF Surjection
<1>2. IsFiniteSet(Parts)
  BY <1>1, FS_Surjection
<1>3. ASSUME NEW b \in S
      PROVE  IsFiniteSet({b} \X (1 .. f[b].size))
  <2>1. IsFiniteSet({b})
    BY FS_Singleton
  <2>2. IsFiniteSet(1 .. f[b].size)
    BY FS_Interval
  <2> QED
    BY <2>1, <2>2, FS_Product
<1>4. \A T \in Parts : IsFiniteSet(T)
  BY <1>3
<1>5. IsFiniteSet(UNION Parts)
  BY <1>2, <1>4, FS_UNION
<1> QED
  BY <1>5 DEF Bytes

(* Blobs apart have bytes apart.                                               *)
LEMMA CountSplit ==
  ASSUME NEW S, IsFiniteSet(S), NEW T, IsFiniteSet(T), S \cap T = {},
         NEW f, \A b \in S \cup T : f[b].size \in Nat
  PROVE  Count(f, S \cup T) = Count(f, S) + Count(f, T)
<1>1. IsFiniteSet(Bytes(f, S)) /\ IsFiniteSet(Bytes(f, T))
  BY BytesFinite
<1>2. Bytes(f, S \cup T) = Bytes(f, S) \cup Bytes(f, T)
  BY DEF Bytes
<1>3. Bytes(f, S) \cap Bytes(f, T) = {}
  BY DEF Bytes
<1>4. Cardinality({}) = 0 /\ Cardinality(Bytes(f, S)) \in Nat /\ Cardinality(Bytes(f, T)) \in Nat
  BY <1>1, FS_EmptySet, FS_CardinalityType
<1>5. Cardinality(Bytes(f, S) \cup Bytes(f, T)) =
        Cardinality(Bytes(f, S)) + Cardinality(Bytes(f, T)) - Cardinality(Bytes(f, S) \cap Bytes(f, T))
  BY <1>1, FS_Union
<1>6. Cardinality(Bytes(f, S) \cap Bytes(f, T)) = 0
  BY <1>3, <1>4, Zenon
<1>7. Cardinality(Bytes(f, S \cup T)) = Cardinality(Bytes(f, S) \cup Bytes(f, T))
  BY <1>2, Zenon
<1> QED
  BY <1>4, <1>5, <1>6, <1>7 DEF Count

(* One blob has as many bytes as its row says.                                 *)
LEMMA CountOne ==
  ASSUME NEW b, NEW f, f[b].size \in Nat
  PROVE  Count(f, {b}) = f[b].size
<1>1. Bytes(f, {b}) = {b} \X (1 .. f[b].size)
  BY DEF Bytes
<1>2. IsFiniteSet({b}) /\ Cardinality({b}) = 1
  BY FS_Singleton
<1>3. IsFiniteSet(1 .. f[b].size) /\ Cardinality(1 .. f[b].size) = f[b].size
  <2> PICK n \in Nat : n = f[b].size
    OBVIOUS
  <2>1. /\ IsFiniteSet(1 .. n)
        /\ Cardinality(1 .. n) = IF 1 > n THEN 0 ELSE n - 1 + 1
    BY FS_Interval
  <2> QED
    BY <2>1
<1>4. Cardinality({b} \X (1 .. f[b].size)) = Cardinality({b}) * Cardinality(1 .. f[b].size)
  BY <1>2, <1>3, FS_Product
<1>5. 1 * f[b].size = f[b].size
  OBVIOUS
<1> QED
  BY <1>1, <1>2, <1>3, <1>4, <1>5 DEF Count

(* The fold counts the bytes: the count satisfies the fold's equation, and     *)
(* whatever satisfies it agrees with the count on every subset.                *)
LEMMA TotalIsCount ==
  ASSUME NEW S, IsFiniteSet(S), NEW f, \A b \in S : f[b].size \in Nat
  PROVE  Total(f, S) = Count(f, S)
<1> DEFINE Step(g, s) == IF s = {} THEN 0
                         ELSE f[CHOOSE x \in s : TRUE].size + g[s \ {CHOOSE x \in s : TRUE}]
           Fold(g) == g = [s \in SUBSET S |-> Step(g, s)]
           fold == CHOOSE g : Fold(g)
           count == [s \in SUBSET S |-> Count(f, s)]
<1>1. Total(f, S) = fold[S]
  BY DEF Total, MapThenSumSet, MapThenFoldSet
<1>2. ASSUME NEW s \in SUBSET S
      PROVE  Count(f, s) = Step(count, s)
  <2>1. CASE s = {}
    <3>1. Bytes(f, s) = {}
      BY <2>1 DEF Bytes
    <3> QED
      BY <2>1, <3>1, FS_EmptySet DEF Count
  <2>2. CASE s # {}
    <3> DEFINE x == CHOOSE x \in s : TRUE
    <3>1. x \in s
      BY <2>2
    <3> HIDE DEF x
    <3>2. IsFiniteSet({x}) /\ IsFiniteSet(s \ {x})
      BY FS_Singleton, FS_Subset, FS_Difference
    <3>3. {x} \cup (s \ {x}) = s /\ {x} \cap (s \ {x}) = {}
      BY <3>1
    <3>4. Count(f, {x} \cup (s \ {x})) = Count(f, {x}) + Count(f, s \ {x})
      BY <3>1, <3>2, CountSplit
    <3>5. Count(f, s) = f[x].size + Count(f, s \ {x})
      BY <3>1, <3>3, <3>4, CountOne
    <3>6. count[s \ {x}] = Count(f, s \ {x})
      OBVIOUS
    <3> QED
      BY <2>2, <3>5, <3>6 DEF x
  <2> QED
    BY <2>1, <2>2
<1>3. Fold(count)
  BY <1>2
<1>4. Fold(fold)
  BY <1>3
<1>5. ASSUME NEW g, Fold(g)
      PROVE  \A s \in SUBSET S : g[s] = Count(f, s)
  <2> DEFINE Wrong == {s \in SUBSET S : g[s] # Count(f, s)}
             R == StrictSubsetOrdering(S)
  <2>1. SUFFICES ASSUME Wrong # {}
                 PROVE  FALSE
    OBVIOUS
  <2>2. Wrong \subseteq FiniteSubsetsOf(S)
    BY FS_Subset DEF FiniteSubsetsOf
  <2>3. PICK s \in Wrong : \A t \in Wrong : ~(<<t, s>> \in R)
    <3>1. IsWellFoundedOn(R, FiniteSubsetsOf(S))
      BY FS_StrictSubsetOrderingWellFounded
    <3> HIDE DEF Wrong, R
    <3> QED
      BY <2>1, <2>2, <3>1, WFMin
  <2>4. \A t \in SUBSET S : t \subseteq s /\ t # s => g[t] = Count(f, t)
    BY <2>3 DEF StrictSubsetOrdering
  <2>5. g[s] = Step(g, s) /\ Count(f, s) = Step(count, s)
    BY <1>2, <1>5, <2>3
  <2>6. CASE s = {}
    BY <2>3, <2>5, <2>6
  <2>7. CASE s # {}
    <3> DEFINE x == CHOOSE x \in s : TRUE
    <3>1. x \in s
      BY <2>7
    <3>2. s \ {x} \in SUBSET S /\ s \ {x} # s
      BY <3>1, <2>3
    <3>3. g[s \ {x}] = count[s \ {x}]
      BY <2>4, <3>2
    <3> QED
      BY <2>3, <2>5, <2>7, <3>3
  <2> QED
    BY <2>6, <2>7
<1> QED
  BY <1>1, <1>4, <1>5

(* The sum is a number,                                                        *)
LEMMA TotalNat ==
  ASSUME NEW S, IsFiniteSet(S), NEW f, \A b \in S : f[b].size \in Nat
  PROVE  Total(f, S) \in Nat
BY BytesFinite, TotalIsCount, FS_CardinalityType DEF Count

(* it can be split,                                                            *)
LEMMA TotalSplit ==
  ASSUME NEW S, IsFiniteSet(S), NEW T \in SUBSET S, NEW f, \A b \in S : f[b].size \in Nat
  PROVE  Total(f, S) = Total(f, T) + Total(f, S \ T)
<1>1. IsFiniteSet(T) /\ IsFiniteSet(S \ T)
  BY FS_Subset
<1>2. T \cup (S \ T) = S /\ T \cap (S \ T) = {}
  OBVIOUS
<1>3. Count(f, T \cup (S \ T)) = Count(f, T) + Count(f, S \ T)
  BY <1>1, CountSplit
<1>4. Count(f, S) = Count(f, T \cup (S \ T))
  BY <1>2, Zenon
<1>5. Total(f, S) = Count(f, S) /\ Total(f, T) = Count(f, T) /\ Total(f, S \ T) = Count(f, S \ T)
  BY <1>1, TotalIsCount
<1> QED
  BY <1>3, <1>4, <1>5

(* it only depends on the sizes,                                               *)
LEMMA TotalSame ==
  ASSUME NEW S, IsFiniteSet(S), NEW f, NEW g,
         \A b \in S : f[b].size \in Nat /\ g[b].size = f[b].size
  PROVE  Total(g, S) = Total(f, S)
<1>1. Bytes(g, S) = Bytes(f, S)
  BY DEF Bytes
<1>2. Total(f, S) = Count(f, S) /\ Total(g, S) = Count(g, S)
  BY TotalIsCount
<1> QED
  BY <1>1, <1>2 DEF Count

(* and it is what it should be for one row and for empty ones.                 *)
LEMMA TotalOne ==
  ASSUME NEW b, NEW f, f[b].size \in Nat
  PROVE  Total(f, {b}) = f[b].size
<1>1. IsFiniteSet({b})
  BY FS_Singleton
<1> QED
  BY <1>1, CountOne, TotalIsCount

(* No blobs, no bytes.                                                         *)
LEMMA TotalNothing ==
  ASSUME NEW S, IsFiniteSet(S), NEW f, \A b \in S : f[b].size = 0
  PROVE  Total(f, S) = 0
<1>1. Bytes(f, S) = {}
  BY DEF Bytes
<1>2. Total(f, S) = Count(f, S)
  BY TotalIsCount
<1> QED
  BY <1>1, <1>2, FS_EmptySet DEF Count

-----------------------------------------------------------------------------
(* Where no row is, no bytes are counted.                                      *)
AbsentIsEmpty == \A b \in Blobs : records[b].state = "none" => records[b].size = 0

(* The inductive invariant.                                                    *)
UsageInv == TypeOK /\ AbsentIsEmpty /\ UsageExact

(* The counter and the sum, before a step and after it.                        *)
LEMMA SizeIsTotal == ASSUME NEW B PROVE SizeOfRecords(B) = Total(records, B)
BY DEF SizeOfRecords, Total

(* The counter is exact when it is the sum, now and after a step.              *)
LEMMA UsageIsTotal == UsageExact <=> used = Total(records, Blobs)
BY SizeIsTotal DEF UsageExact

(* The same of the next state.                                                 *)
LEMMA UsageIsTotalNext == UsageExact' <=> used' = Total(records', Blobs)
BY DEF UsageExact, SizeOfRecords, Total, MapThenSumSet, MapThenFoldSet

(* Rows have sizes, so the counter is a number.                                *)
LEMMA SizesNat ==
  ASSUME TypeOK
  PROVE  \A b \in Blobs : records[b].size \in Nat
BY DEF TypeOK, BlobRow

(* The counter never goes below zero.                                          *)
LEMMA UsageNat == ASSUME UsageInv PROVE used \in Nat
<1>1. \A b \in Blobs : records[b].size \in Nat
  BY SizesNat DEF UsageInv
<1>2. Total(records, Blobs) \in Nat
  BY <1>1, FiniteAssumption, TotalNat
<1> QED
  BY <1>2, UsageIsTotal DEF UsageInv

(* A step that changes no size and not the counter keeps them together.        *)
LEMMA SizesKept ==
  ASSUME UsageInv, used' = used, \A b \in Blobs : records'[b].size = records[b].size
  PROVE  UsageExact'
<1>1. Total(records', Blobs) = Total(records, Blobs)
  <2>1. TypeOK
    BY DEF UsageInv
  <2> QED
    BY <2>1, SizesNat, FiniteAssumption, TotalSame
<1> QED
  BY <1>1, UsageIsTotal, UsageIsTotalNext DEF UsageInv

(* Deleting rows gives back exactly their bytes: the counter is never clamped. *)
LEMMA RowsDeleted ==
  ASSUME UsageInv, NEW B \in SUBSET Blobs, DeleteBlobRows(B)
  PROVE  UsageExact' /\ AbsentIsEmpty' /\ used' \in Nat /\ used' <= used
<1>1. \A b \in Blobs : records[b].size \in Nat
  BY SizesNat DEF UsageInv
<1>2. IsFiniteSet(Blobs) /\ IsFiniteSet(B) /\ IsFiniteSet(Blobs \ B)
  BY FiniteAssumption, FS_Subset
<1>3. /\ \A b \in B : records'[b].size = 0
      /\ \A b \in Blobs \ B : records'[b] = records[b]
  BY DEF DeleteBlobRows, NoRecord
<1>4. used = Total(records, B) + Total(records, Blobs \ B)
  <2>1. Total(records, Blobs) = Total(records, B) + Total(records, Blobs \ B)
    BY <1>1, <1>2, TotalSplit
  <2> QED
    BY <2>1, UsageIsTotal DEF UsageInv
<1>5. Total(records, B) \in Nat /\ Total(records, Blobs \ B) \in Nat
  BY <1>1, <1>2, TotalNat
<1>6. Total(records', Blobs) = Total(records', B) + Total(records', Blobs \ B)
  <2>1. \A b \in Blobs : records'[b].size \in Nat
    BY <1>1, <1>3
  <2> QED
    BY <1>2, <2>1, TotalSplit
<1>7. Total(records', B) = 0
  BY <1>2, <1>3, TotalNothing
<1>8. Total(records', Blobs \ B) = Total(records, Blobs \ B)
  BY <1>1, <1>2, <1>3, TotalSame
<1>9. used' = Total(records, Blobs \ B)
  <2>1. used' = LessUsed(Total(records, B))
    BY SizeIsTotal DEF DeleteBlobRows
  <2> QED
    BY <1>4, <1>5, <2>1 DEF LessUsed
<1>10. UsageExact'
  BY <1>5, <1>6, <1>7, <1>8, <1>9, UsageIsTotalNext
<1>11. AbsentIsEmpty'
  BY <1>3 DEF AbsentIsEmpty, UsageInv
<1> QED
  BY <1>4, <1>5, <1>9, <1>10, <1>11

(* Staging counts the bytes of a new row once, and only within the quota.      *)
LEMMA RowStaged ==
  ASSUME UsageInv, NEW p \in Procs, StageBlob(p)
  PROVE  /\ UsageExact' /\ AbsentIsEmpty'
         /\ used' > used => limits.storage = 0 \/ used' <= limits.storage
<1>1. PICK b \in Blobs, s \in Sizes :
         LET known == records[b].state # "none"
         IN  /\ known => records[b].size = s
             /\ known \/ WithinQuota(s)
             /\ records' = [records EXCEPT ![b] =
                  [state |-> "staged", size |-> s, deleteAfter |-> now + Grace,
                   createdAt |-> IF known THEN @.createdAt ELSE now]]
             /\ used' = IF known THEN used ELSE used + s
  BY DEF StageBlob
<1>2. \A x \in Blobs : records[x].size \in Nat
  BY SizesNat DEF UsageInv
<1>3. records \in [Blobs -> BlobRow] /\ s \in Nat /\ used \in Nat
  BY UsageNat, NumberAssumption DEF UsageInv, TypeOK
<1>4. /\ records'[b].size = s /\ records'[b].state = "staged"
      /\ \A x \in Blobs \ {b} : records'[x] = records[x]
  BY <1>1, <1>3
<1>5. AbsentIsEmpty'
  BY <1>4 DEF AbsentIsEmpty, UsageInv
<1>6. CASE records[b].state # "none"
  <2>1. used' = used /\ \A x \in Blobs : records'[x].size = records[x].size
    BY <1>1, <1>4, <1>6
  <2> QED
    BY <2>1, <1>3, <1>5, SizesKept
<1>7. CASE records[b].state = "none"
  <2>1. used' = used + s
    BY <1>1, <1>7
  <2>2. IsFiniteSet(Blobs) /\ IsFiniteSet(Blobs \ {b}) /\ {b} \in SUBSET Blobs
    BY FiniteAssumption, FS_Subset
  <2>3. Total(records, Blobs) = Total(records, {b}) + Total(records, Blobs \ {b})
    BY <1>2, <2>2, TotalSplit
  <2>4. Total(records, {b}) = 0
    BY <1>2, <1>7, TotalOne DEF UsageInv, AbsentIsEmpty
  <2>5. Total(records', Blobs) = Total(records', {b}) + Total(records', Blobs \ {b})
    <3>1. \A x \in Blobs : records'[x].size \in Nat
      BY <1>2, <1>3, <1>4
    <3> QED
      BY <2>2, <3>1, TotalSplit
  <2>6. Total(records', {b}) = s
    BY <1>3, <1>4, TotalOne
  <2>7. Total(records', Blobs \ {b}) = Total(records, Blobs \ {b})
    BY <1>2, <1>4, <2>2, TotalSame
  <2>8. Total(records, Blobs \ {b}) \in Nat
    BY <1>2, <2>2, TotalNat
  <2>9. UsageExact'
    BY <1>3, <2>1, <2>3, <2>4, <2>5, <2>6, <2>7, <2>8, UsageIsTotal, UsageIsTotalNext DEF UsageInv
  <2>10. limits.storage = 0 \/ used' <= limits.storage
    BY <1>1, <1>7, <2>1 DEF WithinQuota
  <2> QED
    BY <1>5, <2>9, <2>10
<1> QED
  BY <1>6, <1>7

(* What a step may do to the counter.                                          *)
Quota == used' > used => limits.storage = 0 \/ used' <= limits.storage

(* Every step keeps the counter exact, and none but a staging raises it.       *)
LEMMA UsageStep ==
  ASSUME UsageInv, [Next]_vars
  PROVE  UsageInv' /\ Quota
<1>1. TypeOK'
  BY TypeStep DEF UsageInv
<1>2. used \in Nat
  BY UsageNat
<1>3. ASSUME used' = used,
             \A b \in Blobs : /\ records'[b].size = records[b].size
                              /\ records'[b].state = "none" => records[b].state = "none"
      PROVE  UsageInv' /\ Quota
  BY <1>1, <1>2, <1>3, SizesKept DEF UsageInv, AbsentIsEmpty, Quota
<1>4. ASSUME NEW B \in SUBSET Blobs, DeleteBlobRows(B)
      PROVE  UsageInv' /\ Quota
  <2>1. UsageExact' /\ AbsentIsEmpty' /\ used' \in Nat /\ used' <= used
    BY <1>4, RowsDeleted
  <2> QED
    BY <1>1, <1>2, <2>1 DEF UsageInv, Quota
<1>5. CASE UNCHANGED <<records, used>>
  BY <1>3, <1>5
<1>6. ASSUME NEW p \in Procs, StageBlob(p)
      PROVE  UsageInv' /\ Quota
  BY <1>1, <1>6, RowStaged DEF UsageInv, Quota
<1>7. ASSUME NEW p \in Procs, ApplyMutation(p)
      PROVE  UsageInv' /\ Quota
  <2> PICK c : c = sent[Head(task[p].batch)]
    OBVIOUS
  <2>1. records' = BlobRowsAfter(c) /\ used' = used
    BY <1>7 DEF ApplyMutation
  <2>2. ASSUME NEW b \in Blobs
        PROVE  /\ records'[b].size = records[b].size
               /\ records'[b].state = "none" => records[b].state = "none"
    <3>1. records[b] \in BlobRow /\ (records[b].state = "none" => records[b].size = 0)
      BY DEF UsageInv, TypeOK, AbsentIsEmpty
    <3>2. CASE records[b].state = "none"
      BY Zenon, <2>1, <3>1, <3>2 DEF BlobRowsAfter, NoRecord
    <3>3. CASE records[b].state # "none" /\ b = c.blob
      <4>1. records'[b] = [records[b] EXCEPT !.state = "live", !.deleteAfter = 0]
        BY Zenon, <2>1, <3>3 DEF BlobRowsAfter
      <4> QED
        BY <3>1, <3>3, <4>1 DEF BlobRow
    <3>4. CASE records[b].state # "none" /\ b # c.blob /\ Retires(c, b)
      <4>1. records'[b] = [records[b] EXCEPT !.state = "pending_delete", !.deleteAfter = now]
        BY Zenon, <2>1, <3>4 DEF BlobRowsAfter
      <4> QED
        BY <3>1, <3>4, <4>1 DEF BlobRow
    <3>5. CASE records[b].state # "none" /\ b # c.blob /\ ~Retires(c, b)
      BY Zenon, <2>1, <3>5 DEF BlobRowsAfter
    <3> QED
      BY <3>2, <3>3, <3>4, <3>5
  <2> QED
    BY <1>3, <2>1, <2>2
<1>8. ASSUME NEW p \in Procs, CollectPurgedBlobs(p)
      PROVE  UsageInv' /\ Quota
  <2>1. used' = used /\ (records' = records \/ records' = MarkUnpinned(task[p].blobs))
    BY <1>8 DEF CollectPurgedBlobs
  <2>2. ASSUME NEW b \in Blobs
        PROVE  /\ records'[b].size = records[b].size
               /\ records'[b].state = "none" => records[b].state = "none"
    <3>1. records[b] \in BlobRow
      BY DEF UsageInv, TypeOK
    <3>2. CASE /\ records' = MarkUnpinned(task[p].blobs)
               /\ b \in task[p].blobs /\ records[b].state \in {"live", "pending_delete"}
               /\ ~IsBlobPinned(b, now)
      <4> PICK r : r = records[b]
        OBVIOUS
      <4>1. r \in BlobRow
        BY <3>1
      <4>2. records'[b] = [r EXCEPT !.state = "pending_delete",
                                   !.deleteAfter = IF r.state = "live" \/ @ > now THEN now ELSE @]
        BY Zenon, <3>2 DEF MarkUnpinned
      <4>3. records'[b].size = r.size /\ records'[b].state = "pending_delete"
        BY <4>1, <4>2 DEF BlobRow
      <4> QED
        BY <4>3
    <3>3. CASE ~(/\ records' = MarkUnpinned(task[p].blobs)
                 /\ b \in task[p].blobs /\ records[b].state \in {"live", "pending_delete"}
                 /\ ~IsBlobPinned(b, now))
      BY Zenon, <2>1, <3>3 DEF MarkUnpinned
    <3> QED
      BY <3>2, <3>3
  <2> QED
    BY <1>3, <2>1, <2>2
<1>9. ASSUME NEW p \in Procs, DeleteRecords(p) \/ DeleteBlobRecord(p) \/ RepairBlob(p)
      PROVE  UsageInv' /\ Quota
  <2>1. task[p].blobs \subseteq Blobs
    BY DEF UsageInv, TypeOK, Task
  <2>2. CASE DeleteRecords(p)
    BY <1>4, <2>1, <2>2 DEF DeleteRecords
  <2>3. CASE DeleteBlobRecord(p)
    BY <1>4, <2>1, <2>3 DEF DeleteBlobRecord
  <2>4. CASE RepairBlob(p)
    <3>1. PICK b \in task[p].blobs : DeleteBlobRows({b}) \/ UNCHANGED <<records, used>>
      BY <2>4 DEF RepairBlob
    <3> QED
      BY <1>4, <1>5, <2>1, <3>1
  <2> QED
    BY <1>9, <2>2, <2>3, <2>4
<1>10. ASSUME NEW p \in Procs,
              \/ Upload(p) /\ ~StageBlob(p)
              \/ Commit(p) /\ ~ApplyMutation(p)
              \/ Collection(p) /\ ~DeleteRecords(p) /\ ~DeleteBlobRecord(p) /\ ~CollectPurgedBlobs(p)
              \/ Repair(p) /\ ~RepairBlob(p)
              \/ ObjectStoreFails(p)
       PROVE  UNCHANGED <<records, used>>
  <2>1. CASE Upload(p) /\ ~StageBlob(p)
    BY <2>1 DEF Upload, StageBlobPauses, PutObject, tables
  <2>2. CASE Commit(p) /\ ~ApplyMutation(p)
    BY Zenon, <2>2 DEF Commit, StartCommit, StartRestore, CheckBlob, BeginCommit, SkipMutation,
       FinishCommit, tables
  <2>3. CASE Collection(p) /\ ~DeleteRecords(p) /\ ~DeleteBlobRecord(p) /\ ~CollectPurgedBlobs(p)
    BY Zenon, <2>3 DEF Collection, RunGc, DeleteObjects, PurgeDeletedEntries, DeleteBlob,
       DeleteBlobObject, tables
  <2>4. CASE Repair(p) /\ ~RepairBlob(p)
    BY Zenon, <2>4 DEF Repair, RepairSyncState, RepairObject, FinishRepair, tables
  <2>5. CASE ObjectStoreFails(p)
    BY <2>5 DEF ObjectStoreFails, tables
  <2> QED
    BY <1>10, <2>1, <2>2, <2>3, <2>4, <2>5
<1>11. CASE (\E m \in Mutations : NewMutation(m)) \/ SetSyncPause \/ ApplyVaultPolicy \/ Crash \/ Tick \/ UNCHANGED vars
  BY <1>5, <1>11 DEF NewMutation, SetSyncPause, ApplyVaultPolicy, Crash, Tick, vars, tables
<1> QED
  BY <1>5, <1>6, <1>7, <1>8, <1>9, <1>10, <1>11 DEF Next, Upload, Commit, Collection, Repair

(* A stored vault starts with an exact counter.                                *)
LEMMA UsageInit == Init => UsageInv
BY TypeInit DEF Init, UsageInv, UsageExact, AbsentIsEmpty, NoRecord, StrandedRow

(* The invariant holds of every behaviour.                                     *)
LEMMA UsageAlways == Spec => []UsageInv
<1>1. UsageInv /\ [Next]_vars => UsageInv'
  BY UsageStep
<1> QED
  BY UsageInit, <1>1, PTL DEF Spec

(* The storage counter never drifts from the rows, across retried stages,      *)
(* repeated and partial deletions, repairs and crashes.                        *)
THEOREM UsageCounterExact == Spec => []UsageExact
<1>1. UsageInv => UsageExact
  BY DEF UsageInv
<1> QED
  BY UsageAlways, <1>1, PTL

(* No step takes the stored bytes over the limit in force.                     *)
THEOREM QuotaHolds == Spec => QuotaRespected
<1>1. UsageInv /\ [Next]_vars => [Quota]_vars
  BY UsageStep
<1>2. QuotaRespected <=> [][Quota]_vars
  BY DEF QuotaRespected, Quota
<1> QED
  BY UsageAlways, <1>1, PTL DEF Spec, QuotaRespected, Quota
=============================================================================

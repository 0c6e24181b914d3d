---------------------------- MODULE EntryRecord ----------------------------
(***************************************************************************)
(* entry-record.ts: the record the stores of both hosts keep of an entry,   *)
(* and how it changes.  A blob stands for its content: id and hash of a blob*)
(* are one.  The metadata of a mutation is sealed for the revision, the      *)
(* operation and the blob it is sent with, and opens with no others.         *)
(***************************************************************************)
EXTENDS Naturals

CONSTANTS
  Entries,   \* ids of entries
  Paths,     \* vault paths
  Blobs,     \* blobs
  None,
  Retry      \* what applyAcceptedPushToEntry() returns for a plan that is outdated

NoBase == [revision |-> 0, blob |-> None]
EmptyEntryRecord == [remote |-> None, base |-> NoBase, local |-> None, pending |-> None]

Seals(maxRevision) == [revision : 1..(maxRevision + 1), op : {"upsert", "delete"}, blob : Blobs \cup {None}]
Bases(maxRevision) == [revision : 0..maxRevision, blob : Blobs \cup {None}]
Remotes(maxRevision) ==
  [path : Paths \cup {None}, revision : 1..maxRevision, blob : Blobs \cup {None}, deleted : BOOLEAN]
Locals == [path : Paths, blob : Blobs, deleted : {FALSE}]
          \cup [path : {None}, blob : {None}, deleted : {TRUE}]

\* A mutation that waits to be pushed; blocked ones wait for another plan.
PendingMutations(maxMutations, maxRevision) ==
  [id : 1..maxMutations, op : {"upsert", "delete"}, path : Paths, blob : Blobs \cup {None},
   base : Bases(maxRevision), sealed : Seals(maxRevision), blocked : BOOLEAN]

EntryRecords(maxMutations, maxRevision) ==
  [remote : Remotes(maxRevision) \cup {None}, base : Bases(maxRevision),
   local : Locals \cup {None}, pending : PendingMutations(maxMutations, maxRevision) \cup {None}]

\* normalizeEntryRecord(): the keys of the unique indexes, None where there is none.
remotePathKey(row) == IF row.remote # None /\ ~row.remote.deleted THEN row.remote.path ELSE None
localPathKey(row) == IF row.local # None /\ ~row.local.deleted THEN row.local.path ELSE None

\* metadataContextFromMutation()
MetadataContext(op, blob, base) == [revision |-> base.revision + 1, op |-> op, blob |-> blob]

copyRemoteToBase(row) ==
  [row EXCEPT !.base = [revision |-> row.remote.revision, blob |-> row.remote.blob]]

\* Faulty variant: the base of the record is left to the next pull.
toDirtyEntryRecordKeepsBase(row, mutation) == [row EXCEPT !.pending = mutation]

toDirtyEntryRecord(row, mutation) == [row EXCEPT !.pending = mutation, !.base = mutation.base]

clearPendingMutation(row) == [row EXCEPT !.pending = None]

-----------------------------------------------------------------------------
(* A push was accepted: acc is the mutation that was sent and its revision.  *)

acceptedBase(acc) == [revision |-> acc.revision, blob |-> acc.blob]

\* A newer mutation of the entry is sealed again, for its new base.
planAcceptedPushApply(row, acc) ==
  IF \/ row.remote # None /\ row.remote.revision > acc.revision
     \/ row.pending = None
     \/ row.pending.id = acc.id
  THEN None
  ELSE [id |-> row.pending.id,
        sealed |-> MetadataContext(row.pending.op, row.pending.blob, acceptedBase(acc))]

\* Faulty variant: what is known of the server goes back to the answer.
NewerKnownIgnored(row, acc) == FALSE

\* A pull that ended while the answer was on its way knows more.
NewerKnown(row, acc) == row.remote # None /\ row.remote.revision > acc.revision

\* What the vault holds is what was sent, or not known.
shouldApplyAcceptedPushToLocal(row, acc) ==
  row.local = None \/ (row.local.blob = acc.blob /\ row.local.path = acc.path)

AcceptedState(row, acc) ==
  LET remote == [path |-> acc.path, revision |-> acc.revision,
                 blob |-> acc.blob, deleted |-> acc.op = "delete"]
      local == IF acc.op = "upsert" /\ shouldApplyAcceptedPushToLocal(row, acc)
               THEN [path |-> acc.path, blob |-> acc.blob, deleted |-> FALSE] ELSE row.local
  IN  [row EXCEPT !.remote = remote, !.local = local]

\* Faulty variant: a mutation of the same content is taken for the one that was sent.
AnswersContent(row, acc) == row.pending.blob = acc.blob

\* The mutation that is pending is the one that was sent.
Answers(row, acc) == row.pending.id = acc.id

\* Faulty variant: any plan will do.
OutdatedNever(row, plan) == plan = None

\* The plan was made for another mutation than the one that is pending now.
Outdated(row, plan) == plan = None \/ plan.id # row.pending.id

applyAcceptedPushToEntry(row, acc, plan) ==
  IF NewerKnown(row, acc) THEN row
  ELSE LET updated == AcceptedState(row, acc)
       IN  IF row.pending = None THEN copyRemoteToBase(updated)
           ELSE IF Answers(row, acc) THEN copyRemoteToBase(clearPendingMutation(updated))
           ELSE IF Outdated(row, plan) THEN Retry
           ELSE toDirtyEntryRecord(updated, [row.pending EXCEPT !.base = acceptedBase(acc),
                                                                !.sealed = plan.sealed])
=============================================================================

-------------------------- MODULE MCCursorCheckpoint --------------------------
(***************************************************************************)
(* What a client keeps of the vault: the checkpoint it pulls and pushes by, *)
(* and the local store with its records of the entries.  They share no      *)
(* state in the models, so that each is checked while the others stand      *)
(* still.                                                                   *)
(***************************************************************************)
EXTENDS CursorCheckpoint, TLC

CONSTANTS Third, f1, f2, note, image, b1, b2, None, Retry

VARIABLES
  part,     \* which of them runs
  rows, cached, pushed, acked, ack, mutations, restores, outcome, calls, progress,
  rows1, cached1, pushed1, acked1, ack1, mutations1, restores1, outcome1

store == <<rows, cached, pushed, acked, ack, mutations, restores, outcome>>
dexie == <<calls, progress>>
answered == <<rows1, cached1, pushed1, acked1, ack1, mutations1, restores1, outcome1>>

\* Two files of one content, which get in each other's way: with calls that
\* happen at once, and as the plugin's store splits them.
Files == {f1, f2}
Store == INSTANCE LocalStore
  WITH Entries <- Files, Paths <- {note, image}, TextPaths <- {note}, Blobs <- {b1},
       log <- pushed, Trades <- TRUE, CrossRenames <- FALSE, MaxRetries <- 2,
       MaxRevision <- 1, MaxMutations <- 2, MaxRestores <- 1
Dexie == INSTANCE DexieStore
  WITH Entries <- Files, Paths <- {note, image}, TextPaths <- {note}, Blobs <- {b1},
       log <- pushed, Trades <- TRUE, CrossRenames <- FALSE, MaxRetries <- 2,
       MaxRevision <- 1, MaxMutations <- 1, MaxRestores <- 1

\* One file of two contents, edited while its pushes are answered.
Contents == {b1, b2}
Answers == INSTANCE LocalStore
  WITH Entries <- {f1}, Paths <- {note, image}, TextPaths <- {note}, Blobs <- Contents,
       rows <- rows1, cached <- cached1, log <- pushed1, acked <- acked1, ack <- ack1,
       mutations <- mutations1, restores <- restores1, outcome <- outcome1,
       Trades <- TRUE, CrossRenames <- FALSE, MaxRetries <- 2,
       MaxRevision <- 2, MaxMutations <- 3, MaxRestores <- 0

ASSUME Store!StoreAssumption /\ Answers!StoreAssumption

MCInit ==
  /\ part \in {"checkpoint", "store", "dexie", "answers"}
  /\ Init /\ Dexie!DexieInit /\ Answers!Init

\* Of the three mutations the third is only made while nobody pulls beside the drain.
Alone == Third \in made' => \A d \in Devices, w \in Pullers : pull'[d][w].pc # "idle" => w = Drain

MCNext ==
  \/ part = "checkpoint" /\ Next /\ Alone /\ UNCHANGED <<part, store, dexie, answered>>
  \/ part = "store" /\ Store!Next /\ UNCHANGED <<part, vars, dexie, answered>>
  \/ part = "dexie" /\ Dexie!DexieNext /\ UNCHANGED <<part, vars, answered>>
  \/ part = "answers" /\ Answers!Next /\ UNCHANGED <<part, vars, store, dexie>>

MCSpec == MCInit /\ [][MCNext]_<<part, vars, store, dexie, answered>>

\* Mutations are told apart only by what happens to them.
Symmetry == Permutations(Mutations \ {Third})

-----------------------------------------------------------------------------
(* The properties of the stores, under their names there.                   *)

\* The stores keep to their types.
RecordsOK == (part = "store" => Store!TypeOK) /\ (part = "dexie" => Dexie!DexieTypeOK)
\* A file renamed offline is recorded under its entry.
RenamesRecorded == Store!RenamesRecorded
\* A pending mutation is never lost to a call for another entry.
OthersPendingKept == Store!OthersPendingKept
\* The record of a pending mutation keeps the base it was made from.
BaseOfPending == Answers!BaseOfPending
\* The metadata of a pending mutation is sealed for what it is pushed as.
MetadataOpens == Answers!MetadataOpens
\* What is known of the server never goes back because of a late answer.
RemoteForward == Answers!RemoteForward
\* An edit made while another was pushed survives the answer.
NewerEditKept == Answers!NewerEditKept
\* The counters are what counting anew would give.
ProgressExact == part = "dexie" => Dexie!ProgressExact
\* The plugin's store does what the atomic store does.
Implements == Store!Init /\ [][part = "dexie" => Store!Next]_store

\* At every moment the records of both stores agree with what they were made from:
\* a pending mutation with its base and its sealed metadata, the counters with the
\* entries, a renamed file with its entry (putEntry, applyAcceptedPushToEntry).
StoresAgree == RecordsOK /\ BaseOfPending /\ MetadataOpens /\ RenamesRecorded /\ ProgressExact

\* No call of the stores undoes another: edits survive late answers and calls for
\* other entries, what is known of the server only moves forward, and reading and
\* writing in two transactions (DexieSyncStore) is not seen.
StoresKeepEdits == OthersPendingKept /\ RemoteForward /\ NewerEditKept /\ Implements
=============================================================================

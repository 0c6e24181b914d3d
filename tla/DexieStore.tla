----------------------------- MODULE DexieStore -----------------------------
(***************************************************************************)
(* The store of the Obsidian plugin.  IndexedDB is asynchronous: a call for  *)
(* one entry reads the record, and writes what it made of it in a later      *)
(* transaction.  The callers hold the keys of the entry meanwhile            *)
(* (withSyncState()).  Beside the entries the store keeps two counters for   *)
(* the progress shown to the user, which each transaction moves on by what   *)
(* it changed.                                                               *)
(***************************************************************************)
EXTENDS LocalStore

VARIABLES
  calls,     \* [Entries -> call and the record it has read, or None]
  progress   \* entries that are counted, and those of them that are synced

dexieVars == <<vars, calls, progress>>

DexieTypeOK ==
  /\ TypeOK
  /\ \A e \in Entries : calls[e] # None => calls[e].row \in EntryRecords(MaxMutations, MaxRevision)
  /\ progress \in [completed : 0..Cardinality(Entries), total : 0..Cardinality(Entries)]

DexieInit ==
  /\ Init
  /\ calls = [e \in Entries |-> None]
  /\ progress = [completed |-> 0, total |-> 0]

-----------------------------------------------------------------------------

deleted(row) ==
  IF row.local # None THEN row.local.deleted ELSE row.remote = None \/ row.remote.deleted

\* Faulty variant: an entry that is deleted counts until the server has forgotten it, too.
countedUntilForgotten(row) == row # None

\* classifyProgressEntry()
counted(row) == row # None /\ (row.pending # None \/ ~deleted(row))

completed(row) == counted(row) /\ row.remote # None /\ row.pending = None

\* calculateProgressSnapshot()
ProgressOf(to) ==
  [completed |-> Cardinality({e \in Entries : completed(to[e])}),
   total |-> Cardinality({e \in Entries : counted(to[e])})]

\* Faulty variant: what a transaction deletes is left in the counters.
ChangedEntriesKept == {e \in Entries : rows'[e] # None /\ rows'[e] # rows[e]}

ChangedEntries == {e \in Entries : rows'[e] # rows[e]}

\* getProgressDelta() of each record that is put or deleted.
applyProgressDelta ==
  LET delta(is(_)) == Cardinality({e \in ChangedEntries : is(rows'[e])})
                      - Cardinality({e \in ChangedEntries : is(rows[e])})
  IN  progress' = [completed |-> progress.completed + delta(completed),
                   total |-> progress.total + delta(counted)]

-----------------------------------------------------------------------------

\* Faulty variant: the keys of an entry are not held while a call is under way.
FreeAlways(S) == TRUE

\* withSyncState()
Free(S) == \A e \in S : calls[e] = None

\* The path whose key a call holds, if it is about one.
PathOf(call) ==
  CASE "state" \in DOMAIN call -> call.state.path
    [] "local" \in DOMAIN call -> call.local.path
    [] "mutation" \in DOMAIN call -> call.mutation.path
    [] OTHER -> None

\* Nobody takes a path whose key another call holds.
PathsFree ==
  \A e \in {x \in Entries : calls[x] # None} : \A f \in Entries \ {e}, p \in Paths :
    PathOf(calls[e].call) = p /\ ~HasFile(f, p) => ~HasFile(f, p)'

\* Restores that are under way count for the bound.
WithinBound(call) ==
  IsRestore(call) =>
    restores + Cardinality({e \in Entries : calls[e] # None /\ IsRestore(calls[e].call)}) < MaxRestores

getOrCreateEntryRecord(e) ==
  /\ Free({e})
  /\ \E call \in Calls(e) :
       /\ WithinBound(call)
       /\ \A f \in Entries : calls[f] # None /\ PathOf(call) # None => PathOf(calls[f].call) # PathOf(call)
       /\ calls' = [calls EXCEPT ![e] = [call |-> call, row |-> Known(e)]]
  /\ UNCHANGED <<vars, progress>>

putEntry(e) ==
  /\ calls[e] # None
  /\ PutEntry(e, Changed(calls[e].call, calls[e].row))
  /\ applyProgressDelta
  /\ restores' = IF IsRestore(calls[e].call) THEN restores + 1 ELSE restores
  /\ calls' = [calls EXCEPT ![e] = None]
  /\ UNCHANGED <<cached, log, acked, ack, mutations>>

\* The other calls are one transaction here, too.
transaction(S, operation) ==
  Free(S) /\ operation /\ PathsFree /\ applyProgressDelta /\ UNCHANGED calls

DexieNext ==
  \/ \E e \in Entries : \/ getOrCreateEntryRecord(e) \/ putEntry(e)
                        \/ transaction({e}, rebase(e))
                        \/ transaction({}, otherDevice(e) \/ putBlob(e) \/ push(e))
  \/ \E S \in SUBSET Entries \ {{}} : transaction(S, record(S))
  \/ \E batch \in Batches : transaction({}, applyAcceptedPushBatch(batch))
  \/ transaction({}, lost \/ planBatch)
  \/ ack # None /\ transaction(InBatch, applyBatch)

DexieSpec == DexieInit /\ [][DexieNext]_dexieVars

-----------------------------------------------------------------------------

\* The counters are what counting the entries anew would give, whatever was put,
\* refused or deleted meanwhile.
ProgressExact == progress = ProgressOf(rows)

\* Reading and writing in two transactions is not seen: each call happens at once,
\* when its record is put, because nobody else has changed it since it was read.
Implements == Spec
=============================================================================

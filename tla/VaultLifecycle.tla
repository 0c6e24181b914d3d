--------------------------- MODULE VaultLifecycle ---------------------------
(***************************************************************************)
(* The life of an organization's remote vaults in the control database:     *)
(* creation within the plan's quota, deletion by a manager, deletion of     *)
(* inactive vaults of a free plan by the scheduled retention run, and the   *)
(* purge that follows, which empties the vault's coordinator and then drops *)
(* its row.  In the hosted edition a deletion puts a message on a queue     *)
(* that delivers at least once and gives up after MaxRetries; in the        *)
(* community edition (Inline) the request purges by itself.                 *)
(*                                                                          *)
(* A vault that was "changed" had a content commit within the inactivity    *)
(* period; "reported" says that the control database knows it.              *)
(***************************************************************************)
EXTENDS Integers, Sequences, FiniteSets, Bags, SequencesExt, FiniteSetsExt, Functions

CONSTANTS Vaults,     \* vault identifiers, integers: a scan pages in their order
          Names,      \* names a vault may have
          Existing,   \* vaults there are at first
          Creators,   \* requests that create a vault
          Deleters,   \* requests that delete a vault
          Consumers,  \* purge consumers at work at a time
          Scans,      \* {"scan"} where retention is scheduled, else {}
          Inline,     \* community edition: no queue
          FreeLimit,  \* synced vaults of the free plan
          PaidLimit,  \* synced vaults of a paid plan
          PageSize,   \* candidates a scan reads at a time
          MaxRetries, \* deliveries of a message after the first
          MaxFaults,  \* bound on failed calls and redelivered messages
          MaxChanges  \* bound on plan changes, commits, sharings

LifecycleAssumption ==
  /\ Vaults \subseteq Nat /\ Existing \subseteq Vaults
  /\ FreeLimit \in Nat \ {0} /\ PaidLimit \in Nat \ {0}
  /\ PageSize \in Nat \ {0} /\ MaxRetries \in Nat
  /\ Inline \in BOOLEAN

VARIABLES row,      \* vault -> "none", "live", "deleted" (deletedAt set) or "gone"
          status,   \* vault -> purgeStatus
          name,     \* vault -> its name
          shared,   \* vaults with sharedAt set
          content,  \* vault -> the coordinator's: "whole", "damaged" or "purged"
          changed,  \* vaults with a recent commit
          reported, \* those the control database knows of
          free,     \* the organization is on the free plan
          creator,  \* creator -> its request
          deleter,  \* deleter -> its request
          scan,     \* the retention run
          queue,    \* bag of purge messages waiting
          purge,    \* consumer or deleter -> the purge it runs
          noticed,  \* vaults whose owner was told of their deletion
          contended, \* vaults a deletion went on with that had not claimed them
          sent,     \* vault -> purge messages queued since it was last live
          bound

control == <<row, status, name, shared, reported, free>>
world == <<content, changed, noticed, contended>>
vars == <<control, world, creator, deleter, scan, queue, purge, sent, bound>>

Runners == Consumers \cup Deleters
NoVault == -1
NoName == "no name"
NoCreate == [at |-> "idle", name |-> NoName, limit |-> 0]
NoDelete == [at |-> "idle", vault |-> NoVault]
NoScan == [at |-> "idle", after |-> NoVault, page |-> <<>>, full |-> FALSE,
           cached |-> "unread"]
NoPurge == [at |-> "idle", vault |-> NoVault, reason |-> "manual", tries |-> 0]

Live == {v \in Vaults : row[v] = "live"}
Messages == [vault : Vaults, reason : {"manual", "inactivity"}, tries : 0..MaxRetries]
PurgeStatus == {"null", "queued", "running", "failed"}

TypeOK ==
  /\ row \in [Vaults -> {"none", "live", "deleted", "gone"}]
  /\ status \in [Vaults -> PurgeStatus]
  /\ name \in [Vaults -> Names \cup {NoName}]
  /\ shared \cup noticed \cup contended \subseteq Vaults
  /\ content \in [Vaults -> {"whole", "damaged", "purged"}]
  /\ changed \subseteq Vaults /\ reported \subseteq changed
  /\ free \in BOOLEAN
  /\ \A c \in Creators : creator[c].at \in {"idle", "count", "name", "insert"}
  /\ \A d \in Deleters : deleter[d].at \in {"idle", "mark", "enqueue", "purging", "restore"}
  /\ scan.at \in {"idle", "list", "next", "claim", "enqueue", "restore"}
  /\ BagToSet(queue) \subseteq Messages
  /\ \A r \in Runners : purge[r].at \in {"idle", "run", "wipe", "drop", "fail", "notify", "retry"}
  /\ sent \in [Vaults -> Nat]

Init ==
  /\ row = [v \in Vaults |-> IF v \in Existing THEN "live" ELSE "none"]
  /\ status = [v \in Vaults |-> "null"]
  /\ name = LET given == CHOOSE f \in [Existing -> Names] : IsInjective(f)
            IN [v \in Vaults |-> IF v \in Existing THEN given[v] ELSE NoName]
  /\ content = [v \in Vaults |-> "whole"]
  /\ shared = {} /\ changed \in SUBSET Existing /\ reported = changed
  /\ free \in IF Cardinality(Existing) <= FreeLimit THEN BOOLEAN ELSE {FALSE}
  /\ creator = [c \in Creators |-> NoCreate]
  /\ deleter = [d \in Deleters |-> NoDelete]
  /\ scan = NoScan
  /\ queue = EmptyBag
  /\ purge = [r \in Runners |-> NoPurge]
  /\ noticed = {} /\ contended = {} /\ sent = [v \in Vaults |-> 0]
  /\ bound = [faults |-> 0, changes |-> 0]

Fault == /\ bound.faults < MaxFaults
         /\ bound' = [bound EXCEPT !.faults = @ + 1]
Change == /\ bound.changes < MaxChanges
          /\ bound' = [bound EXCEPT !.changes = @ + 1]

-----------------------------------------------------------------------------
(* Creation: three reads, then one conditional insert.                      *)

Limit == IF free THEN FreeLimit ELSE PaidLimit
NameTaken(n, others) == \E v \in others : row[v] = "live" /\ name[v] = n

ReadPolicy(c) ==
  /\ creator[c].at = "idle"
  /\ \E n \in Names : creator' = [creator EXCEPT ![c] = [at |-> "count", name |-> n, limit |-> Limit]]
  /\ UNCHANGED <<control, world, deleter, scan, queue, purge, sent, bound>>

CountVaults(c) ==
  /\ creator[c].at = "count"
  /\ creator' = [creator EXCEPT ![c] =
       IF Cardinality(Live) >= @.limit THEN NoCreate ELSE [@ EXCEPT !.at = "name"]]
  /\ UNCHANGED <<control, world, deleter, scan, queue, purge, sent, bound>>

CheckName(c) ==
  /\ creator[c].at = "name"
  /\ creator' = [creator EXCEPT ![c] =
       IF NameTaken(@.name, Vaults) THEN NoCreate ELSE [@ EXCEPT !.at = "insert"]]
  /\ UNCHANGED <<control, world, deleter, scan, queue, purge, sent, bound>>

\* Faulty variant: the insert relies on the count read before.
InsertUnguarded(c) == ~NameTaken(creator[c].name, Vaults)

\* Faulty variant: no unique index over the names of live vaults.
InsertDuplicate(c) == Cardinality(Live) < creator[c].limit

\* The insert's own quota condition and the unique index on the names of
\* vaults that are not deleted.
InsertAllowed(c) ==
  /\ Cardinality(Live) < creator[c].limit
  /\ ~NameTaken(creator[c].name, Vaults)

CreateVault(c) ==
  /\ creator[c].at = "insert"
  /\ creator' = [creator EXCEPT ![c] = NoCreate]
  /\ IF InsertAllowed(c)
       THEN \E v \in Vaults :
              /\ row[v] = "none"
              /\ row' = [row EXCEPT ![v] = "live"]
              /\ name' = [name EXCEPT ![v] = creator[c].name]
              /\ UNCHANGED <<status, shared, reported, free>>
       ELSE UNCHANGED control
  /\ UNCHANGED <<world, deleter, scan, queue, purge, sent, bound>>

-----------------------------------------------------------------------------
(* The rows' transitions.                                                   *)

\* Faulty variant: the claim shows a queued purge but leaves the vault live.
MarkedQueuedOnly(v) ==
  /\ status' = [status EXCEPT ![v] = IF row[v] = "live" THEN "queued" ELSE @]
  /\ sent' = [sent EXCEPT ![v] = IF row[v] = "live" THEN 0 ELSE @]
  /\ UNCHANGED <<row, name, shared, reported, free>>

\* The update that claims a deletion: it does nothing to a vault already
\* deleted.
markVaultDeletionQueued(v) ==
  /\ row' = [row EXCEPT ![v] = IF @ = "live" THEN "deleted" ELSE @]
  /\ status' = [status EXCEPT ![v] = IF row[v] = "live" THEN "queued" ELSE @]
  /\ sent' = [sent EXCEPT ![v] = IF row[v] = "live" THEN 0 ELSE @]
  /\ UNCHANGED <<name, shared, reported, free>>

\* Faulty variant: the restored vault may have the name of another.
RestoredAnyName(v) ==
  IF row[v] \in {"live", "deleted"}
    THEN /\ row' = [row EXCEPT ![v] = "live"]
         /\ status' = [status EXCEPT ![v] = "failed"]
         /\ UNCHANGED <<name, shared, reported, free>>
    ELSE UNCHANGED control

\* A failed enqueue makes the vault live again, unless a vault created since
\* has taken its name: the unique index then refuses the update.
markVaultDeletionQueueFailed(v) ==
  IF row[v] \in {"live", "deleted"} /\ ~NameTaken(name[v], Vaults \ {v})
    THEN /\ row' = [row EXCEPT ![v] = "live"]
         /\ status' = [status EXCEPT ![v] = "failed"]
         /\ UNCHANGED <<name, shared, reported, free>>
    ELSE UNCHANGED control

\* The status of a purge is shown only on a deleted vault.
MarkPurge(v, s) ==
  /\ status' = [status EXCEPT ![v] = IF row[v] = "deleted" THEN s ELSE @]
  /\ UNCHANGED <<row, name, shared, reported, free>>

-----------------------------------------------------------------------------
(* Deletion by a manager.                                                   *)

AskDelete(d) ==
  /\ deleter[d].at = "idle"
  /\ \E v \in Live : deleter' = [deleter EXCEPT ![d] = [at |-> "mark", vault |-> v]]
  /\ UNCHANGED <<control, world, creator, scan, queue, purge, sent, bound>>

\* Whether the update claimed the vault is not looked at.
MarkDelete(d) ==
  /\ deleter[d].at = "mark"
  /\ markVaultDeletionQueued(deleter[d].vault)
  /\ contended' = IF row[deleter[d].vault] = "live" THEN contended ELSE contended \cup {deleter[d].vault}
  /\ deleter' = [deleter EXCEPT ![d].at = IF Inline THEN "purging" ELSE "enqueue"]
  /\ purge' = IF Inline THEN [purge EXCEPT ![d] = [NoPurge EXCEPT !.at = "run", !.vault = deleter[d].vault]]
                        ELSE purge
  /\ UNCHANGED <<content, changed, noticed, creator, scan, queue, bound>>

Send(v, reason) ==
  /\ queue' = queue (+) SetToBag({[vault |-> v, reason |-> reason, tries |-> 0]})
  /\ sent' = [sent EXCEPT ![v] = @ + 1]

EnqueueDelete(d) ==
  /\ deleter[d].at = "enqueue"
  /\ \/ /\ Send(deleter[d].vault, "manual")
        /\ deleter' = [deleter EXCEPT ![d] = NoDelete]
        /\ UNCHANGED bound
     \/ /\ Fault
        /\ deleter' = [deleter EXCEPT ![d].at = "restore"]
        /\ UNCHANGED <<queue, sent>>
  /\ UNCHANGED <<control, world, creator, scan, purge>>

RestoreDelete(d) ==
  /\ deleter[d].at = "restore"
  /\ markVaultDeletionQueueFailed(deleter[d].vault)
  /\ deleter' = [deleter EXCEPT ![d] = NoDelete]
  /\ UNCHANGED <<world, creator, scan, queue, purge, sent, bound>>

-----------------------------------------------------------------------------
(* The scheduled retention run.                                             *)

\* Faulty variant: shared vaults are listed with the others.
CandidatesShared ==
  SetToSortSeq({v \in Live \ reported : v > scan.after}, <)

Candidates == SetToSortSeq({v \in Live \ (shared \cup reported) : v > scan.after}, <)

Page == SubSeq(Candidates, 1, Min({PageSize, Len(Candidates)}))

StartScan ==
  /\ Scans # {} /\ scan.at = "idle"
  /\ scan' = [NoScan EXCEPT !.at = "list"]
  /\ UNCHANGED <<control, world, creator, deleter, queue, purge, sent, bound>>

ListCandidates ==
  /\ scan.at = "list"
  /\ scan' = IF Page = <<>> THEN NoScan
             ELSE [scan EXCEPT !.at = "next", !.page = Page, !.after = Last(Page),
                               !.full = Len(Page) = PageSize]
  /\ UNCHANGED <<control, world, creator, deleter, queue, purge, sent, bound>>

\* Faulty variant: the next page starts from the first vault again.
AfterPageAgain == IF scan.full THEN [scan EXCEPT !.at = "list", !.after = NoVault] ELSE NoScan

\* A page that was not full was the last.
AfterPage == IF scan.full THEN [scan EXCEPT !.at = "list"] ELSE NoScan

EndPage ==
  /\ scan.at = "next" /\ scan.page = <<>>
  /\ scan' = AfterPage
  /\ UNCHANGED <<control, world, creator, deleter, queue, purge, sent, bound>>

\* The plan is read once in a run, for the organization's first candidate.
NextCandidate ==
  /\ scan.at = "next" /\ scan.page # <<>>
  /\ LET plan == IF scan.cached # "unread" THEN scan.cached ELSE IF free THEN "free" ELSE "paid"
     IN scan' = IF plan = "free" THEN [scan EXCEPT !.at = "claim", !.cached = plan]
                ELSE [scan EXCEPT !.page = Tail(@), !.cached = plan]
  /\ UNCHANGED <<control, world, creator, deleter, queue, purge, sent, bound>>

ClaimInactive ==
  /\ scan.at = "claim"
  /\ LET v == Head(scan.page)
     IN /\ scan' = IF row[v] = "live" THEN [scan EXCEPT !.at = "enqueue"]
                   ELSE [scan EXCEPT !.at = "next", !.page = Tail(@)]
        /\ markVaultDeletionQueued(v)
  /\ UNCHANGED <<world, creator, deleter, queue, purge, bound>>

EnqueueInactive ==
  /\ scan.at = "enqueue"
  /\ \/ /\ Send(Head(scan.page), "inactivity")
        /\ scan' = [scan EXCEPT !.at = "next", !.page = Tail(@)]
        /\ UNCHANGED bound
     \/ /\ Fault
        /\ scan' = [scan EXCEPT !.at = "restore"]
        /\ UNCHANGED <<queue, sent>>
  /\ UNCHANGED <<control, world, creator, deleter, purge>>

\* The error ends the run, the rest of the page unseen.
RestoreInactive ==
  /\ scan.at = "restore"
  /\ markVaultDeletionQueueFailed(Head(scan.page))
  /\ scan' = NoScan
  /\ UNCHANGED <<world, creator, deleter, queue, purge, sent, bound>>

-----------------------------------------------------------------------------
(* The purge.                                                               *)

Receive(r) ==
  /\ r \in Consumers /\ purge[r].at = "idle"
  /\ \E m \in BagToSet(queue) :
       /\ queue' = queue (-) SetToBag({m})
       /\ purge' = [purge EXCEPT ![r] = [at |-> "run", vault |-> m.vault, reason |-> m.reason, tries |-> m.tries]]
  /\ UNCHANGED <<control, world, creator, deleter, scan, sent, bound>>

\* markVaultPurgeRunning stands outside the try: its failure marks nothing.
RunPurge(r) ==
  /\ purge[r].at = "run"
  /\ \/ /\ MarkPurge(purge[r].vault, "running")
        /\ purge' = [purge EXCEPT ![r].at = "wipe"]
        /\ UNCHANGED bound
     \/ /\ Fault
        /\ purge' = [purge EXCEPT ![r].at = "retry"]
        /\ UNCHANGED control
  /\ UNCHANGED <<world, creator, deleter, scan, queue, sent>>

\* Faulty variant: an error of the coordinator is not noticed.
AfterFailedWipeDrops == "drop"

AfterFailedWipe == "fail"

\* The coordinator deletes the blobs, then its state; it may fail on the way,
\* or its answer may be lost.
WipeCoordinator(r) ==
  /\ purge[r].at = "wipe"
  /\ LET v == purge[r].vault
     IN \/ /\ content' = [content EXCEPT ![v] = "purged"]
           /\ purge' = [purge EXCEPT ![r].at = "drop"]
           /\ UNCHANGED bound
        \/ /\ Fault
           /\ \E left \in {content[v], "damaged", "purged"} :
                /\ content[v] = "purged" => left = "purged"
                /\ content' = [content EXCEPT ![v] = left]
           /\ purge' = [purge EXCEPT ![r].at = AfterFailedWipe]
  /\ UNCHANGED <<control, changed, noticed, contended, creator, deleter, scan, queue, sent>>

DropRow(r) ==
  /\ purge[r].at = "drop"
  /\ \/ /\ row' = [row EXCEPT ![purge[r].vault] = "gone"]
        /\ purge' = [purge EXCEPT ![r].at = "notify"]
        /\ UNCHANGED bound
     \/ /\ Fault
        /\ purge' = [purge EXCEPT ![r].at = "fail"]
        /\ UNCHANGED row
  /\ UNCHANGED <<status, name, shared, reported, free, world, creator, deleter, scan, queue, sent>>

FailPurge(r) ==
  /\ purge[r].at = "fail"
  /\ MarkPurge(purge[r].vault, "failed")
  /\ purge' = [purge EXCEPT ![r].at = "retry"]
  /\ UNCHANGED <<world, creator, deleter, scan, queue, sent, bound>>

\* A request that purged by itself is answered.
AnswerDelete(d) ==
  /\ d \in Deleters /\ purge[d].at \in {"notify", "retry"}
  /\ purge' = [purge EXCEPT ![d] = NoPurge]
  /\ deleter' = [deleter EXCEPT ![d] = IF purge[d].at = "retry" THEN [@ EXCEPT !.at = "restore"] ELSE NoDelete]
  /\ UNCHANGED <<control, world, creator, scan, queue, sent, bound>>

\* Faulty variant: a message whose purge failed is acknowledged.
AckedAnyway(r) == queue

\* Faulty variant: a message is retried without end.
ReturnedAlways(r) ==
  queue (+) SetToBag({[vault |-> purge[r].vault, reason |-> purge[r].reason, tries |-> purge[r].tries + 1]})

\* A message to be retried is delivered again, up to MaxRetries times.
Returned(r) ==
  IF purge[r].tries < MaxRetries
    THEN queue (+) SetToBag({[vault |-> purge[r].vault, reason |-> purge[r].reason,
                              tries |-> purge[r].tries + 1]})
    ELSE queue

\* The owner is told of an inactivity deletion, then the message is
\* acknowledged.  The notice or the acknowledgement may fail.
Acknowledge(r) ==
  /\ r \in Consumers /\ purge[r].at = "notify"
  /\ \/ /\ noticed' = IF purge[r].reason = "inactivity" THEN noticed \cup {purge[r].vault} ELSE noticed
        /\ UNCHANGED <<queue, bound>>
     \/ /\ Fault
        /\ queue' = Returned(r)
        /\ UNCHANGED noticed
  /\ purge' = [purge EXCEPT ![r] = NoPurge]
  /\ UNCHANGED <<control, content, changed, contended, creator, deleter, scan, sent>>

Retry(r) ==
  /\ r \in Consumers /\ purge[r].at = "retry"
  /\ queue' = Returned(r)
  /\ purge' = [purge EXCEPT ![r] = NoPurge]
  /\ UNCHANGED <<control, world, creator, deleter, scan, sent, bound>>

\* A consumer that stops keeps its message unacknowledged.
CrashConsumer(r) ==
  /\ r \in Consumers /\ purge[r].at \in {"run", "wipe", "drop", "fail", "notify"}
  /\ Fault
  /\ queue' = Returned(r)
  /\ purge' = [purge EXCEPT ![r] = NoPurge]
  /\ UNCHANGED <<control, world, creator, deleter, scan, sent>>

-----------------------------------------------------------------------------
(* What happens around it.                                                  *)

Commit(v) ==
  /\ row[v] = "live" /\ content[v] = "whole" /\ v \notin changed /\ Change
  /\ changed' = changed \cup {v}
  /\ UNCHANGED <<control, content, noticed, contended, creator, deleter, scan, queue, purge, sent>>

\* The coordinator's health summary carries its last commit.
FlushSummary(v) ==
  /\ v \in changed \ reported /\ row[v] \in {"live", "deleted"} /\ content[v] = "whole"
  /\ reported' = reported \cup {v}
  /\ UNCHANGED <<row, status, name, shared, free, world, creator, deleter, scan, queue, purge, sent, bound>>

Share ==
  /\ Change /\ shared' = shared \cup Live
  /\ UNCHANGED <<row, status, name, reported, free, world, creator, deleter, scan, queue, purge, sent>>

ChangePlan ==
  /\ Change /\ free' = ~free
  /\ UNCHANGED <<row, status, name, shared, reported, world, creator, deleter, scan, queue, purge, sent>>

CreateStep(c) == ReadPolicy(c) \/ CountVaults(c) \/ CheckName(c) \/ CreateVault(c)
DeleteStep(d) == MarkDelete(d) \/ EnqueueDelete(d) \/ RestoreDelete(d) \/ AnswerDelete(d)
ScanStep == \/ StartScan \/ ListCandidates \/ EndPage \/ NextCandidate
            \/ ClaimInactive \/ EnqueueInactive \/ RestoreInactive
PurgeStep(r) == \/ Receive(r) \/ RunPurge(r) \/ WipeCoordinator(r) \/ DropRow(r)
                \/ FailPurge(r) \/ Acknowledge(r) \/ Retry(r)

Next ==
  \/ \E c \in Creators : CreateStep(c)
  \/ \E d \in Deleters : AskDelete(d) \/ DeleteStep(d)
  \/ ScanStep
  \/ \E r \in Runners : PurgeStep(r) \/ CrashConsumer(r)
  \/ \E v \in Vaults : Commit(v) \/ FlushSummary(v)
  \/ Share \/ ChangePlan

Spec == Init /\ [][Next]_vars

\* Requests and runs go on, the schedule comes round and the queue delivers.
FairSpec ==
  /\ Spec
  /\ \A d \in Deleters : WF_vars(DeleteStep(d))
  /\ WF_vars(ScanStep)
  /\ \A r \in Runners : WF_vars(PurgeStep(r))

-----------------------------------------------------------------------------
(* Properties.                                                              *)

\* Requests that create vaults at the same time never bring an organization
\* above the number of vaults the plan they read allows.
CreatesWithinQuota ==
  \A c \in Creators :
    creator[c].at = "insert" /\ creator'[c].at = "idle" /\ Cardinality(Live') > Cardinality(Live)
      => Cardinality(Live') <= creator[c].limit
CreatedWithinQuota == [][CreatesWithinQuota]_vars

\* No two live vaults of an organization have the same name, whichever way
\* they came to be live: created at the same time, or restored.
LiveNamesDistinct ==
  \A v, w \in Live : name[v] = name[w] => v = w

\* A vault that is shown as live has all its content: no purge has touched it,
\* however deletions, redelivered messages and failures meet, as long as every
\* deletion of it had the claim.
LiveVaultIntact == \A v \in Live \ contended : content[v] = "whole"

\* The same of every vault.  It does not hold: of two deletions that overlap, one
\* fails to queue its message and makes the vault live, and the message of the
\* other empties it.
NoLiveVaultPurged == \A v \in Live : content[v] = "whole"

\* A vault's row goes only after its coordinator was emptied, so that no
\* stored content is left that no row leads to.
RowOutlivesContent == \A v \in Vaults : row[v] = "gone" => content[v] = "purged"

\* An owner is told of a deletion only when it is complete and past undoing.
NoticeTellsTruth == \A v \in noticed : row[v] = "gone" /\ content[v] = "purged"

\* A vault that is being deleted, or that a purge has touched.
Leaving(v) == row[v] = "deleted" \/ (content[v] # "whole" /\ row[v] # "gone")

\* A deletion that was accepted is carried through, or taken back with the vault
\* as it was, as long as the queue has retries left: also of deletions that
\* overlap, none leaves a live vault without its content for good.
DeletionEnds == \A v \in Vaults : Leaving(v) ~> ~Leaving(v)

\* No vault stays an inactive, unshared vault of a free plan for ever: the
\* pages of a run reach all of them.
InactiveReached ==
  \A v \in Vaults : []<>~(v \in Live \ (shared \cup reported) /\ free)

\* The comment of markVaultDeletionQueued: a scheduled purge cannot race a
\* manual delete into queueing the same vault twice.
QueuedOnce == \A v \in Vaults : sent[v] <= 1

\* The vault policy's comments: only free-plan organizations are subject to
\* inactivity-based deletion, after a period without a synced change.
OnlyInactiveFreeDeleted ==
  [][scan.at = "claim" /\ scan'.at = "enqueue" =>
       free /\ Head(scan.page) \notin changed \cup shared]_vars
=============================================================================

------------------------------ MODULE LocalEdits ------------------------------
(* One file of one device: the user edits it on disk, the watcher reports the *)
(* edits late, the recorder queues mutations, push sends them, and pull       *)
(* merges what other devices committed into the file and the local record.    *)
(*                                                                            *)
(* The text of a file is the set of edits it contains.  The three-way merge   *)
(* of texts keeps what either side added and drops what either side removed.  *)
(* Work under the entry's key in the state coordinator is one step as far as  *)
(* other work on the store is concerned (StateCoordinator shows that), but    *)
(* the disk is not locked and the process may stop inside it.                 *)
EXTENDS Naturals, Sequences, FiniteSets

CONSTANTS
  NoFile,        \* no text: the file is absent, the entry deleted
  NoMutation,
  Mergeable,     \* isAutoMergeTextPath: a Markdown file
  StatsFile,     \* the watcher's events only name the path (CLI, not plugin)
  MaxMine,       \* bounds: edits of the user of this device,
  MaxTheirs,     \* edits committed by other devices,
  MaxDeletes,    \* deletions by the user,
  MaxTombstones, \* deletions by other devices,
  MaxRestores,   \* restores of other files from their history,
  MaxCrashes, MaxFailures  \* stops of the process, failed applications

ASSUME FlagsAreBoolean == Mergeable \in BOOLEAN /\ StatsFile \in BOOLEAN
ASSUME BoundsAreNaturals ==
  {MaxMine, MaxTheirs, MaxDeletes, MaxTombstones, MaxRestores, MaxCrashes, MaxFailures} \subseteq Nat

VARIABLES
  log,      \* the entry's revisions at the coordinator: mutation id and text
  disk,     \* the text of the file
  copies,   \* the texts of the conflict copies beside it
  others,   \* texts the store files under an entry of their own
  events,   \* watcher events on their way
  rec,      \* the entry's record in the local store
  cursor,   \* last_pulled_cursor
  pull,     \* pullOnce, as far as this entry goes
  push,     \* pushPendingMutations, as far as this entry goes
  up,       \* the process has started and scanned the vault
  made,     \* mutation ids in use
  mine,     \* history: the user's edits, less those the user deleted again
  queued,   \* history: those of them the recorder has seen
  budget    \* what is left of the bounds

vars == <<log, disk, copies, others, events, rec, cursor, pull, push, up, made,
          mine, queued, budget>>

Edits == 1 .. MaxMine + MaxTheirs
Text == SUBSET Edits
MaybeText == Text \cup {NoFile}
Revs == 0 .. Len(log)
Mutation == [m : Nat \ {0}, text : MaybeText, base : Nat, baseText : MaybeText]
Record == [rev : Nat, remote : MaybeText, local : MaybeText,
           pending : Mutation \cup {NoMutation}]

ASSUME NothingIsNothing == (\A t \in Text : t # NoFile) /\ NoMutation \notin Mutation

\* by: the drain of the sync loop, or a restore from the version history.
\* seen: the file as captured before the plan.  saved: the record to restore.
Pull == [pc : {"idle", "listed", "prepared", "clear", "write", "record", "merge", "checkpoint"},
         by : {"loop", "history"}, rev : Nat, text : MaybeText, seen : MaybeText, fresh : BOOLEAN, skip : BOOLEAN,
         kind : {"none", "remote", "local", "conflict"}, body : MaybeText,
         saved : Record \cup {NoMutation}]
NotPulling == [pc |-> "idle", by |-> "loop", rev |-> 0, text |-> NoFile, seen |-> NoFile, fresh |-> TRUE,
               skip |-> FALSE, kind |-> "none", body |-> NoFile, saved |-> NoMutation]
\* behind: the coordinator is ahead, or the connection was lost; pull first.
Push == [pc : {"idle", "sent", "accepted", "behind"}, sent : Mutation \cup {NoMutation}, rev : Nat]
NotPushing == [pc |-> "idle", sent |-> NoMutation, rev |-> 0]

TypeOK ==
  /\ log \in Seq([m : Nat, text : MaybeText])
  /\ disk \in MaybeText
  /\ copies \subseteq Text /\ others \subseteq Text
  /\ events \in Seq({"upsert", "delete", "changed"})
  /\ rec \in Record
  /\ cursor \in Revs
  /\ pull \in Pull /\ push \in Push
  /\ up \in BOOLEAN /\ made \in Nat
  /\ mine \subseteq Edits /\ queued \subseteq Edits

\* The file has been synced once; edit numbers count up from there.
Init ==
  /\ log = <<[m |-> 0, text |-> {}]>>
  /\ disk = {} /\ copies = {} /\ others = {} /\ events = << >>
  /\ rec = [rev |-> 1, remote |-> {}, local |-> {}, pending |-> NoMutation]
  /\ cursor = 1
  /\ pull = NotPulling /\ push = NotPushing
  /\ up = TRUE /\ made = 0
  /\ mine = {} /\ queued = {}
  /\ budget = [mine |-> MaxMine, theirs |-> MaxTheirs, deletes |-> MaxDeletes,
               tombstones |-> MaxTombstones, restores |-> MaxRestores,
               crashes |-> MaxCrashes, failures |-> MaxFailures]

Spend(what) == budget[what] > 0 /\ budget' = [budget EXCEPT ![what] = @ - 1]
NextEdit == 1 + MaxMine + MaxTheirs - budget.mine - budget.theirs
Head1 == log[Len(log)]

\* Events about one file that follow each other directly say the same.
Noticed(operation) ==
  LET kind == IF StatsFile THEN "changed" ELSE operation
  IN  events' = IF events # << >> /\ events[Len(events)] = kind
                THEN events ELSE Append(events, kind)

\* What the next event is taken to say: the plugin believes it, the CLI looks.
\* An upsert reads the file as it is now; when it is gone the read fails.
SaysUpsert == Head(events) \in {"changed", "upsert"} /\ disk # NoFile
SaysDelete == Head(events) = "delete" \/ (Head(events) = "changed" /\ disk = NoFile)

\* The apply phase holds the entry's key, and the event gate its path.
Applying == pull.pc \in {"clear", "write", "record", "merge"}
Suppressed == Applying /\ ~pull.skip
\* A restore pulls inside the queue that records local changes.
Recording == up /\ (pull.pc = "idle" \/ pull.by = "loop")
\* Work under the key ends what was prepared without it.
Stale(p) == IF p.pc = "prepared" THEN [p EXCEPT !.fresh = FALSE] ELSE p

-----------------------------------------------------------------------------
(* The user, and the other devices.                                           *)

UserEdit ==
  /\ disk # NoFile /\ Spend("mine")
  /\ disk' = disk \cup {NextEdit}
  /\ mine' = mine \cup {NextEdit}
  /\ Noticed("upsert")
  /\ UNCHANGED <<log, copies, others, rec, cursor, pull, push, up, made, queued>>

\* Deleting the file gives up the edits made so far, on purpose.
UserDelete ==
  /\ disk # NoFile /\ Spend("deletes")
  /\ disk' = NoFile
  /\ mine' = {} /\ queued' = {}
  /\ Noticed("delete")
  /\ UNCHANGED <<log, copies, others, rec, cursor, pull, push, up, made>>

\* Another device commits on top of the newest revision.
RemoteEdit ==
  /\ Head1.text # NoFile /\ Spend("theirs")
  /\ log' = Append(log, [m |-> 0, text |-> Head1.text \cup {NextEdit}])
  /\ UNCHANGED <<disk, copies, others, events, rec, cursor, pull, push, up, made, mine, queued>>

RemoteDelete ==
  /\ Head1.text # NoFile /\ Spend("tombstones")
  /\ log' = Append(log, [m |-> 0, text |-> NoFile])
  /\ UNCHANGED <<disk, copies, others, events, rec, cursor, pull, push, up, made, mine, queued>>

-----------------------------------------------------------------------------
(* Recording local changes.                                                   *)

NewMutation(text) == [m |-> made + 1, text |-> text, base |-> rec.rev, baseText |-> rec.remote]

HasPendingDelete(r) == r.pending # NoMutation /\ r.pending.text = NoFile
AlreadyRecorded(text) ==
  /\ rec.local = text /\ text # NoFile
  /\ rec.pending = NoMutation \/ rec.pending.text = text

\* recordUpsertWithHash, for the text just read from the file.
RecordUpsert(text) ==
  IF AlreadyRecorded(text) THEN UNCHANGED <<rec, made, others, disk>>
  ELSE IF rec.local # NoFile \/ HasPendingDelete(rec)
  THEN /\ rec' = [rec EXCEPT !.local = text, !.pending = NewMutation(text)]
       /\ made' = made + 1
       /\ UNCHANGED <<others, disk>>
  ELSE \* no entry is visible at the path: the file becomes a new one
       /\ others' = others \cup {text} /\ disk' = NoFile
       /\ UNCHANGED <<rec, made>>

\* recordDeleteWithState: the pending mutation goes, the record is marked
\* deleted, then the deletion is queued; three writes.
RecordDelete ==
  IF rec.local = NoFile /\ rec.remote = NoFile
  THEN UNCHANGED <<rec, made>>
  ELSE /\ rec' = [rec EXCEPT !.local = NoFile, !.pending = NewMutation(NoFile)]
       /\ made' = made + 1

\* Faulty variant: an event is handled while the pull that holds the key writes.
DeliverAnyTime ==
  /\ Recording /\ events # << >>
  /\ events' = Tail(events)
  /\ queued' = IF disk = NoFile THEN queued ELSE queued \cup (mine \cap disk)
  /\ CASE SaysUpsert -> RecordUpsert(disk)
       [] SaysDelete -> RecordDelete /\ UNCHANGED <<others, disk>>
       [] OTHER -> UNCHANGED <<rec, made, others, disk>>
  /\ pull' = Stale(pull)
  /\ UNCHANGED <<log, copies, cursor, push, up, mine, budget>>

\* The watcher's next event is recorded.
Deliver ==
  /\ Recording /\ events # << >> /\ ~Applying
  /\ events' = Tail(events)
  /\ CASE SaysUpsert ->
            RecordUpsert(disk) /\ queued' = queued \cup (mine \cap disk)
       [] SaysDelete ->
            RecordDelete /\ UNCHANGED <<others, disk, queued>>
       [] OTHER -> UNCHANGED <<rec, made, others, disk, queued>>
  /\ pull' = Stale(pull)
  /\ UNCHANGED <<log, copies, cursor, push, up, mine, budget>>

\* An event that arrives while a pull writes the path is ignored.
DropEvent ==
  /\ up /\ events # << >> /\ Suppressed
  /\ events' = Tail(events)
  /\ UNCHANGED <<log, disk, copies, others, rec, cursor, pull, push, up, made, mine, queued, budget>>

\* The vault scan, when the process starts and now and then.  Its updates are
\* written at once, and only if no work on the entry came between.
Reconcile ==
  /\ ~Applying /\ (~up \/ (Recording /\ disk # rec.local))
  /\ up' = TRUE
  /\ CASE disk # NoFile ->
            RecordUpsert(disk) /\ queued' = queued \cup (mine \cap disk)
       [] disk = NoFile /\ rec.local # NoFile ->
            RecordDelete /\ UNCHANGED <<others, disk, queued>>
       [] OTHER -> UNCHANGED <<rec, made, others, disk, queued>>
  /\ pull' = Stale(pull)
  /\ UNCHANGED <<log, copies, events, cursor, push, mine, budget>>

-----------------------------------------------------------------------------
(* Pushing.  One drain of the sync loop pulls, then pushes, then pulls.       *)

PushTurn == up /\ (pull.pc = "idle" \/ pull.by = "history")

\* requeueChangedUpsert: the file no longer is what the mutation says.
Requeue ==
  /\ PushTurn /\ push.pc = "idle" /\ ~Applying
  /\ rec.pending # NoMutation /\ rec.pending.text # NoFile
  /\ disk # NoFile /\ disk # rec.pending.text
  /\ rec' = [rec EXCEPT !.local = disk, !.pending = NewMutation(disk)]
  /\ made' = made + 1
  /\ queued' = queued \cup (mine \cap disk)
  /\ pull' = Stale(pull)
  /\ UNCHANGED <<log, disk, copies, others, events, cursor, push, up, mine, budget>>

\* prepareMutationForCommit: the content is staged and the commit is sent.
PreparePush ==
  /\ PushTurn /\ push.pc = "idle"
  /\ rec.pending # NoMutation
  /\ rec.pending.text \in {NoFile, disk}
  /\ push' = [NotPushing EXCEPT !.pc = "sent", !.sent = rec.pending]
  /\ UNCHANGED <<log, disk, copies, others, events, rec, cursor, pull, up, made, mine, queued, budget>>

\* Faulty variant: a stale answer, or a lost one, is only tried again.
CommitAgain ==
  LET m == push.sent
      replay == Head1.m = m.m
      accepted == replay \/ m.base = Len(log)
  IN  /\ push.pc = "sent"
      /\ log' = IF accepted /\ ~replay THEN Append(log, [m |-> m.m, text |-> m.text]) ELSE log
      /\ \/ accepted /\ push' = [push EXCEPT !.pc = "accepted", !.rev = Len(log')]
         \/ push' = NotPushing
      /\ UNCHANGED <<disk, copies, others, events, rec, cursor, pull, up, made, mine, queued, budget>>

\* The coordinator decides; the answer may be lost with the connection.  A
\* stale answer changes nothing here.  Either way the loop pulls next.
Commit ==
  LET m == push.sent
      replay == Head1.m = m.m
      accepted == replay \/ m.base = Len(log)
  IN  /\ push.pc = "sent"
      /\ log' = IF accepted /\ ~replay THEN Append(log, [m |-> m.m, text |-> m.text]) ELSE log
      /\ \/ accepted /\ push' = [push EXCEPT !.pc = "accepted", !.rev = Len(log')]
         \/ push' = [NotPushing EXCEPT !.pc = "behind"]
      /\ UNCHANGED <<disk, copies, others, events, rec, cursor, pull, up, made, mine, queued, budget>>

\* applyAcceptedPushToEntry, on a record the pull has not moved further.
Acknowledged(r, m, rev) ==
  LET kept == CASE r.pending = NoMutation \/ r.pending.m = m.m -> NoMutation
                [] OTHER -> [r.pending EXCEPT !.base = rev, !.baseText = m.text]
  IN  [r EXCEPT !.rev = rev, !.remote = m.text, !.pending = kept]

\* Faulty variant: a newer edit keeps the base it was made on.
AcceptKeepingBase ==
  /\ up /\ push.pc = "accepted" /\ ~Applying
  /\ rec' = IF rec.rev > push.rev THEN rec
            ELSE [Acknowledged(rec, push.sent, push.rev) EXCEPT !.pending =
                    IF rec.pending = NoMutation \/ rec.pending.m = push.sent.m THEN NoMutation
                    ELSE [rec.pending EXCEPT !.base = push.rev]]
  /\ cursor' \in {cursor, IF push.rev = cursor + 1 THEN push.rev ELSE cursor}
  /\ push' = NotPushing
  /\ pull' = Stale(pull)
  /\ UNCHANGED <<log, disk, copies, others, events, up, made, mine, queued, budget>>

\* Faulty variant: the cursor follows every accepted push.
AcceptMovingCursor ==
  /\ up /\ push.pc = "accepted" /\ ~Applying
  /\ rec' = IF rec.rev > push.rev THEN rec ELSE Acknowledged(rec, push.sent, push.rev)
  /\ cursor' = cursor + 1
  /\ push' = NotPushing
  /\ pull' = Stale(pull)
  /\ UNCHANGED <<log, disk, copies, others, events, up, made, mine, queued, budget>>

\* The cursor follows if no other entry's change lies between.
AcceptPush ==
  /\ up /\ push.pc = "accepted" /\ ~Applying
  /\ rec' = IF rec.rev > push.rev THEN rec ELSE Acknowledged(rec, push.sent, push.rev)
  /\ cursor' \in {cursor, IF push.rev = cursor + 1 THEN push.rev ELSE cursor}
  /\ push' = NotPushing
  /\ pull' = Stale(pull)
  /\ UNCHANGED <<log, disk, copies, others, events, up, made, mine, queued, budget>>

-----------------------------------------------------------------------------
(* Pulling.                                                                   *)

Listed(who) == [NotPulling EXCEPT !.pc = "listed", !.by = who,
                                  !.rev = Len(log), !.text = Head1.text]

\* What changed since the cursor; after a stale answer the entry is listed in
\* any case (recoverEntryStates).
ListStates ==
  /\ up /\ pull.pc = "idle"
  /\ \/ /\ push.pc = "behind" \/ (push.pc = "idle" /\ cursor < Len(log))
        /\ pull' = Listed("loop") /\ push' = NotPushing
        /\ UNCHANGED budget
     \/ /\ cursor < Len(log) /\ Spend("restores")
        /\ pull' = Listed("history") /\ UNCHANGED push
  /\ UNCHANGED <<log, disk, copies, others, events, rec, cursor, up, made, mine, queued>>

\* A listed revision older than the record is skipped.
SkipOldRevision ==
  /\ up /\ pull.pc = "listed" /\ pull.rev < rec.rev
  /\ pull' = [pull EXCEPT !.pc = "checkpoint"]
  /\ UNCHANGED <<log, disk, copies, others, events, rec, cursor, push, up, made, mine, queued, budget>>

\* Faulty variant: a changed local text wins over the remote one.
MergePrefersLocal(base, local, remote) == IF local = base THEN remote ELSE local

\* mergeText3 on sets of edits.
Merge(base, local, remote) ==
  (local \cap remote) \cup (local \ base) \cup (remote \ base)

IsAlreadyRemote(m, text) ==
  m.text = text /\ (text # NoFile => disk = text)

CanMerge(m, text) ==
  /\ Mergeable
  /\ m.text # NoFile /\ text # NoFile /\ m.baseText # NoFile
  /\ rec.local # NoFile /\ disk # NoFile
\* Overlapping changes of both sides do not merge.
MayOverlap(m, text) ==
  disk # m.baseText /\ text # m.baseText /\ disk # text

\* What becomes of a pending mutation: prepareConflictingPendingMutation.
Decide(m, text) ==
  IF m = NoMutation THEN {[kind |-> "none", body |-> NoFile]}
  ELSE IF IsAlreadyRemote(m, text) THEN {[kind |-> "remote", body |-> NoFile]}
  ELSE LET merged == Merge(m.baseText, disk, text)
           copy == [kind |-> "conflict",
                    body |-> IF m.text # NoFile THEN disk ELSE NoFile]
       IN  IF ~CanMerge(m, text) THEN {copy}
           ELSE {IF merged = text THEN [kind |-> "remote", body |-> NoFile]
                 ELSE [kind |-> "local", body |-> merged]}
                \cup (IF MayOverlap(m, text) THEN {copy} ELSE {})

AlreadyApplied ==
  /\ pull.text # NoFile /\ rec.pending = NoMutation
  /\ rec.rev = pull.rev /\ rec.remote = pull.text /\ rec.local = pull.text

\* One attempt: plan, capture the file, download, decide.
PreparePull ==
  /\ up /\ pull.pc = "listed" /\ pull.rev >= rec.rev
  /\ \E d \in Decide(rec.pending, pull.text) :
       pull' = [pull EXCEPT !.pc = "prepared", !.seen = disk, !.fresh = TRUE,
                            !.skip = AlreadyApplied, !.kind = d.kind, !.body = d.body]
  /\ UNCHANGED <<log, disk, copies, others, events, rec, cursor, push, up, made, mine, queued, budget>>

\* The plan is out of date: other work took the key, or the file changed, and
\* then the change is recorded first.  Three attempts, then the pull fails.
Replan ==
  /\ up /\ pull.pc = "prepared" /\ (~pull.fresh \/ disk # pull.seen)
  /\ IF ~pull.fresh THEN UNCHANGED <<rec, made, others, disk, queued>>
     ELSE IF disk = NoFile THEN RecordDelete /\ UNCHANGED <<others, disk, queued>>
     ELSE RecordUpsert(disk) /\ queued' = queued \cup (mine \cap disk)
  /\ \/ pull' = [NotPulling EXCEPT !.pc = "listed", !.by = pull.by, !.rev = pull.rev, !.text = pull.text]
     \/ pull' = NotPulling
  /\ UNCHANGED <<log, copies, events, cursor, push, up, mine, budget>>

BeginApply ==
  /\ up /\ pull.pc = "prepared" /\ pull.fresh /\ disk = pull.seen
  /\ pull' = [pull EXCEPT !.pc = "clear", !.saved = rec]
  /\ UNCHANGED <<log, disk, copies, others, events, rec, cursor, push, up, made, mine, queued, budget>>

\* Faulty variant: only mutations that can be merged get a conflict copy.
ConflictWithoutCopy ==
  /\ pull.pc = "clear"
  /\ copies' = copies
  /\ rec' = [rec EXCEPT !.pending = IF pull.kind = "conflict" THEN NoMutation ELSE @]
  /\ pull' = [pull EXCEPT !.pc = "write"]
  /\ UNCHANGED <<log, disk, others, events, cursor, push, up, made, mine, queued, budget>>

\* The conflict copy is written, then the mutation it stands for is cleared.
ApplyConflict ==
  /\ pull.pc = "clear"
  /\ copies' = IF pull.kind = "conflict" /\ pull.body # NoFile THEN copies \cup {pull.body} ELSE copies
  /\ rec' = [rec EXCEPT !.pending = IF pull.kind = "conflict" THEN NoMutation ELSE @]
  /\ pull' = [pull EXCEPT !.pc = "write"]
  /\ UNCHANGED <<log, disk, others, events, cursor, push, up, made, mine, queued, budget>>

\* clearChangingStorePaths, for an entry that loses its path, and the vault.
ApplyVault ==
  /\ pull.pc = "write"
  /\ rec' = IF pull.text = NoFile /\ rec.local # NoFile
            THEN [rec EXCEPT !.remote = NoFile, !.local = NoFile, !.pending = NoMutation]
            ELSE rec
  /\ IF pull.skip \/ disk = pull.text THEN UNCHANGED <<disk, events>>
     ELSE /\ disk' = pull.text
          /\ Noticed(IF pull.text = NoFile THEN "delete" ELSE "upsert")
  /\ pull' = [pull EXCEPT !.pc = "record"]
  /\ UNCHANGED <<log, copies, others, cursor, push, up, made, mine, queued, budget>>

\* upsertEntry: the record is the remote state, and has no pending mutation.
ApplyRecord ==
  /\ pull.pc = "record"
  /\ rec' = [rev |-> pull.rev, remote |-> pull.text, local |-> pull.text, pending |-> NoMutation]
  /\ pull' = [pull EXCEPT !.pc = "merge"]
  /\ UNCHANGED <<log, disk, copies, others, events, cursor, push, up, made, mine, queued, budget>>

\* applyPreparedPendingMerge: the merged text is written and queued on top of
\* the revision it was merged with.
ApplyMerge ==
  /\ pull.pc = "merge"
  /\ IF pull.kind = "local"
     THEN /\ disk' = pull.body
          /\ Noticed("upsert")
          /\ rec' = [rec EXCEPT !.local = pull.body, !.pending =
               [m |-> made + 1, text |-> pull.body, base |-> pull.rev, baseText |-> pull.text]]
          /\ made' = made + 1
     ELSE UNCHANGED <<disk, events, rec, made>>
  /\ pull' = [pull EXCEPT !.pc = "checkpoint"]
  /\ UNCHANGED <<log, copies, others, cursor, push, up, mine, queued, budget>>

\* Faulty variant: the cursor moves before the window is applied.
CheckpointUnapplied ==
  /\ up /\ pull.pc \in {"listed", "checkpoint"}
  /\ cursor' = IF pull.rev > cursor THEN pull.rev ELSE cursor
  /\ pull' = NotPulling
  /\ UNCHANGED <<log, disk, copies, others, events, rec, push, up, made, mine, queued, budget>>

\* checkpointAppliedWindow.
Checkpoint ==
  /\ up /\ pull.pc = "checkpoint"
  /\ cursor' = IF pull.rev > cursor THEN pull.rev ELSE cursor
  /\ pull' = NotPulling
  /\ UNCHANGED <<log, disk, copies, others, events, rec, push, up, made, mine, queued, budget>>

\* A write fails: the records are restored, the vault is left as it is.
ApplyFails ==
  /\ Applying /\ Spend("failures")
  /\ rec' = pull.saved
  /\ pull' = NotPulling
  /\ UNCHANGED <<log, disk, copies, others, events, cursor, push, up, made, mine, queued>>

-----------------------------------------------------------------------------
(* Stops of the process.  Disk and store stay; work and events are gone.      *)

Restarted ==
  /\ Spend("crashes")
  /\ events' = << >> /\ pull' = NotPulling /\ push' = NotPushing /\ up' = FALSE
  /\ UNCHANGED <<log, disk, copies, others, cursor, mine, queued>>

Crash ==
  \/ Restarted /\ UNCHANGED <<rec, made>>
  \* after the first write of recordUpsertWithHash
  \/ /\ up /\ ~Applying /\ events # << >> /\ SaysUpsert /\ ~AlreadyRecorded(disk)
     /\ rec.local # NoFile \/ HasPendingDelete(rec)
     /\ Restarted
     /\ rec' = [rec EXCEPT !.pending = NewMutation(disk)] /\ made' = made + 1
  \* after the second write of recordDeleteWithState
  \/ /\ up /\ ~Applying /\ events # << >> /\ SaysDelete
     /\ rec.local # NoFile \/ rec.remote # NoFile
     /\ Restarted
     /\ rec' = [rec EXCEPT !.local = NoFile, !.pending = NoMutation] /\ UNCHANGED made
  \* between the vault and the record: the merged text is written, not queued
  \/ /\ pull.pc = "merge" /\ pull.kind = "local"
     /\ Spend("crashes")
     /\ disk' = pull.body
     /\ events' = << >> /\ pull' = NotPulling /\ push' = NotPushing /\ up' = FALSE
     /\ UNCHANGED <<log, copies, others, rec, cursor, made, mine, queued>>

-----------------------------------------------------------------------------
Apply == ApplyConflict \/ ApplyVault \/ ApplyRecord \/ ApplyMerge
PullStep == ListStates \/ SkipOldRevision \/ PreparePull \/ Replan \/ BeginApply \/ Apply \/ Checkpoint
PushStep == Requeue \/ PreparePush \/ Commit \/ AcceptPush
World == UserEdit \/ UserDelete \/ RemoteEdit \/ RemoteDelete \/ ApplyFails \/ Crash

\* Nothing is left to do.
Idle == /\ up /\ events = << >> /\ rec.pending = NoMutation
        /\ pull.pc = "idle" /\ push.pc = "idle" /\ cursor = Len(log)
Done == Idle /\ UNCHANGED vars

Next == World \/ Deliver \/ DropEvent \/ Reconcile \/ PullStep \/ PushStep \/ Done

Spec == Init /\ [][Next]_vars

\* The process is started again, the watcher reports, and the sync loop pulls and
\* pushes while there is something to pull or push (AutoSync).
DeviceRuns ==
  /\ WF_vars(~up /\ Reconcile)
  /\ WF_vars(Deliver \/ DropEvent)
  /\ WF_vars(PullStep)
  /\ WF_vars(PushStep)
FairSpec == Spec /\ DeviceRuns

-----------------------------------------------------------------------------
(* Properties.                                                                *)

InMemory == IF pull.kind \in {"local", "conflict"} /\ pull.body # NoFile THEN pull.body ELSE {}
Files == (IF disk = NoFile THEN {} ELSE disk) \cup (UNION copies) \cup (UNION others)
Committed == UNION {log[i].text : i \in {j \in 1 .. Len(log) : log[j].text # NoFile}}

\* An edit the recorder has seen is never lost: it is in the file, in a conflict
\* copy, in a file of its own, in a committed revision, or in the text the pull
\* is about to write.  Pulls that meet local edits merge or copy them.
RecordedEditsSurvive == queued \subseteq Files \cup Committed \cup InMemory

\* When nothing is left to do and the scan would find nothing, the file is what
\* the coordinator has: push, pull and merge do not leave the devices apart.
QuietMeansConverged ==
  Idle /\ disk = rec.local =>
    /\ disk = Head1.text /\ rec.remote = Head1.text /\ rec.rev = Len(log)

\* The base text a pending mutation will be merged against is the text of the
\* revision it is based on, whatever was accepted or pulled in between.
MergeBaseIsBaseRevision ==
  rec.pending # NoMutation =>
    /\ rec.pending.base \in 1 .. Len(log)
    /\ rec.pending.baseText = log[rec.pending.base].text

\* What another device committed is never undone by a push from here, unless
\* the push deletes the file: the merged text carries every edit of the head.
Theirs(text) == IF text = NoFile THEN {} ELSE text \ mine
PushKeepsTheirs ==
  [][Len(log') > Len(log) /\ log'[Len(log')].text # NoFile
       => Theirs(Head1.text) \subseteq log'[Len(log')].text]_vars

\* Once users stop editing, every change is recorded, pushed and pulled, and the
\* device comes to rest: stale pushes and stale plans are not retried for ever.
ComesToRest == <>[]Idle

-----------------------------------------------------------------------------
(* What the documentation says and the code does not keep.                    *)

\* Every edit of the user that is not deleted again survives.
NoEditLost == mine \subseteq Files \cup Committed \cup InMemory

\* A conflict copy is made only when another device changed the file.
ConflictsAreReal == copies # {} => budget.theirs < MaxTheirs \/ budget.tombstones < MaxTombstones
=============================================================================

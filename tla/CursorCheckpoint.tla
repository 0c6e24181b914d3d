--------------------------- MODULE CursorCheckpoint ---------------------------
(***************************************************************************)
(* How the devices of one vault follow its log: the pull loop with its     *)
(* pages and windows, the push loop with its acknowledgements, and the     *)
(* checkpoint (last_pulled_cursor) both of them move.  The vault is the    *)
(* abstract EntryLog, which the coordinator implements.                    *)
(*                                                                         *)
(* A device runs one sync drain, which pulls and pushes in turn, and may   *)
(* pull a second time beside it: a version restore pulls on its own.  The  *)
(* contents of entries do not matter here, only their revisions.           *)
(***************************************************************************)
EXTENDS Naturals, Sequences, FiniteSetsExt

CONSTANTS
  Devices, Entries, Mutations, NoMutation,
  Pullers,     \* the callers of pullOnce on a device: its drain and others
  Drain,       \* the one that also pushes
  PageSize,    \* DEFAULT_PULL_BATCH
  WindowSize   \* applyWindowSize

ASSUME PullerAssumption == Drain \in Pullers
ASSUME SizeAssumption == PageSize \in Nat \ {0} /\ WindowSize \in Nat \ {0}
ASSUME MutationAssumption == NoMutation \notin Mutations
ASSUME EntryAssumption == Entries # {}

VARIABLES
  log,         \* the vault's log; a position in it is a sync cursor
  requests,    \* commit messages on their way to the vault
  known,       \* per device and entry: remoteRevision of the local store
  checkpoint,  \* per device: last_pulled_cursor
  pending,     \* per device and entry: the pending mutation and its base
  made,        \* the mutation ids in use
  pull,        \* per device and puller: the state of pullOnce
  push         \* per device: the state of pushPendingMutations

vars == <<log, requests, known, checkpoint, pending, made, pull, push>>

Log == INSTANCE EntryLog WITH Blobs <- {}, NoBlob <- NoMutation

-----------------------------------------------------------------------------
(* The vault.  An entry state is named by its position in the log.          *)

HeadPosition(e) == Max({0} \cup {i \in 1 .. Len(log) : log[i].entry = e})
CurrentRevision(e) == Log!RevisionAt(log, HeadPosition(e))
IsLastOf(m, e) == HeadPosition(e) # 0 /\ log[HeadPosition(e)].mutation = m

\* The entries whose newest revision lies in the range, in cursor order.
ListedStates(since, target, after) ==
  {i \in {HeadPosition(e) : e \in Entries} : since < i /\ i <= target /\ after < i}

FirstPage(S) == {i \in S : Cardinality({j \in S : j < i}) < PageSize}

NoEdit == [m |-> NoMutation, base |-> 0]
Edit == [m : Mutations \cup {NoMutation}, base : Nat]

\* Faulty variant: entries without an edit are pushed as well.
AnyEntry(d, e) == TRUE
HasEdit(d, e) == pending[d][e] # NoEdit

Request == [device : Devices, entry : Entries, m : Mutations, base : Nat]

\* target = 0: not told yet.  ready: a listed page waits to be taken.
NotPulling == [pc |-> "idle", since |-> 0, target |-> 0, after |-> 0, local |-> 0,
               page |-> {}, ready |-> FALSE, more |-> FALSE, last |-> FALSE,
               window |-> {}, todo |-> {}, deferred |-> {}]
Pull == [pc : {"idle", "listing", "applying", "recovering", "compare", "raise"},
         since : Nat, target : Nat, after : Nat, local : Nat,
         page : SUBSET Nat, ready : BOOLEAN, more : BOOLEAN, last : BOOLEAN,
         window : SUBSET Nat, todo : SUBSET Nat, deferred : SUBSET Nat]

NotPushing == [pc |-> "idle", start |-> 0, accepted |-> {}, stale |-> FALSE,
               entry |-> CHOOSE e \in Entries : TRUE, sent |-> NoEdit, at |-> 0]
Push == [pc : {"idle", "ready", "waiting", "accepted", "rejected"}, start : Nat,
         accepted : SUBSET Nat, stale : BOOLEAN, entry : Entries, sent : Edit, at : Nat]

SetPull(d, w, p) == pull' = [pull EXCEPT ![d][w] = p]
SetPush(d, p) == push' = [push EXCEPT ![d] = p]
IsIdle(d, w) == pull[d][w].pc = "idle" /\ (w = Drain => push[d].pc = "idle")

-----------------------------------------------------------------------------
(* Local edits.                                                             *)

\* A change on disk queues a mutation with a new id; one that is already
\* pending is replaced and hands its base on.
LocalEdit(d, e) ==
  /\ \E m \in Mutations \ made :
       /\ made' = made \cup {m}
       /\ pending' = [pending EXCEPT ![d][e] =
            [m |-> m, base |-> IF @ = NoEdit THEN known[d][e] ELSE @.base]]
  /\ UNCHANGED <<log, requests, known, checkpoint, pull, push>>

-----------------------------------------------------------------------------
(* Pulling.                                                                 *)

StartPull(d, w) ==
  /\ IsIdle(d, w)
  /\ SetPull(d, w, [NotPulling EXCEPT !.pc = "listing", !.since = checkpoint[d],
                                      !.local = checkpoint[d], !.more = TRUE])
  /\ UNCHANGED <<log, requests, known, checkpoint, pending, made, push>>

\* listEntryStates answers the page that was asked for: the first one, or the
\* next one while the window before it may still be applied.
ListEntryStates(d, w) ==
  LET p == pull[d][w]
      target == IF p.target = 0 THEN Len(log) ELSE p.target
      listed == ListedStates(p.since, target, p.after)
      page == FirstPage(listed)
  IN  /\ p.pc \in {"listing", "applying"} /\ p.more /\ ~p.ready
      /\ p.since <= target
      /\ SetPull(d, w, [p EXCEPT !.target = target, !.page = page, !.ready = TRUE,
                                 !.after = Max({@} \cup page), !.more = (page # listed)])
      /\ UNCHANGED <<log, requests, known, checkpoint, pending, made, push>>

\* The page joins the window.  A full window, or the last, is planned: before
\* the last one any entry may be deferred, because a path it needs is taken.
TakePage(d, w) ==
  LET p == pull[d][w]
      window == p.window \cup p.page
  IN  /\ p.pc = "listing" /\ p.ready
      /\ IF Cardinality(window) < WindowSize /\ p.more
         THEN SetPull(d, w, [p EXCEPT !.window = window, !.page = {}, !.ready = FALSE])
         ELSE \E deferred \in SUBSET window :
                /\ ~p.more => deferred = {}
                /\ SetPull(d, w, [p EXCEPT !.pc = "applying", !.window = window,
                     !.page = {}, !.ready = FALSE, !.last = ~p.more,
                     !.todo = window \ deferred, !.deferred = deferred])
      /\ UNCHANGED <<log, requests, known, checkpoint, pending, made, push>>

\* Faulty variant: every listed state is taken.
NothingIsRollback(d, i) == FALSE

\* An entry state older than the known revision is skipped as a rollback.
IsRollback(d, i) == log[i].rev < known[d][log[i].entry]

\* One entry state of the window takes effect in the local store.  An edit
\* that is pending there is dropped (same content, or kept as a conflict
\* copy), or merged and rebased under a new id.
ApplyState(d, w) ==
  LET p == pull[d][w] IN
  /\ p.pc \in {"applying", "recovering"}
  /\ \E i \in p.todo :
       LET e == log[i].entry IN
       /\ SetPull(d, w, [p EXCEPT !.todo = @ \ {i}])
       /\ IF IsRollback(d, i)
          THEN UNCHANGED <<known, pending, made>>
          ELSE /\ known' = [known EXCEPT ![d][e] = log[i].rev]
               /\ \/ pending' = [pending EXCEPT ![d][e] = NoEdit] /\ UNCHANGED made
                  \/ \E m \in Mutations \ made :
                       /\ HasEdit(d, e)
                       /\ made' = made \cup {m}
                       /\ pending' = [pending EXCEPT ![d][e] = [m |-> m, base |-> log[i].rev]]
  /\ UNCHANGED <<log, requests, checkpoint, push>>

SafeCheckpoint(p) ==
  IF p.deferred # {} THEN Max({p.local, Min(p.deferred) - 1})
  ELSE IF p.last THEN Max({p.local, p.target})
  ELSE Max({p.local} \cup p.window)

\* checkpointAppliedWindow: compared with what this pull stored last, not with
\* what the store holds.
CheckpointWindow(d, w) ==
  LET p == pull[d][w]
      safe == SafeCheckpoint(p)
  IN  /\ p.pc = "applying" /\ p.todo = {}
      /\ checkpoint' = [checkpoint EXCEPT ![d] = IF safe > p.local THEN safe ELSE @]
      /\ SetPull(d, w, [p EXCEPT !.pc = IF p.last THEN "compare" ELSE "listing",
                                 !.local = safe, !.window = p.deferred, !.deferred = {}])
      /\ UNCHANGED <<log, requests, known, pending, made, push>>

\* The end of pullOnce: await getCursor(), compare, await setCursor().
CompareCheckpoint(d, w) ==
  LET p == pull[d][w] IN
  /\ p.pc = "compare"
  /\ SetPull(d, w, IF p.target > checkpoint[d] THEN [p EXCEPT !.pc = "raise"] ELSE NotPulling)
  /\ UNCHANGED <<log, requests, known, checkpoint, pending, made, push>>

RaiseCheckpoint(d, w) ==
  /\ pull[d][w].pc = "raise"
  /\ checkpoint' = [checkpoint EXCEPT ![d] = pull[d][w].target]
  /\ SetPull(d, w, NotPulling)
  /\ UNCHANGED <<log, requests, known, pending, made, push>>

\* recoverEntryStates: the drain asks for the current state of entries behind
\* its checkpoint; no checkpoint moves.
StartRecovery(d) ==
  /\ IsIdle(d, Drain)
  /\ \E S \in SUBSET {HeadPosition(e) : e \in Entries} :
       /\ S # {} /\ 0 \notin S
       /\ SetPull(d, Drain, [NotPulling EXCEPT !.pc = "recovering", !.todo = S])
  /\ UNCHANGED <<log, requests, known, checkpoint, pending, made, push>>

FinishRecovery(d) ==
  /\ pull[d][Drain].pc = "recovering" /\ pull[d][Drain].todo = {}
  /\ SetPull(d, Drain, NotPulling)
  /\ UNCHANGED <<log, requests, known, checkpoint, pending, made, push>>

\* A listing, a download or a write fails: what was applied and checkpointed
\* stays, the rest is dropped.
PullFails(d, w) ==
  /\ pull[d][w].pc # "idle"
  /\ SetPull(d, w, NotPulling)
  /\ UNCHANGED <<log, requests, known, checkpoint, pending, made, push>>

-----------------------------------------------------------------------------
(* Pushing.                                                                 *)

StartPush(d) ==
  /\ IsIdle(d, Drain)
  /\ SetPush(d, [NotPushing EXCEPT !.pc = "ready", !.start = checkpoint[d]])
  /\ UNCHANGED <<log, requests, known, checkpoint, pending, made, pull>>

SendCommit(d) ==
  /\ push[d].pc = "ready" /\ ~push[d].stale
  /\ \E e \in Entries :
       /\ HasEdit(d, e)
       /\ requests' = requests \cup
            {[device |-> d, entry |-> e, m |-> pending[d][e].m, base |-> pending[d][e].base]}
       /\ SetPush(d, [push[d] EXCEPT !.pc = "waiting", !.entry = e, !.sent = pending[d][e]])
  /\ UNCHANGED <<log, known, checkpoint, pending, made, pull>>

\* The reply reaches the push that still waits for it, if there is one.
Reply(q, pc, at) ==
  IF push[q.device].pc = "waiting" /\ push[q.device].sent.m = q.m
  THEN SetPush(q.device, [push[q.device] EXCEPT !.pc = pc, !.at = at])
  ELSE UNCHANGED push

\* The vault answers a commit.  It may find another copy of it later: a lost
\* session's message can still be under way next to its retry.
ServerCommit ==
  \E q \in requests :
    /\ \/ /\ IsLastOf(q.m, q.entry)
          /\ Reply(q, "accepted", HeadPosition(q.entry))
          /\ UNCHANGED log
       \/ /\ Log!Accept(q.m, q.entry, q.base, NoMutation)
          /\ Reply(q, "accepted", Len(log'))
       \/ /\ ~IsLastOf(q.m, q.entry)
          /\ CurrentRevision(q.entry) # q.base
          /\ Reply(q, "rejected", 0)
          /\ UNCHANGED log
    /\ requests' \in {requests, requests \ {q}}
    /\ UNCHANGED <<known, checkpoint, pending, made, pull>>

\* The vault accepts a commit of a device outside Devices, or a restore.
OthersCommit ==
  /\ \E m \in Mutations \ made, e \in Entries :
       /\ made' = made \cup {m}
       /\ Log!Accept(m, e, CurrentRevision(e), NoMutation)
  /\ UNCHANGED <<requests, known, checkpoint, pending, pull, push>>

\* applyAcceptedPushToEntry: never back to an older revision than a pull has
\* brought meanwhile; a newer edit stays pending, on top of the accepted one.
ReceiveAccepted(d) ==
  LET p == push[d]
      rev == log[p.at].rev
      current == pending[d][p.entry]
  IN  /\ p.pc = "accepted"
      /\ IF known[d][p.entry] > rev
         THEN UNCHANGED <<known, pending>>
         ELSE /\ known' = [known EXCEPT ![d][p.entry] = rev]
              /\ pending' = [pending EXCEPT ![d][p.entry] =
                   IF current = NoEdit \/ current.m = p.sent.m THEN NoEdit
                   ELSE [current EXCEPT !.base = rev]]
      /\ SetPush(d, [p EXCEPT !.pc = "ready", !.accepted = @ \cup {p.at}])
      /\ UNCHANGED <<log, requests, checkpoint, made, pull>>

\* A stale mutation stays pending until a pull has reconciled it.
ReceiveRejected(d) ==
  /\ push[d].pc = "rejected"
  /\ SetPush(d, [push[d] EXCEPT !.pc = "ready", !.stale = TRUE])
  /\ UNCHANGED <<log, requests, known, checkpoint, pending, made, pull>>

\* Faulty variants: the highest accepted cursor becomes the checkpoint; each
\* accepted mutation moves it by one.
HighestAcceptedCursor(start, accepted) == Max({start} \cup accepted)
CountedCursor(start, accepted) == start + Cardinality(accepted)

\* getContiguousAcceptedCursor
ContiguousAcceptedCursor(start, accepted) ==
  Max({start} \cup {i \in accepted : i > start /\ start + 1 .. i \subseteq accepted})

\* The checkpoint read when the push began decides; it is not read again.
FinishPush(d) ==
  LET reached == ContiguousAcceptedCursor(push[d].start, push[d].accepted) IN
  /\ push[d].pc = "ready"
  /\ checkpoint' = [checkpoint EXCEPT ![d] = IF reached > push[d].start THEN reached ELSE @]
  /\ SetPush(d, NotPushing)
  /\ UNCHANGED <<log, requests, known, pending, made, pull>>

\* The session is lost, or the local store fails: the checkpoint stays.
PushFails(d) ==
  /\ push[d].pc # "idle"
  /\ SetPush(d, NotPushing)
  /\ UNCHANGED <<log, requests, known, checkpoint, pending, made, pull>>

-----------------------------------------------------------------------------
Init ==
  /\ Log!Init
  /\ requests = {} /\ made = {}
  /\ known = [d \in Devices |-> [e \in Entries |-> 0]]
  /\ checkpoint = [d \in Devices |-> 0]
  /\ pending = [d \in Devices |-> [e \in Entries |-> NoEdit]]
  /\ pull = [d \in Devices |-> [w \in Pullers |-> NotPulling]]
  /\ push = [d \in Devices |-> NotPushing]

PullStep(d, w) ==
  \/ StartPull(d, w) \/ ListEntryStates(d, w) \/ TakePage(d, w) \/ ApplyState(d, w)
  \/ CheckpointWindow(d, w) \/ CompareCheckpoint(d, w) \/ RaiseCheckpoint(d, w)
  \/ PullFails(d, w)

PushStep(d) ==
  \/ StartPush(d) \/ SendCommit(d) \/ ReceiveAccepted(d) \/ ReceiveRejected(d)
  \/ FinishPush(d) \/ PushFails(d) \/ StartRecovery(d) \/ FinishRecovery(d)

Next ==
  \/ \E d \in Devices, e \in Entries : LocalEdit(d, e)
  \/ \E d \in Devices, w \in Pullers : PullStep(d, w)
  \/ \E d \in Devices : PushStep(d)
  \/ ServerCommit \/ OthersCommit

Spec == Init /\ [][Next]_vars

-----------------------------------------------------------------------------
(* Properties.                                                              *)

(* The state is made of revisions, requests and loop states of their shapes. *)
TypeOK ==
  /\ log \in Seq(Log!Revision)
  /\ requests \subseteq Request
  /\ known \in [Devices -> [Entries -> Nat]]
  /\ checkpoint \in [Devices -> Nat]
  /\ pending \in [Devices -> [Entries -> Edit]]
  /\ made \subseteq Mutations
  /\ pull \in [Devices -> [Pullers -> Pull]]
  /\ push \in [Devices -> Push]

(* "every server entry state with updated_seq <= N has been processed        *)
(* without gaps": the device knows each entry whose newest revision its      *)
(* checkpoint covers at that revision or a later one.                        *)
CheckpointGapFree ==
  \A d \in Devices, e \in Entries :
    HeadPosition(e) <= checkpoint[d] => known[d][e] >= CurrentRevision(e)

(* No device ever believes in a cursor or a revision the vault has not       *)
(* reached: the vault would refuse its pulls for good (cursor_ahead_of_      *)
(* server), and its push would take the vault for a rolled back one          *)
(* (handleLocalAheadConflict).                                               *)
NeverAheadOfServer ==
  \A d \in Devices :
    /\ checkpoint[d] <= Len(log)
    /\ \A e \in Entries : /\ known[d][e] <= CurrentRevision(e)
                          /\ pending[d][e].base <= CurrentRevision(e)

(* A late acknowledgement or an overtaken page never takes a device back to  *)
(* an older revision of an entry.                                            *)
KnownNeverRollsBack ==
  [][\A d \in Devices, e \in Entries : known'[d][e] >= known[d][e]]_vars
=============================================================================

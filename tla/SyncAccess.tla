----------------------------- MODULE SyncAccess -----------------------------
(***************************************************************************)
(* Who may sync a vault, and how a change of that reaches the vault's       *)
(* coordinator.  The control database holds the organization's members,     *)
(* their enrollments with an access version, the plan, and one durable      *)
(* refresh task of the vault.  Tokens carry the access version they were    *)
(* issued with and live for TTL.  The coordinator never reads the control   *)
(* database to check a token: it keeps short blocks that a refresh writes   *)
(* from a snapshot, and closes the sockets they deny.                       *)
(*                                                                          *)
(* Time is what remains to be lived: a token, a prepared handshake and a    *)
(* block carry the time units left to them, which Tick takes from all.      *)
(***************************************************************************)
EXTENDS Naturals, Sequences, FiniteSets, SequencesExt, FiniteSetsExt

CONSTANTS Users,          \* members the organization may have, besides its owner
          Flushers,       \* requests and scheduled runs that deliver refreshes
          TTL,            \* token lifetime, in time units
          MaxVersion,     \* bound on an enrollment's access version
          MaxRevision,    \* bound on the refresh tasks ever queued
          MaxPlanChanges, \* bound on the times the plan lapses or is renewed
          MaxQueue,       \* bound on the refreshes waiting at the coordinator
          MaxFaults       \* bound on lost calls, failed steps and restarts

BoundsAssumption ==
  /\ TTL \in Nat \ {0}
  /\ {MaxVersion, MaxRevision, MaxPlanChanges, MaxQueue, MaxFaults} \subseteq Nat

VARIABLES member,     \* users that are members of the organization
          grant,      \* user -> enrollment: status and access version
          keyRequest, \* user -> access version of its open key request, 0 for none
          lapsed,     \* the plan no longer includes sharing
          revision,   \* of the vault's refresh task, 0 when there is none
          issue,      \* user -> token being issued: how far, and the version read
          token,      \* user -> version -> life left to its youngest token
          flusher,    \* flusher -> what it awaits and the revision it read
          hook,       \* the subscription notification: "idle", "due", "calling"
          queue,      \* refreshTail: refreshes in the order they were asked for
          block,      \* user -> revocation: lowest version accepted and life left
          suspension, \* life left to the vault-wide block
          shake,      \* user -> handshake being prepared: version and life left
          sockets,    \* open sockets, by user and version
          bound       \* how much of each bound is used up

control == <<member, grant, keyRequest, lapsed>>
coordinator == <<block, suspension, sockets>>
vars == <<control, revision, issue, token, flusher, hook, queue, coordinator, shake, bound>>

Versions == 1..MaxVersion
NoIssue == [at |-> "none", version |-> 0]
NoShake == [version |-> 0, life |-> 0]
NoBlock == [least |-> 0, life |-> 0]
Idle == [pc |-> "idle", revision |-> 0]

TypeOK ==
  /\ member \subseteq Users
  /\ grant \in [Users -> [status : {"none", "pending_key", "active", "revoked"},
                          version : 0..MaxVersion]]
  /\ keyRequest \in [Users -> 0..MaxVersion]
  /\ lapsed \in BOOLEAN
  /\ revision \in 0..MaxRevision
  /\ issue \in [Users -> [at : {"none", "granted", "allowed"}, version : 0..MaxVersion]]
  /\ token \in [Users -> [Versions -> 0..TTL]]
  /\ flusher \in [Flushers -> [pc : {"idle", "calling", "refreshed"}, revision : 0..MaxRevision]]
  /\ hook \in {"idle", "due", "calling"}
  /\ queue \in Seq([by : Flushers \cup {"hook", "lost"},
                    read : {"nothing", "grants", "all"},
                    grants : [Users -> 0..MaxVersion],
                    suspended : BOOLEAN])
  /\ block \in [Users -> [least : 0..MaxVersion, life : 0..TTL]]
  /\ suspension \in 0..TTL
  /\ shake \in [Users -> [version : 0..MaxVersion, life : 0..TTL]]
  /\ sockets \subseteq Users \X Versions
  /\ bound \in [revisions : 0..MaxRevision, plan : 0..MaxPlanChanges, faults : 0..MaxFaults]

Init ==
  /\ member \in SUBSET Users
  /\ grant = [u \in Users |-> IF u \in member THEN [status |-> "active", version |-> 1]
                              ELSE [status |-> "none", version |-> 0]]
  /\ keyRequest = [u \in Users |-> 0]
  /\ lapsed = FALSE
  /\ revision = 0
  /\ issue = [u \in Users |-> NoIssue]
  /\ token = [u \in Users |-> [v \in Versions |-> 0]]
  /\ flusher = [f \in Flushers |-> Idle]
  /\ hook = "idle"
  /\ queue = << >>
  /\ block = [u \in Users |-> NoBlock]
  /\ suspension = 0
  /\ shake = [u \in Users |-> NoShake]
  /\ sockets = {}
  /\ bound = [revisions |-> 0, plan |-> 0, faults |-> 0]

-----------------------------------------------------------------------------
\* The control database: members, enrollments, key requests, plan

\* A refresh task with a revision never used before; it replaces an older one.
QueueRefresh ==
  /\ bound.revisions < MaxRevision
  /\ bound' = [bound EXCEPT !.revisions = @ + 1]
  /\ revision' = bound'.revisions

\* One batch: the member, the refresh task and the invitation's acceptance.
AcceptInvitation(u) ==
  /\ u \notin member
  /\ ~lapsed
  /\ member' = member \cup {u}
  /\ QueueRefresh
  /\ UNCHANGED <<grant, keyRequest, lapsed, issue, token, flusher, hook, queue, coordinator, shake>>

\* A revoked enrollment comes back under a new version and without its key.
ensureVaultEnrollment(g) ==
  CASE g.status = "none" -> [status |-> "pending_key", version |-> 1]
    [] g.status = "revoked" -> [status |-> "pending_key", version |-> g.version + 1]
    [] OTHER -> g

\* startKeyRequest, up to the enrollment it ensures.
Enroll(u) ==
  /\ u \in member
  /\ ~lapsed
  /\ ensureVaultEnrollment(grant[u]).version <= MaxVersion
  /\ grant' = [grant EXCEPT ![u] = ensureVaultEnrollment(@)]
  /\ UNCHANGED <<member, keyRequest, lapsed, revision, issue, token, flusher, hook, queue,
                 coordinator, shake, bound>>

\* The rest of startKeyRequest: a request that names the version just read.  The
\* member may be removed, and even be back, between the read and the insertion.
PlaceKeyRequest(u, version) ==
  /\ version \in 1..grant[u].version
  /\ keyRequest' = [keyRequest EXCEPT ![u] = version]
  /\ UNCHANGED <<member, grant, lapsed, revision, issue, token, flusher, hook, queue,
                 coordinator, shake, bound>>

RequestIsCurrent(u) ==
  /\ u \in member
  /\ grant[u].version = keyRequest[u]
  /\ grant[u].status \in {"pending_key", "active"}

\* An approved request activates the enrollment and queues a refresh, unless the
\* API is gone before it has queued it.
CompleteKeyRequest(u) ==
  /\ RequestIsCurrent(u)
  /\ grant' = [grant EXCEPT ![u].status = "active"]
  /\ keyRequest' = [keyRequest EXCEPT ![u] = 0]
  /\ QueueRefresh \/ UNCHANGED <<revision, bound>>
  /\ UNCHANGED <<member, lapsed, issue, token, flusher, hook, queue, coordinator, shake>>

\* One batch: the enrollment is revoked under its next version, the key request
\* canceled, the refresh queued and the member deleted.
RemoveMember(u) ==
  /\ u \in member
  /\ grant[u].version < MaxVersion
  /\ grant' = IF grant[u].status \in {"none", "revoked"} THEN grant
              ELSE [grant EXCEPT ![u] = [status |-> "revoked", version |-> @.version + 1]]
  /\ keyRequest' = [keyRequest EXCEPT ![u] = 0]
  /\ member' = member \ {u}
  /\ QueueRefresh
  /\ UNCHANGED <<lapsed, issue, token, flusher, hook, queue, coordinator, shake>>

\* The subscription lapses or is renewed, which is notified to the vault.  A call
\* made for an earlier change no longer matters to the notification.
ChangePlan ==
  /\ bound.plan < MaxPlanChanges
  /\ lapsed' = ~lapsed
  /\ hook' = "due"
  /\ queue' = [i \in DOMAIN queue |->
                 IF queue[i].by = "hook" THEN [queue[i] EXCEPT !.by = "lost"] ELSE queue[i]]
  /\ bound' = [bound EXCEPT !.plan = @ + 1]
  /\ UNCHANGED <<member, grant, keyRequest, revision, issue, token, flusher, coordinator, shake>>

-----------------------------------------------------------------------------
\* Issuing a token: three reads of the control database, then the signature

ReadGrant(u) ==
  /\ issue[u] = NoIssue
  /\ grant[u].status = "active"
  /\ issue' = [issue EXCEPT ![u] = [at |-> "granted", version |-> grant[u].version]]
  /\ UNCHANGED <<control, revision, token, flusher, hook, queue, coordinator, shake, bound>>

CheckMember(u) ==
  /\ issue[u].at = "granted"
  /\ u \in member
  /\ ~lapsed
  /\ issue' = [issue EXCEPT ![u].at = "allowed"]
  /\ UNCHANGED <<control, revision, token, flusher, hook, queue, coordinator, shake, bound>>

SignToken(u) ==
  /\ issue[u].at = "allowed"
  /\ token' = [token EXCEPT ![u][issue[u].version] = TTL]
  /\ issue' = [issue EXCEPT ![u] = NoIssue]
  /\ UNCHANGED <<control, revision, flusher, hook, queue, coordinator, shake, bound>>

RefuseToken(u) ==
  /\ issue[u].at = "granted"
  /\ u \notin member \/ lapsed
  /\ issue' = [issue EXCEPT ![u] = NoIssue]
  /\ UNCHANGED <<control, revision, token, flusher, hook, queue, coordinator, shake, bound>>

-----------------------------------------------------------------------------
\* The coordinator's refreshes

Refresh(who) == [by |-> who, read |-> "nothing",
                 grants |-> [u \in Users |-> 0], suspended |-> FALSE]

\* flushSharingRefreshes lists the task and asks the coordinator for a refresh.
Call(f) ==
  /\ flusher[f].pc = "idle"
  /\ revision # 0
  /\ Len(queue) < MaxQueue
  /\ flusher' = [flusher EXCEPT ![f] = [pc |-> "calling", revision |-> revision]]
  /\ queue' = Append(queue, Refresh(f))
  /\ UNCHANGED <<control, revision, issue, token, hook, coordinator, shake, bound>>

\* The subscription notification sends the policy, which refreshes first.
HookCall ==
  /\ hook = "due"
  /\ Len(queue) < MaxQueue
  /\ hook' = "calling"
  /\ queue' = Append(queue, Refresh("hook"))
  /\ UNCHANGED <<control, revision, issue, token, flusher, coordinator, shake, bound>>

\* Faulty variant: refreshes run side by side.
AnyTurn(i) == TRUE

\* A refresh starts when the one before it in refreshTail has ended.
Turn(i) == i = 1

ReadGrants(i) ==
  /\ Turn(i)
  /\ queue[i].read = "nothing"
  /\ queue' = [queue EXCEPT ![i].read = "grants",
                            ![i].grants = [u \in Users |-> grant[u].version]]
  /\ UNCHANGED <<control, revision, issue, token, flusher, hook, coordinator, shake, bound>>

ReadPolicy(i) ==
  /\ queue[i].read = "grants"
  /\ queue' = [queue EXCEPT ![i].read = "all", ![i].suspended = lapsed]
  /\ UNCHANGED <<control, revision, issue, token, flusher, hook, coordinator, shake, bound>>

\* What a caller learns when its refresh ends.
Answer(i, ok) ==
  LET who == queue[i].by IN
  /\ flusher' = IF who \notin Flushers THEN flusher
                ELSE [flusher EXCEPT ![who] = IF ok THEN [@ EXCEPT !.pc = "refreshed"] ELSE Idle]
  /\ hook' = IF who # "hook" THEN hook ELSE IF ok THEN "idle" ELSE "due"
  /\ queue' = RemoveAt(queue, i)

\* Faulty variant: the block only outlives the token's second half.
BlockedShort(us, grants) ==
  [u \in Users |->
     IF u \in us /\ grants[u] > 1
       THEN [least |-> Max({grants[u], block[u].least}), life |-> TTL \div 2]
       ELSE block[u]]

\* Faulty variant: every refresh adds a lifetime to the block.
BlockedLonger(us, grants) ==
  [u \in Users |->
     IF u \in us /\ grants[u] > 1
       THEN [least |-> Max({grants[u], block[u].least}), life |-> block[u].life + TTL]
       ELSE block[u]]

\* The blocks after the enrollments of the users us have been written.  A version
\* that was never raised needs no block.
Blocked(us, grants) ==
  [u \in Users |->
     IF u \in us /\ grants[u] > 1
       THEN [least |-> Max({grants[u], block[u].least}), life |-> TTL]
       ELSE block[u]]

DeniedBy(blocks, suspended, u, version) ==
  suspended > 0 \/ (blocks[u].life > 0 /\ version < blocks[u].least)

Denied(u, version) == DeniedBy(block, suspension, u, version)

\* Faulty variant: renewal leaves the vault-wide block to expire by itself.
NextSuspensionKept(snapshot) == IF snapshot.suspended THEN TTL ELSE suspension

\* The vault-wide block after a snapshot is applied: renewal lifts it.
NextSuspension(snapshot) == IF snapshot.suspended THEN TTL ELSE 0

\* The whole snapshot is stored and the sockets it denies are closed.
Apply(i) ==
  /\ queue[i].read = "all"
  /\ block' = Blocked(Users, queue[i].grants)
  /\ suspension' = NextSuspension(queue[i])
  /\ sockets' = {s \in sockets : ~DeniedBy(block', suspension', s[1], s[2])}
  /\ Answer(i, TRUE)
  /\ UNCHANGED <<control, revision, issue, token, shake, bound>>

Fault ==
  /\ bound.faults < MaxFaults
  /\ bound' = [bound EXCEPT !.faults = @ + 1]

\* The control database does not answer.
FailRead(i) ==
  /\ Turn(i)
  /\ queue[i].read # "all"
  /\ Fault
  /\ Answer(i, FALSE)
  /\ UNCHANGED <<control, revision, issue, token, coordinator, shake>>

\* Storage fails after some blocks are written; the cache is reloaded from what is
\* stored, no socket is closed, the caller learns of the failure.
FailApply(i) ==
  /\ queue[i].read = "all"
  /\ Fault
  /\ \E us \in SUBSET Users : block' = Blocked(us, queue[i].grants)
  /\ Answer(i, FALSE)
  /\ UNCHANGED <<control, revision, issue, token, suspension, sockets, shake>>

\* A caller's request is lost, or it stops waiting; the refresh goes on alone.
LoseAnswer(f) ==
  /\ flusher[f].pc = "calling"
  /\ Fault
  /\ flusher' = [flusher EXCEPT ![f] = Idle]
  /\ queue' = [i \in DOMAIN queue |->
                 IF queue[i].by = f THEN [queue[i] EXCEPT !.by = "lost"] ELSE queue[i]]
  /\ UNCHANGED <<control, revision, issue, token, hook, coordinator, shake>>

\* Faulty variant: the task ends with any refresh, whatever was queued meanwhile.
TaskAfterAny(rev) == 0

\* Faulty variant: only a task with another revision ends.
TaskAfterOther(rev) == IF revision = rev THEN revision ELSE 0

\* A newer change queued during the refresh survives its completion.
TaskAfter(rev) == IF revision = rev THEN 0 ELSE revision

FinishRefresh(f) ==
  /\ flusher[f].pc = "refreshed"
  /\ revision' = TaskAfter(flusher[f].revision)
  /\ flusher' = [flusher EXCEPT ![f] = Idle]
  /\ UNCHANGED <<control, issue, token, hook, queue, coordinator, shake, bound>>

\* The object is evicted: waiting refreshes and handshakes fail, blocks are stored,
\* and sockets survive a hibernation or are lost with the process.
Restart ==
  /\ Fault
  /\ queue' = << >>
  /\ flusher' = [f \in Flushers |-> IF flusher[f].pc = "calling" THEN Idle ELSE flusher[f]]
  /\ hook' = IF hook = "calling" THEN "due" ELSE hook
  /\ shake' = [u \in Users |-> NoShake]
  /\ sockets' \in {sockets, {}}
  /\ UNCHANGED <<control, revision, issue, token, block, suspension>>

-----------------------------------------------------------------------------
\* Sockets and time

\* prepareSocketSession: the token is verified, then the vault's state is ensured.
Prepare(u, v) ==
  /\ shake[u] = NoShake
  /\ token[u][v] > 0
  /\ ~Denied(u, v)
  /\ shake' = [shake EXCEPT ![u] = [version |-> v, life |-> token[u][v]]]
  /\ UNCHANGED <<control, revision, issue, token, flusher, hook, queue, coordinator, bound>>

\* Faulty variant: the access checked with the token is not checked again.
SessionStillExpiring(u) == shake[u].life > 0

\* assertSessionAccess: the token still lives and no block denies it.
SessionAccess(u) == shake[u].life > 0 /\ ~Denied(u, shake[u].version)

\* Acceptance follows the recheck with nothing in between; the new socket supersedes
\* those of the same device.
AcceptSocket(u) ==
  /\ shake[u] # NoShake
  /\ \E superseded \in SUBSET {s \in sockets : s[1] = u} :
       sockets' = IF SessionAccess(u)
                    THEN (sockets \ superseded) \cup {<<u, shake[u].version>>}
                    ELSE sockets
  /\ shake' = [shake EXCEPT ![u] = NoShake]
  /\ UNCHANGED <<control, revision, issue, token, flusher, hook, queue, block, suspension, bound>>

\* A message on a socket a block denies closes it; a client may close any.
CloseSocket(s) ==
  /\ sockets' = sockets \ {s}
  /\ UNCHANGED <<control, revision, issue, token, flusher, hook, queue, block, suspension,
                 shake, bound>>

Less(n) == IF n = 0 THEN 0 ELSE n - 1

\* One time unit passes.  Issuing a token takes less than a unit: from the read of
\* the enrollment to the signature nothing ages.
Tick ==
  /\ \A u \in Users : issue[u] = NoIssue
  /\ token' = [u \in Users |-> [v \in Versions |-> Less(token[u][v])]]
  /\ shake' = [u \in Users |-> [shake[u] EXCEPT !.life = Less(@)]]
  /\ block' = [u \in Users |-> IF block[u].life <= 1 THEN NoBlock
                               ELSE [block[u] EXCEPT !.life = @ - 1]]
  /\ suspension' = Less(suspension)
  /\ UNCHANGED <<control, revision, issue, flusher, hook, queue, sockets, bound>>

Coordinate ==
  \E i \in DOMAIN queue : ReadGrants(i) \/ ReadPolicy(i) \/ Apply(i) \/ FailRead(i) \/ FailApply(i)

Next ==
  \/ \E u \in Users :
       \/ AcceptInvitation(u) \/ Enroll(u) \/ CompleteKeyRequest(u) \/ RemoveMember(u)
       \/ \E v \in Versions : PlaceKeyRequest(u, v) \/ Prepare(u, v)
       \/ ReadGrant(u) \/ CheckMember(u) \/ SignToken(u) \/ RefuseToken(u)
       \/ AcceptSocket(u)
  \/ \E f \in Flushers : Call(f) \/ LoseAnswer(f) \/ FinishRefresh(f)
  \/ ChangePlan \/ HookCall \/ Coordinate \/ Restart \/ Tick
  \/ \E s \in sockets : CloseSocket(s)

Spec == Init /\ [][Next]_vars

-----------------------------------------------------------------------------
\* Properties

\* Once no refresh task is pending, every open socket is that of an active member
\* at its current access version: a member who was removed, even one who is back,
\* has no socket left from before (removeOrganizationMember, refresh,
\* closeDeniedSockets, assertSessionAccess, finishRefresh).
SocketsAreMembers ==
  revision = 0 =>
    \A s \in sockets : grant[s[1]].status = "active" /\ grant[s[1]].version = s[2]

\* Once no refresh task is pending, a token of an earlier access version is refused
\* for as long as it lives: no block expires before the last token it is for.
OldTokensRefused ==
  revision = 0 =>
    \A u \in Users, v \in Versions :
      token[u][v] > 0 => Denied(u, v) \/ (grant[u].status = "active" /\ grant[u].version = v)

\* Once the notification of a lapsed plan has been delivered, the vault has no
\* open socket and accepts no token, although refreshes that read the plan before
\* it lapsed may still have been under way.
SuspensionEnforced ==
  lapsed /\ hook = "idle" =>
    sockets = {} /\ \A u \in Users, v \in Versions : token[u][v] > 0 => Denied(u, v)

\* Once the notification of a renewal has been delivered, no vault-wide block is
\* left, however the refreshes around it overlapped or failed.
RenewalLifts == ~lapsed /\ hook = "idle" => suspension = 0

\* A queued refresh is delivered in the end: lost calls, failed reads, partial
\* writes and restarts leave the task for a later run (flushSharingRefreshes).
RefreshDelivered == revision # 0 ~> revision = 0
=============================================================================

--------------------------- MODULE KeyEnrollment ---------------------------
(***************************************************************************)
(* A member of an organization gets the key of a vault.  A device keeps the *)
(* private half of a transfer key and sends a request; a manager approves it *)
(* with the vault key sealed for it; the device wraps that with a password  *)
(* and completes the request (SharingManager, SharingService and their       *)
(* stores).  Calls overlap, answers are lost, devices restart, and meanwhile *)
(* the member is removed and invited again, or changes the password.         *)
(***************************************************************************)
EXTENDS Naturals, FiniteSets

CONSTANTS
  Devices,       \* devices of the member
  Ids,           \* ids of key requests, with their pairs of keys
  Wrappers,      \* wrapped vault keys: a password and a salt of their own
  Calls,         \* requests the server handles at a time
  MaxRemovals,   \* Bound: removals from the organization
  MaxChanges,    \* Bound: changes of password
  MaxFaults,     \* Bound: answers lost and restarts of devices
  MaxExpiries,   \* Bound: pairs of keys that lapse
  MaxRestarts,   \* Bound: requests begun, given up or sent again without need
  None

VARIABLES
  member,     \* is the user a member of the organization?
  grant,      \* the row of vault_membership, or None
  wrapper,    \* the password wrapper that is not revoked, or None
  req,        \* [Ids -> key request]
  lapsed,     \* ids whose pair of keys is over its 48 hours
  expired,    \* ids whose key request is over its own
  receiver,   \* [Devices -> StoredKeyReceiver, or None]
  job,        \* [Devices -> what its dialog is doing]
  call,       \* [Calls -> request being handled]
  left,       \* what is left of the bounds
  used,       \* wrappers made so far
  given,      \* ids given up for another, or done, on their device
  stale,      \* ids asked for before the last removal
  outdated    \* ids whose requests are older than the last change of password, or
              \* were completed before another

vars == <<member, grant, wrapper, req, lapsed, expired, receiver, job, call, left, used, given, stale, outdated>>
server == <<member, grant, wrapper, req, lapsed, expired, stale, outdated>>

Open == {"pending", "approved"}
NoReq == [status |-> "none", version |-> 0]
Idle == [at |-> "idle"]

Grants == [status : {"pending_key", "active", "revoked"}, version : 1..(2 * MaxRemovals + 1)]
Reqs == [status : {"none", "pending", "approved", "canceled", "completed"}, version : 0..(2 * MaxRemovals + 1)]
Receivers == [id : Ids, prepared : Wrappers \cup {None}]

\* A device waits for the answer to the start or to the completion of a request.
Jobs == [at : {"start", "complete"}, id : Ids, call : Calls, answer : {"none", "ok", "over", "error"}]

\* A call and how far the server is with it; late is for NotResurrected: the user
\* was removed after the grant had been read.
Handled ==
  [at : {"ensure", "read"}, id : Ids]
  \cup [at : {"create"}, id : Ids, version : 1..(2 * MaxRemovals + 1), late : BOOLEAN]
  \cup [at : {"allow", "complete"}, id : Ids, wrapper : Wrappers]

\* What the proofs assume of the constants.
KeyAssumption ==
  /\ {MaxRemovals, MaxChanges, MaxFaults, MaxExpiries, MaxRestarts} \subseteq Nat
  /\ None \notin Wrappers /\ None \notin Grants /\ None \notin Receivers

TypeOK ==
  /\ member \in BOOLEAN
  /\ grant \in Grants \cup {None}
  /\ wrapper \in Wrappers \cup {None}
  /\ req \in [Ids -> Reqs]
  /\ receiver \in [Devices -> Receivers \cup {None}]
  /\ job \in [Devices -> Jobs \cup {Idle}]
  /\ call \in [Calls -> Handled \cup {Idle}]
  /\ lapsed \cup expired \cup given \cup stale \cup outdated \subseteq Ids
  /\ used \subseteq Wrappers

Init ==
  /\ member = TRUE
  /\ grant = None
  /\ wrapper = None
  /\ req = [i \in Ids |-> NoReq]
  /\ lapsed = {}
  /\ expired = {}
  /\ receiver = [d \in Devices |-> None]
  /\ job = [d \in Devices |-> Idle]
  /\ call = [c \in Calls |-> Idle]
  /\ left = [removals |-> MaxRemovals, changes |-> MaxChanges, faults |-> MaxFaults,
             expiries |-> MaxExpiries, restarts |-> MaxRestarts]
  /\ used = {}
  /\ given = {}
  /\ stale = {}
  /\ outdated = {}

IsOpen(i) == req[i].status \in Open /\ i \notin expired

\* No pair of keys was made with this id.
Fresh(i) ==
  /\ req[i] = NoReq
  /\ \A d \in Devices : receiver[d] # None => receiver[d].id # i
  /\ \A d \in Devices : job[d] # Idle => job[d].id # i
  /\ \A c \in Calls : call[c] # Idle => call[c].id # i
  /\ i \notin given \cup lapsed

\* vaultEnrollmentStatus(): what is no more counts as not yet.
Status == IF grant = None \/ grant.status = "revoked" THEN "pending_key" ELSE grant.status

-----------------------------------------------------------------------------
(* The server: startKeyRequest(), completeKeyRequest().                      *)

\* The device that waits for the call, if it still does, has its answer.
Answered(c, answer) ==
  /\ call' = [call EXCEPT ![c] = Idle]
  /\ job' = [d \in Devices |-> IF job[d] # Idle /\ job[d].call = c /\ job[d].answer = "none"
                               THEN [job[d] EXCEPT !.answer = answer] ELSE job[d]]

\* Faulty variant: a grant that was revoked is taken up again as it was.
EnrolledAgain ==
  IF grant = None THEN [status |-> "pending_key", version |-> 1]
  ELSE IF grant.status = "revoked" THEN [status |-> "pending_key", version |-> grant.version - 1]
  ELSE grant

\* Faulty variant: the first version is the column's default.
EnrolledFromZero ==
  IF grant = None THEN [status |-> "pending_key", version |-> 0]
  ELSE IF grant.status = "revoked" THEN [status |-> "pending_key", version |-> grant.version + 1]
  ELSE grant

\* Faulty variant: a grant that was revoked stays revoked.
EnrolledOnce == IF grant = None THEN [status |-> "pending_key", version |-> 1] ELSE grant

\* The row that ensureVaultEnrollment() leaves.
Enrolled ==
  IF grant = None THEN [status |-> "pending_key", version |-> 1]
  ELSE IF grant.status = "revoked" THEN [status |-> "pending_key", version |-> grant.version + 1]
  ELSE grant

ensureVaultEnrollment(c) ==
  /\ call[c].at = "ensure"
  /\ IF member
     THEN /\ grant' = Enrolled
          /\ call' = [call EXCEPT ![c].at = "read"]
          /\ UNCHANGED job
     ELSE /\ Answered(c, "error")
          /\ UNCHANGED grant
  /\ UNCHANGED <<member, wrapper, req, lapsed, expired, stale, outdated, receiver, left, used, given>>

\* The grant and an existing request of this id are read.
startRead(c) ==
  /\ call[c].at = "read"
  /\ IF ~member
     THEN Answered(c, "error")
     ELSE IF req[call[c].id] # NoReq
     THEN Answered(c, IF req[call[c].id].status = "canceled" THEN "over" ELSE "ok")
     ELSE /\ call' = [call EXCEPT ![c] = [at |-> "create", id |-> call[c].id, version |-> grant.version,
                                           late |-> FALSE]]
          /\ UNCHANGED job
  /\ UNCHANGED <<server, receiver, left, used, given>>

\* Faulty variant: the requests that are open stay so.
CreatedBeside(i, version) == [req EXCEPT ![i] = [status |-> "pending", version |-> version]]

\* The open requests are canceled and the new one is there.
Created(i, version) ==
  [j \in Ids |-> IF j = i THEN [status |-> "pending", version |-> version]
                 ELSE IF req[j].status \in Open THEN [req[j] EXCEPT !.status = "canceled"]
                 ELSE req[j]]

createKeyRequest(c) ==
  /\ call[c].at = "create"
  /\ IF req[call[c].id] = NoReq
     THEN /\ req' = Created(call[c].id, call[c].version)
          /\ stale' = IF call[c].late THEN stale \cup {call[c].id} ELSE stale
          /\ Answered(c, "ok")
     ELSE UNCHANGED <<req, stale>> /\ Answered(c, "error")
  /\ UNCHANGED <<member, grant, wrapper, lapsed, expired, outdated, receiver, left, used, given>>

\* The request is read; one that is completed is so for this wrapper only.
completeAllowed(c) ==
  /\ call[c].at = "allow"
  /\ IF ~member \/ req[call[c].id] = NoReq
     THEN Answered(c, "error")
     ELSE IF req[call[c].id].status = "completed"
     THEN Answered(c, IF wrapper = call[c].wrapper THEN "ok" ELSE "error")
     ELSE /\ call' = [call EXCEPT ![c].at = "complete"]
          /\ UNCHANGED job
  /\ UNCHANGED <<server, receiver, left, used, given>>

\* Faulty variant: what was approved when it was read is completed.
CompletableOnceApproved(i) ==
  /\ req[i].status \in {"approved", "canceled"}
  /\ i \notin expired
  /\ member /\ grant # None /\ grant.version = req[i].version /\ grant.status # "revoked"

\* What the statements of the batch ask for.
Completable(i) ==
  /\ req[i].status = "approved"
  /\ i \notin expired
  /\ member /\ grant # None /\ grant.version = req[i].version /\ grant.status # "revoked"

completeKeyRequest(c) ==
  /\ call[c].at = "complete"
  /\ LET i == call[c].id
     IN  IF Completable(i)
         THEN /\ wrapper' = call[c].wrapper
              /\ grant' = [grant EXCEPT !.status = "active"]
              /\ req' = [req EXCEPT ![i].status = "completed"]
              /\ outdated' = outdated \cup {j \in Ids : req[j].status = "completed"}
              /\ Answered(c, "ok")
         ELSE Answered(c, "error") /\ UNCHANGED <<wrapper, grant, req, outdated>>
  /\ UNCHANGED <<member, lapsed, expired, stale, receiver, left, used, given>>

\* A manager has compared the code and sends the sealed key.
approveKeyRequest(i) ==
  /\ req[i].status = "pending"
  /\ i \notin expired
  /\ member /\ grant # None /\ grant.version = req[i].version /\ grant.status # "revoked"
  /\ req' = [req EXCEPT ![i].status = "approved"]
  /\ UNCHANGED <<member, grant, wrapper, lapsed, expired, stale, outdated, receiver, job, call, left, used, given>>

NewWrapper == CHOOSE w \in Wrappers : w \notin used

\* Faulty variant: a change of password leaves open requests alone.
AfterChangeKept == req

AfterChange ==
  [j \in Ids |-> IF req[j].status \in Open THEN [req[j] EXCEPT !.status = "canceled"] ELSE req[j]]

\* upsertPasswordWrapperForUser(), from a device that has the key.
changePassword ==
  /\ left.changes > 0
  /\ member /\ grant # None /\ grant.status = "active"
  /\ used # Wrappers
  /\ wrapper' = NewWrapper
  /\ used' = used \cup {NewWrapper}
  /\ req' = AfterChange
  /\ outdated' = {j \in Ids : req[j] # NoReq}
  /\ left' = [left EXCEPT !.changes = @ - 1]
  /\ UNCHANGED <<member, grant, lapsed, expired, stale, receiver, job, call, given>>

\* Faulty variant: the wrapper of a member who is removed stays.
RevokedWrapperKept == wrapper

RevokedWrapper == None

removeOrganizationMember ==
  /\ member
  /\ left.removals > 0
  /\ member' = FALSE
  /\ grant' = IF grant = None \/ grant.status = "revoked" THEN grant
              ELSE [status |-> "revoked", version |-> grant.version + 1]
  /\ wrapper' = RevokedWrapper
  /\ req' = [j \in Ids |-> IF req[j] = NoReq THEN NoReq ELSE [req[j] EXCEPT !.status = "canceled"]]
  /\ stale' = {j \in Ids : req[j] # NoReq}
  /\ call' = [c \in Calls |-> IF call[c].at = "create" THEN [call[c] EXCEPT !.late = TRUE] ELSE call[c]]
  /\ left' = [left EXCEPT !.removals = @ - 1]
  /\ UNCHANGED <<lapsed, expired, outdated, receiver, job, used, given>>

\* The member accepts another invitation.
invitedAgain ==
  /\ ~member
  /\ member' = TRUE
  /\ UNCHANGED <<grant, wrapper, req, lapsed, expired, stale, outdated, receiver, job, call, left, used, given>>

\* 48 hours after a device made the pair of keys.
lapse(i) ==
  /\ i \notin lapsed /\ ~Fresh(i)
  /\ left.expiries > 0
  /\ lapsed' = lapsed \cup {i}
  /\ left' = [left EXCEPT !.expiries = @ - 1]
  /\ UNCHANGED <<member, grant, wrapper, req, expired, stale, outdated, receiver, job, call, used, given>>

\* 48 hours after the server created the request, which may be long after: the
\* first call to start may be lost and sent again with the pair that was kept.
\* The clocks of device and server agree.
expire(i) ==
  /\ req[i] # NoReq
  /\ i \in lapsed \ expired
  /\ expired' = expired \cup {i}
  /\ UNCHANGED <<member, grant, wrapper, req, lapsed, stale, outdated, receiver, job, call, left, used, given>>

pruneExpiredRequests ==
  /\ \E i \in expired : req[i].status \in Open
  /\ req' = [i \in Ids |-> IF i \in expired /\ req[i].status \in Open
                           THEN [req[i] EXCEPT !.status = "canceled"] ELSE req[i]]
  /\ UNCHANGED <<member, grant, wrapper, lapsed, expired, stale, outdated, receiver, job, call, left, used, given>>

-----------------------------------------------------------------------------
(* The devices: the dialog, begin(), restart(), receive().                   *)

HasReceiver(d) == receiver[d] # None /\ receiver[d].id \notin lapsed

\* localRequest(): what the dialog knows when it is idle.
Shown(d) ==
  IF ~HasReceiver(d) THEN "nothing"
  ELSE IF req[receiver[d].id] = NoReq THEN "error" ELSE req[receiver[d].id].status

\* The request is offered to a member without a key, or who asks for recovery.
Wanted(d) == member /\ job[d] = Idle

\* Faulty variant: the new pair of keys is kept once the server has answered.
PersistedLater(d, i) == receiver

\* Persisted before the request is sent.
Persisted(d, i) == [receiver EXCEPT ![d] = [id |-> i, prepared |-> None]]

Sends(d, at, handled) ==
  LET c == CHOOSE k \in Calls : call[k] = Idle
  IN  /\ \E k \in Calls : call[k] = Idle
      /\ call' = [call EXCEPT ![c] = handled]
      /\ job' = [job EXCEPT ![d] = [at |-> at, id |-> handled.id, call |-> c, answer |-> "none"]]

NewId == CHOOSE i \in Ids : Fresh(i)

\* begin() with a new pair of keys.
beginNew(d) ==
  /\ Wanted(d)
  /\ Shown(d) = "nothing"
  /\ \E i \in Ids : Fresh(i)
  /\ receiver' = Persisted(d, NewId)
  /\ IF Status = "active"
     THEN left.restarts > 0 /\ left' = [left EXCEPT !.restarts = @ - 1] ELSE UNCHANGED left
  /\ Sends(d, "start", [at |-> "ensure", id |-> NewId])
  /\ UNCHANGED <<server, used, given>>

\* begin() once more with the pair that is kept: its request or the answer was lost.
beginKept(d) ==
  /\ Wanted(d)
  /\ Shown(d) # "nothing"
  /\ IF Shown(d) = "error" THEN UNCHANGED left
     ELSE left.restarts > 0 /\ left' = [left EXCEPT !.restarts = @ - 1]
  /\ Sends(d, "start", [at |-> "ensure", id |-> receiver[d].id])
  /\ UNCHANGED <<server, receiver, used, given>>

\* The request of the device is over, or is for a grant that is no more.
Hopeless(d) ==
  \/ Shown(d) = "canceled"
  \/ Shown(d) = "pending" /\ (grant.version # req[receiver[d].id].version \/ grant.status = "revoked")

\* restart(): offered while a request waits, or is canceled, or is not found.
restart(d) ==
  /\ Wanted(d)
  /\ Shown(d) \in {"pending", "canceled", "error"}
  /\ IF Hopeless(d) THEN UNCHANGED left
     ELSE left.restarts > 0 /\ left' = [left EXCEPT !.restarts = @ - 1]
  /\ given' = given \cup {receiver[d].id}
  /\ \E i \in Ids : Fresh(i)
  /\ receiver' = Persisted(d, NewId)
  /\ Sends(d, "start", [at |-> "ensure", id |-> NewId])
  /\ UNCHANGED <<server, used>>

\* What begin() does with the answer: a pair whose request is over is forgotten.
started(d) ==
  /\ job[d] # Idle
  /\ job[d].at = "start"
  /\ job[d].answer # "none"
  /\ LET over == job[d].answer = "over" \/ (job[d].answer = "ok" /\ job[d].id \in expired)
     IN  receiver' = IF over THEN [receiver EXCEPT ![d] = None] ELSE receiver
  /\ job' = [job EXCEPT ![d] = Idle]
  /\ UNCHANGED <<server, call, left, used, given>>

\* Faulty variant: the wrapper is made anew each time it is sent.
PreparedKept(d, w) == receiver

\* Kept before it is sent.
Prepared(d, w) == [receiver EXCEPT ![d].prepared = w]

\* receive(): the approved key is wrapped, once, and the request completed.
receive(d) ==
  /\ Wanted(d)
  /\ \/ Shown(d) = "approved"
     \/ Shown(d) = "completed" /\ receiver[d].prepared # None
  /\ receiver[d].id \notin expired
  /\ LET w == IF receiver[d].prepared # None THEN receiver[d].prepared ELSE NewWrapper
     IN  /\ receiver[d].prepared # None \/ used # Wrappers
         /\ used' = used \cup {w}
         /\ receiver' = Prepared(d, w)
         /\ Sends(d, "complete", [at |-> "allow", id |-> receiver[d].id, wrapper |-> w])
  /\ UNCHANGED <<server, left, given>>

received(d) ==
  /\ job[d] # Idle
  /\ job[d].at = "complete"
  /\ job[d].answer # "none"
  /\ IF job[d].answer = "ok"
     THEN receiver' = [receiver EXCEPT ![d] = None] /\ given' = given \cup {job[d].id}
     ELSE UNCHANGED <<receiver, given>>
  /\ job' = [job EXCEPT ![d] = Idle]
  /\ UNCHANGED <<server, call, left, used>>

\* The answer does not come, or the device restarts; the server goes on.
lost(d) ==
  /\ job[d] # Idle
  /\ left.faults > 0
  /\ left' = [left EXCEPT !.faults = @ - 1]
  /\ job' = [job EXCEPT ![d] = Idle]
  /\ UNCHANGED <<server, receiver, call, used, given>>

\* A call does not reach the server.
unsent(d) ==
  /\ job[d] # Idle
  /\ job[d].answer = "none"
  /\ call[job[d].call] # Idle /\ call[job[d].call].at \in {"ensure", "allow"}
  /\ left.faults > 0
  /\ left' = [left EXCEPT !.faults = @ - 1]
  /\ call' = [call EXCEPT ![job[d].call] = Idle]
  /\ job' = [job EXCEPT ![d] = Idle]
  /\ UNCHANGED <<server, receiver, used, given>>

Serve(c) ==
  ensureVaultEnrollment(c) \/ startRead(c) \/ createKeyRequest(c) \/ completeAllowed(c) \/ completeKeyRequest(c)

Dialog(d) == beginNew(d) \/ beginKept(d) \/ restart(d) \/ started(d) \/ receive(d) \/ received(d)

Next ==
  \/ \E c \in Calls : Serve(c)
  \/ \E i \in Ids : approveKeyRequest(i) \/ lapse(i) \/ expire(i)
  \/ changePassword \/ removeOrganizationMember \/ invitedAgain \/ pruneExpiredRequests
  \/ \E d \in Devices : Dialog(d) \/ lost(d) \/ unsent(d)

Spec == Init /\ [][Next]_vars

\* The server goes on with what it handles; the member follows the dialog, asks
\* anew when a request is over, and a manager approves what can be approved.
FairSpec ==
  /\ Spec
  /\ \A c \in Calls : WF_vars(Serve(c))
  /\ \A i \in Ids : WF_vars(approveKeyRequest(i))
  /\ \A d \in Devices :
       /\ WF_vars(beginNew(d)) /\ WF_vars(Shown(d) = "error" /\ beginKept(d))
       /\ WF_vars(Hopeless(d) /\ restart(d))
       /\ WF_vars(started(d)) /\ WF_vars(receive(d)) /\ WF_vars(received(d))

-----------------------------------------------------------------------------

\* Only members have a key, and exactly those who are enrolled: however the
\* completion of a request meets a removal, neither is left without the other.
KeyIffEnrolled ==
  /\ wrapper # None <=> grant # None /\ grant.status = "active"
  /\ wrapper # None => member

\* A user has one open request: the one asked for last cancels the others.
OneOpenRequest == Cardinality({i \in Ids : req[i].status \in Open}) <= 1

Completes(i) == req[i].status # "completed" /\ req'[i].status = "completed"

\* Who was removed gets the key again only by a request made since: none that
\* was open, approved or being made before enrolls the renewed membership.
NotResurrected == [][\A i \in Ids : Completes(i) => i \notin stale]_vars

\* A request that is older than the last change of password does not replace it.
PasswordKept == [][\A i \in Ids : Completes(i) => i \notin outdated]_vars

\* The device that asked still has the private half of every open request, also
\* if the answer was lost or the device restarted, unless its user gave it up or
\* the pair of keys has lapsed.
KeyNotOrphaned ==
  \A i \in Ids : IsOpen(i) /\ i \notin given \cup lapsed =>
    \E d \in Devices : receiver[d] # None /\ receiver[d].id = i

\* Whatever is open can still be completed by the device that asked.  It does not
\* hold: a request is open for 48 hours from its own creation, and outlives the
\* pair of keys whose first call was lost.
UsableWhileOpen ==
  \A i \in Ids : IsOpen(i) /\ i \notin given =>
    \E d \in Devices : HasReceiver(d) /\ receiver[d].id = i

\* The wrapper of a completed request is kept by its device until that knows: the
\* completion can be tried again after its answer was lost.
CompletionRepeatable ==
  \A i \in Ids : req[i].status = "completed" /\ i \notin outdated \cup given \cup lapsed =>
    \E d \in Devices : receiver[d] = [id |-> i, prepared |-> wrapper]

\* A member without the key gets it or is removed.
Enrolls == member /\ Status # "active" ~> Status = "active" \/ ~member
=============================================================================

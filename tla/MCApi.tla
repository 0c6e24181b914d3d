------------------------------- MODULE MCApi -------------------------------
(***************************************************************************)
(* The control plane: the members of an organization, the keys they are     *)
(* given, and the life of its vaults.  They share no state in the models:   *)
(* each is checked while the others stand still.                            *)
(***************************************************************************)
EXTENDS Organization

CONSTANT None   \* no grant, wrapper or key

VARIABLES
  part,     \* which of them runs, on which instance
  member, grant, wrapper, req, lapsed, expired, receiver, job, keyCall, left, used, given, stale, outdated,
  row, status, name, shared, content, changed, reported, free, creator, deleter, scan, queue,
  purge, noticed, contended, sent, bound

keyVars == <<member, grant, wrapper, req, lapsed, expired, receiver, job, keyCall, left, used, given,
             stale, outdated>>
vaultVars == <<row, status, name, shared, content, changed, reported, free, creator, deleter,
               scan, queue, purge, noticed, contended, sent, bound>>

\* Two devices whose member is removed and invited again, and changes the password.
TwoDevices == INSTANCE KeyEnrollment
  WITH Devices <- {"d1", "d2"}, Ids <- 1 .. 3, Wrappers <- 1 .. 4, Calls <- {"c1", "c2"},
       MaxRemovals <- 1, MaxChanges <- 1, MaxFaults <- 0, MaxExpiries <- 0, MaxRestarts <- 2,
       call <- keyCall

\* One device, that loses an answer or restarts, with a change of password, and all else
\* but one thing: requests begun without need, removals, or pairs of keys that lapse.
Lossy == {"enrolling", "staying", "in time"}
Enrolling(p) == INSTANCE KeyEnrollment
  WITH Devices <- {"d1"}, Ids <- 1 .. 7, Wrappers <- 1 .. 7, Calls <- {"c1", "c2"},
       MaxRemovals <- IF p = "staying" THEN 0 ELSE 1, MaxChanges <- 1, MaxFaults <- 1,
       MaxExpiries <- IF p = "in time" THEN 0 ELSE 1, MaxRestarts <- IF p = "enrolling" THEN 0 ELSE 1,
       call <- keyCall

\* Two requests create vaults while another deletes one.
Creating == INSTANCE VaultLifecycle
  WITH Vaults <- {1, 2, 3}, Names <- {"a", "b"}, Existing <- {1}, Creators <- {"c1", "c2"},
       Deleters <- {"d1"}, Consumers <- {"p1"}, Scans <- {}, Inline <- FALSE, FreeLimit <- 1,
       PaidLimit <- 2, PageSize <- 1, MaxRetries <- 0, MaxFaults <- 0, MaxChanges <- 0

\* A manager deletes vaults; calls fail, consumers crash, messages come twice.
Deleting == INSTANCE VaultLifecycle
  WITH Vaults <- {1, 2}, Names <- {"a", "b"}, Existing <- {1, 2}, Creators <- {}, Deleters <- {"d1"},
       Consumers <- {"p1", "p2"}, Scans <- {}, Inline <- FALSE, FreeLimit <- 1, PaidLimit <- 3,
       PageSize <- 1, MaxRetries <- 2, MaxFaults <- 2, MaxChanges <- 0

\* Two managers delete the same vault at the same time.
Overlapping == INSTANCE VaultLifecycle
  WITH Vaults <- {1}, Names <- {"a"}, Existing <- {1}, Creators <- {}, Deleters <- {"d1", "d2"},
       Consumers <- {"p1", "p2"}, Scans <- {}, Inline <- FALSE, FreeLimit <- 1, PaidLimit <- 1,
       PageSize <- 1, MaxRetries <- 2, MaxFaults <- 2, MaxChanges <- 0

\* The scheduled run, with commits, sharing and a change of plan.
Retaining == INSTANCE VaultLifecycle
  WITH Vaults <- {1, 2, 3}, Names <- {"a", "b", "c"}, Existing <- {1, 2, 3}, Creators <- {},
       Deleters <- {}, Consumers <- {"p1"}, Scans <- {"scan"}, Inline <- FALSE, FreeLimit <- 3,
       PaidLimit <- 3, PageSize <- 1, MaxRetries <- 1, MaxFaults <- 1, MaxChanges <- 1

\* The community edition: a request purges by itself.
Inlined == INSTANCE VaultLifecycle
  WITH Vaults <- {1, 2, 3}, Names <- {"a", "b"}, Existing <- {1}, Creators <- {"c1"}, Deleters <- {"d1"},
       Consumers <- {}, Scans <- {}, Inline <- TRUE, FreeLimit <- 1, PaidLimit <- 2,
       PageSize <- 1, MaxRetries <- 0, MaxFaults <- 1, MaxChanges <- 0

ASSUME TwoDevices!KeyAssumption /\ \A p \in Lossy : Enrolling(p)!KeyAssumption

ASSUME /\ Creating!LifecycleAssumption /\ Deleting!LifecycleAssumption
       /\ Overlapping!LifecycleAssumption
       /\ Retaining!LifecycleAssumption /\ Inlined!LifecycleAssumption

Vault == {"creating", "deleting", "overlapping", "retaining", "inlined"}

MCInit ==
  /\ part \in {"members", "devices"} \cup Lossy \cup Vault
  /\ Init
  /\ IF part \in Lossy THEN \E p \in Lossy : part = p /\ Enrolling(p)!Init ELSE TwoDevices!Init
  /\ CASE part = "creating" -> Creating!Init
       [] part = "overlapping" -> Overlapping!Init
       [] part = "retaining" -> Retaining!Init
       [] part = "inlined" -> Inlined!Init
       [] OTHER -> Deleting!Init /\ (part # "deleting" => changed = {} /\ free = FALSE)

MCNext ==
  \/ part = "members" /\ Next /\ UNCHANGED <<part, keyVars, vaultVars>>
  \/ part = "devices" /\ TwoDevices!Next /\ UNCHANGED <<part, vars, vaultVars>>
  \/ \E p \in Lossy : part = p /\ Enrolling(p)!Next /\ UNCHANGED <<part, vars, vaultVars>>
  \/ part = "creating" /\ Creating!Next /\ UNCHANGED <<part, vars, keyVars>>
  \/ part = "deleting" /\ Deleting!Next /\ UNCHANGED <<part, vars, keyVars>>
  \/ part = "overlapping" /\ Overlapping!Next /\ UNCHANGED <<part, vars, keyVars>>
  \/ part = "retaining" /\ Retaining!Next /\ UNCHANGED <<part, vars, keyVars>>
  \/ part = "inlined" /\ Inlined!Next /\ UNCHANGED <<part, vars, keyVars>>

\* The server goes on with what it handles; the member follows the dialog, asks
\* anew when a request is over, and a manager approves what can be approved.  It
\* is enough that one of them goes on while one can.
KeyFairness ==
  WF_keyVars(\E p \in Lossy :
    /\ part = p
    /\ \/ \E c \in {"c1", "c2"} : Enrolling(p)!Serve(c)
       \/ \E i \in 1 .. 7 : Enrolling(p)!approveKeyRequest(i)
       \/ Enrolling(p)!beginNew("d1")
       \/ Enrolling(p)!Shown("d1") = "error" /\ Enrolling(p)!beginKept("d1")
       \/ Enrolling(p)!Hopeless("d1") /\ Enrolling(p)!restart("d1")
       \/ Enrolling(p)!started("d1")
       \/ Enrolling(p)!receive("d1")
       \/ Enrolling(p)!received("d1"))

\* Requests and runs go on, the schedule comes round and the queue delivers.
VaultFairness ==
  /\ WF_vaultVars(\/ part = "deleting" /\ Deleting!DeleteStep("d1")
                  \/ part = "overlapping" /\ \E d \in {"d1", "d2"} : Overlapping!DeleteStep(d)
                  \/ part = "retaining" /\ Retaining!ScanStep)
  /\ WF_vaultVars(\/ part = "deleting" /\ \E p \in {"p1", "p2"} : Deleting!PurgeStep(p)
                  \/ part = "overlapping" /\ \E p \in {"p1", "p2"} : Overlapping!PurgeStep(p)
                  \/ part = "retaining" /\ Retaining!PurgeStep("p1"))

MCSpec ==
  /\ MCInit /\ [][MCNext]_<<part, vars, keyVars, vaultVars>>
  /\ KeyFairness /\ VaultFairness

-----------------------------------------------------------------------------
(* The properties of the components, each in its part.                      *)

\* Every component keeps to its types.
TypesOK ==
  /\ TypeOK
  /\ TwoDevices!TypeOK \/ \E p \in Lossy : part = p /\ Enrolling(p)!TypeOK
  /\ CASE part = "creating" -> Creating!TypeOK
       [] part = "overlapping" -> Overlapping!TypeOK
       [] part = "retaining" -> Retaining!TypeOK
       [] part = "inlined" -> Inlined!TypeOK
       [] OTHER -> Deleting!TypeOK

\* A user has a key wrapper exactly while the grant is active, and only as a member.
KeyIffEnrolled == TwoDevices!KeyIffEnrolled
\* A user has at most one open key request.
OneOpenRequest == part = "devices" => TwoDevices!OneOpenRequest
\* The device that asked still has the private half of an open request (receiver).
KeyNotOrphaned == \A p \in Lossy : part = p => Enrolling(p)!KeyNotOrphaned
\* A completion whose answer was lost can be repeated.
CompletionRepeatable == \A p \in Lossy : part = p => Enrolling(p)!CompletionRepeatable
\* A grant that was revoked is not made active by a request from before.
NotResurrected == TwoDevices!NotResurrected
\* The wrapper stays of the password the member chose last.
PasswordKept == TwoDevices!PasswordKept

\* No vault is created beyond what the plan that was read allows.
CreatedWithinQuota == [][part = "creating" => Creating!CreatesWithinQuota]_vaultVars
\* Live vaults have different names.
LiveNamesDistinct == part \in {"creating", "inlined"} => Creating!LiveNamesDistinct
\* The row of a vault goes after its content.
RowOutlivesContent == part \in Vault => \A v \in DOMAIN row : row[v] = "gone" => content[v] = "purged"
\* Nothing of a live vault is purged, if every deletion of it had the claim.
LiveVaultIntact ==
  /\ part = "deleting" => Deleting!LiveVaultIntact
  /\ part = "overlapping" => Overlapping!LiveVaultIntact
\* The manager is told of a deletion that has happened.
NoticeTellsTruth == part = "retaining" => Retaining!NoticeTellsTruth

\* A member without the key, a vault that is being deleted (one of two that are alike),
\* and an inactive vault, the last one a run comes to.
Awaited ==
  CASE part \in Lossy -> member /\ TwoDevices!Status # "active"
    [] part = "deleting" -> Deleting!Leaving(1)
    [] part = "overlapping" -> Overlapping!Leaving(1)
    [] part = "retaining" -> row[3] = "live" /\ 3 \notin shared \cup reported /\ free
    [] OTHER -> FALSE

\* Enrolls, DeletionEnds and InactiveReached, each of its part: who follows the dialog
\* gets the key, a deletion is carried through or taken back, and the pages of a run
\* reach every inactive vault, whatever fails on the way.
AwaitedEnds == Awaited ~> ~Awaited

\* Requests that interleave, expire or come twice leave no contradiction: members and
\* invitations, grants and wrappers and requests, rows and contents and notices agree.
RecordsAgree ==
  /\ TypesOK /\ InvitedOnce
  /\ KeyIffEnrolled /\ OneOpenRequest /\ KeyNotOrphaned /\ CompletionRepeatable
  /\ LiveNamesDistinct /\ RowOutlivesContent /\ LiveVaultIntact /\ NoticeTellsTruth

\* No late step reverses a decision: who was removed stays out, a first answer and a
\* new password hold, the quota is kept; and what is awaited comes to its end.
DecisionsHold ==
  /\ RemovedStaysOut /\ FirstAnswerHolds /\ NotResurrected /\ PasswordKept
  /\ CreatedWithinQuota /\ AwaitedEnds
=============================================================================

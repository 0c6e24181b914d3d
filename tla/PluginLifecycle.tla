--------------------------- MODULE PluginLifecycle ---------------------------
(***************************************************************************)
(* The connection of one Obsidian vault to a remote vault, as the plugin   *)
(* controller, the readiness coordinator, the remote vault controller and  *)
(* the sync controller keep it together: the signed-in account, the active *)
(* vault session and its key, the local sync store, the remembered         *)
(* connection, the switch of the user and the auto-sync loop.              *)
(*                                                                         *)
(* Each of them is changed by handlers that await the network or the       *)
(* database between two changes and may overlap.  A handler in flight is a *)
(* job; `at` says what it awaits.  Awaits that only wait for microtasks    *)
(* are no step of their own.                                               *)
(*                                                                         *)
(* Left out: the periodic mode, progress and status shown to the user, the *)
(* check of the plugin version, and the verification of a stored account   *)
(* (DeviceSession).                                                        *)
(***************************************************************************)
EXTENDS Naturals, FiniteSets

CONSTANTS
    Vaults,         \* remote vaults the user may connect to
    Jobs,           \* handlers that may be in flight at a time
    None,
    Patient,        \* do user and server wait for what is in flight
    Crashes,        \* may the plugin restart while something is in flight
    MaxCleanupFails,\* bound: failed deletions of the local database
    MaxFails,       \* bound: failed requests to the API
    MaxRestarts     \* bound: restarts of the plugin

ASSUME LifecycleAssumption ==
    /\ None \notin Vaults /\ None \notin Jobs
    /\ {Patient, Crashes} \subseteq BOOLEAN
    /\ {MaxCleanupFails, MaxFails, MaxRestarts} \subseteq Nat

VARIABLES
    signedIn,       \* the account is verified
    enabled,        \* the setting "sync enabled"
    session,        \* the active vault session: its vault and its key, or None
    key,            \* the stored vault key, named by its vault, or None
    conn,           \* the remembered connection: a vault or None
    disk,           \* the local database: is there one, and of which vault
    store,          \* the attached store: none, open, deleted or orphan
    loop,           \* the auto-sync loop is active
    job,            \* what each handler in flight awaits
    latest,         \* the job of the last setSyncEnabled(), or None
    asked,          \* history: what the last setSyncEnabled() asked for
    removed,        \* vaults the server no longer gives to this account
    wanted,         \* history: the vault the user last asked for, or None
    fails, cleanupFails, restarts

vars == <<signedIn, enabled, session, key, conn, disk, store, loop, job,
          latest, asked, removed, wanted, fails, cleanupFails, restarts>>

world == <<signedIn, enabled, session, key, conn, disk, store, loop>>
counts == <<asked, removed, fails, cleanupFails, restarts>>

Idle == [at |-> "idle", kind |-> "none", v |-> None, k |-> None]
Await(at, kind, v, k) == [at |-> at, kind |-> kind, v |-> v, k |-> k]

NoDisk == [made |-> FALSE, vault |-> None]

Quiet == \A j \in Jobs : job[j] = Idle

\* Faulty variant: only an active session counts.
HasConnectedActive == session # None

\* A vault is connected, active or only stored.
HasConnected == session # None \/ (conn # None /\ key # None)

-----------------------------------------------------------------------------
(* The parts the handlers are made of.  Each says what is left of a handler *)
(* and what it changes before it awaits again.                              *)

End(j) == job' = [job EXCEPT ![j] = Idle]
Wait(j, at, kind, v, k) == job' = [job EXCEPT ![j] = Await(at, kind, v, k)]

\* The store is ready and s is the session: a disabled sync is stopped; a
\* resume starts the loop at once, anything else reconciles the files first.
StartLoop(j, kind, s) ==
    \/ /\ ~enabled
       /\ loop' = FALSE /\ End(j)
    \/ /\ enabled /\ (s = None \/ ~signedIn)
       /\ loop' = (loop /\ kind = "resume") /\ End(j)
    \/ /\ enabled /\ s # None /\ signedIn /\ kind = "ensure"
       /\ Wait(j, "reconcile", kind, None, None)
       /\ UNCHANGED loop
    \/ /\ enabled /\ s # None /\ signedIn /\ kind = "resume"
       /\ loop' = TRUE /\ End(j)

\* Faulty variant: a resume does not open the store.
WithSessionStoreOnly(j, kind, s) ==
    \/ /\ store = "none" /\ kind = "resume"
       /\ End(j) /\ UNCHANGED loop
    \/ /\ store = "none" /\ kind # "resume"
       /\ Wait(j, "open", kind, s.vault, None)
       /\ UNCHANGED loop
    \/ store # "none" /\ StartLoop(j, kind, s)

\* A session s there is: its store is opened unless one is attached.
WithSession(j, kind, s) ==
    \/ /\ store = "none"
       /\ Wait(j, "open", kind, s.vault, None)
       /\ UNCHANGED loop
    \/ store # "none" /\ StartLoop(j, kind, s)

\* Faulty variant: a connection without its key is restored too.
RestorableKeyless == session = None /\ conn # None

Restorable == session = None /\ conn # None /\ key # None

\* runWhenReady(): what a handler does next, from the state it finds.
Ready(j, kind) ==
    \/ /\ signedIn /\ session # None
       /\ WithSession(j, kind, session)
    \/ /\ signedIn /\ Restorable
       /\ Wait(j, "restore", kind, conn, key)
       /\ UNCHANGED loop
    \/ /\ ~signedIn \/ (session = None /\ ~Restorable)
       /\ loop' = FALSE /\ End(j)

\* resetLocalSyncState() until its first await: the loop is stopped, the store
\* detached, its closing and the deletion of the database awaited.
Reset(j, kind) ==
    /\ loop' = FALSE /\ store' = "none"
    /\ Wait(j, "closing", kind, None, None)

-----------------------------------------------------------------------------
Init ==
    /\ signedIn \in BOOLEAN
    /\ enabled = TRUE
    /\ session = None /\ key = None /\ conn = None
    /\ disk = NoDisk /\ store = "none" /\ loop = FALSE
    /\ job = [j \in Jobs |-> Idle] /\ latest = None
    /\ asked = TRUE /\ removed = {} /\ wanted = None
    /\ fails = 0 /\ cleanupFails = 0 /\ restarts = 0

Free(j) == job[j] = Idle
UserMay(j) == Free(j) /\ (Patient => Quiet)
Fail == fails < MaxFails /\ fails' = fails + 1

\* ensureAutoSyncState() at startup, after a login or a changed setting.
ensureAutoSyncState(j) ==
    /\ Free(j)
    /\ Ready(j, "ensure")
    /\ UNCHANGED <<signedIn, enabled, session, key, conn, disk, store, latest,
                   wanted, counts>>

\* queueAutoSyncResume(), on focus or online: one at a time.
queueAutoSyncResume(j) ==
    /\ Free(j)
    /\ \A i \in Jobs : job[i].kind # "resume"
    /\ Ready(j, "resume")
    /\ UNCHANGED <<signedIn, enabled, session, key, conn, disk, store, latest,
                   wanted, counts>>

\* The bootstrap of the stored vault arrived.  Nothing is compared with what
\* happened since it was asked for.
restoreStoredSession(j) ==
    /\ job[j].at = "restore" /\ job[j].v \notin removed
    /\ LET s == [vault |-> job[j].v, key |-> job[j].k] IN
         /\ session' = s
         /\ WithSession(j, job[j].kind, s)
    /\ UNCHANGED <<signedIn, enabled, key, conn, disk, store, latest, wanted,
                   counts>>

restoreFails(j) ==
    /\ job[j].at = "restore"
    /\ Fail /\ End(j)
    /\ UNCHANGED <<world, latest, wanted, asked, removed, cleanupFails,
                   restarts>>

\* The vault is gone: if it is still the one of this device, disconnect.
disconnectUnavailable(j) ==
    /\ job[j].at = "restore" /\ job[j].v \in removed
    /\ LET gone == \/ session # None /\ session.vault = job[j].v
                   \/ conn = job[j].v
       IN \/ /\ gone
             /\ session' = None /\ key' = None /\ wanted' = None
             /\ Reset(j, "gone")
          \/ /\ ~gone
             /\ loop' = FALSE /\ End(j)
             /\ UNCHANGED <<session, key, wanted, store>>
    /\ UNCHANGED <<signedIn, enabled, conn, disk, latest, counts>>

-----------------------------------------------------------------------------
(* initializeSyncStoreForActiveRemoteVault()                                *)

\* The database is opened, made if need be, and attached.
openStore(j) ==
    /\ job[j].at = "open"
    /\ disk' = [disk EXCEPT !.made = TRUE]
    /\ store' = "open"
    /\ Wait(j, "bind", job[j].kind, job[j].v, None)
    /\ UNCHANGED <<signedIn, enabled, session, key, conn, loop, latest, wanted,
                   counts>>

\* Faulty variant: the store is bound to the vault whatever it was bound to.
bindStoreAlways(j) ==
    /\ job[j].at = "bind"
    /\ disk' = [disk EXCEPT !.vault = job[j].v]
    /\ Wait(j, "remember", job[j].kind, None, None)
    /\ UNCHANGED <<signedIn, enabled, session, key, conn, store, loop, latest,
                   wanted, counts>>

\* getOrCreateStoredLocalVaultId(): a store of another vault is refused and
\* stays attached; the handler ends with an error.
bindStore(j) ==
    /\ job[j].at = "bind"
    /\ \/ /\ store = "open" /\ disk.vault \in {None, job[j].v}
          /\ disk' = [disk EXCEPT !.vault = job[j].v]
          /\ Wait(j, "remember", job[j].kind, None, None)
       \/ /\ store = "orphan"
          /\ Wait(j, "remember", job[j].kind, None, None)
          /\ UNCHANGED disk
       \/ /\ \/ store \in {"none", "deleted"}
             \/ store = "open" /\ disk.vault \notin {None, job[j].v}
          /\ End(j) /\ UNCHANGED disk
    /\ UNCHANGED <<signedIn, enabled, session, key, conn, store, loop, latest,
                   wanted, counts>>

\* The connection is read back from the database; a connect goes on with the
\* readiness pipeline, the pipeline with its last checks.
rememberConnection(j) ==
    /\ job[j].at = "remember"
    /\ conn' = IF disk.made THEN disk.vault ELSE None
    /\ \/ /\ job[j].kind = "connect"
          /\ Wait(j, "again", "ensure", None, None)
          /\ UNCHANGED loop
       \/ /\ job[j].kind # "connect" /\ session # None
          /\ StartLoop(j, job[j].kind, session)
       \/ /\ job[j].kind # "connect" /\ session = None
          /\ loop' = FALSE /\ End(j)
    /\ UNCHANGED <<signedIn, enabled, session, key, disk, store, latest, wanted,
                   counts>>

\* The handler calls ensureAutoSyncState() in its turn.
again(j) ==
    /\ job[j].at = "again"
    /\ Ready(j, "ensure")
    /\ UNCHANGED <<signedIn, enabled, session, key, conn, disk, store, latest,
                   wanted, counts>>

\* The local reconcile is over: the loop starts, without another look at the
\* switch, the session or the account.
reconciled(j) ==
    /\ job[j].at = "reconcile"
    /\ \/ loop' = TRUE /\ store = "open"
       \/ loop' = loop /\ store # "open"
    /\ End(j)
    /\ UNCHANGED <<signedIn, enabled, session, key, conn, disk, store, latest,
                   wanted, counts>>

-----------------------------------------------------------------------------
(* Connecting, disconnecting, signing in and out.                           *)

\* A vault is chosen in the dialog, which only opens while none is connected,
\* and its key is asked for.
connect(j, v) ==
    /\ UserMay(j) /\ signedIn /\ ~HasConnected
    /\ \A i \in Jobs : job[i].kind # "connect"
    /\ Wait(j, "asking", "connect", v, None)
    /\ wanted' = v
    /\ UNCHANGED <<world, latest, counts>>

\* The key is there: unless a vault was connected or the account left
\* meanwhile, the session starts, and a store still attached is closed.
activate(j) ==
    /\ job[j].at = "asking"
    /\ \/ /\ signedIn /\ ~HasConnected /\ job[j].v \notin removed
          /\ session' = [vault |-> job[j].v, key |-> job[j].v]
          /\ key' = job[j].v /\ store' = "none"
          /\ Wait(j, "open", "connect", job[j].v, None)
          /\ UNCHANGED wanted
       \/ /\ ~signedIn \/ HasConnected \/ job[j].v \in removed
          /\ End(j)
          /\ wanted' = IF session = None THEN conn ELSE session.vault
          /\ UNCHANGED <<session, key, store>>
    /\ UNCHANGED <<signedIn, enabled, conn, disk, loop, latest, counts>>

connectFails(j) ==
    /\ job[j].at = "asking"
    /\ Fail /\ End(j)
    /\ wanted' = IF session = None THEN None ELSE session.vault
    /\ UNCHANGED <<world, latest, asked, removed, cleanupFails, restarts>>

\* Faulty variant: the stored key stays.
DropSessionKeepsKey(j, kind) ==
    session' = None /\ key' = key /\ Reset(j, kind)

\* RemoteVaultManager.disconnectRemoteVault() and the start of the reset.
DropSession(j, kind) == session' = None /\ key' = None /\ Reset(j, kind)

\* disconnectRemoteVault(), alone or as the first half of signOutDevice():
\* the server is told first, if there is a session to tell it with.
disconnect(j, kind) ==
    /\ UserMay(j) /\ kind \in {"disconnect", "signout"}
    /\ HasConnected \/ (kind = "signout" /\ signedIn)
    /\ \A i \in Jobs : job[i].kind \notin {"disconnect", "signout"}
    /\ \/ /\ session # None /\ signedIn
          /\ Wait(j, "detach", kind, None, None)
          /\ UNCHANGED <<session, key, loop, store>>
       \/ (session = None \/ ~signedIn) /\ DropSession(j, kind)
    /\ wanted' = None
    /\ UNCHANGED <<signedIn, enabled, conn, disk, latest, counts>>

\* The server answered or did not.  The session and the key go, the loop stops,
\* the store is detached.
detached(j) ==
    /\ job[j].at = "detach"
    /\ DropSession(j, job[j].kind)
    /\ UNCHANGED <<signedIn, enabled, conn, disk, latest, wanted, counts>>

deleteDatabase(j) ==
    /\ job[j].at = "closing"
    /\ disk' = [disk EXCEPT !.vault = None]
    /\ store' = IF store = "open" THEN "deleted" ELSE store
    /\ Wait(j, "clearing", job[j].kind, None, None)
    /\ UNCHANGED <<signedIn, enabled, session, key, conn, loop, latest, wanted,
                   counts>>

\* What follows the reset of the local state.
AfterReset(j) ==
    IF job[j].kind = "signout"
    THEN Wait(j, "signout", "signout", None, None)
    ELSE End(j)

\* The local vault id is forgotten and with it the connection.
clearLocalVault(j) ==
    /\ job[j].at = "clearing"
    /\ disk' = NoDisk /\ conn' = None
    /\ store' = IF store = "open" THEN "orphan" ELSE store
    /\ AfterReset(j)
    /\ UNCHANGED <<signedIn, enabled, session, key, loop, latest, wanted, counts>>

\* The deletion fails: the error is shown, everything else stays.
cleanupFailed(j) ==
    /\ job[j].at = "closing"
    /\ cleanupFails < MaxCleanupFails /\ cleanupFails' = cleanupFails + 1
    /\ loop' = FALSE
    /\ AfterReset(j)
    /\ UNCHANGED <<signedIn, enabled, session, key, conn, disk, store, latest,
                   wanted, asked, removed, fails, restarts>>

\* The account is signed out, whatever the server says, and the local state is
\* reset once more.  An answer asked for with the old session counts no more.
signedOut(j) ==
    /\ job[j].at = "signout"
    /\ signedIn' = FALSE /\ session' = None /\ key' = None
    /\ loop' = FALSE /\ store' = "none"
    /\ job' = [i \in Jobs |->
                 IF i = j THEN Await("closing", "disconnect", None, None)
                 ELSE IF job[i].at = "resuming"
                      THEN [job[i] EXCEPT !.kind = "void"]
                      ELSE job[i]]
    /\ UNCHANGED <<enabled, conn, disk, latest, wanted, counts>>

signIn(j) ==
    /\ UserMay(j) /\ ~signedIn
    /\ signedIn' = TRUE
    /\ Wait(j, "again", "ensure", None, None)
    /\ UNCHANGED <<enabled, session, key, conn, disk, store, loop, latest,
                   wanted, counts>>

-----------------------------------------------------------------------------
(* The switch.                                                              *)

\* The vault of this device, active or only remembered.
CurrentVault == IF session # None THEN session.vault ELSE conn

\* setSyncEnabled(TRUE): the server is asked to resume, unless there is
\* nothing to resume.
enable(j) ==
    /\ UserMay(j) /\ ~enabled
    /\ latest' = j /\ asked' = TRUE
    /\ \/ /\ HasConnected /\ signedIn
          /\ IF disk.vault = CurrentVault
             THEN Wait(j, "resuming", "enable", CurrentVault, None)
             ELSE End(j)
          /\ UNCHANGED enabled
       \/ /\ ~(HasConnected /\ signedIn)
          /\ enabled' = TRUE
          /\ Wait(j, "again", "ensure", None, None)
    /\ UNCHANGED <<signedIn, session, key, conn, disk, store, loop, removed,
                   wanted, fails, cleanupFails, restarts>>

\* Faulty variant: the answer is taken however old the request is.
resumedAnyway(j) ==
    /\ job[j].at = "resuming"
    /\ enabled' = TRUE /\ Wait(j, "again", "ensure", None, None)
    /\ UNCHANGED <<signedIn, session, key, conn, disk, store, loop, latest,
                   wanted, counts>>

\* The answer counts if the request is the last one, of the same vault and of
\* the same account session.
resumed(j) ==
    /\ job[j].at = "resuming"
    /\ LET valid == /\ latest = j /\ job[j].kind = "enable"
                    /\ job[j].v = CurrentVault
       IN \/ /\ valid
             /\ enabled' = TRUE /\ Wait(j, "again", "ensure", None, None)
          \/ /\ ~valid
             /\ End(j) /\ UNCHANGED enabled
    /\ UNCHANGED <<signedIn, session, key, conn, disk, store, loop, latest,
                   wanted, counts>>

resumeFails(j) ==
    /\ job[j].at = "resuming"
    /\ Fail /\ End(j)
    /\ UNCHANGED <<world, latest, wanted, asked, removed, cleanupFails,
                   restarts>>

\* setSyncEnabled(FALSE), and the pause the server asks for, which stops the
\* loop first: the setting is written, then the loop is stopped.
disable(j, byServer) ==
    /\ UserMay(j) /\ (IF byServer THEN loop ELSE enabled \/ asked)
    /\ enabled' = FALSE /\ latest' = j /\ asked' = FALSE
    /\ loop' = IF byServer THEN FALSE ELSE loop
    /\ Wait(j, "stopping", "disable", None, None)
    /\ UNCHANGED <<signedIn, session, key, conn, disk, store, removed, wanted,
                   fails, cleanupFails, restarts>>

\* Faulty variant: the loop is left to itself.
disabledRunsOn(j) ==
    /\ job[j].at = "stopping"
    /\ End(j)
    /\ UNCHANGED <<world, latest, wanted, counts>>

disabled(j) ==
    /\ job[j].at = "stopping"
    /\ loop' = FALSE /\ End(j)
    /\ UNCHANGED <<signedIn, enabled, session, key, conn, disk, store, latest,
                   wanted, counts>>

-----------------------------------------------------------------------------
\* The server takes a vault away from the account.
RemoveVault(v) ==
    /\ v \notin removed /\ (Patient => Quiet)
    /\ removed' = removed \union {v}
    /\ UNCHANGED <<world, job, latest, asked, wanted, fails, cleanupFails,
                   restarts>>

\* The plugin is loaded anew: what was in memory is gone, the readiness
\* pipeline runs.
Restart(j) ==
    /\ restarts < MaxRestarts /\ (Crashes \/ Quiet)
    /\ restarts' = restarts + 1
    /\ session' = None /\ store' = "none" /\ loop' = FALSE /\ latest' = None
    /\ conn' = IF disk.made THEN disk.vault ELSE None
    /\ job' = [i \in Jobs |->
                 IF i = j THEN Await("again", "ensure", None, None) ELSE Idle]
    /\ UNCHANGED <<signedIn, enabled, key, disk, asked, removed, wanted, fails,
                   cleanupFails>>

JobSteps(j) ==
    \/ restoreStoredSession(j) \/ restoreFails(j) \/ disconnectUnavailable(j)
    \/ openStore(j) \/ bindStore(j) \/ rememberConnection(j) \/ again(j)
    \/ reconciled(j) \/ activate(j) \/ connectFails(j)
    \/ detached(j) \/ deleteDatabase(j) \/ clearLocalVault(j)
    \/ cleanupFailed(j) \/ signedOut(j)
    \/ resumed(j) \/ resumeFails(j) \/ disabled(j)

Next ==
    \E j \in Jobs :
        \/ JobSteps(j)
        \/ ensureAutoSyncState(j) \/ queueAutoSyncResume(j)
        \/ \E v \in Vaults : connect(j, v)
        \/ \E kind \in {"disconnect", "signout"} : disconnect(j, kind)
        \/ signIn(j) \/ enable(j)
        \/ \E s \in BOOLEAN : disable(j, s)
        \/ Restart(j)
        \/ \E v \in Vaults : RemoveVault(v)

Spec == Init /\ [][Next]_vars

-----------------------------------------------------------------------------
Places == {"idle", "restore", "open", "bind", "remember", "again", "reconcile",
           "asking", "detach", "closing", "clearing", "signout", "resuming",
           "stopping"}
Kinds == {"none", "ensure", "resume", "gone", "connect", "disconnect",
          "signout", "enable", "disable", "void"}
Maybe(S) == S \union {None}

TypeOK ==
    /\ {signedIn, enabled, loop, asked} \subseteq BOOLEAN
    /\ session \in Maybe([vault : Vaults, key : Vaults])
    /\ {key, conn, wanted} \subseteq Maybe(Vaults)
    /\ disk \in [made : BOOLEAN, vault : Maybe(Vaults)]
    /\ store \in {"none", "open", "deleted", "orphan"}
    /\ job \in [Jobs -> [at : Places, kind : Kinds, v : Maybe(Vaults),
                         k : Maybe(Vaults)]]
    /\ latest \in Maybe(Jobs) /\ removed \subseteq Vaults
    /\ fails \in 0 .. MaxFails /\ cleanupFails \in 0 .. MaxCleanupFails
    /\ restarts \in 0 .. MaxRestarts

\* Sync that was switched off, by the user or by the server, stays off: no
\* handler that was under way starts the loop again.
DisabledStaysStopped ==
    ~enabled /\ (\A j \in Jobs : job[j].at # "stopping") => ~loop

\* Switching off is final until the user switches on again: no older request
\* that the server answers later undoes it.
LastSwitchHolds == enabled => asked

\* A vault that was disconnected stays disconnected: once nothing is in flight,
\* there is no session, no key and no loop for it.
DisconnectedStays ==
    Quiet /\ wanted = None => session = None /\ key = None /\ ~loop

\* The loop never runs a vault on the store or with the key of another one.
OneVault ==
    loop /\ session # None =>
        /\ session.key = session.vault
        /\ store = "open" => disk.vault \in {None, session.vault}

\* What is kept for the next start belongs together: a stored key is that of
\* the vault the local database is bound to.
KeptTogether ==
    Quiet /\ key # None /\ disk.vault # None => key = disk.vault

\* A local database never changes its vault without being deleted.
BoundOnce ==
    [][disk.vault # None => disk'.vault \in {None, disk.vault}]_vars

\* A signed-in user with a connected vault and sync switched on is synced in
\* the end, or one of the three is taken back.
ConnectedSyncs ==
    (signedIn /\ enabled /\ wanted # None) ~>
        (loop \/ ~signedIn \/ ~enabled \/ wanted = None
             \/ wanted \in removed)
=============================================================================

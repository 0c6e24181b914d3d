----------------------------- MODULE SyncTokens ------------------------------
(***************************************************************************)
(* The sync tokens of one device: SyncTokenManager with its cache of one   *)
(* token, and the authorized requests that use it (request-client.ts).     *)
(*                                                                         *)
(* Callers issue, cache, send and retry at the same time, while the user   *)
(* signs out, signs in and connects a vault; each of these ends with the   *)
(* cache cleared.  A connection gets a new local vault id.  The clock of   *)
(* the device may be behind that of the server.                            *)
(***************************************************************************)
EXTENDS Naturals

CONSTANTS
    Callers,
    Vaults,
    None,
    Lifetime,       \* DEFAULT_SYNC_TOKEN_TTL_SECONDS, in ticks
    Skew,           \* REFRESH_SKEW_SECONDS
    Lag,            \* how far the device's clock is behind
    MaxTime, MaxSessions, MaxLocals,
    LogsInConnected \* a login may replace a session without a sign-out

TokenAssumption ==
    /\ None \notin Vaults \union Nat
    /\ {Lifetime, Skew, Lag, MaxTime, MaxSessions, MaxLocals} \subseteq Nat
    /\ Skew < Lifetime /\ LogsInConnected \in BOOLEAN

VARIABLES
    now,
    session,        \* the device's session, a number, or None
    sessions,       \* how many there were
    vault,          \* the connected vault, or None
    local,          \* the local vault id of the connection, or None
    locals,         \* how many there were
    cached,         \* cachedToken
    clearing,       \* a sign-out or login has yet to clear the cache
    call            \* each caller: where it is, and with what

who == <<session, sessions, vault, local, locals, clearing>>
vars == <<now, who, cached, call>>

Idle == [at |-> "idle", session |-> None, vault |-> None, local |-> None,
         token |-> None, retrying |-> FALSE]

Init ==
    /\ now = 0 /\ cached = None /\ clearing = FALSE
    /\ session = None /\ sessions = 0
    /\ vault = None /\ local = None /\ locals = 0
    /\ call = [c \in Callers |-> Idle]

-----------------------------------------------------------------------------
(* A token for the active vault.                                            *)

\* Faulty variant: a vault is the same under every local id.
ReusableAnywhere(token, v, l) ==
    token.vault = v /\ token.exp + Lag > now + Skew

\* canReuseToken(), by the device's clock.
Reusable(token, v, l) ==
    token.vault = v /\ token.local = l /\ token.exp + Lag > now + Skew

\* getTokenForActiveRemoteVault(), begun or begun again by a retry: what it
\* needs is read at once; the cached token is handed out if it will do.
getToken(c) ==
    /\ call[c].at \in {"idle", "again"}
    /\ call' = [call EXCEPT ![c] =
         IF None \in {session, vault, local} THEN [@ EXCEPT !.at = "failed"]
         ELSE LET reuse == IF cached = None THEN FALSE
                           ELSE Reusable(cached, vault, local)
              IN [at |-> IF reuse THEN "sending" ELSE "issuing",
                  session |-> session, vault |-> vault, local |-> local,
                  token |-> IF reuse THEN cached ELSE None,
                  retrying |-> @.retrying]]
    /\ UNCHANGED <<now, who, cached>>

\* The server issues a token to the session it is asked with.
issue(c) ==
    /\ call[c].at = "issuing"
    /\ call' = [call EXCEPT ![c].at = "issued",
                            ![c].token = [session |-> call[c].session,
                                          vault |-> call[c].vault,
                                          local |-> call[c].local,
                                          exp |-> now + Lifetime]]
    /\ UNCHANGED <<now, who, cached>>

issueFails(c) ==
    /\ call[c].at = "issuing"
    /\ call' = [call EXCEPT ![c].at = "failed"]
    /\ UNCHANGED <<now, who, cached>>

\* The token has arrived: it replaces whatever is cached.
issued(c) ==
    /\ call[c].at = "issued"
    /\ cached' = call[c].token
    /\ call' = [call EXCEPT ![c].at = "sending"]
    /\ UNCHANGED <<now, who>>

\* The server answers, or refuses a token that has expired by its clock.
serve(c) ==
    /\ call[c].at = "sending"
    /\ call' = [call EXCEPT ![c].at =
                  IF call[c].token.exp > now THEN "done" ELSE "unauthorized"]
    /\ UNCHANGED <<now, who, cached>>


\* Faulty variant: every refusal is tried again with what there is.
retryForever(c) ==
    /\ call[c].at = "unauthorized"
    /\ call' = [call EXCEPT ![c].at = "again"]
    /\ UNCHANGED <<now, who, cached>>

\* The first 401 of a request drops the cached token and tries again.
retry(c) ==
    /\ call[c].at = "unauthorized" /\ ~call[c].retrying
    /\ cached' = None
    /\ call' = [call EXCEPT ![c].at = "again", ![c].retrying = TRUE]
    /\ UNCHANGED <<now, who>>

\* The second is the answer.
giveUp(c) ==
    /\ call[c].at = "unauthorized" /\ call[c].retrying
    /\ call' = [call EXCEPT ![c].at = "refused"]
    /\ UNCHANGED <<now, who, cached>>

\* The caller asks for something else.
next(c) ==
    /\ call[c].at \in {"done", "failed"}
    /\ call' = [call EXCEPT ![c] = Idle]
    /\ UNCHANGED <<now, who, cached>>

-----------------------------------------------------------------------------
(* The session and the vault.                                               *)

\* completeDeviceLogin() stores the new session; a vault stays connected.
login ==
    /\ sessions < MaxSessions /\ ~clearing
    /\ LogsInConnected \/ session = None
    /\ sessions' = sessions + 1 /\ session' = sessions + 1
    /\ clearing' = TRUE
    /\ UNCHANGED <<now, vault, local, locals, cached, call>>

\* clearSyncTokenState() behind a login, a sign-out or a disconnect.
clear ==
    /\ clearing
    /\ clearing' = FALSE /\ cached' = None
    /\ UNCHANGED <<now, session, sessions, vault, local, locals, call>>

\* Faulty variant: the local vault id stays for the next connection.
disconnectKeepsId ==
    /\ vault # None /\ ~clearing
    /\ vault' = None /\ clearing' = TRUE
    /\ UNCHANGED <<now, session, sessions, local, locals, cached, call>>

\* disconnectRemoteVault(): the store goes, and the local vault id with it.
disconnect ==
    /\ vault # None /\ ~clearing
    /\ vault' = None /\ local' = None /\ clearing' = TRUE
    /\ UNCHANGED <<now, session, sessions, locals, cached, call>>

\* signOutDevice(), which disconnects first.
signOutDevice ==
    /\ session # None /\ vault = None /\ ~clearing
    /\ session' = None /\ clearing' = TRUE
    /\ UNCHANGED <<now, sessions, vault, local, locals, cached, call>>

connect(v) ==
    /\ session # None /\ vault = None /\ ~clearing /\ locals < MaxLocals
    /\ vault' = v
    /\ locals' = locals + 1 /\ local' = locals + 1
    /\ UNCHANGED <<now, session, sessions, cached, clearing, call>>

\* A message takes less than a tick.
Tick ==
    /\ now < MaxTime
    /\ \A c \in Callers :
          call[c].at \notin {"issuing", "issued", "sending", "again"}
    /\ now' = now + 1
    /\ UNCHANGED <<who, cached, call>>

Calls(c) ==
    \/ getToken(c) \/ issue(c) \/ issueFails(c) \/ issued(c)
    \/ serve(c) \/ retry(c) \/ giveUp(c) \/ next(c)

Next ==
    \/ \E c \in Callers : Calls(c)
    \/ login \/ clear \/ disconnect \/ signOutDevice \/ Tick
    \/ \E v \in Vaults : connect(v)

Spec == Init /\ [][Next]_vars

-----------------------------------------------------------------------------
Tokens == [session : 1 .. MaxSessions, vault : Vaults, local : 1 .. MaxLocals,
           exp : 0 .. MaxTime + Lifetime]

TypeOK ==
    /\ now \in 0 .. MaxTime
    /\ sessions \in 0 .. MaxSessions /\ session \in {None} \union (1 .. sessions)
    /\ locals \in 0 .. MaxLocals /\ local \in {None} \union (1 .. locals)
    /\ vault \in {None} \union Vaults /\ (vault = None) = (local = None)
    /\ cached \in {None} \union Tokens
    /\ clearing \in BOOLEAN
    /\ \A c \in Callers :
          /\ call[c].at \in {"idle", "issuing", "issued", "sending", "again",
                             "unauthorized", "done", "refused", "failed"}
          /\ call[c].token \in {None} \union Tokens

\* Nobody who asks in a session is handed a token that was issued to an earlier
\* one, even if that token arrived and was cached after the cache was cleared.
NoOldSession ==
    \A c \in Callers :
        call[c].at = "sending" => call[c].token.session >= call[c].session

\* Once a login has cleared the cache, no token of the session before is cached.
\* It does not hold where a login replaces a session: a token asked for before
\* may arrive after the cache was cleared.
ClearedStaysCleared ==
    clearing \/ cached = None \/ session = None \/ cached.session = session

\* A request is refused for its token at most once: the token of its second
\* try is not one of those its server would refuse.
RefusedOnce == \A c \in Callers : call[c].at # "refused"

\* Every request ends.
Ended == {"idle", "done", "refused", "failed"}
RequestsEnd ==
    \A c \in Callers : call[c].at \notin Ended ~> call[c].at \in Ended
=============================================================================

---------------------------- MODULE MCClientLoop ----------------------------
(***************************************************************************)
(* What keeps a client connected: the realtime session, the loop that opens *)
(* it and syncs, and the tokens it connects with.  The three share no state *)
(* in the models (the loop sees a session as open or not, and a request for *)
(* a token as one that may fail), so that each is checked while the others  *)
(* stand still.                                                             *)
(***************************************************************************)
EXTENDS RealtimeSession

CONSTANTS c1, c2, v1

VARIABLES
  part,     \* which of them runs
  loop, made, pushed, remote, cursor, news, starting, asked, budget,
  now, session, sessions, vault, local, locals, cached, clearing, call

loopVars == <<loop, made, pushed, remote, cursor, news, starting, asked, budget>>
tokenVars == <<now, session, sessions, vault, local, locals, cached, clearing, call>>

\* The loop on each kind of host, with faults.
Loop == INSTANCE AutoSync
  WITH Deferrals <- BOOLEAN, LateClose <- FALSE,
       MaxMade <- 2, MaxRemote <- 2, MaxFaults <- 2, MaxStops <- 0

\* The loop stopped and started at any time, and sockets that close at any time.
Stops == INSTANCE AutoSync
  WITH Deferrals <- {FALSE}, LateClose <- TRUE,
       MaxMade <- 1, MaxRemote <- 2, MaxFaults <- 2, MaxStops <- 2

\* A clock that lags by as much as a token lives.
Callers == {c1, c2}
Tokens == INSTANCE SyncTokens
  WITH Vaults <- {v1}, Lifetime <- 2, Skew <- 1, Lag <- 2, MaxTime <- 4,
       MaxSessions <- 2, MaxLocals <- 2, LogsInConnected <- FALSE

ASSUME Loop!AutoSyncAssumption /\ Stops!AutoSyncAssumption /\ Tokens!TokenAssumption

MCInit ==
  /\ Init /\ Tokens!Init
  /\ \/ part = "loop" /\ Loop!Init
     \/ part = "stops" /\ Stops!Init
     \/ part \in {"session", "tokens"} /\ Loop!Init /\ made = 0 /\ remote = 0 /\ loop.deferred

MCNext ==
  \/ part = "session" /\ Next /\ UNCHANGED <<part, loopVars, tokenVars>>
  \/ part = "loop" /\ Loop!Next /\ UNCHANGED <<part, vars, tokenVars>>
  \/ part = "stops" /\ Stops!Next /\ UNCHANGED <<part, vars, tokenVars>>
  \/ part = "tokens" /\ Tokens!Next /\ UNCHANGED <<part, vars, loopVars>>

\* Of the session: time goes on, due timers fire, what arrived is handled.
SessionFairness ==
  LET on == part = "session" IN
  /\ WF_vars(on /\ Tick) /\ WF_vars(on /\ sendHeartbeat) /\ WF_vars(on /\ Receive)
  /\ \A i \in Ids : WF_vars(on /\ timeout(i))

\* Of the loop: timers fire, promises settle, messages on an open socket arrive,
\* and the host starts the loop and keeps its interval.  Faults and changes need
\* not happen.
LoopFairness ==
  LET on == part = "loop" IN
  /\ WF_loopVars(on /\ Loop!Start) /\ WF_loopVars(on /\ Loop!SyncAfterStart)
  /\ WF_loopVars(on /\ Loop!PeriodicSync)
  /\ WF_loopVars(on /\ \E s \in Loop!Sessions : Loop!CursorAdvanced(s))
  /\ WF_loopVars(on /\ \E s \in Loop!Sessions : Loop!Greet(s))
  /\ WF_loopVars(on /\ Loop!Adopt) /\ WF_loopVars(on /\ Loop!Unblock)
  /\ WF_loopVars(on /\ Loop!PushTimer) /\ WF_loopVars(on /\ Loop!ReconnectTimer)
  /\ WF_loopVars(on /\ Loop!SyncRetryTimer)
  /\ WF_loopVars(on /\ (Loop!PullDone \/ Loop!PushDone \/ Loop!RoundFails))

MCSpec ==
  /\ MCInit /\ [][MCNext]_<<part, vars, loopVars, tokenVars>>
  /\ SessionFairness /\ LoopFairness

-----------------------------------------------------------------------------
(* The properties of the components, each in its part.                      *)

\* Every component keeps to its types.
TypesOK ==
  /\ TypeOK /\ Tokens!TypeOK
  /\ IF part = "stops" THEN Stops!TypeOK ELSE Loop!TypeOK

\* Work that is queued has a timer, a drain or a trigger that will take it.
NoLostWakeup == Loop!NoLostWakeup
\* Every socket that is open is the session in use or being connected.
SocketsAccountedFor == Loop!SocketsAccountedFor
\* A loop that runs without a session has a reconnect on its way.
ReconnectsAlways == part = "loop" => Loop!ReconnectsAlways
\* What is edited and what other devices push is synced in the end.
AllSynced == part = "loop" => Loop!CatchesUp
\* Nobody who asks in a session is given a token of an earlier one.
NoOldSession == Tokens!NoOldSession
\* A request is refused for its token at most once.
RefusedOnce == Tokens!RefusedOnce

\* The loop never sleeps on work, without a session or beside a forgotten socket,
\* whatever fails or is stopped while it awaits.
LoopAwake == TypesOK /\ NoLostWakeup /\ SocketsAccountedFor /\ ReconnectsAlways


\* Everything is synced in the end, every request settles, as the abstract session
\* promises, and its callers learn of the end of the session at once.
CatchesUp == AllSynced /\ RequestsSettle /\ KeepsPromise /\ ToldWithTheEnd
=============================================================================

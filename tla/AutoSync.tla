------------------------------- MODULE AutoSync -------------------------------
(* The auto-sync loop of a client (packages/sync-client .../auto-sync.ts): one *)
(* realtime session, one drain of a queue of work, three timers, and the      *)
(* awaits between which stops, closing sockets and new work arrive. What a     *)
(* pull and a push do is in CursorCheckpoint and LocalEdits; here a pull       *)
(* brings the cursor to what the coordinator has, a push empties the queue of  *)
(* pending mutations.                                                          *)
EXTENDS Integers, FiniteSets

CONSTANTS
  Deferrals,     \* the hosts there are: those that sync at intervals only are TRUE
  LateClose,     \* a socket may close while the local store is asked what to unblock
  MaxMade,       \* mutations recorded on the device
  MaxRemote,     \* changes of other devices
  MaxFaults,     \* closed sockets, failed connections, pulls and pushes
  MaxStops       \* stops, by the host or because the vault is gone

AutoSyncAssumption ==
  /\ Deferrals \subseteq BOOLEAN /\ LateClose \in BOOLEAN
  /\ {MaxMade, MaxRemote, MaxFaults, MaxStops} \subseteq Nat

VARIABLES
  loop,      \* the fields of SyncAutoLoop, and the sockets it has open
  made,      \* mutations recorded in the local store
  pushed,    \* those the coordinator has accepted
  remote,    \* changes of other devices at the coordinator
  cursor,    \* those the device has pulled
  news,      \* cursor_advanced is on its way to the open sockets
  starting,  \* the host waits for start() and then syncs what is pending
  asked,     \* what was last asked of the loop: nothing, a session, or to sync
  budget     \* faults and stops left

vars == <<loop, made, pushed, remote, cursor, news, starting, asked, budget>>

LoopStates == {"stopped", "connecting", "live", "draining", "retry_wait", "reconnect_wait"}
Timers == {"push", "reconnect", "syncRetry"}
NoSession == 0
Sessions == 1 .. 2

\* What a connection attempt and a drain remember across their awaits.
NotConnecting == [pc |-> "none", sid |-> NoSession, cursor |-> 0, server |-> 0]
NotDraining == [pc |-> "none", sid |-> NoSession, push |-> FALSE, pull |-> FALSE]

TypeOK ==
  /\ loop \in [state : LoopStates, deferred : Deferrals,
               session : Sessions \cup {NoSession}, open : SUBSET Sessions,
               timers : SUBSET Timers, push : BOOLEAN, pull : BOOLEAN,
               connect : [pc : {"none", "opening", "greeted", "unblocking"},
                          sid : Sessions \cup {NoSession}, cursor : 0 .. MaxRemote, server : 0 .. MaxRemote],
               drain : [pc : {"none", "connecting", "pulling", "pushing", "pullingAgain"},
                        sid : Sessions \cup {NoSession}, push : BOOLEAN, pull : BOOLEAN]]
  /\ made \in 0 .. MaxMade /\ pushed \in 0 .. made
  /\ remote \in 0 .. MaxRemote /\ cursor \in 0 .. remote
  /\ news \subseteq Sessions
  /\ starting \in BOOLEAN /\ asked \in {"nothing", "session", "sync"}
  /\ budget \in [faults : 0 .. MaxFaults, stops : 0 .. MaxStops]

\* A vault with changes on both sides, and a loop that is not running yet.
Init ==
  /\ loop \in [state : {"stopped"}, deferred : Deferrals, session : {NoSession}, open : {{}},
               timers : {{}}, push : {FALSE}, pull : {FALSE},
               connect : {NotConnecting}, drain : {NotDraining}]
  /\ made \in 0 .. MaxMade /\ pushed = 0
  /\ remote \in 0 .. MaxRemote /\ cursor = 0
  /\ news = {} /\ starting = FALSE /\ asked = "nothing"
  /\ budget = [faults |-> MaxFaults, stops |-> MaxStops]

Spend(kind) == budget[kind] > 0 /\ budget' = [budget EXCEPT ![kind] = @ - 1]

-----------------------------------------------------------------------------
(* The methods of the loop, as functions of its fields.                       *)

Active(l) == l.state # "stopped"
HasPendingWork(l) == l.push \/ l.pull
RequestPush(l) == [l EXCEPT !.push = TRUE]
RequestPull(l) == [l EXCEPT !.pull = TRUE]

EnsureRealtimeSession(l) ==
  IF Active(l) /\ l.session = NoSession /\ l.connect.pc = "none"
    THEN [l EXCEPT !.state = "connecting", !.connect.pc = "opening"]
    ELSE l

ScheduleReconnect(l) ==
  IF Active(l) /\ "reconnect" \notin l.timers
    THEN [l EXCEPT !.state = "reconnect_wait", !.timers = @ \cup {"reconnect"}]
    ELSE l

ScheduleSyncRetry(l) ==
  IF ~Active(l) \/ "syncRetry" \in l.timers THEN l
  ELSE IF l.deferred THEN [l EXCEPT !.state = "live"]
  ELSE [l EXCEPT !.state = "retry_wait", !.timers = @ \cup {"syncRetry"}]

Stop(l) ==
  [l EXCEPT !.state = "stopped", !.push = FALSE, !.pull = FALSE, !.timers = {},
            !.session = NoSession, !.open = @ \ {l.session}]

\* Faulty variant: a session whose socket closes is not replaced.
CloseWithoutReconnect(l) ==
  IF Active(l) THEN [l EXCEPT !.session = NoSession, !.open = @ \ {l.session}] ELSE l

MarkDisconnected(l) ==
  IF Active(l)
    THEN ScheduleReconnect([l EXCEPT !.session = NoSession, !.open = @ \ {l.session}])
    ELSE l

\* The work a round had taken and not done goes back into the queue.
Requeue(l) ==
  [l EXCEPT !.push = @ \/ l.drain.push, !.pull = @ \/ l.drain.pull, !.drain = NotDraining]

\* The drain ends. drainUntilIdle and drain would go on if shouldContinueDrain;
\* when a drain ends nothing is queued, or a timer is set, or syncing is
\* deferred, so that they never do.
FinishDrain(l) ==
  [l EXCEPT !.drain = NotDraining,
            !.state = IF Active(l) /\ ~HasPendingWork(l) /\ l.timers \cap {"reconnect", "syncRetry"} = {}
                        THEN "live" ELSE @]

\* A round has waited for the connection attempt, if any, and looks at the session.
WithSession(l) ==
  IF l.session # NoSession
    THEN [l EXCEPT !.drain.sid = l.session,
                   !.drain.pc = IF l.drain.pull THEN "pulling" ELSE "pushing"]
    ELSE LET back == Requeue(l)
         IN  FinishDrain(IF "reconnect" \in l.timers THEN back ELSE ScheduleSyncRetry(back))

NextRound(l) ==
  IF Active(l) /\ HasPendingWork(l)
    THEN LET taken == [l EXCEPT !.drain = [pc |-> "connecting", sid |-> NoSession,
                                           push |-> l.push, pull |-> l.pull],
                                !.push = FALSE, !.pull = FALSE]
             next == EnsureRealtimeSession(taken)
         IN  IF next.connect.pc = "none" THEN WithSession(next) ELSE next
    ELSE FinishDrain(l)

Drain(l, force) ==
  IF /\ Active(l) /\ HasPendingWork(l) /\ l.drain.pc = "none"
     /\ force \/ (~l.deferred /\ "syncRetry" \notin l.timers)
    THEN NextRound([l EXCEPT !.state = "draining"])
    ELSE l

\* A connection attempt is over: who waited for it goes on.
Connected(l) ==
  LET done == [l EXCEPT !.connect = NotConnecting]
  IN  IF l.drain.pc = "connecting" THEN WithSession(done) ELSE done

-----------------------------------------------------------------------------
(* The host and the world.                                                    *)

\* ensureAutoSyncState, synch watch, synch sync: start the loop, then sync what
\* was recorded while it was stopped.
Start ==
  /\ ~Active(loop) \/ asked # "sync"
  /\ loop' = IF Active(loop) THEN loop ELSE EnsureRealtimeSession([loop EXCEPT !.state = "live"])
  /\ starting' = TRUE /\ asked' = "sync"
  /\ UNCHANGED <<made, pushed, remote, cursor, news, budget>>

\* Faulty variant: a sync the user or the interval asks for is deferred too.
SyncNowUnforced(l) ==
  IF Active(l)
    THEN Drain(RequestPush(RequestPull([l EXCEPT !.timers = @ \ {"push"}])), FALSE)
    ELSE l

SyncNow(l) ==
  IF Active(l)
    THEN Drain(RequestPush(RequestPull([l EXCEPT !.timers = @ \ {"push"}])), TRUE)
    ELSE l

SyncAfterStart ==
  /\ starting /\ loop.connect.pc = "none"
  /\ starting' = FALSE
  /\ loop' = IF pushed < made THEN SyncNow(loop) ELSE loop
  /\ UNCHANGED <<made, pushed, remote, cursor, news, asked, budget>>

\* The interval of a host that defers syncing.
PeriodicSync ==
  /\ loop.deferred /\ Active(loop) /\ loop.drain.pc = "none"
  /\ pushed < made \/ cursor < remote \/ HasPendingWork(loop)
  /\ loop' = SyncNow(loop)
  /\ UNCHANGED <<made, pushed, remote, cursor, news, starting, asked, budget>>

\* The network is back: do not wait for the backoff.
ResumeConnection ==
  /\ Active(loop) /\ loop.session = NoSession /\ "reconnect" \in loop.timers
  /\ loop' = EnsureRealtimeSession([loop EXCEPT !.timers = @ \ {"reconnect"}])
  /\ UNCHANGED <<made, pushed, remote, cursor, news, starting, asked, budget>>

\* withRealtimeSession, for the history views: starts a loop that is stopped.
UseSession ==
  /\ ~Active(loop)
  /\ loop' = EnsureRealtimeSession([loop EXCEPT !.state = "live"])
  /\ asked' = "session"
  /\ UNCHANGED <<made, pushed, remote, cursor, news, starting, budget>>

\* The host stops the loop, or it stops itself: the vault is gone, paused, full,
\* or does not have the history of this device.
StopLoop ==
  /\ Active(loop) /\ Spend("stops")
  /\ loop' = Stop(loop)
  /\ asked' = "nothing" /\ starting' = FALSE /\ news' = news \cap loop'.open
  /\ UNCHANGED <<made, pushed, remote, cursor>>

\* A mutation is recorded, and the loop is told.
LocalChange ==
  /\ made < MaxMade /\ made' = made + 1
  /\ loop' = IF ~Active(loop) THEN loop
             ELSE IF loop.deferred THEN RequestPush(loop)
             ELSE [loop EXCEPT !.timers = @ \cup {"push"}]
  /\ UNCHANGED <<pushed, remote, cursor, news, starting, asked, budget>>

\* A new policy lifts the size limit of a mutation that was blocked: it is
\* pending again and the loop is told.
PolicyUpdated ==
  /\ made < MaxMade /\ made' = made + 1
  /\ Active(loop) /\ loop.session # NoSession
  /\ loop' = Drain(RequestPush(loop), FALSE)
  /\ UNCHANGED <<pushed, remote, cursor, news, starting, asked, budget>>

\* The coordinator tells the sessions that have said hello.
RemoteChange ==
  /\ remote < MaxRemote /\ remote' = remote + 1
  /\ news' = loop.open
  /\ UNCHANGED <<loop, made, pushed, cursor, starting, asked, budget>>

\* Nothing follows the hello_ack on a socket before the session is adopted.
CursorAdvanced(s) ==
  /\ s \in news \cap loop.open /\ loop.connect.pc # "greeted"
  /\ news' = news \ {s}
  /\ loop' = IF Active(loop) THEN Drain(RequestPull(loop), FALSE) ELSE loop
  /\ UNCHANGED <<made, pushed, remote, cursor, starting, asked, budget>>

\* The socket of the session closes: onClose.
SocketCloses ==
  /\ loop.session # NoSession /\ Spend("faults")
  /\ LateClose \/ loop.connect.pc # "unblocking"
  /\ loop' = MarkDisconnected(loop)
  /\ news' = news \cap loop'.open
  /\ UNCHANGED <<made, pushed, remote, cursor, starting, asked>>

-----------------------------------------------------------------------------
(* openRealtimeSession.                                                       *)

\* The coordinator answers hello with its cursor.
Greet(s) ==
  /\ loop.connect.pc = "opening"
  /\ s \notin loop.open \cup {loop.drain.sid}
  /\ loop' = [loop EXCEPT !.connect = [pc |-> "greeted", sid |-> s,
                                       cursor |-> cursor, server |-> remote],
                          !.open = @ \cup {s}]
  /\ UNCHANGED <<made, pushed, remote, cursor, news, starting, asked, budget>>

\* Faulty variant: a session that was opened for a stopped loop is kept.
AdoptAlways ==
  /\ loop.connect.pc = "greeted"
  /\ loop' = [loop EXCEPT !.session = loop.connect.sid, !.connect.pc = "unblocking"]
  /\ news' = news
  /\ UNCHANGED <<made, pushed, remote, cursor, starting, asked, budget>>

Adopt ==
  /\ loop.connect.pc = "greeted"
  /\ loop' = IF Active(loop)
               THEN [loop EXCEPT !.session = loop.connect.sid, !.connect.pc = "unblocking"]
               ELSE Connected([loop EXCEPT !.open = @ \ {loop.connect.sid}])
  /\ news' = news \cap loop'.open
  /\ UNCHANGED <<made, pushed, remote, cursor, starting, asked, budget>>

\* Faulty variant: what changed while there was no session is not looked for.
UnblockWithoutPull ==
  /\ loop.connect.pc = "unblocking"
  /\ \E unblocked \in 0 .. (MaxMade - made) :
       /\ made' = made + unblocked
       /\ LET queued == IF unblocked > 0 THEN RequestPush(loop) ELSE loop
          IN  loop' = Connected(Drain([queued EXCEPT !.state = "live"], FALSE))
  /\ UNCHANGED <<pushed, remote, cursor, news, starting, asked, budget>>

\* Mutations the policy does not block any longer are pending again; work is
\* queued for them and for what the coordinator has and the device has not.
Unblock ==
  /\ loop.connect.pc = "unblocking"
  /\ \E unblocked \in 0 .. (MaxMade - made) :
       /\ made' = made + unblocked
       /\ LET queued == IF unblocked > 0 THEN RequestPush(loop) ELSE loop
              behind == IF loop.connect.server > loop.connect.cursor THEN RequestPull(queued) ELSE queued
          IN  loop' = Connected(Drain([behind EXCEPT !.state = "live"], FALSE))
  /\ UNCHANGED <<pushed, remote, cursor, news, starting, asked, budget>>

\* The token, the socket, the handshake or the local store fails.
ConnectFails ==
  /\ loop.connect.pc # "none" /\ Spend("faults")
  /\ LET s == loop.connect.sid
         left == [loop EXCEPT !.open = @ \ {s}, !.session = IF @ = s THEN NoSession ELSE @]
     IN  loop' = Connected(ScheduleReconnect(left))
  /\ news' = news \cap loop'.open
  /\ UNCHANGED <<made, pushed, remote, cursor, starting, asked>>

-----------------------------------------------------------------------------
(* Timers.                                                                    *)

PushTimer ==
  /\ "push" \in loop.timers
  /\ loop' = Drain(RequestPush([loop EXCEPT !.timers = @ \ {"push"}]), FALSE)
  /\ UNCHANGED <<made, pushed, remote, cursor, news, starting, asked, budget>>

\* The timer fires once. It finds the session, or an attempt to open one, or opens one.
ReconnectTimer ==
  /\ "reconnect" \in loop.timers
  /\ loop' = EnsureRealtimeSession([loop EXCEPT !.timers = @ \ {"reconnect"}])
  /\ UNCHANGED <<made, pushed, remote, cursor, news, starting, asked, budget>>

SyncRetryTimer ==
  /\ "syncRetry" \in loop.timers
  /\ loop' = Drain([loop EXCEPT !.timers = @ \ {"syncRetry"}], FALSE)
  /\ UNCHANGED <<made, pushed, remote, cursor, news, starting, asked, budget>>

-----------------------------------------------------------------------------
(* A round of the drain.                                                      *)

EndRound(l) == NextRound([l EXCEPT !.timers = @ \ {"syncRetry"}, !.drain = NotDraining])

\* Faulty variant: the cursor moves past the target of the pull.
PullTooFar ==
  /\ loop.drain.pc \in {"pulling", "pullingAgain"} /\ loop.drain.sid \in loop.open
  /\ cursor' = remote + 1
  /\ LET done == [loop EXCEPT !.drain.pull = FALSE]
     IN  loop' = IF done.drain.push THEN [done EXCEPT !.drain.pc = "pushing"] ELSE EndRound(done)
  /\ UNCHANGED <<made, pushed, remote, news, starting, asked, budget>>

PullDone ==
  /\ loop.drain.pc \in {"pulling", "pullingAgain"} /\ loop.drain.sid \in loop.open
  /\ cursor' = remote
  /\ LET done == [loop EXCEPT !.drain.pull = FALSE]
     IN  loop' = IF done.drain.push THEN [done EXCEPT !.drain.pc = "pushing"] ELSE EndRound(done)
  /\ UNCHANGED <<made, pushed, remote, news, starting, asked, budget>>

\* All pending mutations are accepted; or the push yields to a pull that was
\* requested meanwhile; or a mutation is rejected as stale. A push that met
\* changes the device has not pulled is followed by a pull.
PushDone ==
  /\ loop.drain.pc = "pushing" /\ loop.drain.sid \in loop.open
  /\ pushed' \in pushed .. made
  /\ \E behind \in {FALSE, cursor < remote} :
       /\ pushed' < made => loop.pull \/ behind
       /\ LET done == [loop EXCEPT !.drain.push = FALSE, !.drain.pull = behind,
                                   !.push = @ \/ pushed' < made]
          IN  loop' = IF behind THEN [done EXCEPT !.drain.pc = "pullingAgain"] ELSE EndRound(done)
  /\ UNCHANGED <<made, remote, cursor, news, starting, asked, budget>>

\* Faulty variant: a round that failed is not tried again by a timer.
RoundFailsQuietly ==
  /\ loop.drain.pc \in {"pulling", "pushing", "pullingAgain"}
  /\ IF loop.drain.sid \in loop.open THEN Spend("faults") ELSE UNCHANGED budget
  /\ loop' = FinishDrain(Requeue(loop))
  /\ UNCHANGED <<made, pushed, remote, cursor, news, starting, asked>>

\* A pull or a push fails, as it must when its session is closed: what the
\* round has not done is queued and tried again after a delay.
RoundFails ==
  /\ loop.drain.pc \in {"pulling", "pushing", "pullingAgain"}
  /\ IF loop.drain.sid \in loop.open THEN Spend("faults") ELSE UNCHANGED budget
  /\ loop' = FinishDrain(ScheduleSyncRetry(Requeue(loop)))
  /\ UNCHANGED <<made, pushed, remote, cursor, news, starting, asked>>

\* The pull succeeded and the pending mutation is as outdated as before.
StaleRemains ==
  /\ loop.drain.pc = "pullingAgain" /\ loop.drain.sid \in loop.open /\ Spend("faults")
  /\ pushed < made
  /\ cursor' = remote
  /\ loop' = FinishDrain(ScheduleSyncRetry([loop EXCEPT !.drain = NotDraining]))
  /\ UNCHANGED <<made, pushed, remote, news, starting, asked>>

-----------------------------------------------------------------------------
Device ==
  \/ SyncAfterStart \/ PeriodicSync
  \/ \E s \in Sessions : CursorAdvanced(s) \/ Greet(s)
  \/ Adopt \/ Unblock
  \/ PushTimer \/ ReconnectTimer \/ SyncRetryTimer
  \/ PullDone \/ PushDone \/ RoundFails

World ==
  \/ Start \/ ResumeConnection \/ UseSession \/ StopLoop
  \/ LocalChange \/ PolicyUpdated \/ RemoteChange
  \/ SocketCloses \/ ConnectFails \/ StaleRemains

Next == Device \/ World
Spec == Init /\ [][Next]_vars

-----------------------------------------------------------------------------
(* Properties.                                                                *)

\* Queued work is being drained, or something will start a drain: a timer, a
\* connection attempt, or the interval of a host that defers syncing.
NoLostWakeup ==
  Active(loop) /\ HasPendingWork(loop) /\ loop.drain.pc = "none" =>
    \/ loop.timers \cap {"reconnect", "syncRetry"} # {}
    \/ loop.connect.pc # "none"
    \/ loop.deferred

\* No socket is left open by a loop that was stopped or that has opened another,
\* whatever was awaited at the time; a stopped loop has no timer.
SocketsAccountedFor ==
  /\ loop.open \subseteq {loop.session, loop.connect.sid}
  /\ ~Active(loop) => loop.session = NoSession /\ loop.timers = {}

\* A loop that was asked to run has a session, is opening one, or will.
ReconnectsAlways ==
  asked # "nothing" /\ loop.session = NoSession /\ loop.connect.pc = "none" => "reconnect" \in loop.timers

\* Whatever fails, in the end everything recorded on the device has been
\* accepted and everything committed by others has been pulled.
CatchesUp == <>[](pushed = made /\ cursor = remote)

-----------------------------------------------------------------------------
(* What a test says and the code does not keep.                               *)

\* A loop that was stopped stays stopped until the host starts it again.
StaysStopped == Active(loop) => asked # "nothing"
=============================================================================

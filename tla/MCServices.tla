----------------------------- MODULE MCServices -----------------------------
(***************************************************************************)
(* What the coordinator of a vault does besides keeping its entries: the    *)
(* scheduler of maintenance jobs, the sockets and who may have one, and the *)
(* presence of the devices.  They share no state in the models, so that     *)
(* each is checked while the others stand still.                            *)
(***************************************************************************)
EXTENDS Maintenance

CONSTANTS u1, f1, f2, c1, c2, e1, NoEntry

VARIABLES
  part,     \* which of them runs
  member, grant, keyRequest, lapsed, revision, issue, token, flusher, hook, queue,
  block, suspension, shake, sockets, bound,
  live, user, me, up, down, session, store, recent, moves, drops

accessVars == <<member, grant, keyRequest, lapsed, revision, issue, token, flusher, hook, queue,
                block, suspension, shake, sockets, bound>>
presenceVars == <<live, user, me, up, down, session, store, recent, moves, drops>>

\* A Durable Object, where requests do not wait for a drain.
Interleaved == INSTANCE Maintenance WITH Serialized <- FALSE, MaxChanges <- 2

\* A member removed and back, while two callers deliver refreshes that fail.
Flushers == {f1, f2}
Removal == INSTANCE SyncAccess
  WITH Users <- {u1}, TTL <- 1, MaxVersion <- 2, MaxRevision <- 2,
       MaxPlanChanges <- 0, MaxQueue <- 2, MaxFaults <- 1

\* The plan lapses and is renewed.
Plan == INSTANCE SyncAccess
  WITH Users <- {u1}, Flushers <- {f1}, TTL <- 2, MaxVersion <- 2, MaxRevision <- 1,
       MaxPlanChanges <- 2, MaxQueue <- 2, MaxFaults <- 1

\* Two devices and one file; one connection may be lost.
Connections == {c1, c2}
Devices == INSTANCE Presence
  WITH Entries <- {e1}, None <- NoEntry, Reopens <- FALSE, Misses <- FALSE, Hibernates <- FALSE,
       MaxQueue <- 1, MaxMoves <- 1, MaxDrops <- 1

\* The same, where the coordinator may lose its memory and keep its sockets.
Hibernating == INSTANCE Presence
  WITH Entries <- {e1}, None <- NoEntry, Reopens <- FALSE, Misses <- FALSE, Hibernates <- TRUE,
       MaxQueue <- 1, MaxMoves <- 1, MaxDrops <- 0

ASSUME /\ Interleaved!MaintenanceAssumption
       /\ Removal!BoundsAssumption /\ Plan!BoundsAssumption
       /\ Devices!PresenceAssumption /\ Hibernating!PresenceAssumption

\* A part that stands still stands in one of its initial states.
Empty == \A c \in Connections : user[c].open = {} /\ user[c].at = NoEntry
MCInit ==
  /\ part \in {"serialized", "interleaved", "removal", "plan", "devices", "hibernating"}
  /\ IF part = "interleaved" THEN Interleaved!Init ELSE Init
  /\ IF part = "plan" THEN Plan!Init ELSE Removal!Init
  /\ part \in {"removal", "plan"} \/ member = {}
  /\ Devices!Init /\ (part \in {"devices", "hibernating"} \/ Empty)

MCNext ==
  \/ part = "serialized" /\ Next /\ UNCHANGED <<part, accessVars, presenceVars>>
  \/ part = "interleaved" /\ Interleaved!Next /\ UNCHANGED <<part, accessVars, presenceVars>>
  \/ part = "removal" /\ Removal!Next /\ UNCHANGED <<part, vars, presenceVars>>
  \/ part = "plan" /\ Plan!Next /\ UNCHANGED <<part, vars, presenceVars>>
  \/ part = "devices" /\ Devices!Next /\ UNCHANGED <<part, vars, accessVars>>
  \/ part = "hibernating" /\ Hibernating!Next /\ UNCHANGED <<part, vars, accessVars>>

\* Of maintenance: time passes, alarms fire, and calls to other systems end.
MaintenanceFairness ==
  LET on == part = "serialized" IN
  WF_vars(on /\ Tick) /\ WF_vars(on /\ AlarmFires) /\ WF_vars(on /\ Drain)

\* Of access: the task is delivered again every five minutes, the coordinator
\* serves its queue, and a caller that has its answer finishes.
AccessFairness ==
  LET on == part = "removal" IN
  /\ WF_accessVars(on /\ \E f \in Flushers : Removal!Call(f))
  /\ WF_accessVars(on /\ Removal!Coordinate)
  /\ \A f \in Flushers : WF_accessVars(on /\ Removal!FinishRefresh(f))

\* Of presence: messages arrive, lookups end, timers fire.  Strong fairness of
\* Handle only makes up for the bound on the queues.
PresenceFairness ==
  LET on == part = "devices" IN
  \A c \in Connections :
    /\ WF_presenceVars(on /\ Devices!Start(c)) /\ WF_presenceVars(on /\ Devices!syncPresenceWatch(c))
    /\ WF_presenceVars(on /\ Devices!publishNow(c)) /\ WF_presenceVars(on /\ Devices!Receive(c))
    /\ WF_presenceVars(on /\ Devices!storePeer(c)) /\ SF_presenceVars(on /\ Devices!Handle(c))
    /\ WF_presenceVars(on /\ Devices!Cool(c)) /\ WF_presenceVars(on /\ Devices!handleDisconnect(c))

MCSpec ==
  /\ MCInit /\ [][MCNext]_<<part, vars, accessVars, presenceVars>>
  /\ MaintenanceFairness /\ AccessFairness /\ PresenceFairness

-----------------------------------------------------------------------------
(* The properties of the components, each in its part.                      *)

\* Every component keeps to its types.
TypesOK ==
  /\ IF part = "interleaved" THEN Interleaved!TypeOK ELSE TypeOK
  /\ IF part = "plan" THEN Plan!TypeOK ELSE Removal!TypeOK
  /\ Devices!TypeOK

\* While the published summary is out of date, a job that leads to a new one waits.
SerializedSummaries == part = "serialized" => SummaryScheduled
\* Left alone, every job that is due is done (scheduleMaintenance, drain).
SettlesAlone == part = "serialized" => Settles

\* Once no refresh is pending, open sockets are of active members (closeDeniedSockets).
SocketsAreMembers == Removal!SocketsAreMembers
\* Once no refresh is pending, tokens of an earlier access are refused while they live.
OldTokensRefused == part = "removal" => Removal!OldTokensRefused
\* Once a lapse has been delivered, nobody is connected and no token is accepted.
SuspensionEnforced == part = "plan" => Plan!SuspensionEnforced
\* Once a renewal has been delivered, no suspension is left.
RenewalLifts == part = "plan" => Plan!RenewalLifts
\* A change of access reaches the coordinator, whatever fails (deliverRefresh).
RefreshDelivered == part = "removal" => Removal!RefreshDelivered

\* A device shows as present only who is, once what is under way has arrived.
RosterTruthful == part = "devices" => Devices!RosterTruthful
\* A peer is kept only for a file that is open.
KeptIsWatched == Devices!KeptIsWatched
\* Both sides agree whether presence is available.
AvailabilityAgreed == Devices!AvailabilityAgreed
\* Who opens the file is shown to who has it open.
PeersShown == part = "devices" => Devices!PeersShown
\* A peer that has left is no longer shown in the end.
GhostsVanish == part = "devices" => Devices!GhostsVanish

\* What each side keeps agrees with the others: alarms with jobs, sockets and tokens
\* with members and plan, rosters with who is there, whatever restarts or comes twice.
ServicesAgree ==
  /\ TypesOK
  /\ AlarmCoversJobs /\ DeadlinesScheduled /\ SerializedSummaries
  /\ SocketsAreMembers /\ OldTokensRefused /\ SuspensionEnforced /\ RenewalLifts
  /\ RosterTruthful /\ KeptIsWatched /\ AvailabilityAgreed

\* What is due is done in the end: jobs run, changes of access are delivered, peers
\* are shown, and those who left are not.
ServicesSettle == SettlesAlone /\ RefreshDelivered /\ PeersShown /\ GhostsVanish
=============================================================================

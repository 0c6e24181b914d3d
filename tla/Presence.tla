------------------------------ MODULE Presence ------------------------------
(***************************************************************************)
(* Who is seen editing which entry.  Each connection of a device tells the  *)
(* coordinator which entries it has open (watch_presence) and where its     *)
(* cursor is (presence_update); the coordinator keeps the last place of     *)
(* each connection in memory and tells the watchers of that entry; a device *)
(* keeps a roster of the peers it was told of and draws them.               *)
(*                                                                          *)
(* A presence is known by the identifier of its connection, so a device     *)
(* that reconnects is a new element of Connections.  Selections within an   *)
(* entry are left out.                                                      *)
(***************************************************************************)
EXTENDS Integers, Sequences, FiniteSets, SequencesExt, FiniteSetsExt, Functions

CONSTANTS Connections,
          Entries,
          None,        \* no entry
          Reopens,     \* a device may watch again what it has stopped watching
          Misses,      \* the path of an entry may be unknown to a device
          Hibernates,  \* the coordinator may lose its memory and keep its sockets
          MaxQueue,    \* bound on messages waiting in a direction
          MaxMoves,    \* bound on changes of a device's workspace
          MaxDrops     \* bound on connections lost

PresenceAssumption ==
  /\ None \notin Entries
  /\ {Reopens, Misses, Hibernates} \subseteq BOOLEAN
  /\ {MaxQueue, MaxMoves, MaxDrops} \subseteq Nat

VARIABLES live,    \* connection -> "open", "dropped" (the device has lost it) or "gone"
          user,    \* connection -> the device's workspace
          me,      \* connection -> the device's presence state
          up,      \* connection -> messages on their way to the coordinator
          down,    \* connection -> messages on their way to the device
          session, \* connection -> its attachment at the coordinator
          store,   \* connection -> the entry the coordinator keeps for it
          recent,  \* connections whose last update is less than 200 ms old
          moves, drops

device == <<user, me>>
server == <<session, store, recent>>
vars == <<live, device, up, down, server, moves, drops>>

Nowhere == [c \in Connections |-> None]
Idle == [started |-> FALSE, watched |-> {}, available |-> FALSE, roster |-> Nowhere,
         lookups |-> {}, watchDue |-> FALSE, publishDue |-> FALSE]
Lookups == [of : Connections, entry : Entries, current : BOOLEAN]
Requests == [type : {"watch"}, ids : SUBSET Entries]
              \cup [type : {"update"}, entry : Entries]
              \cup [type : {"clear", "unwatch"}]
Updated(p, e) == [type |-> "updated", of |-> p, entry |-> e]
Cleared(p) == [type |-> "cleared", of |-> p]
Availability(b) == [type |-> "availability", enabled |-> b]

TypeOK ==
  /\ live \in [Connections -> {"open", "dropped", "gone"}]
  /\ \A c \in Connections :
       /\ user[c].at \in user[c].open \cup {None}
       /\ user[c].open \subseteq Entries /\ user[c].left \subseteq Entries
       /\ me[c].watched \subseteq Entries
       /\ me[c].roster \in [Connections -> Entries \cup {None}]
       /\ me[c].lookups \subseteq Lookups
       /\ {me[c].started, me[c].available, me[c].watchDue, me[c].publishDue} \subseteq BOOLEAN
       /\ Range(up[c]) \subseteq Requests
       /\ session[c].watch \subseteq Entries /\ session[c].wants \in BOOLEAN
  /\ store \in [Connections -> Entries \cup {None}]
  /\ recent \subseteq Connections

Init ==
  /\ live = [c \in Connections |-> "open"]
  /\ user \in [Connections -> {[open |-> o, at |-> a, left |-> {}] :
                                o \in SUBSET Entries, a \in Entries \cup {None}}]
  /\ \A c \in Connections : user[c].at \in user[c].open \cup {None}
  /\ me = [c \in Connections |-> Idle]
  /\ up = [c \in Connections |-> <<>>]
  /\ down = [c \in Connections |-> <<>>]
  /\ session = [c \in Connections |-> [wants |-> FALSE, watch |-> {}]]
  /\ store = Nowhere
  /\ recent = {}
  /\ moves = 0
  /\ drops = 0

-----------------------------------------------------------------------------
(* The device: its workspace, what it publishes and what it watches.        *)

\* Lookups that are no longer waited for.  Such a lookup does nothing, unless
\* it finds no path.
Outdated(lookups, Of(_)) ==
  {l \in lookups : ~Of(l)}
    \cup IF Misses THEN {[l EXCEPT !.current = FALSE] : l \in {k \in lookups : Of(k)}} ELSE {}

\* Peers on entries that are no longer watched are forgotten.
Watching(r, ids) ==
  [r EXCEPT !.watched = ids,
            !.roster = [p \in Connections |-> IF @[p] \in ids THEN @[p] ELSE None],
            !.lookups = Outdated(@, LAMBDA l : l.entry \notin ids)]

\* The watch is sent when its entries change, and at the start.
WatchRequest(c, ids) ==
  IF ids # me[c].watched \/ ~me[c].started
    THEN <<[type |-> "watch", ids |-> ids]>> ELSE <<>>

Invalidated(r) ==
  [r EXCEPT !.roster = Nowhere, !.lookups = Outdated(@, LAMBDA l : TRUE)]

Send(c, messages) ==
  /\ Len(up[c]) + Len(messages) <= MaxQueue
  /\ up' = [up EXCEPT ![c] = @ \o messages]

\* The user opens, closes or focuses a file, or leaves the window.
Workspace(c) ==
  /\ live[c] = "open" /\ moves < MaxMoves
  /\ \E open \in SUBSET Entries : \E at \in open \cup {None} :
       /\ open # user[c].open \/ at # user[c].at
       /\ Cardinality(SymDiff(open, user[c].open)) <= 1
       /\ Reopens \/ (open \ user[c].open) \cap user[c].left = {}
       /\ user' = [user EXCEPT ![c] = [open |-> open, at |-> at,
                                       left |-> @.left \cup (@.open \ open)]]
  /\ me' = [me EXCEPT ![c].watchDue = me[c].started, ![c].publishDue = me[c].started]
  /\ moves' = moves + 1
  /\ UNCHANGED <<live, up, down, server, drops>>

\* Presence starts with the session of a signed-in, connected device.
Start(c) ==
  /\ live[c] = "open" /\ ~me[c].started
  /\ Reopens \/ user[c].open \cap user[c].left = {}
  /\ Send(c, WatchRequest(c, user[c].open))
  /\ me' = [me EXCEPT ![c] = [Watching(@, user[c].open) EXCEPT
                                !.started = TRUE, !.publishDue = TRUE]]
  /\ UNCHANGED <<live, user, down, server, moves, drops>>

syncPresenceWatch(c) ==
  /\ live[c] = "open" /\ me[c].started /\ me[c].watchDue
  /\ Send(c, WatchRequest(c, user[c].open))
  /\ me' = [me EXCEPT ![c] = [Watching(@, user[c].open) EXCEPT !.watchDue = FALSE]]
  /\ UNCHANGED <<live, user, down, server, moves, drops>>

\* Faulty variant: a device without an active file publishes all the same.
PlaceAlways(c) ==
  IF ~me[c].available THEN <<>> ELSE <<[type |-> "update", entry |-> user[c].at]>>

\* Nothing is published while no other device watches.
Place(c) ==
  IF ~me[c].available THEN <<>>
  ELSE IF user[c].at = None THEN <<[type |-> "clear"]>>
  ELSE <<[type |-> "update", entry |-> user[c].at]>>

\* A publication that is due, or the announcement every 15 seconds, when what
\* was sent before has arrived.
publishNow(c) ==
  LET at == user[c].at
      ids == me[c].watched \cup {at}
  IN /\ live[c] = "open" /\ me[c].started
     /\ me[c].publishDue \/ up[c] = <<>>
     /\ IF at = None
          THEN /\ Send(c, Place(c))
               /\ me' = [me EXCEPT ![c].publishDue = FALSE]
          ELSE /\ Send(c, WatchRequest(c, ids) \o Place(c))
               /\ me' = [me EXCEPT ![c] = [Watching(@, ids) EXCEPT !.publishDue = FALSE]]
     /\ UNCHANGED <<live, user, down, server, moves, drops>>

\* The user signs out or disconnects the vault; the clear is left out where
\* the device is no longer signed in.
Stop(c) ==
  /\ live[c] = "open" /\ me[c].started /\ moves < MaxMoves
  /\ \E clear \in {<<>>, <<[type |-> "clear"]>>} :
       /\ clear # <<>> => me[c].available
       /\ Send(c, clear \o <<[type |-> "unwatch"]>>)
  /\ me' = [me EXCEPT ![c] = [Idle EXCEPT
                                !.lookups = Outdated(me[c].lookups, LAMBDA l : TRUE)]]
  /\ user' = [user EXCEPT ![c].left = @ \cup me[c].watched]
  /\ moves' = moves + 1
  /\ UNCHANGED <<live, down, server, drops>>

-----------------------------------------------------------------------------
(* The device: what it is told.                                             *)

\* Faulty variant: a lookup that began before the peer was cleared counts.
onClearedKeeps(r, p) == [r EXCEPT !.roster[p] = None]

onCleared(r, p) ==
  [r EXCEPT !.roster[p] = None, !.lookups = Outdated(@, LAMBDA l : l.of = p)]

onUpdated(r, p, e) ==
  [r EXCEPT !.lookups = Outdated(@, LAMBDA l : l.of = p)
                          \cup {[of |-> p, entry |-> e, current |-> TRUE]}]

onAvailability(r, enabled) ==
  IF r.available = enabled \/ ~r.started THEN r
  ELSE IF enabled THEN [r EXCEPT !.available = TRUE, !.publishDue = TRUE]
  ELSE [Invalidated(r) EXCEPT !.available = FALSE]

Receive(c) ==
  /\ live[c] = "open" /\ down[c] # <<>>
  /\ LET m == Head(down[c]) IN
     me' = [me EXCEPT ![c] =
              CASE m.type = "updated" -> onUpdated(@, m.of, m.entry)
                [] m.type = "cleared" -> onCleared(@, m.of)
                [] OTHER -> onAvailability(@, m.enabled)]
  /\ down' = [down EXCEPT ![c] = Tail(@)]
  /\ UNCHANGED <<live, user, up, server, moves, drops>>

\* The lookup of an entry's local path ends.  One that finds no path takes the
\* peer's latest request with it, be it another's.
storePeer(c) ==
  /\ live[c] = "open"
  /\ \E l \in me[c].lookups, found \in {TRUE, ~Misses} :
       me' = [me EXCEPT ![c] =
         IF ~found
           THEN [@ EXCEPT !.lookups = Outdated(@ \ {l}, LAMBDA k : k.of = l.of)]
         ELSE IF l.current /\ @.started /\ l.entry \in @.watched
           THEN [@ EXCEPT !.lookups = @ \ {l}, !.roster[l.of] = l.entry]
         ELSE [@ EXCEPT !.lookups = @ \ {l}]]
  /\ UNCHANGED <<live, user, up, down, server, moves, drops>>

-----------------------------------------------------------------------------
(* The coordinator.                                                         *)

Nothing == [d \in Connections |-> <<>>]
Wanting(sessions) == {d \in Connections : live[d] # "gone" /\ sessions[d].wants}

ToWatchers(sessions, e, except, message) ==
  [d \in Connections |-> IF d \in Wanting(sessions) \ {except} /\ e \in sessions[d].watch
                           THEN <<message>> ELSE <<>>]

To(c, messages) == [Nothing EXCEPT ![c] = messages]

\* Faulty variant: two watchers are not enough.
EnabledForThree(sessions, except) == Cardinality(Wanting(sessions) \ {except}) > 2

\* Faulty variant: a device that closes its connection still counts.
EnabledWithGone(sessions, except) == Cardinality(Wanting(sessions)) > 1

\* Presence is of use to two watchers or more.
Enabled(sessions, except) == Cardinality(Wanting(sessions) \ {except}) > 1

ToWanting(sessions, except) ==
  [d \in Connections |-> IF d \in Wanting(sessions) \ {except}
                           THEN <<Availability(Enabled(sessions, except))>> ELSE <<>>]

Snapshots(c, entries) ==
  SetToSeq({Updated(p, store[p]) : p \in {q \in Connections \ {c} : store[q] \in entries}})

\* Lists of messages sent one after the other; a lost connection gets none.
Sent(lists) ==
  down' = [d \in Connections |->
             IF live[d] = "open" THEN down[d] \o FlattenSeq([i \in DOMAIN lists |-> lists[i][d]])
             ELSE <<>>]

\* The places kept once c has left its own, and what its watchers are told.
Forgotten(c) == [store EXCEPT ![c] = None]
ClearedToWatchers(sessions, c) ==
  IF store[c] = None THEN Nothing ELSE ToWatchers(sessions, store[c], c, Cleared(c))

\* With fewer than two watchers the store is emptied.
KeepIf(enabled, places, times) ==
  /\ store' = IF enabled THEN places ELSE Nowhere
  /\ recent' = IF enabled THEN times ELSE {}

\* Faulty variant: a device that stops watching where its cursor was is kept.
ShouldClearNever(c, ids) == FALSE

ShouldClear(c, ids) == store[c] # None /\ store[c] \notin ids

watch_presence(c, ids) ==
  LET sessions == [session EXCEPT ![c] = [wants |-> TRUE, watch |-> ids]]
      clear == ShouldClear(c, ids)
      enabled == Enabled(sessions, "")
  IN /\ session' = sessions
     /\ KeepIf(enabled, IF clear THEN Forgotten(c) ELSE store,
               IF clear THEN recent \ {c} ELSE recent)
     /\ Sent(<<IF clear THEN ClearedToWatchers(sessions, c) ELSE Nothing,
               ToWanting(sessions, ""),
               To(c, IF enabled THEN Snapshots(c, ids \ session[c].watch) ELSE <<>>)>>)

unwatch_presence(c) ==
  LET sessions == [session EXCEPT ![c] = [wants |-> FALSE, watch |-> {}]]
  IN /\ session' = sessions
     /\ KeepIf(Enabled(sessions, ""), Forgotten(c), recent \ {c})
     /\ Sent(<<ClearedToWatchers(sessions, c), ToWanting(sessions, "")>>)

presence_clear(c) ==
  /\ UNCHANGED session
  /\ IF session[c].wants
       THEN /\ store' = Forgotten(c) /\ recent' = recent \ {c}
            /\ Sent(<<ClearedToWatchers(session, c)>>)
       ELSE UNCHANGED <<store, recent, down>>

\* An update within 200 ms of the last is dropped.
presence_update(c, e) ==
  /\ UNCHANGED session
  /\ IF session[c].wants /\ c \notin recent
       THEN LET moved == store[c] # e IN
            /\ store' = [store EXCEPT ![c] = e] /\ recent' = recent \cup {c}
            /\ Sent(<<IF moved THEN ClearedToWatchers(session, c) ELSE Nothing,
                      ToWatchers(session, e, c, Updated(c, e)),
                      To(c, IF moved THEN Snapshots(c, {e}) ELSE <<>>)>>)
       ELSE UNCHANGED <<store, recent, down>>

Handle(c) ==
  /\ live[c] # "gone" /\ up[c] # <<>>
  /\ \A d \in Connections : Len(down[d]) <= MaxQueue
  /\ LET m == Head(up[c]) IN
     CASE m.type = "watch" -> watch_presence(c, m.ids)
       [] m.type = "unwatch" -> unwatch_presence(c)
       [] m.type = "clear" -> presence_clear(c)
       [] OTHER -> presence_update(c, m.entry)
  /\ up' = [up EXCEPT ![c] = Tail(@)]
  /\ UNCHANGED <<live, device, moves, drops>>

\* 200 ms pass.
Cool(c) ==
  /\ c \in recent
  /\ recent' = recent \ {c}
  /\ UNCHANGED <<live, device, up, down, session, store, moves, drops>>

\* A device loses its connection and forgets what it was told; the
\* coordinator still has messages of it to handle.
Drop(c) ==
  /\ live[c] = "open" /\ drops < MaxDrops
  /\ live' = [live EXCEPT ![c] = "dropped"]
  /\ me' = [me EXCEPT ![c] = Idle]
  /\ down' = [down EXCEPT ![c] = <<>>]
  /\ drops' = drops + 1
  /\ UNCHANGED <<user, up, server, moves>>

handleDisconnect(c) ==
  /\ live[c] = "dropped"
  /\ live' = [live EXCEPT ![c] = "gone"]
  /\ up' = [up EXCEPT ![c] = <<>>]
  /\ session' = [session EXCEPT ![c] = [wants |-> FALSE, watch |-> {}]]
  /\ KeepIf(Enabled(session, c), Forgotten(c), recent \ {c})
  /\ Sent(<<ClearedToWatchers(session, c), ToWanting(session, c)>>)
  /\ UNCHANGED <<device, moves, drops>>

\* The Durable Object is evicted while its sockets are quiet: attachments
\* survive, the store is in memory only.
Hibernate ==
  /\ Hibernates
  /\ \A c \in Connections : up[c] = <<>>
  /\ store # Nowhere
  /\ store' = Nowhere /\ recent' = {}
  /\ UNCHANGED <<live, device, up, down, session, moves, drops>>

Next ==
  \/ \E c \in Connections :
       \/ Workspace(c) \/ Start(c) \/ syncPresenceWatch(c) \/ publishNow(c) \/ Stop(c)
       \/ Receive(c) \/ storePeer(c)
       \/ Handle(c) \/ Cool(c) \/ Drop(c) \/ handleDisconnect(c)
  \/ Hibernate

Spec == Init /\ [][Next]_vars

-----------------------------------------------------------------------------
(* Properties.                                                              *)

Settled(c) ==
  /\ live[c] = "open" /\ up[c] = <<>> /\ down[c] = <<>>
  /\ \A l \in me[c].lookups : ~l.current

\* A device that has heard everything draws no ghost: a peer of its roster is
\* on the entry the coordinator keeps for it, whatever was cleared, moved,
\* dropped or looked up meanwhile.
RosterTruthful ==
  \A c \in Connections : Settled(c) =>
    \A p \in Connections : me[c].roster[p] \in {None, store[p]}

\* The same once all devices are at rest, and the coordinator has heard
\* everything: a ghost drawn then stays.
NoGhostAtRest ==
  (\A c \in Connections : live[c] = "open" =>
     Settled(c) /\ ~me[c].watchDue /\ ~me[c].publishDue)
  => RosterTruthful

\* A place is kept only for a connection that watches it, so the clear that
\* must follow reaches whoever was told: a device that closes the file, stops
\* or goes leaves nothing behind.
KeptIsWatched ==
  \A c \in Connections : store[c] # None => /\ c \in Wanting(session)
                                            /\ store[c] \in session[c].watch

\* Once every message has arrived, each device that watches publishes exactly
\* if another watches too.
AvailabilityAgreed ==
  (\A c \in Connections : up[c] = <<>> /\ down[c] = <<>> /\ live[c] # "dropped") =>
    \A c \in Connections : live[c] = "open" /\ me[c].started =>
      (me[c].available <=> Cardinality({d \in Connections : me[d].started}) > 1)

\* A peer at work in a file that is open here is drawn in the end, and stays.
PeersShown ==
  \A c, p \in Connections : c # p =>
    <>[](/\ live[c] = "open" /\ me[c].started
         /\ live[p] = "open" /\ me[p].started
         /\ user[p].at # None /\ user[p].at \in me[c].watched
         => me[c].roster[p] = user[p].at)

\* No ghost stays: a peer that left the file, the vault or the network is not
\* drawn any more in the end.
GhostsVanish ==
  \A c, p \in Connections : c # p =>
    <>[](live[c] = "open" =>
           me[c].roster[p] \in
             {None} \cup {user[q].at : q \in {p} \cap {r \in Connections :
                            live[r] = "open" /\ me[r].started}})
=============================================================================

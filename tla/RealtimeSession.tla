--------------------------- MODULE RealtimeSession ---------------------------
(***************************************************************************)
(* One realtime session of the client: SyncRealtimeClient.openSession()    *)
(* and SyncRealtimeSocketSession, with the server at the other end of the  *)
(* socket.                                                                 *)
(*                                                                         *)
(* Requests are answered by id and in any order; each has a timer, and one *)
(* that fires fails the whole connection.  A heartbeat finds out that the  *)
(* peer is gone when nothing else is asked.  Time is counted in ticks; a   *)
(* timer that is due fires before time goes on.                            *)
(*                                                                         *)
(* The server ends a session in order with a reason, or the socket is cut, *)
(* or it goes silent.  Pushes that are no answers are left out.            *)
(***************************************************************************)
EXTENDS Naturals, Sequences, FiniteSets

CONSTANTS
    Requests,           \* requests of the callers
    Hello, Beat,        \* the ids of the first request and of the heartbeat
    None,
    RequestTimeout,     \* ticks until a request fails the connection
    HeartbeatInterval,
    HeartbeatTimeout

ASSUME RealtimeAssumption ==
    /\ Hello # Beat /\ {Hello, Beat, None} \cap Requests = {}
    /\ None \notin {Hello, Beat} \union Nat
    /\ {RequestTimeout, HeartbeatInterval, HeartbeatTimeout} \subseteq Nat \ {0}
    /\ HeartbeatTimeout < HeartbeatInterval

Ids == Requests \union {Hello, Beat}

VARIABLES
    phase,          \* connecting, hello, open or ended, as openSession() sees it
    closed,         \* the session object is closed
    waiting,        \* pendingRequests
    timer,          \* ticks left of each pending request's timer
    beatIn,         \* ticks to the next heartbeat, or None
    outcome,        \* how each request of a caller was settled
    received,       \* receivedSessionError
    onClose,        \* how often onClose() was called
    told,           \* how often onError() named the server's reason
    unknown,        \* an answer came that nobody waited for
    peer,           \* the server's end: up, silent or gone
    inbox,          \* requests on their way or being handled
    wire,           \* what the server sent, in order
    served,         \* requests the server carried out
    silence         \* ticks since the peer went silent

client == <<phase, closed, waiting, timer, beatIn, outcome>>
calls == <<received, onClose, told, unknown>>
server == <<peer, inbox, wire, served, silence>>
vars == <<client, calls, server>>

Init ==
    /\ phase = "connecting" /\ closed = FALSE
    /\ waiting = {} /\ timer = [i \in Ids |-> 0] /\ beatIn = None
    /\ outcome = [r \in Requests |-> "idle"]
    /\ received = FALSE /\ onClose = 0 /\ told = 0 /\ unknown = FALSE
    /\ peer = "up" /\ inbox = {} /\ wire = <<>> /\ served = {} /\ silence = 0

-----------------------------------------------------------------------------
(* The parts of the session.                                                *)

\* Faulty variant: those who wait are forgotten.
RejectNone == waiting' = {} /\ UNCHANGED outcome

\* rejectPending(): everybody who waits gets the error.
RejectPending ==
    /\ waiting' = {}
    /\ outcome' = [r \in Requests |->
                     IF r \in waiting THEN "lost" ELSE outcome[r]]

\* Faulty variant: the interval of the heartbeat runs on.
EndKeepsBeating ==
    /\ closed' = TRUE /\ phase' = "ended"
    /\ UNCHANGED <<timer, beatIn>>
    /\ RejectPending

\* The session is over, its heartbeat stopped, nobody waits; an openSession()
\* that still waits for its hello fails.
End ==
    /\ closed' = TRUE /\ phase' = "ended" /\ beatIn' = None
    /\ UNCHANGED timer
    /\ RejectPending

\* failConnection(): unlike close() it tells the owner.
Fail == End /\ onClose' = onClose + 1

\* Faulty variant: a request whose time is up is given up alone.
TimeoutAlone(i) ==
    /\ waiting' = waiting \ {i}
    /\ outcome' = IF i \in Requests THEN [outcome EXCEPT ![i] = "lost"]
                  ELSE outcome
    /\ UNCHANGED <<phase, closed, timer, beatIn, onClose>>

\* A timer is due: the connection as a whole is taken for dead.
TimedOut(i) == Fail

Send(i, ticks) ==
    /\ waiting' = waiting \union {i}
    /\ timer' = [timer EXCEPT ![i] = ticks]
    /\ inbox' = IF peer = "up" THEN inbox \union {i} ELSE inbox

Due == {i \in waiting : timer[i] = 0}

-----------------------------------------------------------------------------
(* The client.                                                              *)

\* The socket is open: the session says hello.
opened ==
    /\ phase = "connecting" /\ peer = "up"
    /\ phase' = "hello"
    /\ Send(Hello, RequestTimeout)
    /\ UNCHANGED <<closed, beatIn, outcome, calls, peer, wire, served, silence>>

connectFails ==
    /\ phase = "connecting"
    /\ phase' = "ended" /\ closed' = TRUE
    /\ UNCHANGED <<waiting, timer, beatIn, outcome, calls, server>>

\* request(): refused at once by a closed session.
request(r) ==
    /\ outcome[r] = "idle" /\ phase \in {"open", "ended"}
    /\ \/ /\ closed
          /\ outcome' = [outcome EXCEPT ![r] = "lost"]
          /\ UNCHANGED <<waiting, timer, inbox>>
       \/ /\ ~closed
          /\ outcome' = [outcome EXCEPT ![r] = "waiting"]
          /\ Send(r, RequestTimeout)
    /\ UNCHANGED <<phase, closed, beatIn, calls, peer, wire, served, silence>>

\* The socket refuses to send: the request fails with all others.
sendFails(r) ==
    /\ outcome[r] = "idle" /\ phase = "open" /\ ~closed /\ peer # "up"
    /\ closed' = TRUE /\ phase' = "ended" /\ beatIn' = None
    /\ waiting' = {} /\ onClose' = onClose + 1
    /\ outcome' = [q \in Requests |->
                     IF q = r \/ q \in waiting THEN "lost" ELSE outcome[q]]
    /\ UNCHANGED <<timer, received, told, unknown, server>>

\* Faulty variant: the heartbeat is sent and its answer not waited for.
sendHeartbeatOnly ==
    /\ beatIn = 0
    /\ beatIn' = HeartbeatInterval
    /\ UNCHANGED <<phase, closed, waiting, timer, outcome, calls, server>>

\* The heartbeat is due.
sendHeartbeat ==
    /\ beatIn = 0
    /\ beatIn' = HeartbeatInterval
    /\ \/ /\ ~closed
          /\ Send(Beat, HeartbeatTimeout)
       \/ closed /\ UNCHANGED <<waiting, timer, inbox>>
    /\ UNCHANGED <<phase, closed, outcome, calls, peer, wire, served, silence>>

timeout(i) ==
    /\ i \in Due
    /\ TimedOut(i)
    /\ UNCHANGED <<received, told, unknown, server>>

\* close() by the owner, who is not told.
close ==
    /\ phase = "open" /\ ~closed
    /\ End
    /\ UNCHANGED <<calls, server>>

\* Faulty variant: an answer goes to whoever has waited.
AnswerAny(i, to) ==
    IF waiting = {} THEN {i} ELSE {CHOOSE j \in waiting : TRUE}

\* The request an answer belongs to.
AnswerTo(i, to) == {i}

\* Faulty variant: the listeners stay when the session ends.
IncomingLate(type) ==
    /\ wire # <<>> /\ Head(wire).type = type
    /\ wire' = Tail(wire)

\* The server's next message, unless the session is closed.
Incoming(type) ==
    /\ wire # <<>> /\ Head(wire).type = type /\ ~closed
    /\ wire' = Tail(wire)

\* An answer.  That to hello opens the session and starts the heartbeat.
receiveAnswer ==
    /\ \E type \in {"answered", "refused"} :
          /\ Incoming(type)
          /\ \E i \in AnswerTo(Head(wire).id, type) :
               \/ /\ i \in waiting
                  /\ waiting' = waiting \ {i}
                  /\ outcome' = IF i \in Requests
                                THEN [outcome EXCEPT ![i] = type] ELSE outcome
                  /\ phase' = IF i = Hello THEN "open" ELSE phase
                  /\ beatIn' = IF i = Hello THEN HeartbeatInterval ELSE beatIn
                  /\ UNCHANGED unknown
               \/ /\ i \notin waiting
                  /\ unknown' = TRUE
                  /\ UNCHANGED <<waiting, outcome, phase, beatIn>>
    /\ UNCHANGED <<closed, timer, received, onClose, told, peer, inbox, served,
                   silence>>

\* session_error: everybody who waits gets it, the owner is told.  A rejected
\* hello makes openSession() close the session, a rejected heartbeat fails it.
receiveSessionError ==
    /\ Incoming("session_error")
    /\ received' = TRUE /\ told' = told + 1
    /\ \/ /\ Beat \in waiting /\ phase = "open"
          /\ Fail
       \/ /\ phase = "hello"
          /\ End /\ UNCHANGED onClose
       \/ /\ phase = "open" /\ Beat \notin waiting
          /\ RejectPending
          /\ UNCHANGED <<phase, closed, timer, beatIn, onClose>>
    /\ UNCHANGED <<unknown, peer, inbox, served, silence>>

\* Faulty variant: the reason of the close is always told.
TellAlways(reason) == reason

\* The reason in the close event is told unless an error has said it before.
TellReason(reason) == reason /\ ~received

\* handleClose(): the server closed the socket, with a reason or without.
receiveClose ==
    /\ Incoming("close")
    /\ Fail
    /\ told' = IF TellReason(Head(wire).reason) THEN told + 1 ELSE told
    /\ UNCHANGED <<received, unknown, peer, inbox, served, silence>>

\* handleError(), or a close event without the server's word.
socketCut ==
    /\ peer = "gone" /\ wire = <<>> /\ phase \in {"hello", "open"} /\ ~closed
    /\ Fail
    /\ UNCHANGED <<received, told, unknown, server>>

-----------------------------------------------------------------------------
(* The server and the network.                                              *)

\* Messages after a close are not delivered; those to a closed session are
\* dropped.
serve(i, type) ==
    /\ i \in inbox /\ peer = "up"
    /\ type = "refused" => i \in Requests
    /\ inbox' = inbox \ {i}
    /\ served' = IF i \in Requests /\ type = "answered" THEN served \union {i}
                 ELSE served
    /\ wire' = IF closed THEN wire
               ELSE Append(wire, [type |-> type, id |-> i, reason |-> FALSE])
    /\ UNCHANGED <<client, calls, peer, silence>>

\* The server ends the session: a message that says why, a close code that
\* does, both or neither.
serverEnds(message, code) ==
    /\ peer = "up" /\ phase \in {"hello", "open"} /\ ~closed
    /\ peer' = "ended" /\ inbox' = {}
    /\ wire' = wire
         \o (IF message
             THEN <<[type |-> "session_error", id |-> None, reason |-> TRUE]>>
             ELSE <<>>)
         \o <<[type |-> "close", id |-> None, reason |-> code]>>
    /\ UNCHANGED <<client, calls, served, silence>>

\* The connection is cut, with what is on its way, or falls silent; what was
\* asked may have been carried out all the same.
networkFails(to) ==
    /\ peer = "up" /\ phase # "connecting"
    /\ peer' = to
    /\ wire' = <<>> \/ (to = "silent" /\ wire' = wire)
    /\ \/ inbox' = {} /\ UNCHANGED served
       \/ inbox' = {} /\ served' = served \union (inbox \cap Requests)
    /\ UNCHANGED <<client, calls, silence>>

Tick ==
    /\ Due = {} /\ beatIn # 0 /\ phase \in {"hello", "open"} /\ ~closed
    /\ timer' = [i \in Ids |-> IF i \in waiting THEN timer[i] - 1 ELSE 0]
    /\ beatIn' = IF beatIn = None THEN None ELSE beatIn - 1
    /\ silence' = IF peer = "silent" THEN silence + 1 ELSE silence
    /\ UNCHANGED <<phase, closed, waiting, outcome, calls, peer, inbox, wire,
                   served>>

Receive == receiveAnswer \/ receiveSessionError \/ receiveClose \/ socketCut

Next ==
    \/ opened \/ connectFails \/ sendHeartbeat \/ close \/ Receive \/ Tick
    \/ \E r \in Requests : request(r) \/ sendFails(r)
    \/ \E i \in Ids :
          timeout(i) \/ \E type \in {"answered", "refused"} : serve(i, type)
    \/ \E message, code \in BOOLEAN : serverEnds(message, code)
    \/ \E to \in {"silent", "gone"} : networkFails(to)

Spec == Init /\ [][Next]_vars

-----------------------------------------------------------------------------
Longest == HeartbeatInterval + HeartbeatTimeout + RequestTimeout

TypeOK ==
    /\ phase \in {"connecting", "hello", "open", "ended"}
    /\ {closed, received, unknown} \subseteq BOOLEAN
    /\ waiting \subseteq Ids
    /\ timer \in [Ids -> 0 .. RequestTimeout + HeartbeatTimeout]
    /\ beatIn \in {None} \union (0 .. HeartbeatInterval)
    /\ outcome \in [Requests -> {"idle", "waiting", "answered", "refused",
                                 "lost"}]
    /\ onClose \in 0 .. 1 /\ told \in Nat
    /\ peer \in {"up", "silent", "gone", "ended"}
    /\ inbox \subseteq Ids /\ served \subseteq Requests
    /\ \A n \in DOMAIN wire :
          wire[n] \in [type : {"answered", "refused", "session_error", "close"},
                       id : Ids \union {None}, reason : BOOLEAN]
    /\ silence \in Nat

\* Answers are never mixed up: who got one was served, who was refused was not.
OwnAnswer ==
    \A r \in Requests :
        /\ outcome[r] = "answered" => r \in served
        /\ outcome[r] = "refused" => r \notin served

\* No answer arrives that nobody waits for: a session that gives up on one
\* request gives up on the connection.
NoStrayAnswer == ~unknown

\* A peer that went silent is found out within a heartbeat and its timeout, or
\* while hello is awaited within the timeout of a request; one that went silent
\* with its answer to hello on the way, within both.
SilenceFound ==
    silence <= IF phase = "hello" THEN RequestTimeout ELSE Longest

\* The server's reason to end the session is told once, whether it came as a
\* message, as a close code or as both.
ReasonToldOnce == told <= 1

\* A closed session beats no more.
ClosedIsStill == closed => waiting = {} /\ beatIn = None

\* The owner hears of the end with the end, once, and not when it was the owner
\* who closed the session.
ToldWithTheEnd == [][onClose' # onClose => ~closed /\ closed']_vars

\* Every request is settled in the end.
RequestsSettle ==
    \A r \in Requests : outcome[r] = "waiting" ~> outcome[r] # "waiting"

\* The session keeps the promise of RequestSession.
Calls == INSTANCE RequestSession
         WITH alive <- phase = "open", ended <- phase = "ended",
              call <- outcome
KeepsPromise == Calls!Spec
=============================================================================

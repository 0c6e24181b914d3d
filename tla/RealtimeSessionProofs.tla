------------------------ MODULE RealtimeSessionProofs ------------------------
(* Answers are never mixed up, a silent peer is found out and the end is told *)
(* once: for any number of requests, any timeouts and any number of messages. *)
EXTENDS RealtimeSession, SequenceTheorems, TLAPS

Message ==
  [type : {"answered", "refused", "session_error", "close"}, id : Ids \union {None}, reason : BOOLEAN]
IsAnswer(m) == m.type \in {"answered", "refused"}
OnWire(i) == \E n \in DOMAIN wire : IsAnswer(wire[n]) /\ wire[n].id = i

\* Who may wait in which phase of the session.
Phases ==
  /\ closed <=> phase = "ended"
  /\ phase = "connecting" => waiting = {} /\ inbox = {} /\ wire = <<>> /\ peer = "up"
  /\ phase = "hello" <=> Hello \in waiting
  /\ Beat \in waiting => phase = "open"
  /\ \A r \in Requests : (outcome[r] = "waiting" <=> r \in waiting) /\ (r \in waiting => phase = "open")
  /\ beatIn = None <=> phase # "open"
  /\ closed => waiting = {}
  /\ onClose # 0 => closed

\* The heartbeat's timer runs out before the next heartbeat.
Timers ==
  /\ \A i \in waiting : timer[i] <= IF i = Beat THEN HeartbeatTimeout ELSE RequestTimeout
  /\ Beat \in waiting => beatIn = timer[Beat] + HeartbeatInterval - HeartbeatTimeout

\* An answer on its way is the only one to a request that waits for it, and says
\* whether the request was carried out; what ends the session comes last.
Wire ==
  /\ wire \in Seq(Message)
  /\ \A n \in DOMAIN wire : IsAnswer(wire[n]) =>
       /\ wire[n].id \in Ids \ inbox
       /\ ~closed => wire[n].id \in waiting
       /\ wire[n].id \in Requests => (wire[n].type = "answered" <=> wire[n].id \in served)
  /\ \A m, n \in DOMAIN wire :
       IsAnswer(wire[m]) /\ IsAnswer(wire[n]) /\ wire[m].id = wire[n].id => m = n
  /\ \A n \in DOMAIN wire : ~IsAnswer(wire[n]) =>
       /\ peer = "ended"
       /\ \A m \in DOMAIN wire : m > n => wire[m].type = "close"
       /\ wire[n].type = "session_error" /\ ~closed => ~received

\* What is being handled was asked for, once, and is not decided.
Handled ==
  /\ peer # "up" => inbox = {}
  /\ ~closed => inbox \subseteq waiting
  /\ inbox \cap served = {}
  /\ \A r \in Requests :
       /\ r \in inbox \union served => outcome[r] # "idle"
       /\ outcome[r] \in {"answered", "refused"} => r \notin inbox

Told ==
  /\ ReasonToldOnce
  /\ ~closed /\ ~received => told = 0
  /\ peer # "ended" => ~received /\ told = 0

\* What time is left until a peer that went silent is found out.
Silent ==
  /\ peer # "silent" => silence = 0
  /\ silence <= Longest
  /\ phase = "hello" => silence + timer[Hello] <= RequestTimeout
  /\ phase = "open" =>
       IF Beat \in waiting /\ ~OnWire(Beat) THEN silence + timer[Beat] <= Longest
       ELSE silence + beatIn + HeartbeatTimeout <= Longest

IInv == TypeOK /\ Phases /\ Timers /\ Wire /\ Handled /\ Told /\ Silent /\ OwnAnswer /\ NoStrayAnswer

-----------------------------------------------------------------------------
(* The constants, and sequences of messages.                                  *)

(* The times are ordered and no id is mistaken for another.                   *)
LEMMA Constants ==
  /\ Hello \in Ids /\ Beat \in Ids /\ None \notin Ids /\ None \notin Nat /\ Requests \subseteq Ids
  /\ Hello # Beat /\ Hello \notin Requests /\ Beat \notin Requests
  /\ RequestTimeout \in Nat /\ HeartbeatInterval \in Nat /\ HeartbeatTimeout \in Nat
  /\ RequestTimeout > 0 /\ HeartbeatTimeout > 0 /\ HeartbeatTimeout < HeartbeatInterval
BY RealtimeAssumption DEF Ids

(* The message that comes first is taken off.                                 *)
LEMMA TailWire ==
  ASSUME NEW w \in Seq(Message), w # <<>>
  PROVE  /\ Tail(w) \in Seq(Message) /\ 1 \in DOMAIN w /\ w[1] = Head(w) /\ Head(w) \in Message
         /\ \A n \in DOMAIN Tail(w) : n \in Nat \ {0} /\ n + 1 \in DOMAIN w /\ Tail(w)[n] = w[n + 1]
<1>1. /\ Tail(w) \in Seq(Message) /\ Len(Tail(w)) = Len(w) - 1
      /\ \A n \in 1 .. Len(Tail(w)) : Tail(w)[n] = w[n + 1]
  BY HeadTailProperties
<1>2. Len(w) \in Nat /\ Len(w) # 0 /\ DOMAIN w = 1 .. Len(w) /\ \A n \in 1 .. Len(w) : w[n] \in Message
  BY EmptySeq, ElementOfSeq
<1>3. Head(w) = w[1]
  BY <1>2
<1>4. DOMAIN Tail(w) = 1 .. (Len(w) - 1)
  BY <1>1
<1>5. QED
  BY <1>1, <1>2, <1>3, <1>4

(* A message is added at the end.                                             *)
LEMMA AppendWire ==
  ASSUME NEW w \in Seq(Message), NEW m \in Message
  PROVE  /\ Append(w, m) \in Seq(Message)
         /\ \E k \in DOMAIN Append(w, m) :
              /\ Append(w, m)[k] = m /\ k \notin DOMAIN w /\ k \in Nat
              /\ DOMAIN Append(w, m) = DOMAIN w \cup {k}
              /\ \A n \in DOMAIN w : n \in Nat /\ n < k /\ Append(w, m)[n] = w[n]
<1>1. /\ Append(w, m) \in Seq(Message) /\ Len(Append(w, m)) = Len(w) + 1 /\ Append(w, m)[Len(w) + 1] = m
      /\ \A n \in 1 .. Len(w) : Append(w, m)[n] = w[n]
  BY AppendProperties
<1>2. Len(w) \in Nat /\ DOMAIN w = 1 .. Len(w) /\ DOMAIN Append(w, m) = 1 .. (Len(w) + 1)
  BY <1>1
<1>3. Len(w) + 1 \in DOMAIN Append(w, m) /\ Len(w) + 1 \notin DOMAIN w
      /\ DOMAIN Append(w, m) = DOMAIN w \cup {Len(w) + 1} /\ \A n \in DOMAIN w : n \in Nat /\ n < Len(w) + 1
  BY <1>2
<1>4. QED
  BY <1>1, <1>2, <1>3

(* What is on the wire is a message,                                          *)
LEMMA OfSeq ==
  ASSUME NEW w \in Seq(Message), NEW n \in DOMAIN w
  PROVE  n \in Nat /\ n > 0 /\ w[n] \in Message
<1>1. n \in 1 .. Len(w) /\ Len(w) \in Nat
  OBVIOUS
<1>2. QED
  BY <1>1, ElementOfSeq

(* and has the type of one.                                                   *)
LEMMA WireTyped ==
  ASSUME NEW w \in Seq(Message), NEW n \in DOMAIN w
  PROVE  w[n] \in [type : {"answered", "refused", "session_error", "close"},
                   id : Ids \union {None}, reason : BOOLEAN]
BY OfSeq DEF Message

(* What follows on the wire keeps its order.                                  *)
LEMMA ShorterWire ==
  ASSUME IInv, wire # <<>>, wire' = Tail(wire)
  PROVE  /\ wire' \in Seq(Message)
         /\ \A m, n \in DOMAIN wire' :
              IsAnswer(wire'[m]) /\ IsAnswer(wire'[n]) /\ wire'[m].id = wire'[n].id => m = n
         /\ \A n \in DOMAIN wire' : ~IsAnswer(wire'[n]) =>
              /\ peer = "ended"
              /\ \A m \in DOMAIN wire' : m > n => wire'[m].type = "close"
              /\ wire'[n].type = "session_error" /\ ~closed => ~received
<1>1. wire \in Seq(Message)
  BY DEF IInv, Wire
<1>2. /\ wire' \in Seq(Message)
      /\ \A n \in DOMAIN wire' : n \in Nat \ {0} /\ n + 1 \in DOMAIN wire /\ wire'[n] = wire[n + 1]
  BY <1>1, TailWire
<1>3. ASSUME NEW m \in DOMAIN wire', NEW n \in DOMAIN wire',
             IsAnswer(wire'[m]), IsAnswer(wire'[n]), wire'[m].id = wire'[n].id
      PROVE  m = n
  <2>1. m + 1 = n + 1
    BY <1>2, <1>3 DEF IInv, Wire
  <2>2. QED
    BY <2>1, <1>2
<1>4. ASSUME NEW n \in DOMAIN wire', ~IsAnswer(wire'[n])
      PROVE  /\ peer = "ended"
             /\ \A m \in DOMAIN wire' : m > n => wire'[m].type = "close"
             /\ wire'[n].type = "session_error" /\ ~closed => ~received
  <2>1. /\ peer = "ended" /\ \A m \in DOMAIN wire : m > n + 1 => wire[m].type = "close"
        /\ wire[n + 1].type = "session_error" /\ ~closed => ~received
    BY <1>2, <1>4 DEF IInv, Wire
  <2>2. ASSUME NEW m \in DOMAIN wire', m > n
        PROVE  wire'[m].type = "close"
    BY <2>1, <2>2, <1>2
  <2>3. QED
    BY <2>1, <2>2, <1>2
<1>5. QED
  BY <1>2, <1>3, <1>4

-----------------------------------------------------------------------------
(* The end of the session.                                                    *)

\* Who waits is lost, and who asks in vain.
Lost(last) ==
  outcome' = [r \in Requests |-> IF outcome[r] = "waiting" \/ r \in last THEN "lost" ELSE outcome[r]]

\* The session ends in this step.
Ends ==
  /\ ~closed /\ closed' = TRUE /\ phase' = "ended" /\ beatIn' = None /\ waiting' = {}
  /\ \E last \in SUBSET {r \in Requests : phase = "open" /\ outcome[r] = "idle"} : Lost(last)
  /\ onClose' \in {onClose, onClose + 1}
  /\ received' \in BOOLEAN /\ told' \in {0, 1} /\ (peer # "ended" => ~received' /\ told' = 0)
  /\ wire' = wire \/ (wire # <<>> /\ wire' = Tail(wire))
  /\ UNCHANGED <<timer, unknown, peer, inbox, served, silence>>

(* Nobody waits any more, and nothing else is forgotten.                      *)
LEMMA LostEffect ==
  ASSUME TypeOK, NEW last \in SUBSET Requests, Lost(last)
  PROVE  /\ outcome' \in [Requests -> {"idle", "waiting", "answered", "refused", "lost"}]
         /\ \A r \in Requests : outcome'[r] # "waiting" /\ outcome'[r] \in {outcome[r], "lost"}
BY DEF Lost, TypeOK

(* A step that ends the session keeps the invariant.                          *)
LEMMA EndsKeeps ==
  ASSUME IInv, Ends
  PROVE  IInv'
<1>0. /\ outcome' \in [Requests -> {"idle", "waiting", "answered", "refused", "lost"}]
      /\ \A r \in Requests : outcome'[r] # "waiting" /\ outcome'[r] \in {outcome[r], "lost"}
  BY LostEffect DEF IInv, Ends
<1>1. wire' \in Seq(Message)
  BY TailWire DEF IInv, Wire, Ends
<1>2. TypeOK'
  <2>1. onClose' \in 0 .. 1
    BY DEF IInv, TypeOK, Phases, Ends
  <2>2. QED
    BY <1>0, <1>1, <2>1, WireTyped, Constants DEF IInv, TypeOK, Ends
<1>3. Phases'
  BY <1>0 DEF IInv, Phases, TypeOK, Ends
<1>4. Timers' /\ Silent'
  BY DEF IInv, Timers, Silent, Longest, Ends
<1>5. Wire'
  <2>1. CASE wire' = wire
    BY <2>1 DEF IInv, Wire, Ends
  <2>2. CASE wire # <<>> /\ wire' = Tail(wire)
    <3>1. ASSUME NEW n \in DOMAIN wire', IsAnswer(wire'[n])
          PROVE  /\ wire'[n].id \in Ids \ inbox'
                 /\ wire'[n].id \in Requests => (wire'[n].type = "answered" <=> wire'[n].id \in served')
      <4>1. n + 1 \in DOMAIN wire /\ wire'[n] = wire[n + 1]
        BY <2>2, TailWire DEF IInv, Wire
      <4>2. inbox' = inbox /\ served' = served
        BY DEF Ends
      <4>3. QED
        BY <3>1, <4>1, <4>2 DEF IInv, Wire
    <3>2. closed' /\ peer' = peer
      BY DEF Ends
    <3>3. QED
      BY <2>2, <3>1, <3>2, ShorterWire DEF Wire, IsAnswer
  <2>3. QED
    BY <2>1, <2>2 DEF Ends
<1>6. Handled'
  BY <1>0 DEF IInv, Handled, Ends
<1>7. Told'
  BY DEF IInv, Told, ReasonToldOnce, Ends
<1>8. OwnAnswer' /\ NoStrayAnswer'
  BY <1>0 DEF IInv, OwnAnswer, NoStrayAnswer, Ends
<1>9. QED
  BY <1>2, <1>3, <1>4, <1>5, <1>6, <1>7, <1>8 DEF IInv

(* A socket that never opens.                                                 *)
LEMMA ConnectFailsEnds ==
  ASSUME IInv, connectFails
  PROVE  Ends
<1>1. ~closed /\ waiting = {} /\ peer = "up" /\ beatIn = None /\ \A r \in Requests : outcome[r] # "waiting"
  BY DEF IInv, Phases, connectFails
<1>2. received = FALSE /\ told = 0
  BY <1>1 DEF IInv, Told
<1>3. Lost({})
  BY <1>1 DEF Lost, IInv, TypeOK, connectFails
<1>4. QED
  BY <1>1, <1>2, <1>3 DEF Ends, connectFails, calls, server

(* The end by any of the callbacks, with no request of its own.               *)
LEMMA EndEnds ==
  ASSUME IInv, ~closed, End, onClose' \in {onClose, onClose + 1},
         wire' = wire \/ (wire # <<>> /\ wire' = Tail(wire)),
         received' \in BOOLEAN, told' \in {0, 1}, peer # "ended" => ~received' /\ told' = 0,
         UNCHANGED <<unknown, peer, inbox, served, silence>>
  PROVE  Ends
<1>1. outcome' = [r \in Requests |-> IF r \in waiting THEN "lost" ELSE outcome[r]]
  BY DEF End, RejectPending
<1>2. Lost({})
  BY <1>1 DEF IInv, Phases, Lost
<1>3. QED
  BY <1>2 DEF Ends, End, RejectPending

(* What the owner was told while the session lives.                           *)
LEMMA ToldSoFar ==
  ASSUME IInv
  PROVE  /\ received \in BOOLEAN /\ told \in {0, 1} /\ (peer # "ended" => ~received /\ told = 0)
         /\ ~closed /\ ~received => told = 0
<1>1. told \in Nat /\ told <= 1 /\ received \in BOOLEAN
  BY DEF IInv, TypeOK, Told, ReasonToldOnce
<1>2. QED
  BY <1>1 DEF IInv, Told

(* A socket that refuses to send.                                             *)
LEMMA SendFailsEnds ==
  ASSUME IInv, NEW r \in Requests, sendFails(r)
  PROVE  Ends
<1>1. outcome' = [q \in Requests |-> IF q = r \/ q \in waiting THEN "lost" ELSE outcome[q]]
  BY DEF sendFails
<1>2. Lost({r}) /\ {r} \in SUBSET {q \in Requests : phase = "open" /\ outcome[q] = "idle"}
  BY <1>1 DEF IInv, Phases, Lost, sendFails
<1>3. QED
  BY <1>2, ToldSoFar DEF Ends, sendFails, server

(* A timer that fires ends the session,                                       *)
LEMMA TimeoutEnds ==
  ASSUME IInv, NEW i \in Ids, timeout(i)
  PROVE  Ends
<1>1. ~closed
  BY DEF IInv, Phases, timeout, Due
<1>2. QED
  BY <1>1, EndEnds, ToldSoFar DEF timeout, TimedOut, Fail, server

(* so does its owner,                                                         *)
LEMMA CloseEnds ==
  ASSUME IInv, close
  PROVE  Ends
BY EndEnds, ToldSoFar DEF close, calls, server

(* a socket that is cut,                                                      *)
LEMMA SocketCutEnds ==
  ASSUME IInv, socketCut
  PROVE  Ends
BY EndEnds, ToldSoFar DEF socketCut, Fail, server

(* What is no answer comes from a server that ended the session.              *)
LEMMA EndOnWire ==
  ASSUME IInv, NEW type \in {"session_error", "close"}, Incoming(type)
  PROVE  /\ ~closed /\ peer = "ended" /\ wire # <<>> /\ wire' = Tail(wire)
         /\ wire \in Seq(Message) /\ 1 \in DOMAIN wire /\ Head(wire) = wire[1] /\ wire[1].type = type
         /\ \A n \in DOMAIN wire : n > 1 => wire[n].type = "close"
         /\ type = "session_error" => ~received /\ told = 0
<1>1. ~closed /\ wire # <<>> /\ Head(wire).type = type /\ wire' = Tail(wire) /\ wire \in Seq(Message)
  BY DEF Incoming, IInv, Wire
<1>2. 1 \in DOMAIN wire /\ Head(wire) = wire[1] /\ wire[1].type = type
  BY <1>1, TailWire
<1>3. ~IsAnswer(wire[1])
  BY <1>2 DEF IsAnswer
<1>4. QED
  BY <1>1, <1>2, <1>3, ToldSoFar DEF IInv, Wire

(* and a close event.                                                         *)
LEMMA ReceiveCloseEnds ==
  ASSUME IInv, receiveClose
  PROVE  Ends
<1>1. Incoming("close") /\ End /\ onClose' = onClose + 1 /\ UNCHANGED <<received, unknown, peer, inbox, served, silence>>
  BY DEF receiveClose, Fail
<1>2. ~closed /\ peer = "ended" /\ wire # <<>> /\ wire' = Tail(wire)
  BY <1>1, EndOnWire
<1>3. told' \in {0, 1}
  BY <1>2, ToldSoFar DEF receiveClose, TellReason
<1>4. QED
  BY <1>1, <1>2, <1>3, EndEnds, ToldSoFar

-----------------------------------------------------------------------------
(* The steps of a session that lives on.                                      *)

(* Hello is the first request.                                                *)
LEMMA OpenedKeeps ==
  ASSUME IInv, opened
  PROVE  IInv'
<1>1. /\ phase = "connecting" /\ ~closed /\ waiting = {} /\ inbox = {} /\ wire = <<>> /\ peer = "up" /\ beatIn = None
      /\ \A r \in Requests : outcome[r] # "waiting"
  BY DEF IInv, Phases, opened
<1>2. /\ phase' = "hello" /\ waiting' = {Hello} /\ timer' = [timer EXCEPT ![Hello] = RequestTimeout]
      /\ inbox' = {Hello}
      /\ UNCHANGED <<closed, beatIn, outcome, received, onClose, told, unknown, peer, wire, served, silence>>
  BY <1>1 DEF opened, Send, calls
<1>3. TypeOK'
  BY <1>2, Constants DEF IInv, TypeOK
<1>4. timer'[Hello] = RequestTimeout
  BY <1>2, Constants DEF IInv, TypeOK
<1>5. Phases'
  BY <1>1, <1>2, Constants DEF IInv, Phases
<1>6. Timers'
  BY <1>2, <1>4, Constants DEF IInv, Timers
<1>7. Silent'
  BY <1>1, <1>2, <1>4, Constants DEF IInv, Silent, Longest
<1>8. Wire'
  BY <1>1, <1>2 DEF IInv, Wire
<1>9. Handled' /\ Told' /\ OwnAnswer' /\ NoStrayAnswer'
  BY <1>1, <1>2, Constants DEF IInv, TypeOK, Handled, Told, ReasonToldOnce, OwnAnswer, NoStrayAnswer
<1>10. QED
  BY <1>3, <1>5, <1>6, <1>7, <1>8, <1>9 DEF IInv

(* A request is sent by an open session, and refused by a closed one.         *)
LEMMA RequestKeeps ==
  ASSUME IInv, NEW r \in Requests, request(r)
  PROVE  IInv'
<1>1. /\ outcome[r] = "idle" /\ phase \in {"open", "ended"} /\ r \notin waiting /\ r \notin inbox /\ r \notin served
      /\ r # Hello /\ r # Beat /\ r \in Ids
      /\ UNCHANGED <<phase, closed, beatIn, received, onClose, told, unknown, peer, wire, served, silence>>
  BY Constants DEF IInv, Phases, Handled, request, calls
<1>2. CASE closed
  <2>1. outcome' = [outcome EXCEPT ![r] = "lost"] /\ UNCHANGED <<waiting, timer, inbox>>
    BY <1>2 DEF request
  <2>2. TypeOK' /\ Phases' /\ Handled' /\ OwnAnswer'
    BY <1>1, <2>1 DEF IInv, TypeOK, Phases, Handled, OwnAnswer
  <2>3. Timers' /\ Wire' /\ Told' /\ NoStrayAnswer'
    BY <1>1, <2>1 DEF IInv, Timers, Wire, Told, ReasonToldOnce, NoStrayAnswer
  <2>4. Silent'
    BY <1>1, <2>1 DEF IInv, Silent, OnWire
  <2>5. QED
    BY <2>2, <2>3, <2>4 DEF IInv
<1>3. CASE ~closed
  <2>1. /\ outcome' = [outcome EXCEPT ![r] = "waiting"] /\ waiting' = waiting \union {r}
        /\ timer' = [timer EXCEPT ![r] = RequestTimeout]
        /\ inbox' = IF peer = "up" THEN inbox \union {r} ELSE inbox
        /\ phase = "open"
    BY <1>1, <1>3 DEF request, Send, IInv, Phases
  <2>2. TypeOK'
    BY <1>1, <2>1, Constants DEF IInv, TypeOK
  <2>3. Phases'
    BY <1>1, <2>1, <1>3 DEF IInv, TypeOK, Phases
  <2>4. Timers'
    BY <1>1, <2>1, Constants DEF IInv, TypeOK, Timers
  <2>5. Wire'
    BY <1>1, <2>1, <1>3 DEF IInv, Wire
  <2>6. Handled' /\ Told' /\ OwnAnswer' /\ NoStrayAnswer'
    BY <1>1, <2>1, <1>3 DEF IInv, TypeOK, Handled, Told, ReasonToldOnce, OwnAnswer, NoStrayAnswer
  <2>7. Silent'
    BY <1>1, <2>1, Constants DEF IInv, TypeOK, Silent, OnWire
  <2>8. QED
    BY <2>2, <2>3, <2>4, <2>5, <2>6, <2>7 DEF IInv
<1>4. QED
  BY <1>2, <1>3

(* A heartbeat is sent when the last one is answered.                         *)
LEMMA SendHeartbeatKeeps ==
  ASSUME IInv, sendHeartbeat
  PROVE  IInv'
<1>1. phase = "open" /\ ~closed /\ beatIn = 0
  BY Constants DEF IInv, Phases, sendHeartbeat
<1>2. /\ waiting' = waiting \union {Beat} /\ timer' = [timer EXCEPT ![Beat] = HeartbeatTimeout]
      /\ inbox' = IF peer = "up" THEN inbox \union {Beat} ELSE inbox
      /\ beatIn' = HeartbeatInterval
      /\ UNCHANGED <<phase, closed, outcome, received, onClose, told, unknown, peer, wire, served, silence>>
  BY <1>1 DEF sendHeartbeat, Send, calls
<1>3. Beat \notin waiting
  <2>1. \A n \in Nat : n + HeartbeatInterval - HeartbeatTimeout # 0
    BY Constants
  <2>2. timer[Beat] \in Nat
    BY Constants DEF IInv, TypeOK
  <2>3. QED
    BY <1>1, <2>1, <2>2 DEF IInv, Timers
<1>4. ~OnWire(Beat)
  BY <1>1, <1>3 DEF IInv, Wire, OnWire
<1>5. timer'[Beat] = HeartbeatTimeout /\ \A i \in Ids \ {Beat} : timer'[i] = timer[i]
  BY <1>2, Constants DEF IInv, TypeOK
<1>6. TypeOK'
  BY <1>2, Constants DEF IInv, TypeOK
<1>7. Phases'
  BY <1>1, <1>2, Constants DEF IInv, Phases
<1>8. Timers'
  <2>1. \A i \in waiting : i \in Ids
    BY DEF IInv, TypeOK
  <2>2. \A i \in waiting' : timer'[i] <= IF i = Beat THEN HeartbeatTimeout ELSE RequestTimeout
    BY <1>2, <1>5, <2>1, Constants DEF IInv, Timers
  <2>3. beatIn' = timer'[Beat] + HeartbeatInterval - HeartbeatTimeout
    BY <1>2, <1>5, Constants
  <2>4. QED
    BY <2>2, <2>3 DEF Timers
<1>9. Wire'
  <2>1. \A n \in DOMAIN wire : IsAnswer(wire[n]) => wire[n].id # Beat
    BY <1>4 DEF OnWire
  <2>2. QED
    BY <1>1, <1>2, <2>1 DEF IInv, Wire
<1>10. Handled' /\ Told' /\ OwnAnswer' /\ NoStrayAnswer'
  <2>1. Beat \notin served /\ Beat \notin Requests
    BY Constants DEF IInv, TypeOK
  <2>2. QED
    BY <1>1, <1>2, <2>1 DEF IInv, Handled, Told, ReasonToldOnce, OwnAnswer, NoStrayAnswer
<1>11. Silent'
  <2>1. silence + HeartbeatTimeout <= Longest /\ silence \in Nat
    BY <1>1, <1>3, Constants DEF IInv, Silent, TypeOK
  <2>2. ~OnWire(Beat)'
    BY <1>2, <1>4 DEF OnWire
  <2>3. QED
    BY <1>1, <1>2, <1>5, <2>1, <2>2 DEF IInv, Silent, Longest
<1>12. QED
  BY <1>6, <1>7, <1>8, <1>9, <1>10, <1>11 DEF IInv

(* Time passes while no timer is due.                                         *)
LEMMA TickKeeps ==
  ASSUME IInv, Tick
  PROVE  IInv'
<1>1. /\ \A i \in waiting : timer[i] # 0
      /\ beatIn # 0 /\ phase \in {"hello", "open"} /\ ~closed
      /\ timer' = [i \in Ids |-> IF i \in waiting THEN timer[i] - 1 ELSE 0]
      /\ beatIn' = IF beatIn = None THEN None ELSE beatIn - 1
      /\ silence' = IF peer = "silent" THEN silence + 1 ELSE silence
      /\ UNCHANGED <<phase, closed, waiting, outcome, received, onClose, told, unknown, peer, inbox, wire, served>>
  BY DEF Tick, Due, calls
<1>2. \A i \in waiting : i \in Ids /\ timer[i] \in 1 .. (RequestTimeout + HeartbeatTimeout)
                         /\ timer'[i] = timer[i] - 1
  BY <1>1, Constants DEF IInv, TypeOK
<1>3. beatIn \in {None} \union (1 .. HeartbeatInterval) /\ (beatIn # None => beatIn' = beatIn - 1)
  BY <1>1, Constants DEF IInv, TypeOK
<1>4. timer' \in [Ids -> 0 .. RequestTimeout + HeartbeatTimeout]
  <2>1. \A i \in Ids : (IF i \in waiting THEN timer[i] - 1 ELSE 0) \in 0 .. RequestTimeout + HeartbeatTimeout
    BY <1>2, Constants
  <2>2. QED
    BY <1>1, <2>1
<1>5. beatIn' \in {None} \union (0 .. HeartbeatInterval)
  BY <1>1, <1>3, Constants
<1>6. silence \in Nat /\ silence' \in {silence, silence + 1} /\ silence' \in Nat
  BY <1>1 DEF IInv, TypeOK
<1>7. TypeOK'
  BY <1>1, <1>4, <1>5, <1>6 DEF IInv, TypeOK
<1>8. Phases'
  <2>1. beatIn' = None <=> beatIn = None
    BY <1>1, <1>3, Constants
  <2>2. QED
    BY <1>1, <2>1 DEF IInv, Phases
<1>9. Timers'
  <2>1. \A i \in waiting : timer'[i] <= IF i = Beat THEN HeartbeatTimeout ELSE RequestTimeout
    BY <1>2, Constants DEF IInv, Timers
  <2>2. Beat \in waiting => beatIn' = timer'[Beat] + HeartbeatInterval - HeartbeatTimeout
    <3>1. SUFFICES ASSUME Beat \in waiting PROVE beatIn' = timer'[Beat] + HeartbeatInterval - HeartbeatTimeout
      OBVIOUS
    <3>2. beatIn # None /\ beatIn = timer[Beat] + HeartbeatInterval - HeartbeatTimeout
      BY <3>1 DEF IInv, Phases, Timers
    <3>3. QED
      BY <1>2, <1>3, <3>1, <3>2, Constants
  <2>3. QED
    BY <1>1, <2>1, <2>2 DEF Timers
<1>10. Wire' /\ Handled' /\ Told' /\ OwnAnswer' /\ NoStrayAnswer'
  BY <1>1 DEF IInv, Wire, Handled, Told, ReasonToldOnce, OwnAnswer, NoStrayAnswer
<1>11. Silent'
  <2>1. peer # "silent" => silence' = 0
    BY <1>1 DEF IInv, Silent
  <2>2. phase = "hello" => silence' + timer'[Hello] <= RequestTimeout /\ silence' <= Longest
    <3>1. SUFFICES ASSUME phase = "hello" PROVE silence' + timer'[Hello] <= RequestTimeout /\ silence' <= Longest
      OBVIOUS
    <3>2. Hello \in waiting /\ silence + timer[Hello] <= RequestTimeout
      BY <3>1 DEF IInv, Phases, Silent
    <3>3. QED
      BY <1>2, <1>6, <3>2, Constants DEF Longest
  <2>3. phase = "open" =>
          /\ IF Beat \in waiting /\ ~OnWire(Beat) THEN silence' + timer'[Beat] <= Longest
             ELSE silence' + beatIn' + HeartbeatTimeout <= Longest
          /\ silence' <= Longest
    <3>1. SUFFICES ASSUME phase = "open"
                   PROVE  /\ IF Beat \in waiting /\ ~OnWire(Beat) THEN silence' + timer'[Beat] <= Longest
                             ELSE silence' + beatIn' + HeartbeatTimeout <= Longest
                          /\ silence' <= Longest
      OBVIOUS
    <3>2. beatIn # None
      BY <3>1 DEF IInv, Phases
    <3>3. IF Beat \in waiting /\ ~OnWire(Beat) THEN silence + timer[Beat] <= Longest
          ELSE silence + beatIn + HeartbeatTimeout <= Longest
      BY <3>1 DEF IInv, Silent
    <3>4. QED
      BY <1>2, <1>3, <1>6, <3>2, <3>3, Constants DEF Longest
  <2>4. OnWire(Beat)' <=> OnWire(Beat)
    BY <1>1 DEF OnWire
  <2>5. QED
    BY <1>1, <2>1, <2>2, <2>3, <2>4 DEF Silent
<1>12. QED
  BY <1>7, <1>8, <1>9, <1>10, <1>11 DEF IInv

-----------------------------------------------------------------------------
(* What arrives.                                                              *)

(* The answer that comes first: to one that waits, and the only one to it.    *)
LEMMA AnswerOnWire ==
  ASSUME IInv, NEW type \in {"answered", "refused"}, Incoming(type)
  PROVE  /\ ~closed /\ wire # <<>> /\ wire' = Tail(wire) /\ wire' \in Seq(Message)
         /\ 1 \in DOMAIN wire /\ Head(wire) = wire[1] /\ wire[1].type = type /\ IsAnswer(wire[1])
         /\ Head(wire).id \in waiting /\ Head(wire).id \in Ids \ inbox
         /\ Head(wire).id \in Requests => (type = "answered" <=> Head(wire).id \in served)
         /\ \A n \in DOMAIN wire' :
              /\ n \in Nat \ {0} /\ n + 1 \in DOMAIN wire /\ wire'[n] = wire[n + 1]
              /\ IsAnswer(wire'[n]) => wire'[n].id # Head(wire).id
<1>1. ~closed /\ wire # <<>> /\ Head(wire).type = type /\ wire' = Tail(wire) /\ wire \in Seq(Message)
  BY DEF Incoming, IInv, Wire
<1>2. /\ 1 \in DOMAIN wire /\ Head(wire) = wire[1] /\ wire' \in Seq(Message)
      /\ \A n \in DOMAIN wire' : n \in Nat \ {0} /\ n + 1 \in DOMAIN wire /\ wire'[n] = wire[n + 1]
  BY <1>1, TailWire
<1>3. IsAnswer(wire[1])
  BY <1>1, <1>2 DEF IsAnswer
<1>4. /\ wire[1].id \in waiting /\ wire[1].id \in Ids \ inbox
      /\ wire[1].id \in Requests => (wire[1].type = "answered" <=> wire[1].id \in served)
  BY <1>1, <1>2, <1>3 DEF IInv, Wire
<1>5. ASSUME NEW n \in DOMAIN wire', IsAnswer(wire'[n])
      PROVE  wire'[n].id # Head(wire).id
  <2>1. n + 1 # 1 /\ n + 1 \in DOMAIN wire /\ wire'[n] = wire[n + 1]
    BY <1>2
  <2>2. QED
    BY <1>2, <1>3, <1>5, <2>1 DEF IInv, Wire
<1>6. QED
  BY <1>1, <1>2, <1>3, <1>4, <1>5

(* An answer goes to the one it belongs to, who waits for it.                 *)
LEMMA ReceiveAnswerKeeps ==
  ASSUME IInv, receiveAnswer
  PROVE  IInv'
<1>1. PICK type \in {"answered", "refused"} :
        /\ Incoming(type)
        /\ \E i \in {Head(wire).id} :
             \/ /\ i \in waiting
                /\ waiting' = waiting \ {i}
                /\ outcome' = IF i \in Requests THEN [outcome EXCEPT ![i] = type] ELSE outcome
                /\ phase' = IF i = Hello THEN "open" ELSE phase
                /\ beatIn' = IF i = Hello THEN HeartbeatInterval ELSE beatIn
                /\ UNCHANGED unknown
             \/ /\ i \notin waiting
                /\ unknown' = TRUE
                /\ UNCHANGED <<waiting, outcome, phase, beatIn>>
  BY DEF receiveAnswer, AnswerTo
<1> DEFINE i == Head(wire).id
<1>2. /\ ~closed /\ wire # <<>> /\ wire' = Tail(wire) /\ wire' \in Seq(Message)
      /\ i \in waiting /\ i \in Ids \ inbox
      /\ i \in Requests => (type = "answered" <=> i \in served)
      /\ \A n \in DOMAIN wire' :
           /\ n \in Nat \ {0} /\ n + 1 \in DOMAIN wire /\ wire'[n] = wire[n + 1]
           /\ IsAnswer(wire'[n]) => wire'[n].id # i
  BY <1>1, AnswerOnWire
<1>3. 1 \in DOMAIN wire /\ wire[1].id = i /\ IsAnswer(wire[1])
  BY <1>1, AnswerOnWire
<1>4. /\ waiting' = waiting \ {i}
      /\ outcome' = IF i \in Requests THEN [outcome EXCEPT ![i] = type] ELSE outcome
      /\ phase' = IF i = Hello THEN "open" ELSE phase
      /\ beatIn' = IF i = Hello THEN HeartbeatInterval ELSE beatIn
      /\ UNCHANGED <<unknown, closed, timer, received, onClose, told, peer, inbox, served, silence>>
  BY <1>1, <1>2 DEF receiveAnswer
<1> HIDE DEF i
<1>5. i = Hello => phase = "hello" /\ Beat \notin waiting /\ \A r \in Requests : r \notin waiting
  BY <1>2, Constants DEF IInv, Phases
<1>6. TypeOK'
  <2>1. \A n \in DOMAIN wire' : wire'[n] \in [type : {"answered", "refused", "session_error", "close"},
                                              id : Ids \union {None}, reason : BOOLEAN]
    BY <1>2, WireTyped
  <2>2. outcome' \in [Requests -> {"idle", "waiting", "answered", "refused", "lost"}]
    BY <1>4 DEF IInv, TypeOK
  <2>3. beatIn' \in {None} \union (0 .. HeartbeatInterval)
    BY <1>4, Constants DEF IInv, TypeOK
  <2>4. QED
    BY <1>4, <2>1, <2>2, <2>3 DEF IInv, TypeOK
<1>7. Phases'
  <2>1. \A r \in Requests : outcome'[r] = IF r = i THEN type ELSE outcome[r]
    BY <1>4 DEF IInv, TypeOK
  <2>2. \A r \in Requests : (outcome'[r] = "waiting" <=> r \in waiting') /\ (r \in waiting' => phase' = "open")
    BY <1>4, <1>5, <2>1 DEF IInv, Phases
  <2>3. /\ closed' <=> phase' = "ended"
        /\ phase' # "connecting"
        /\ phase' = "hello" <=> Hello \in waiting'
        /\ Beat \in waiting' => phase' = "open"
        /\ beatIn' = None <=> phase' # "open"
        /\ ~closed' /\ onClose' = 0
    BY <1>2, <1>4, <1>5, Constants DEF IInv, Phases
  <2>4. QED
    BY <2>2, <2>3 DEF Phases
<1>8. Timers'
  BY <1>4, <1>5, Constants DEF IInv, Timers
<1>9. Wire'
  <2>1. ASSUME NEW n \in DOMAIN wire', IsAnswer(wire'[n])
        PROVE  /\ wire'[n].id \in Ids \ inbox' /\ wire'[n].id \in waiting'
               /\ wire'[n].id \in Requests => (wire'[n].type = "answered" <=> wire'[n].id \in served')
    BY <1>2, <1>4, <2>1 DEF IInv, Wire
  <2>2. QED
    BY <1>2, <1>4, <2>1, ShorterWire DEF Wire, IsAnswer
<1>10. Handled'
  BY <1>2, <1>4 DEF IInv, TypeOK, Handled
<1>11. Told' /\ NoStrayAnswer'
  BY <1>4 DEF IInv, Told, ReasonToldOnce, NoStrayAnswer
<1>12. OwnAnswer'
  BY <1>2, <1>4 DEF IInv, TypeOK, OwnAnswer
<1>13. Silent'
  <2>1. i # Beat => (OnWire(Beat)' => OnWire(Beat))
    <3>1. SUFFICES ASSUME i # Beat, NEW n \in DOMAIN wire', IsAnswer(wire'[n]), wire'[n].id = Beat
                   PROVE  OnWire(Beat)
      BY DEF OnWire, IsAnswer
    <3>2. QED
      BY <3>1, <1>2 DEF OnWire
  <2>2. i # Beat => (OnWire(Beat) => OnWire(Beat)')
    <3>1. SUFFICES ASSUME i # Beat, NEW n \in DOMAIN wire, IsAnswer(wire[n]), wire[n].id = Beat
                   PROVE  OnWire(Beat)'
      BY DEF OnWire, IsAnswer
    <3>2. n # 1
      BY <3>1, <1>3
    <3>3. wire \in Seq(Message)
      BY DEF IInv, Wire
    <3>4. n - 1 \in DOMAIN wire'
      BY <3>2, <3>3, <1>2, HeadTailProperties
    <3>5. wire'[n - 1] = wire[n]
      BY <3>3, <3>4, <1>2
    <3>6. QED
      BY <3>1, <3>4, <3>5 DEF OnWire, IsAnswer
  <2>3. CASE i = Hello
    <3>1. silence + timer[Hello] <= RequestTimeout /\ timer[Hello] \in Nat /\ silence \in Nat
      BY <2>3, <1>5, Constants DEF IInv, Silent, TypeOK
    <3>2. phase' = "open" /\ Beat \notin waiting' /\ beatIn' = HeartbeatInterval
      BY <2>3, <1>4, <1>5
    <3>3. silence + HeartbeatInterval + HeartbeatTimeout <= Longest
      BY <3>1, Constants DEF Longest
    <3>4. QED
      BY <3>2, <3>3, <1>4 DEF IInv, Silent
  <2>4. CASE i = Beat
    <3>1. OnWire(Beat) /\ phase = "open"
      BY <2>4, <1>2, <1>3 DEF OnWire, IInv, Phases
    <3>2. phase' = "open" /\ Beat \notin waiting' /\ beatIn' = beatIn
      BY <2>4, <1>4, <3>1, Constants
    <3>3. QED
      BY <3>1, <3>2, <1>4 DEF IInv, Silent
  <2>5. CASE i \notin {Hello, Beat}
    <3>1. (Beat \in waiting' <=> Beat \in waiting) /\ phase' = phase /\ beatIn' = beatIn
      BY <2>5, <1>4
    <3>2. QED
      BY <2>1, <2>2, <2>5, <3>1, <1>4 DEF IInv, Silent
  <2>6. QED
    BY <2>3, <2>4, <2>5
<1>14. QED
  BY <1>6, <1>7, <1>8, <1>9, <1>10, <1>11, <1>12, <1>13 DEF IInv

(* A reason that comes as a message ends the session, or the wait of those    *)
(* who wait.                                                                  *)
LEMMA SessionErrorSteps ==
  ASSUME IInv, receiveSessionError
  PROVE  Ends \/ /\ phase = "open" /\ Beat \notin waiting /\ RejectPending
                 /\ UNCHANGED <<phase, closed, timer, beatIn, onClose>>
<1>1. Incoming("session_error") /\ received' = TRUE /\ told' = told + 1
      /\ UNCHANGED <<unknown, peer, inbox, served, silence>>
  BY DEF receiveSessionError
<1>2. ~closed /\ peer = "ended" /\ wire # <<>> /\ wire' = Tail(wire) /\ told = 0
  BY <1>1, EndOnWire
<1>3. End /\ onClose' \in {onClose, onClose + 1} => Ends
  BY <1>1, <1>2, EndEnds
<1>4. QED
  BY <1>3 DEF receiveSessionError, Fail

(* A session survives its error as it was, but for those who waited.          *)
LEMMA SessionErrorKeeps ==
  ASSUME IInv, receiveSessionError
  PROVE  IInv'
<1>1. Incoming("session_error") /\ received' = TRUE /\ told' = told + 1
      /\ UNCHANGED <<unknown, peer, inbox, served, silence>>
  BY DEF receiveSessionError
<1>2. /\ ~closed /\ peer = "ended" /\ wire # <<>> /\ wire' = Tail(wire) /\ wire \in Seq(Message)
      /\ \A n \in DOMAIN wire : n > 1 => wire[n].type = "close"
      /\ ~received /\ told = 0
  BY <1>1, EndOnWire
<1>3. CASE Ends
  BY <1>3, EndsKeeps
<1>4. CASE phase = "open" /\ Beat \notin waiting /\ RejectPending
           /\ UNCHANGED <<phase, closed, timer, beatIn, onClose>>
  <2>1. outcome' = [r \in Requests |-> IF r \in waiting THEN "lost" ELSE outcome[r]] /\ waiting' = {}
    BY <1>4 DEF RejectPending
  <2>2. \A r \in Requests : outcome'[r] # "waiting" /\ outcome'[r] \in {outcome[r], "lost"}
    BY <2>1 DEF IInv, Phases
  <2>3. outcome' \in [Requests -> {"idle", "waiting", "answered", "refused", "lost"}]
    BY <2>1 DEF IInv, TypeOK
  <2>4. wire' \in Seq(Message) /\ \A n \in DOMAIN wire' : wire'[n].type = "close"
    BY <1>2, TailWire
  <2>5. TypeOK'
    BY <1>1, <1>2, <1>4, <2>1, <2>3, <2>4, WireTyped DEF IInv, TypeOK
  <2>6. Phases'
    BY <1>4, <2>1, <2>2, Constants DEF IInv, Phases
  <2>7. Timers'
    BY <2>1 DEF Timers
  <2>8. Wire'
    BY <1>1, <1>2, <2>4 DEF Wire, IsAnswer
  <2>9. Handled'
    BY <1>1, <1>2, <2>1, <2>2 DEF IInv, Handled
  <2>10. Told' /\ OwnAnswer' /\ NoStrayAnswer'
    BY <1>1, <1>2, <2>2 DEF IInv, Told, ReasonToldOnce, OwnAnswer, NoStrayAnswer
  <2>11. Silent'
    <3>1. phase' = "open" /\ Beat \notin waiting' /\ beatIn' = beatIn /\ silence' = silence /\ peer' = peer
      BY <1>1, <1>4, <2>1
    <3>2. silence + beatIn + HeartbeatTimeout <= Longest
      BY <1>4 DEF IInv, Silent
    <3>3. QED
      BY <3>1, <3>2 DEF IInv, Silent
  <2>12. QED
    BY <2>5, <2>6, <2>7, <2>8, <2>9, <2>10, <2>11 DEF IInv
<1>5. QED
  BY <1>3, <1>4, SessionErrorSteps

-----------------------------------------------------------------------------
(* The server and the network.                                                *)

(* Who is up has ended nothing, and was never silent.                         *)
LEMMA PeerUp ==
  ASSUME IInv, peer = "up"
  PROVE  /\ silence = 0 /\ ~received /\ told = 0 /\ wire \in Seq(Message)
         /\ \A n \in DOMAIN wire : IsAnswer(wire[n])
         /\ phase = "open" => beatIn + HeartbeatTimeout <= Longest
         /\ Beat \in waiting => timer[Beat] <= Longest
         /\ phase = "hello" => timer[Hello] <= RequestTimeout
<1>1. phase = "open" => beatIn + HeartbeatTimeout <= Longest
  <2>1. phase = "open" => beatIn \in 0 .. HeartbeatInterval
    BY DEF IInv, TypeOK, Phases
  <2>2. QED
    BY <2>1, Constants DEF Longest
<1>2. Beat \in waiting => timer[Beat] <= Longest
  <2>1. timer[Beat] \in Nat
    BY Constants DEF IInv, TypeOK
  <2>2. Beat \in waiting => timer[Beat] <= HeartbeatTimeout
    BY DEF IInv, Timers
  <2>3. QED
    BY <2>1, <2>2, Constants DEF Longest
<1>3. phase = "hello" => timer[Hello] <= RequestTimeout
  BY Constants DEF IInv, Phases, Timers
<1>4. QED
  BY <1>1, <1>2, <1>3 DEF IInv, Silent, Told, Wire

(* While nothing was ever silent, the time that is left is long enough.       *)
LEMMA NotSilent ==
  ASSUME IInv, peer = "up", UNCHANGED <<phase, waiting, timer, beatIn, silence>>
  PROVE  Silent'
<1>1. /\ silence' = 0 /\ Longest \in Nat
      /\ phase' = "open" => beatIn' \in Nat /\ beatIn' + HeartbeatTimeout <= Longest
      /\ Beat \in waiting' => timer'[Beat] <= Longest
      /\ phase' = "hello" => timer'[Hello] <= RequestTimeout
      /\ timer'[Beat] \in Nat /\ timer'[Hello] \in Nat
  BY PeerUp, Constants DEF IInv, TypeOK, Phases, Longest
<1>2. QED
  BY <1>1, Constants DEF Silent

(* An answer is given to a request that waits for it.                         *)
LEMMA ServeKeeps ==
  ASSUME IInv, NEW i \in Ids, NEW type \in {"answered", "refused"}, serve(i, type)
  PROVE  IInv'
<1> DEFINE m == [type |-> type, id |-> i, reason |-> FALSE]
<1>1. /\ i \in inbox /\ peer = "up" /\ i \notin served
      /\ type = "refused" => i \in Requests
      /\ inbox' = inbox \ {i}
      /\ served' = IF i \in Requests /\ type = "answered" THEN served \union {i} ELSE served
      /\ wire' = IF closed THEN wire ELSE Append(wire, m)
      /\ UNCHANGED <<phase, closed, waiting, timer, beatIn, outcome, received, onClose, told, unknown, peer, silence>>
  BY DEF serve, client, calls, IInv, Handled
<1>2. m \in Message /\ IsAnswer(m) /\ m.id = i /\ m.type = type
  BY DEF Message, IsAnswer
<1> HIDE DEF m
<1>3. \A n \in DOMAIN wire : wire[n].id # i
  BY <1>1, PeerUp DEF IInv, Wire
<1>4. Wire'
  <2>1. ASSUME NEW n \in DOMAIN wire
        PROVE  /\ IsAnswer(wire[n])
               /\ wire[n].id \in Ids \ inbox' /\ (~closed => wire[n].id \in waiting)
               /\ wire[n].id \in Requests => (wire[n].type = "answered" <=> wire[n].id \in served')
    BY <1>1, <1>3, PeerUp DEF IInv, Wire
  <2>2. CASE closed
    BY <1>1, <2>1, <2>2 DEF IInv, Wire
  <2>3. CASE ~closed
    <3>1. PICK k \in DOMAIN wire' :
            /\ wire'[k] = m /\ k \notin DOMAIN wire /\ DOMAIN wire' = DOMAIN wire \cup {k}
            /\ \A n \in DOMAIN wire : wire'[n] = wire[n]
      BY <1>1, <1>2, <2>3, PeerUp, AppendWire
    <3>2. wire' \in Seq(Message)
      BY <1>1, <1>2, <2>3, PeerUp, AppendWire
    <3>3. i \in waiting /\ i \in Ids \ inbox' /\ (i \in Requests => (type = "answered" <=> i \in served'))
      BY <1>1, <2>3 DEF IInv, Handled
    <3>4. ASSUME NEW n \in DOMAIN wire'
          PROVE  /\ IsAnswer(wire'[n]) /\ wire'[n].id \in Ids \ inbox' /\ wire'[n].id \in waiting'
                 /\ wire'[n].id \in Requests => (wire'[n].type = "answered" <=> wire'[n].id \in served')
      <4>1. CASE n = k
        BY <4>1, <3>1, <3>3, <1>1, <1>2
      <4>2. CASE n \in DOMAIN wire
        BY <4>2, <3>1, <2>1, <2>3, <1>1
      <4>3. QED
        BY <4>1, <4>2, <3>1
    <3>5. ASSUME NEW a \in DOMAIN wire', NEW b \in DOMAIN wire', wire'[a].id = wire'[b].id
          PROVE  a = b
      <4>1. CASE a = k \/ b = k
        BY <4>1, <3>1, <3>5, <1>2, <1>3
      <4>2. CASE a \in DOMAIN wire /\ b \in DOMAIN wire
        BY <4>2, <3>1, <3>5, <2>1 DEF IInv, Wire
      <4>3. QED
        BY <4>1, <4>2, <3>1
    <3>6. QED
      BY <3>2, <3>4, <3>5 DEF Wire, IsAnswer
  <2>4. QED
    BY <2>2, <2>3
<1>5. TypeOK'
  BY <1>1, <1>4, WireTyped DEF IInv, TypeOK, Wire
<1>6. Phases'
  BY <1>1 DEF IInv, Phases
<1>7. Timers'
  BY <1>1 DEF IInv, Timers
<1>8. Handled' /\ OwnAnswer'
  BY <1>1 DEF IInv, Handled, OwnAnswer
<1>9. Told' /\ NoStrayAnswer'
  BY <1>1 DEF IInv, Told, ReasonToldOnce, NoStrayAnswer
<1>10. Silent'
  BY <1>1, NotSilent
<1>11. QED
  BY <1>4, <1>5, <1>6, <1>7, <1>8, <1>9, <1>10 DEF IInv

(* What ends the session comes after every answer.                            *)
LEMMA ServerEndsKeeps ==
  ASSUME IInv, NEW message \in BOOLEAN, NEW code \in BOOLEAN, serverEnds(message, code)
  PROVE  IInv'
<1> DEFINE e == [type |-> "session_error", id |-> None, reason |-> TRUE]
           c == [type |-> "close", id |-> None, reason |-> code]
<1>1. /\ peer = "up" /\ phase \in {"hello", "open"} /\ ~closed /\ peer' = "ended" /\ inbox' = {}
      /\ UNCHANGED <<phase, closed, waiting, timer, beatIn, outcome, received, onClose, told, unknown, served, silence>>
      /\ wire' = wire \o (IF message THEN <<e>> ELSE <<>>) \o <<c>>
  BY DEF serverEnds, client, calls
<1>2. wire \in Seq(Message) /\ (\A n \in DOMAIN wire : IsAnswer(wire[n])) /\ ~received /\ told = 0
  BY <1>1, PeerUp
<1>3. e \in Message /\ c \in Message /\ ~IsAnswer(e) /\ ~IsAnswer(c) /\ c.type = "close"
  BY DEF Message, IsAnswer
<1> HIDE DEF e, c
<1>4. wire' = Append(IF message THEN Append(wire, e) ELSE wire, c)
  <2>1. CASE message
    <3>1. wire \o <<e>> = Append(wire, e) /\ Append(wire, e) \in Seq(Message)
      BY <1>2, <1>3
    <3>2. Append(wire, e) \o <<c>> = Append(Append(wire, e), c)
      BY <1>3, <3>1
    <3>3. QED
      BY <1>1, <2>1, <3>1, <3>2
  <2>2. CASE ~message
    <3>1. wire \o <<>> = wire /\ wire \o <<c>> = Append(wire, c)
      BY <1>2, <1>3
    <3>2. QED
      BY <1>1, <2>2, <3>1
  <2>3. QED
    BY <2>1, <2>2
<1> DEFINE w == IF message THEN Append(wire, e) ELSE wire
<1>5. /\ w \in Seq(Message) /\ DOMAIN wire \subseteq DOMAIN w
      /\ \A n \in DOMAIN wire : w[n] = wire[n]
      /\ \A n \in DOMAIN w : n \in Nat /\ (n \notin DOMAIN wire => ~IsAnswer(w[n]))
      /\ \A n \in DOMAIN w \ DOMAIN wire : \A a \in DOMAIN w : a <= n
  <2>1. CASE message
    <3>1. PICK k \in DOMAIN w :
            /\ w[k] = e /\ k \notin DOMAIN wire /\ k \in Nat /\ DOMAIN w = DOMAIN wire \cup {k}
            /\ \A n \in DOMAIN wire : n \in Nat /\ n < k /\ w[n] = wire[n]
      BY <1>2, <1>3, <2>1, AppendWire
    <3>2. w \in Seq(Message)
      BY <1>2, <1>3, <2>1, AppendWire
    <3>3. QED
      BY <3>1, <3>2, <1>3
  <2>2. CASE ~message
    BY <1>2, <2>2, OfSeq
  <2>3. QED
    BY <2>1, <2>2
<1>6. wire' = Append(w, c)
  BY <1>4
<1> HIDE DEF w
<1>7. PICK k \in DOMAIN wire' :
        /\ wire'[k] = c /\ k \notin DOMAIN w /\ k \in Nat /\ DOMAIN wire' = DOMAIN w \cup {k}
        /\ \A n \in DOMAIN w : n \in Nat /\ n < k /\ wire'[n] = w[n]
  BY <1>3, <1>5, <1>6, AppendWire
<1>8. wire' \in Seq(Message)
  BY <1>3, <1>5, <1>6, AppendWire
<1>9. \A n \in DOMAIN wire' : IsAnswer(wire'[n]) => n \in DOMAIN wire /\ wire'[n] = wire[n]
  BY <1>3, <1>5, <1>7
<1>10. ASSUME NEW n \in DOMAIN wire', ~IsAnswer(wire'[n]), NEW m \in DOMAIN wire', m > n
       PROVE  wire'[m].type = "close"
  <2>1. n # k => n \in DOMAIN w \ DOMAIN wire
    BY <1>2, <1>5, <1>7, <1>10
  <2>2. m \in DOMAIN w => n # k /\ ~(m <= n)
    BY <1>7, <1>10
  <2>3. m = k
    BY <1>5, <1>7, <2>1, <2>2
  <2>4. QED
    BY <1>3, <1>7, <2>3
<1>11. Wire'
  <2>1. ASSUME NEW n \in DOMAIN wire', IsAnswer(wire'[n])
        PROVE  /\ wire'[n].id \in Ids \ inbox' /\ wire'[n].id \in waiting'
               /\ wire'[n].id \in Requests => (wire'[n].type = "answered" <=> wire'[n].id \in served')
    BY <1>1, <1>2, <1>9, <2>1 DEF IInv, Wire
  <2>2. ASSUME NEW a \in DOMAIN wire', NEW b \in DOMAIN wire',
               IsAnswer(wire'[a]), IsAnswer(wire'[b]), wire'[a].id = wire'[b].id
        PROVE  a = b
    BY <1>9, <2>2 DEF IInv, Wire
  <2>3. QED
    BY <1>1, <1>2, <1>8, <1>10, <2>1, <2>2 DEF Wire, IsAnswer
<1>12. TypeOK'
  BY <1>1, <1>8, WireTyped DEF IInv, TypeOK
<1>13. Phases' /\ Timers'
  BY <1>1 DEF IInv, Phases, Timers
<1>14. Handled' /\ OwnAnswer' /\ Told' /\ NoStrayAnswer'
  BY <1>1, <1>2 DEF IInv, Handled, OwnAnswer, Told, ReasonToldOnce, NoStrayAnswer
<1>15. Silent'
  BY <1>1, NotSilent
<1>16. QED
  BY <1>11, <1>12, <1>13, <1>14, <1>15 DEF IInv

(* The network takes what is on its way.                                      *)
LEMMA NetworkFailsKeeps ==
  ASSUME IInv, NEW to \in {"silent", "gone"}, networkFails(to)
  PROVE  IInv'
<1>1. /\ peer = "up" /\ phase # "connecting" /\ peer' = to /\ (wire' = <<>> \/ wire' = wire)
      /\ inbox' = {} /\ served' \in {served, served \union (inbox \cap Requests)}
      /\ UNCHANGED <<phase, closed, waiting, timer, beatIn, outcome, received, onClose, told, unknown, silence>>
  BY DEF networkFails, client, calls
<1>2. wire \in Seq(Message) /\ (\A n \in DOMAIN wire : IsAnswer(wire[n])) /\ ~received /\ told = 0
  BY <1>1, PeerUp
<1>3. wire' \in Seq(Message) /\ \A n \in DOMAIN wire' : n \in DOMAIN wire /\ wire'[n] = wire[n]
  <2>1. CASE wire' = <<>>
    BY <2>1
  <2>2. CASE wire' = wire
    BY <1>2, <2>2
  <2>3. QED
    BY <1>1, <2>1, <2>2
<1>4. Wire'
  <2>1. ASSUME NEW n \in DOMAIN wire'
        PROVE  /\ IsAnswer(wire'[n]) /\ wire'[n].id \in Ids \ inbox' /\ (~closed' => wire'[n].id \in waiting')
               /\ wire'[n].id \in Requests => (wire'[n].type = "answered" <=> wire'[n].id \in served')
    BY <1>1, <1>2, <1>3 DEF IInv, Wire
  <2>2. ASSUME NEW a \in DOMAIN wire', NEW b \in DOMAIN wire', wire'[a].id = wire'[b].id
        PROVE  a = b
    BY <1>2, <1>3, <2>2 DEF IInv, Wire
  <2>3. QED
    BY <1>3, <2>1, <2>2 DEF Wire, IsAnswer
<1>5. TypeOK'
  BY <1>1, <1>3, WireTyped DEF IInv, TypeOK
<1>6. Phases' /\ Timers'
  BY <1>1 DEF IInv, Phases, Timers
<1>7. Handled' /\ OwnAnswer'
  BY <1>1 DEF IInv, Handled, OwnAnswer
<1>8. Told' /\ NoStrayAnswer'
  BY <1>1, <1>2 DEF IInv, Told, ReasonToldOnce, NoStrayAnswer
<1>9. Silent'
  BY <1>1, NotSilent
<1>10. QED
  BY <1>4, <1>5, <1>6, <1>7, <1>8, <1>9 DEF IInv

-----------------------------------------------------------------------------
(* The theorems.                                                              *)

(* The invariant holds when the session is asked for.                         *)
LEMMA Initially ==
  ASSUME Init
  PROVE  IInv
<1>1. TypeOK /\ OwnAnswer /\ NoStrayAnswer
  <2>1. timer \in [Ids -> 0 .. RequestTimeout + HeartbeatTimeout]
    BY Constants DEF Init
  <2>2. outcome \in [Requests -> {"idle", "waiting", "answered", "refused", "lost"}]
    BY DEF Init
  <2>3. DOMAIN wire = {}
    BY DEF Init
  <2>4. OwnAnswer /\ NoStrayAnswer
    BY DEF Init, OwnAnswer, NoStrayAnswer
  <2>5. /\ phase = "connecting" /\ closed = FALSE /\ received = FALSE /\ unknown = FALSE /\ waiting = {}
        /\ beatIn = None /\ onClose = 0 /\ told = 0 /\ peer = "up" /\ inbox = {} /\ served = {} /\ silence = 0
    BY DEF Init
  <2>6. {closed, received, unknown} \subseteq BOOLEAN
    BY <2>5
  <2>7. \A n \in DOMAIN wire : wire[n] \in [type : {"answered", "refused", "session_error", "close"},
                                            id : Ids \union {None}, reason : BOOLEAN]
    BY <2>3
  <2>8. TypeOK
    BY <2>1, <2>2, <2>5, <2>6, <2>7, Constants DEF TypeOK
  <2>9. QED
    BY <2>4, <2>8
<1>2. Phases /\ Timers /\ Handled /\ Told
  BY Constants DEF Init, Phases, Timers, Handled, Told, ReasonToldOnce
<1>3. Wire /\ Silent
  <2>1. wire = <<>> /\ wire \in Seq(Message) /\ DOMAIN wire = {}
    BY DEF Init
  <2>2. Longest \in Nat
    BY Constants DEF Longest
  <2>3. QED
    BY <2>1, <2>2 DEF Init, Wire, Silent
<1>4. QED
  BY <1>1, <1>2, <1>3 DEF IInv

\* A step of a session that lives on.
LivesOn ==
  \/ opened \/ sendHeartbeat \/ Tick
  \/ \E r \in Requests : request(r)
  \/ \E i \in Ids, type \in {"answered", "refused"} : serve(i, type)
  \/ \E message, code \in BOOLEAN : serverEnds(message, code)
  \/ \E to \in {"silent", "gone"} : networkFails(to)

(* Every step ends the session, lets it live on, or handles what arrived.     *)
LEMMA Steps ==
  ASSUME IInv, Next
  PROVE  Ends \/ LivesOn \/ receiveAnswer \/ receiveSessionError
<1>1. CASE connectFails \/ close \/ receiveClose \/ socketCut
  BY <1>1, ConnectFailsEnds, CloseEnds, ReceiveCloseEnds, SocketCutEnds
<1>2. CASE \E r \in Requests : sendFails(r)
  BY <1>2, SendFailsEnds
<1>3. CASE \E i \in Ids : timeout(i)
  BY <1>3, TimeoutEnds
<1>4. QED
  BY <1>1, <1>2, <1>3 DEF Next, Receive, LivesOn

(* Every step keeps the invariant.                                            *)
LEMMA Inductive ==
  ASSUME IInv, [Next]_vars
  PROVE  IInv'
<1>1. CASE UNCHANGED vars
  BY <1>1 DEF vars, client, calls, server, IInv, TypeOK, Phases, Timers, Wire, Handled, Told, ReasonToldOnce,
              Silent, OnWire, OwnAnswer, NoStrayAnswer
<1>2. CASE Ends
  BY <1>2, EndsKeeps
<1>3. CASE LivesOn
  BY <1>3, OpenedKeeps, SendHeartbeatKeeps, TickKeeps, RequestKeeps, ServeKeeps, ServerEndsKeeps,
     NetworkFailsKeeps DEF LivesOn
<1>4. CASE receiveAnswer \/ receiveSessionError
  BY <1>4, ReceiveAnswerKeeps, SessionErrorKeeps
<1>5. QED
  BY <1>1, <1>2, <1>3, <1>4, Steps

(* The session has the invariant.                                             *)
LEMMA Invariant == Spec => []IInv
<1>1. QED
  BY Initially, Inductive, PTL DEF Spec

(* What is found out in time while the invariant holds.                       *)
LEMMA Consequences ==
  ASSUME IInv
  PROVE  SilenceFound /\ ReasonToldOnce /\ ClosedIsStill
<1>1. SilenceFound
  <2>1. silence \in Nat /\ timer[Hello] \in Nat
    BY Constants DEF IInv, TypeOK
  <2>2. QED
    BY <2>1, Constants DEF IInv, Silent, SilenceFound
<1>2. ReasonToldOnce /\ ClosedIsStill
  BY DEF IInv, Told, Phases, ClosedIsStill
<1>3. QED
  BY <1>1, <1>2

(* The session keeps to its types, with any number of requests and messages.  *)
THEOREM TypeCorrect == Spec => []TypeOK
<1>1. IInv => TypeOK
  BY DEF IInv
<1>2. QED
  BY <1>1, Invariant, PTL

(* Answers are never mixed up: who is told that a request was carried out, or *)
(* refused, is told the truth, and no answer finds nobody.                    *)
THEOREM AnswersAreTrue == Spec => [](OwnAnswer /\ NoStrayAnswer)
<1>1. IInv => OwnAnswer /\ NoStrayAnswer
  BY DEF IInv
<1>2. QED
  BY <1>1, Invariant, PTL

(* A peer that falls silent is found out within the heartbeat, its timeout    *)
(* and that of a request, whatever the times are.                             *)
THEOREM SilenceIsFound == Spec => []SilenceFound
<1>1. QED
  BY Consequences, Invariant, PTL

(* The server's reason to end the session is told at most once, however it    *)
(* comes, and a closed session is still: no request and no heartbeat is left. *)
THEOREM EndsOnce == Spec => [](ReasonToldOnce /\ ClosedIsStill)
<1>1. QED
  BY Consequences, Invariant, PTL

(* The owner hears of the end in the step that ends the session, and never    *)
(* again.                                                                     *)
THEOREM ToldAtTheEnd == Spec => ToldWithTheEnd
<1>1. ASSUME IInv, [Next]_vars
      PROVE  [onClose' # onClose => ~closed /\ closed']_vars
  <2>1. CASE UNCHANGED vars
    BY <2>1
  <2>2. CASE Ends
    BY <2>2 DEF Ends
  <2>3. CASE LivesOn
    BY <2>3 DEF LivesOn, opened, sendHeartbeat, Tick, request, serve, serverEnds, networkFails, calls
  <2>4. CASE receiveAnswer
    BY <2>4 DEF receiveAnswer
  <2>5. CASE receiveSessionError
    BY <1>1, <2>5, SessionErrorSteps DEF Ends
  <2>6. QED
    BY <1>1, <2>1, <2>2, <2>3, <2>4, <2>5, Steps
<1>2. QED
  BY <1>1, Invariant, PTL DEF Spec, ToldWithTheEnd

-----------------------------------------------------------------------------
(* The promise of the session.                                                *)

(* The end of the session is the end of the abstract one.                     *)
LEMMA EndsAbstract ==
  ASSUME IInv, Ends
  PROVE  Calls!End
<1>1. PICK last \in SUBSET {r \in Requests : phase = "open" /\ outcome[r] = "idle"} : Lost(last)
  BY DEF Ends
<1>2. phase # "ended" /\ phase' = "ended"
  BY DEF IInv, Phases, Ends
<1>3. last \in SUBSET Requests /\ \A r \in last : phase = "open" /\ outcome[r] = "idle"
  OBVIOUS
<1>4. QED
  BY <1>1, <1>2, <1>3 DEF Calls!End, Lost

(* A request is asked of a session that is open, or of one that has ended.    *)
LEMMA RequestAbstract ==
  ASSUME IInv, NEW r \in Requests, request(r)
  PROVE  Calls!Ask(r) \/ Calls!AskLate(r)
<1>1. closed <=> phase = "ended"
  BY DEF IInv, Phases
<1>2. QED
  BY <1>1 DEF request, Calls!Ask, Calls!AskLate

(* An answer starts the session, settles a request, or is the heartbeat's.    *)
LEMMA AnswerAbstract ==
  ASSUME IInv, receiveAnswer
  PROVE  \/ Calls!Start
         \/ \E r \in Requests : Calls!Settle(r)
         \/ UNCHANGED <<phase, outcome>>
<1>1. PICK type \in {"answered", "refused"} :
        /\ Incoming(type)
        /\ \E i \in {Head(wire).id} :
             \/ /\ i \in waiting
                /\ waiting' = waiting \ {i}
                /\ outcome' = IF i \in Requests THEN [outcome EXCEPT ![i] = type] ELSE outcome
                /\ phase' = IF i = Hello THEN "open" ELSE phase
             \/ UNCHANGED <<outcome, phase>>
  BY DEF receiveAnswer, AnswerTo
<1> DEFINE i == Head(wire).id
<1>2. CASE UNCHANGED <<outcome, phase>>
  BY <1>2
<1>3. CASE /\ i \in waiting
           /\ outcome' = IF i \in Requests THEN [outcome EXCEPT ![i] = type] ELSE outcome
           /\ phase' = IF i = Hello THEN "open" ELSE phase
  <2> HIDE DEF i
  <2>1. CASE i = Hello
    <3>1. phase = "hello" /\ phase' = "open" /\ outcome' = outcome
      BY <1>3, <2>1, Constants DEF IInv, Phases
    <3>2. QED
      BY <3>1 DEF Calls!Start
  <2>2. CASE i \in Requests
    <3>1. phase = "open" /\ phase' = "open" /\ outcome[i] = "waiting" /\ outcome' = [outcome EXCEPT ![i] = type]
      BY <1>3, <2>2, Constants DEF IInv, Phases
    <3>2. QED
      BY <2>2, <3>1 DEF Calls!Settle
  <2>3. CASE i \notin Requests /\ i # Hello
    BY <1>3, <2>3
  <2>4. QED
    BY <2>1, <2>2, <2>3
<1>4. QED
  BY <1>1, <1>2, <1>3

(* A session that survives an error has lost who waited.                      *)
LEMMA SurvivedAbstract ==
  ASSUME IInv, RejectPending, UNCHANGED phase
  PROVE  Calls!Lose
<1>1. \A r \in Requests : r \in waiting <=> outcome[r] = "waiting"
  BY DEF IInv, Phases
<1>2. QED
  BY <1>1 DEF RejectPending, Calls!Lose

(* The session keeps the promise of RequestSession: a request waits as long   *)
(* as the session lives, is settled once, and nobody waits when it has ended. *)
THEOREM PromiseKept == Spec => KeepsPromise
<1>1. ASSUME Init
      PROVE  Calls!Init
  BY <1>1 DEF Init, Calls!Init
<1>2. ASSUME IInv, [Next]_vars
      PROVE  [Calls!Next]_<<phase = "open", phase = "ended", outcome>>
  <2>1. CASE UNCHANGED vars
    BY <2>1 DEF vars, client
  <2>2. CASE Ends
    BY <1>2, <2>2, EndsAbstract DEF Calls!Next
  <2>3. CASE \E r \in Requests : request(r)
    BY <1>2, <2>3, RequestAbstract DEF Calls!Next
  <2>4. CASE opened
    BY <2>4 DEF opened
  <2>5. CASE LivesOn /\ ~opened /\ ~\E r \in Requests : request(r)
    BY <2>5 DEF LivesOn, sendHeartbeat, Tick, serve, serverEnds, networkFails, client
  <2>6. CASE receiveAnswer
    BY <1>2, <2>6, AnswerAbstract DEF Calls!Next
  <2>7. CASE receiveSessionError
    BY <1>2, <2>2, <2>7, SessionErrorSteps, SurvivedAbstract DEF Calls!Next
  <2>8. QED
    BY <1>2, <2>1, <2>2, <2>3, <2>4, <2>5, <2>6, <2>7, Steps
<1>3. QED
  BY <1>1, <1>2, Invariant, PTL DEF Spec, KeepsPromise, Calls!Spec
=============================================================================

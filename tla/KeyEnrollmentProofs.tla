------------------------- MODULE KeyEnrollmentProofs -------------------------
(* Members get the key of a vault by a request of their own and lose it with  *)
(* their membership: for any number of devices, requests, calls, removals,    *)
(* changes of password, lost answers and restarts.                            *)
EXTENDS KeyEnrollment, Integers, FiniteSetTheorems, TLAPS

\* What is left of the bounds, and how far removals have taken the grant's version.
Counted ==
  /\ left \in [removals : 0 .. MaxRemovals, changes : Int, faults : Int, expiries : Int, restarts : Int]
  /\ grant # None =>
       grant.version <= 2 * (MaxRemovals - left.removals) + (IF grant.status = "revoked" THEN 0 ELSE 1)
\* A request is created after its pair of keys, and so is over after it.
LapsedFirst == expired \subseteq lapsed
TypeInv == TypeOK /\ Counted /\ LapsedFirst

\* A grant of version v is no more, and will not be again.
Outlived(g, v) == g # None /\ (v < g.version \/ (v = g.version /\ g.status = "revoked"))

\* Nothing from before the last removal is open for the present grant.
CallsFromBefore ==
  \A c \in Calls : call[c].at = "create" =>
    /\ grant # None /\ call[c].version <= grant.version
    /\ call[c].late => Outlived(grant, call[c].version)
StaleOver == \A i \in stale : req[i] # NoReq /\ (req[i].status \in Open => Outlived(grant, req[i].version))
\* Nothing from before the last change of password is open.
OutdatedOver == \A i \in outdated : req[i] # NoReq /\ req[i].status \notin Open
OneOpen == \A i, j \in Ids : req[i].status \in Open /\ req[j].status \in Open => i = j
ReadGranted == \A c \in Calls : call[c].at = "read" => grant # None

ServerInv ==
  /\ TypeInv /\ KeyIffEnrolled /\ ReadGranted /\ CallsFromBefore /\ StaleOver /\ OutdatedOver /\ OneOpen

\* Some device has the private half; nothing will come of the request any more.
Held(i) == \E d \in Devices : receiver[d] # None /\ receiver[d].id = i
Over(i) == i \in given \cup lapsed \/ req[i].status = "canceled"
Prepares(i, w) == \E d \in Devices : receiver[d] = [id |-> i, prepared |-> w]
Starting(c) == call[c].at \in {"ensure", "read", "create"}
Completing(c) == call[c].at \in {"allow", "complete"}

OneHolder ==
  \A d, e \in Devices : receiver[d] # None /\ receiver[e] # None /\ receiver[d].id = receiver[e].id => d = e
\* A device that waits has the private half of what it waits for,
JobsHeld == \A d \in Devices : job[d] # Idle => receiver[d] # None /\ receiver[d].id = job[d].id
\* the call it waits for is about that,
JobsServed ==
  \A d \in Devices : job[d] # Idle /\ job[d].answer = "none" =>
    call[job[d].call] # Idle /\ call[job[d].call].id = job[d].id
\* and is told the truth.
OverIsOver == \A d \in Devices : job[d] # Idle /\ job[d].answer = "over" => req[job[d].id].status = "canceled"
\* What is begun, open, or about to be completed is held by a device, or over.
BegunHeld == \A c \in Calls : Starting(c) => Held(call[c].id) \/ Over(call[c].id)
OpenHeld == \A i \in Ids : req[i].status \in Open => Held(i) \/ Over(i)
CompletingHeld ==
  \A c \in Calls : Completing(c) => Prepares(call[c].id, call[c].wrapper) \/ Over(call[c].id)

DeviceInv ==
  /\ OneHolder /\ JobsHeld /\ JobsServed /\ OverIsOver
  /\ BegunHeld /\ OpenHeld /\ CompletingHeld /\ CompletionRepeatable

IInv == ServerInv /\ DeviceInv

-----------------------------------------------------------------------------
(* Calls and jobs.                                                            *)

(* What the server handles.                                                   *)
LEMMA CallTyped ==
  ASSUME TypeInv, NEW c \in Calls
  PROVE  /\ call[c] # Idle <=> Starting(c) \/ Completing(c)
         /\ call[c] # Idle => call[c].id \in Ids
         /\ Completing(c) => call[c] \in [at : {"allow", "complete"}, id : Ids, wrapper : Wrappers]
         /\ call[c].at = "create" =>
              call[c] \in [at : {"create"}, id : Ids, version : 1..(2 * MaxRemovals + 1), late : BOOLEAN]
         /\ call[c].at \in {"ensure", "read"} => call[c] \in [at : {"ensure", "read"}, id : Ids]
BY DEF TypeInv, TypeOK, Handled, Idle, Starting, Completing

(* A call goes on to another.                                                 *)
LEMMA CallSet ==
  ASSUME TypeInv, NEW c \in Calls, NEW x \in Handled \cup {Idle}, call' = [call EXCEPT ![c] = x]
  PROVE  /\ call' \in [Calls -> Handled \cup {Idle}] /\ call'[c] = x
         /\ \A k \in Calls \ {c} : call'[k] = call[k]
BY DEF TypeInv, TypeOK

(* Who waits for a call that is answered waits no more.                       *)
LEMMA AnsweredEffect ==
  ASSUME TypeInv, NEW c \in Calls, NEW answer \in {"ok", "over", "error"}, Answered(c, answer)
  PROVE  /\ call' \in [Calls -> Handled \cup {Idle}] /\ call'[c] = Idle
         /\ \A k \in Calls \ {c} : call'[k] = call[k]
         /\ job' \in [Devices -> Jobs \cup {Idle}]
         /\ \A d \in Devices :
              \/ job'[d] = job[d] /\ (job[d] # Idle /\ job[d].answer = "none" => job[d].call # c)
              \/ /\ job[d] # Idle /\ job[d].answer = "none" /\ job[d].call = c
                 /\ job'[d] # Idle /\ job'[d].id = job[d].id /\ job'[d].answer = answer
<1>1. /\ call' \in [Calls -> Handled \cup {Idle}] /\ call'[c] = Idle
      /\ \A k \in Calls \ {c} : call'[k] = call[k]
  BY CallSet DEF Answered
<1>2. ASSUME NEW d \in Devices
      PROVE  /\ job'[d] \in Jobs \cup {Idle}
             /\ \/ job'[d] = job[d] /\ (job[d] # Idle /\ job[d].answer = "none" => job[d].call # c)
                \/ /\ job[d] # Idle /\ job[d].answer = "none" /\ job[d].call = c
                   /\ job'[d] # Idle /\ job'[d].id = job[d].id /\ job'[d].answer = answer
  <2>1. job[d] \in Jobs \cup {Idle}
    BY DEF TypeInv, TypeOK
  <2>2. job'[d] = IF job[d] # Idle /\ job[d].call = c /\ job[d].answer = "none"
                  THEN [job[d] EXCEPT !.answer = answer] ELSE job[d]
    BY DEF Answered
  <2>3. CASE job[d] # Idle /\ job[d].call = c /\ job[d].answer = "none"
    <3>1. job[d] \in Jobs
      BY <2>1, <2>3
    <3>2. /\ [job[d] EXCEPT !.answer = answer] \in Jobs
          /\ [job[d] EXCEPT !.answer = answer].id = job[d].id
          /\ [job[d] EXCEPT !.answer = answer].answer = answer
      BY <3>1 DEF Jobs
    <3>3. \A j \in Jobs : j # Idle
      BY DEF Jobs, Idle
    <3>4. QED
      BY <2>2, <2>3, <3>2, <3>3
  <2>4. CASE ~(job[d] # Idle /\ job[d].call = c /\ job[d].answer = "none")
    BY <2>1, <2>2, <2>4
  <2>5. QED
    BY <2>3, <2>4
<1>3. job' = [d \in Devices |-> job'[d]]
  BY DEF Answered
<1>4. QED
  BY <1>1, <1>2, <1>3

(* A device that sends takes a call that is free.                             *)
LEMMA SendsEffect ==
  ASSUME TypeInv, NEW d \in Devices, NEW at \in {"start", "complete"}, NEW handled \in Handled,
         Sends(d, at, handled)
  PROVE  \E c \in Calls :
           /\ call[c] = Idle /\ call'[c] = handled /\ \A k \in Calls \ {c} : call'[k] = call[k]
           /\ call' \in [Calls -> Handled \cup {Idle}]
           /\ job' \in [Devices -> Jobs \cup {Idle}] /\ \A e \in Devices \ {d} : job'[e] = job[e]
           /\ job'[d] # Idle /\ job'[d].id = handled.id /\ job'[d].call = c /\ job'[d].answer = "none"
<1> DEFINE c == CHOOSE k \in Calls : call[k] = Idle
           j == [at |-> at, id |-> handled.id, call |-> c, answer |-> "none"]
<1>1. c \in Calls /\ call[c] = Idle
  BY DEF Sends
<1>2. call' = [call EXCEPT ![c] = handled] /\ job' = [job EXCEPT ![d] = j]
  BY DEF Sends
<1>3. handled.id \in Ids
  BY DEF Handled
<1>4. j \in Jobs
  BY <1>1, <1>3 DEF Jobs
<1>5. j # Idle /\ j.id = handled.id /\ j.call = c /\ j.answer = "none"
  BY DEF Idle
<1>6. /\ job' \in [Devices -> Jobs \cup {Idle}] /\ job'[d] = j
      /\ \A e \in Devices \ {d} : job'[e] = job[e]
  BY <1>2, <1>4 DEF TypeInv, TypeOK
<1>7. /\ call' \in [Calls -> Handled \cup {Idle}] /\ call'[c] = handled
      /\ \A k \in Calls \ {c} : call'[k] = call[k]
  BY <1>1, <1>2, CallSet
<1> HIDE DEF c, j
<1>8. QED
  BY <1>1, <1>5, <1>6, <1>7

LEMMA FreshWrapper ==
  ASSUME TypeInv, used # Wrappers
  PROVE  NewWrapper \in Wrappers
BY DEF TypeInv, TypeOK, NewWrapper

LEMMA FreshId ==
  ASSUME \E i \in Ids : Fresh(i)
  PROVE  NewId \in Ids /\ Fresh(NewId)
BY DEF NewId

-----------------------------------------------------------------------------
(* The server.                                                                *)

(* A step that leaves grant and wrapper alone.                                *)
LEMMA Uncounted ==
  ASSUME TypeInv, UNCHANGED grant, left'.removals = left.removals,
         left' \in [removals : 0 .. MaxRemovals, changes : Int, faults : Int, expiries : Int, restarts : Int]
  PROVE  Counted'
BY DEF TypeInv, Counted

(* One of the other bounds is taken from.                                     *)
LEMMA TakenFrom ==
  ASSUME TypeInv, \/ UNCHANGED left
                  \/ left' = [left EXCEPT !.changes = @ - 1]
                  \/ left' = [left EXCEPT !.faults = @ - 1]
                  \/ left' = [left EXCEPT !.expiries = @ - 1]
                  \/ left' = [left EXCEPT !.restarts = @ - 1]
  PROVE  /\ left' \in [removals : 0 .. MaxRemovals, changes : Int, faults : Int, expiries : Int, restarts : Int]
         /\ left'.removals = left.removals
BY DEF TypeInv, Counted

(* Steps after which the server knows what it knew.                           *)
LEMMA ServerQuiet ==
  ASSUME ServerInv, TypeInv', UNCHANGED <<member, grant, wrapper, stale, outdated>>,
         UNCHANGED req \/ \A i \in Ids : \/ req'[i] = req[i]
                                         \/ /\ req[i].status \in Open /\ req'[i].status = "canceled"
                                            /\ req'[i] # NoReq,
         \A c \in Calls : \/ call'[c] = call[c]
                          \/ call'[c].at \notin {"read", "create"}
                          \/ call'[c].at = "create" /\ grant # None /\ call'[c].version = grant.version
                             /\ ~call'[c].late
  PROVE  ServerInv'
<1>1. \A i \in Ids : \/ req'[i] = req[i]
                     \/ req[i].status \in Open /\ req'[i].status = "canceled" /\ req'[i] # NoReq
  OBVIOUS
<1>2. KeyIffEnrolled' /\ ReadGranted'
  BY DEF ServerInv, KeyIffEnrolled, ReadGranted
<1>3. CallsFromBefore'
  <2>1. ASSUME NEW c \in Calls, call'[c].at = "create"
        PROVE  /\ grant # None /\ call'[c].version <= grant.version
               /\ call'[c].late => Outlived(grant, call'[c].version)
    <3>1. CASE call'[c] = call[c]
      BY <2>1, <3>1 DEF ServerInv, CallsFromBefore
    <3>2. CASE grant # None /\ call'[c].version = grant.version /\ ~call'[c].late
      <4>1. grant.version \in Int
        BY <3>2 DEF ServerInv, TypeInv, TypeOK, Grants
      <4>2. QED
        BY <3>2, <4>1
    <3>3. QED
      BY <2>1, <3>1, <3>2
  <2>2. QED
    BY <2>1 DEF CallsFromBefore, Outlived
<1>4. \A i \in Ids : req'[i].status \in Open => req'[i] = req[i]
  BY <1>1 DEF Open
<1>5. stale \cup outdated \subseteq Ids
  BY DEF ServerInv, TypeInv, TypeOK
<1>6. StaleOver' /\ OutdatedOver'
  BY <1>1, <1>4, <1>5 DEF ServerInv, StaleOver, OutdatedOver, Outlived, Open
<1>7. OneOpen'
  BY <1>4 DEF ServerInv, OneOpen
<1>8. QED
  BY <1>2, <1>3, <1>6, <1>7 DEF ServerInv

(* Requests read and completions looked at.                                   *)
LEMMA ServerReads ==
  ASSUME ServerInv, NEW c \in Calls, startRead(c) \/ completeAllowed(c)
  PROVE  ServerInv'
<1>1. TypeInv /\ UNCHANGED <<server, receiver, left, used, given>>
  BY DEF startRead, completeAllowed, ServerInv
<1>2. call[c] # Idle
  BY DEF startRead, completeAllowed, Idle
<1>3. CASE \E answer \in {"ok", "over", "error"} : Answered(c, answer)
  <2>1. /\ call' \in [Calls -> Handled \cup {Idle}] /\ job' \in [Devices -> Jobs \cup {Idle}]
        /\ call'[c] = Idle /\ \A k \in Calls \ {c} : call'[k] = call[k]
    BY <1>1, <1>3, AnsweredEffect
  <2>2. TypeInv'
    BY <1>1, <2>1 DEF TypeInv, TypeOK, Counted, LapsedFirst, server
  <2>3. QED
    BY <1>1, <2>1, <2>2, ServerQuiet DEF server, Idle
<1>4. CASE /\ call[c].at = "read" /\ UNCHANGED job
           /\ call' = [call EXCEPT ![c] = [at |-> "create", id |-> call[c].id, version |-> grant.version,
                                           late |-> FALSE]]
  <2> DEFINE x == [at |-> "create", id |-> call[c].id, version |-> grant.version, late |-> FALSE]
  <2>1. grant # None /\ call[c].id \in Ids
    BY <1>1, <1>2, <1>4, CallTyped DEF ServerInv, ReadGranted
  <2>2. grant.version \in 1..(2 * MaxRemovals + 1)
    BY <1>1, <2>1 DEF TypeInv, TypeOK, Grants
  <2>3. x \in Handled
    BY <2>1, <2>2 DEF Handled
  <2>4. /\ call' \in [Calls -> Handled \cup {Idle}] /\ call'[c] = x
        /\ \A k \in Calls \ {c} : call'[k] = call[k]
    BY <1>1, <1>4, <2>3, CallSet
  <2>5. TypeInv'
    BY <1>1, <1>4, <2>4 DEF TypeInv, TypeOK, Counted, LapsedFirst, server
  <2>6. QED
    BY <1>1, <2>1, <2>4, <2>5, ServerQuiet DEF server
<1>5. CASE call[c].at = "allow" /\ UNCHANGED job /\ call' = [call EXCEPT ![c].at = "complete"]
  <2> DEFINE x == [call[c] EXCEPT !.at = "complete"]
  <2>1. call[c] \in [at : {"allow", "complete"}, id : Ids, wrapper : Wrappers]
    BY <1>1, <1>5, CallTyped DEF Completing
  <2>2. x \in Handled /\ x.at = "complete"
    BY <2>1 DEF Handled
  <2>3. call' = [call EXCEPT ![c] = x]
    BY <1>5
  <2>4. /\ call' \in [Calls -> Handled \cup {Idle}] /\ call'[c] = x
        /\ \A k \in Calls \ {c} : call'[k] = call[k]
    BY <1>1, <2>2, <2>3, CallSet
  <2>5. TypeInv'
    BY <1>1, <1>5, <2>4 DEF TypeInv, TypeOK, Counted, LapsedFirst, server
  <2>6. QED
    BY <1>1, <2>2, <2>4, <2>5, ServerQuiet DEF server
<1>6. QED
  BY <1>3, <1>4, <1>5 DEF startRead, completeAllowed

(* A grant there is stays as it is, one that was revoked is renewed.          *)
LEMMA ServerEnsures ==
  ASSUME KeyAssumption, ServerInv, NEW c \in Calls, ensureVaultEnrollment(c)
  PROVE  ServerInv'
<1>1. /\ TypeInv /\ UNCHANGED <<member, wrapper, req, lapsed, expired, stale, outdated, receiver, left, used, given>>
      /\ call[c].at = "ensure"
  BY DEF ensureVaultEnrollment, ServerInv
<1>2. call[c] \in [at : {"ensure", "read"}, id : Ids]
  BY <1>1, CallTyped
<1>3. CASE ~member
  <2>1. Answered(c, "error") /\ UNCHANGED grant
    BY <1>3 DEF ensureVaultEnrollment
  <2>2. /\ call' \in [Calls -> Handled \cup {Idle}] /\ job' \in [Devices -> Jobs \cup {Idle}]
        /\ call'[c] = Idle /\ \A k \in Calls \ {c} : call'[k] = call[k]
    BY <1>1, <2>1, AnsweredEffect
  <2>3. TypeInv'
    BY <1>1, <2>1, <2>2 DEF TypeInv, TypeOK, Counted, LapsedFirst
  <2>4. QED
    BY <1>1, <2>1, <2>2, <2>3, ServerQuiet DEF Idle
<1>4. CASE member
  <2> DEFINE x == [call[c] EXCEPT !.at = "read"]
  <2>1. grant' = Enrolled /\ UNCHANGED job /\ call' = [call EXCEPT ![c] = x]
    BY <1>4 DEF ensureVaultEnrollment
  <2>2. x \in Handled /\ x.at = "read"
    BY <1>2 DEF Handled
  <2>3. /\ call' \in [Calls -> Handled \cup {Idle}] /\ call'[c] = x
        /\ \A k \in Calls \ {c} : call'[k] = call[k]
    BY <1>1, <2>1, <2>2, CallSet
  <2>4. /\ grant' \in Grants /\ grant' # None /\ (grant'.status = "active" <=> grant # None /\ grant.status = "active")
        /\ grant'.version <= 2 * (MaxRemovals - left.removals) + 1 /\ grant'.status # "revoked"
        /\ grant # None => grant' = grant \/ (grant.status = "revoked" /\ grant'.version = grant.version + 1)
    <3>0. left.removals \in 0 .. MaxRemovals /\ MaxRemovals \in Nat
      BY <1>1 DEF TypeInv, Counted, KeyAssumption
    <3>1. CASE grant = None
      <4>1. grant' = [status |-> "pending_key", version |-> 1]
        BY <2>1, <3>1 DEF Enrolled
      <4>2. 1 \in 1..(2 * MaxRemovals + 1) /\ 1 <= 2 * (MaxRemovals - left.removals) + 1
        BY <3>0
      <4>3. grant' \in Grants
        BY <4>1, <4>2 DEF Grants
      <4>4. QED
        BY <3>1, <4>1, <4>2, <4>3 DEF KeyAssumption
    <3>2. CASE grant # None /\ grant.status = "revoked"
      <4>0. grant \in Grants
        BY <1>1, <3>2 DEF TypeInv, TypeOK
      <4>1. grant \in Grants /\ grant.version <= 2 * (MaxRemovals - left.removals)
        <5>1. grant.version <= 2 * (MaxRemovals - left.removals) + (IF grant.status = "revoked" THEN 0 ELSE 1)
          BY <1>1, <3>2 DEF TypeInv, Counted
        <5>2. grant.version \in Int
          BY <4>0 DEF Grants
        <5>3. QED
          BY <3>0, <3>2, <4>0, <5>1, <5>2
      <4>2. grant' = [status |-> "pending_key", version |-> grant.version + 1]
        BY <2>1, <3>2 DEF Enrolled
      <4>3. /\ grant.version + 1 \in 1..(2 * MaxRemovals + 1)
            /\ grant.version + 1 <= 2 * (MaxRemovals - left.removals) + 1
        BY <3>0, <4>1 DEF Grants
      <4>4. grant' \in Grants
        BY <4>2, <4>3 DEF Grants
      <4>5. QED
        BY <3>2, <4>2, <4>3, <4>4 DEF KeyAssumption
    <3>3. CASE grant # None /\ grant.status # "revoked"
      <4>1. grant' = grant
        BY <2>1, <3>3 DEF Enrolled
      <4>2. QED
        BY <1>1, <3>3, <4>1 DEF TypeInv, TypeOK, Counted, LapsedFirst
    <3>4. QED
      BY <3>1, <3>2, <3>3
  <2> HIDE DEF x
  <2>5. TypeInv'
    BY <1>1, <2>1, <2>3, <2>4 DEF TypeInv, TypeOK, Counted, LapsedFirst
  <2>6. KeyIffEnrolled' /\ ReadGranted'
    BY <1>1, <2>4 DEF ServerInv, KeyIffEnrolled, ReadGranted
  <2>7. ASSUME NEW v \in Int, grant # None, Outlived(grant, v)
        PROVE  Outlived(grant', v)
    <3>1. grant.version \in Int
      BY <1>1, <2>7 DEF TypeInv, TypeOK, Grants
    <3>2. QED
      BY <2>4, <2>7, <3>1 DEF Outlived
  <2>8. CallsFromBefore'
    <3>1. ASSUME NEW k \in Calls, call'[k].at = "create"
          PROVE  /\ grant' # None /\ call'[k].version <= grant'.version
                 /\ call'[k].late => Outlived(grant', call'[k].version)
      <4>1. k # c /\ call'[k] = call[k]
        BY <2>2, <2>3, <3>1
      <4>2. call[k].version \in Int /\ grant # None /\ call[k].version <= grant.version
        BY <1>1, <3>1, <4>1, CallTyped DEF ServerInv, CallsFromBefore
      <4>3. grant.version \in Int
        BY <1>1, <4>2 DEF TypeInv, TypeOK, Grants
      <4>4. call[k].late => Outlived(grant, call[k].version)
        BY <3>1, <4>1 DEF ServerInv, CallsFromBefore
      <4>5. call[k].late => Outlived(grant', call[k].version)
        BY <2>7, <4>2, <4>4
      <4>6. call[k].version <= grant'.version
        BY <2>4, <4>2, <4>3
      <4>7. QED
        BY <2>4, <4>1, <4>5, <4>6 DEF Outlived
    <3>2. QED
      BY <3>1 DEF CallsFromBefore, Outlived
  <2>9. StaleOver'
    <3>1. ASSUME NEW i \in stale, req[i].status \in Open
          PROVE  Outlived(grant', req[i].version)
      <4>1. i \in Ids /\ req[i].version \in Int /\ Outlived(grant, req[i].version)
        BY <1>1, <3>1 DEF TypeInv, TypeOK, Reqs, ServerInv, StaleOver
      <4>2. QED
        BY <1>1, <2>7, <4>1 DEF Outlived
    <3>2. QED
      BY <1>1, <3>1 DEF ServerInv, StaleOver, Outlived
  <2>10. OutdatedOver' /\ OneOpen'
    BY <1>1 DEF ServerInv, OutdatedOver, OneOpen
  <2>11. QED
    BY <2>5, <2>6, <2>8, <2>9, <2>10 DEF ServerInv
<1>5. QED
  BY <1>3, <1>4

(* A request is made: the others that were open are canceled.                 *)
LEMMA ServerCreates ==
  ASSUME ServerInv, NEW c \in Calls, createKeyRequest(c)
  PROVE  ServerInv'
<1>1. /\ TypeInv /\ UNCHANGED <<member, grant, wrapper, lapsed, expired, outdated, receiver, left, used, given>>
      /\ call[c].at = "create"
  BY DEF createKeyRequest, ServerInv
<1>2. Answered(c, "ok") \/ Answered(c, "error")
  BY DEF createKeyRequest
<1>3. /\ call' \in [Calls -> Handled \cup {Idle}] /\ job' \in [Devices -> Jobs \cup {Idle}]
      /\ call'[c] = Idle /\ \A k \in Calls \ {c} : call'[k] = call[k]
  BY <1>1, <1>2, AnsweredEffect
<1>4. CASE UNCHANGED <<req, stale>>
  <2>1. TypeInv'
    BY <1>1, <1>3, <1>4 DEF TypeInv, TypeOK, Counted, LapsedFirst
  <2>2. QED
    BY <1>1, <1>3, <1>4, <2>1, ServerQuiet DEF Idle
<1>5. CASE req[call[c].id] = NoReq /\ req' = Created(call[c].id, call[c].version)
           /\ stale' = IF call[c].late THEN stale \cup {call[c].id} ELSE stale
  <2> DEFINE i == call[c].id
             v == call[c].version
  <2>1. i \in Ids /\ v \in 1..(2 * MaxRemovals + 1)
    BY <1>1, CallTyped
  <2>2. req'[i] = [status |-> "pending", version |-> v]
    BY <1>5, <2>1 DEF Created
  <2>3. ASSUME NEW j \in Ids, j # i
        PROVE  /\ req'[j] \in Reqs /\ req'[j].status \notin Open /\ (req[j] # NoReq => req'[j] # NoReq)
    <3>1. req[j] \in Reqs
      BY <1>1 DEF TypeInv, TypeOK
    <3>2. req'[j] = IF req[j].status \in Open THEN [req[j] EXCEPT !.status = "canceled"] ELSE req[j]
      BY <1>5, <2>3 DEF Created
    <3>3. /\ [req[j] EXCEPT !.status = "canceled"] \in Reqs
          /\ [req[j] EXCEPT !.status = "canceled"].status = "canceled"
      BY <3>1 DEF Reqs
    <3>4. QED
      BY <3>1, <3>2, <3>3 DEF Open, NoReq
  <2>4. req'[i] \in Reqs /\ req'[i] # NoReq /\ req'[i].version = v
    BY <2>1, <2>2 DEF Reqs, NoReq
  <2>5. req' \in [Ids -> Reqs]
    BY <1>5, <2>3, <2>4 DEF Created
  <2>6. stale' \subseteq stale \cup {i} /\ stale \subseteq Ids /\ outdated \subseteq Ids
    BY <1>1, <1>5 DEF TypeInv, TypeOK
  <2>7. TypeInv'
    BY <1>1, <1>3, <2>1, <2>5, <2>6 DEF TypeInv, TypeOK, Counted, LapsedFirst
  <2>8. KeyIffEnrolled' /\ ReadGranted' /\ CallsFromBefore'
    BY <1>1, <1>3 DEF ServerInv, KeyIffEnrolled, ReadGranted, CallsFromBefore, Idle
  <2>9. i \notin stale /\ i \notin outdated
    BY <1>5 DEF ServerInv, StaleOver, OutdatedOver
  <2>10. i \in stale' => Outlived(grant, v)
    BY <1>1, <1>5, <2>9 DEF ServerInv, CallsFromBefore
  <2>11. StaleOver'
    BY <1>1, <2>3, <2>4, <2>6, <2>10 DEF ServerInv, StaleOver, Outlived
  <2>12. OutdatedOver'
    BY <1>1, <2>3, <2>6, <2>9 DEF ServerInv, OutdatedOver
  <2>13. OneOpen'
    BY <2>3 DEF OneOpen
  <2>14. QED
    BY <2>7, <2>8, <2>11, <2>12, <2>13 DEF ServerInv
<1>6. QED
  BY <1>4, <1>5 DEF createKeyRequest

(* What is completed was approved, for the grant there is.                    *)
LEMMA CompletesRight ==
  ASSUME ServerInv, NEW c \in Calls, completeKeyRequest(c), Completable(call[c].id)
  PROVE  /\ call[c].id \in Ids /\ call[c].wrapper \in Wrappers
         /\ call[c].id \notin stale \cup outdated
         /\ req[call[c].id].status = "approved" /\ req'[call[c].id].status = "completed"
         /\ \A j \in Ids \ {call[c].id} : req'[j] = req[j]
         /\ req' \in [Ids -> Reqs] /\ Answered(c, "ok") /\ wrapper' = call[c].wrapper
<1> DEFINE i == call[c].id
<1>1. TypeInv /\ call[c].at = "complete"
  BY DEF ServerInv, completeKeyRequest
<1>2. i \in Ids /\ call[c].wrapper \in Wrappers
  BY <1>1, CallTyped DEF Completing
<1>3. req[i].status = "approved" /\ grant # None /\ grant.version = req[i].version /\ grant.status # "revoked"
  BY DEF Completable
<1>4. i \notin outdated
  BY <1>3 DEF ServerInv, OutdatedOver, Open
<1>5. i \notin stale
  <2>1. grant.version \in Int
    BY <1>1, <1>3 DEF TypeInv, TypeOK, Grants
  <2>2. ~Outlived(grant, req[i].version)
    BY <1>3, <2>1 DEF Outlived
  <2>3. QED
    BY <1>3, <2>2 DEF ServerInv, StaleOver, Open
<1>6. /\ req' = [req EXCEPT ![i].status = "completed"] /\ Answered(c, "ok")
      /\ wrapper' = call[c].wrapper
  BY DEF completeKeyRequest
<1>7. req[i] \in Reqs /\ req \in [Ids -> Reqs]
  BY <1>1, <1>2 DEF TypeInv, TypeOK
<1>8. [req[i] EXCEPT !.status = "completed"] \in Reqs
  BY <1>7 DEF Reqs
<1>9. /\ req' \in [Ids -> Reqs] /\ req'[i].status = "completed"
      /\ \A j \in Ids \ {i} : req'[j] = req[j]
  BY <1>2, <1>6, <1>7, <1>8 DEF Reqs
<1>10. QED
  BY <1>2, <1>3, <1>4, <1>5, <1>6, <1>9

LEMMA ServerCompletes ==
  ASSUME KeyAssumption, ServerInv, NEW c \in Calls, completeKeyRequest(c)
  PROVE  ServerInv'
<1>1. TypeInv /\ UNCHANGED <<member, lapsed, expired, stale, receiver, left, used, given>>
  BY DEF completeKeyRequest, ServerInv
<1>2. Answered(c, "ok") \/ Answered(c, "error")
  BY DEF completeKeyRequest
<1>3. /\ call' \in [Calls -> Handled \cup {Idle}] /\ job' \in [Devices -> Jobs \cup {Idle}]
      /\ call'[c] = Idle /\ \A k \in Calls \ {c} : call'[k] = call[k]
  BY <1>1, <1>2, AnsweredEffect
<1>4. CASE ~Completable(call[c].id)
  <2>1. UNCHANGED <<wrapper, grant, req, outdated>>
    BY <1>4 DEF completeKeyRequest
  <2>2. TypeInv'
    BY <1>1, <1>3, <2>1 DEF TypeInv, TypeOK, Counted, LapsedFirst
  <2>3. QED
    BY <1>1, <1>3, <2>1, <2>2, ServerQuiet DEF Idle
<1>5. CASE Completable(call[c].id)
  <2> DEFINE i == call[c].id
  <2>1. /\ i \in Ids /\ wrapper' \in Wrappers /\ i \notin stale \cup outdated
        /\ req[i].status = "approved" /\ req'[i].status = "completed"
        /\ \A j \in Ids \ {i} : req'[j] = req[j]
        /\ req' \in [Ids -> Reqs]
    BY <1>5, CompletesRight
  <2>2. /\ member /\ grant # None /\ grant.status # "revoked"
        /\ grant' = [grant EXCEPT !.status = "active"]
        /\ outdated' = outdated \cup {j \in Ids : req[j].status = "completed"}
    BY <1>5 DEF completeKeyRequest, Completable
  <2>3. grant \in Grants
    BY <1>1, <2>2 DEF TypeInv, TypeOK
  <2>4. grant' \in Grants /\ grant'.status = "active" /\ grant'.version = grant.version /\ grant.version \in Int
    BY <2>2, <2>3 DEF Grants
  <2>5. grant' # None /\ wrapper' # None
    BY <2>1, <2>4 DEF KeyAssumption
  <2>6. Counted'
    BY <1>1, <2>2, <2>4 DEF TypeInv, Counted
  <2>7. outdated' \subseteq Ids
    BY <1>1, <2>2 DEF TypeInv, TypeOK
  <2>8. TypeInv'
    BY <1>1, <1>3, <2>1, <2>4, <2>6, <2>7 DEF TypeInv, TypeOK, LapsedFirst
  <2>9. KeyIffEnrolled' /\ ReadGranted'
    BY <1>1, <2>2, <2>4, <2>5 DEF KeyIffEnrolled, ReadGranted
  <2>10. \A v : Outlived(grant, v) => Outlived(grant', v)
    BY <2>2, <2>4, <2>5 DEF Outlived
  <2>11. CallsFromBefore'
    BY <1>3, <2>4, <2>5, <2>10 DEF ServerInv, CallsFromBefore, Idle
  <2>12. \A j \in Ids : req'[j] = req[j] \/ (req'[j].status = "completed" /\ req'[j] # NoReq)
    BY <2>1 DEF NoReq
  <2>13. stale \subseteq Ids /\ outdated \subseteq Ids
    BY <1>1 DEF TypeInv, TypeOK
  <2>14. StaleOver'
    <3>1. ASSUME NEW j \in stale
          PROVE  req'[j] # NoReq /\ (req'[j].status \in Open => Outlived(grant', req'[j].version))
      BY <2>10, <2>12, <2>13 DEF ServerInv, StaleOver, Open
    <3>2. QED
      BY <1>1, <3>1 DEF StaleOver, Outlived
  <2>15. OutdatedOver'
    <3>1. \A j \in Ids : req[j].status = "completed" => req[j] # NoReq
      BY DEF NoReq
    <3>2. QED
      BY <2>2, <2>12, <2>13, <3>1 DEF ServerInv, OutdatedOver, Open
  <2>16. OneOpen'
    BY <2>12 DEF ServerInv, OneOpen, Open
  <2>17. QED
    BY <2>8, <2>9, <2>11, <2>14, <2>15, <2>16 DEF ServerInv
<1>6. QED
  BY <1>4, <1>5

(* A manager approves what is pending for the grant there is.                 *)
LEMMA ServerApproves ==
  ASSUME ServerInv, NEW i \in Ids, approveKeyRequest(i)
  PROVE  ServerInv'
<1>1. /\ TypeInv
      /\ UNCHANGED <<member, grant, wrapper, lapsed, expired, stale, outdated, receiver, job, call, left, used, given>>
      /\ req[i].status = "pending" /\ grant # None /\ grant.version = req[i].version
      /\ grant.status # "revoked" /\ req' = [req EXCEPT ![i].status = "approved"]
  BY DEF approveKeyRequest, ServerInv
<1>2. req[i] \in Reqs /\ req \in [Ids -> Reqs] /\ grant.version \in Int
  BY <1>1 DEF TypeInv, TypeOK, Grants
<1>3. [req[i] EXCEPT !.status = "approved"] \in Reqs
  BY <1>2 DEF Reqs
<1>4. /\ req' \in [Ids -> Reqs] /\ req'[i].status = "approved"
      /\ \A j \in Ids \ {i} : req'[j] = req[j]
  BY <1>1, <1>2, <1>3 DEF Reqs
<1>5. TypeInv'
  BY <1>1, <1>4 DEF TypeInv, TypeOK, Counted, LapsedFirst
<1>6. ~Outlived(grant, req[i].version)
  BY <1>1, <1>2 DEF Outlived
<1>7. i \notin stale \cup outdated
  BY <1>1, <1>6 DEF ServerInv, StaleOver, OutdatedOver, Open
<1>8. stale \subseteq Ids /\ outdated \subseteq Ids
  BY <1>1 DEF TypeInv, TypeOK
<1>9. StaleOver' /\ OutdatedOver'
  BY <1>1, <1>4, <1>7, <1>8 DEF ServerInv, StaleOver, OutdatedOver, Outlived
<1>10. \A j \in Ids : req'[j].status \in Open => req[j].status \in Open
  BY <1>1, <1>4 DEF Open
<1>11. OneOpen'
  BY <1>10 DEF ServerInv, OneOpen
<1>12. KeyIffEnrolled' /\ ReadGranted' /\ CallsFromBefore'
  BY <1>1 DEF ServerInv, KeyIffEnrolled, ReadGranted, CallsFromBefore, Outlived
<1>13. QED
  BY <1>5, <1>9, <1>11, <1>12 DEF ServerInv

(* Whoever changes the password cancels what is open.                         *)
LEMMA ServerChanges ==
  ASSUME KeyAssumption, ServerInv, changePassword
  PROVE  ServerInv'
<1>1. /\ TypeInv /\ UNCHANGED <<member, grant, lapsed, expired, stale, receiver, job, call, given>>
      /\ member /\ grant # None /\ grant.status = "active" /\ used # Wrappers
      /\ wrapper' = NewWrapper /\ used' = used \cup {NewWrapper} /\ req' = AfterChange
      /\ outdated' = {j \in Ids : req[j] # NoReq} /\ left' = [left EXCEPT !.changes = @ - 1]
  BY DEF changePassword, ServerInv
<1>2. wrapper' \in Wrappers /\ used' \subseteq Wrappers /\ wrapper' # None
  BY <1>1, FreshWrapper DEF KeyAssumption, TypeInv, TypeOK
<1>3. ASSUME NEW j \in Ids
      PROVE  req'[j] \in Reqs /\ req'[j].status \notin Open /\ (req[j] # NoReq => req'[j] # NoReq)
  <2>1. req[j] \in Reqs
    BY <1>1 DEF TypeInv, TypeOK
  <2>2. req'[j] = IF req[j].status \in Open THEN [req[j] EXCEPT !.status = "canceled"] ELSE req[j]
    BY <1>1 DEF AfterChange
  <2>3. /\ [req[j] EXCEPT !.status = "canceled"] \in Reqs
        /\ [req[j] EXCEPT !.status = "canceled"].status = "canceled"
    BY <2>1 DEF Reqs
  <2>4. QED
    BY <2>1, <2>2, <2>3 DEF Open, NoReq
<1>4. req' \in [Ids -> Reqs]
  BY <1>1, <1>3 DEF AfterChange
<1>5. Counted'
  BY <1>1, TakenFrom, Uncounted
<1>6. TypeInv'
  BY <1>1, <1>2, <1>4, <1>5 DEF TypeInv, TypeOK, LapsedFirst
<1>7. KeyIffEnrolled' /\ ReadGranted' /\ CallsFromBefore'
  BY <1>1, <1>2 DEF ServerInv, KeyIffEnrolled, ReadGranted, CallsFromBefore, Outlived
<1>8. stale \subseteq Ids
  BY <1>1 DEF TypeInv, TypeOK
<1>9. StaleOver' /\ OutdatedOver' /\ OneOpen'
  BY <1>1, <1>3, <1>8 DEF ServerInv, StaleOver, OutdatedOver, OneOpen
<1>10. QED
  BY <1>6, <1>7, <1>9 DEF ServerInv

(* A removal takes the grant and the wrapper and cancels every request.       *)
LEMMA ServerRemoves ==
  ASSUME KeyAssumption, ServerInv, removeOrganizationMember
  PROVE  ServerInv'
<1>1. /\ TypeInv /\ UNCHANGED <<lapsed, expired, outdated, receiver, job, used, given>>
      /\ left.removals > 0 /\ left' = [left EXCEPT !.removals = @ - 1]
      /\ member' = FALSE /\ wrapper' = None /\ stale' = {j \in Ids : req[j] # NoReq}
      /\ grant' = IF grant = None \/ grant.status = "revoked" THEN grant
                  ELSE [status |-> "revoked", version |-> grant.version + 1]
      /\ req' = [j \in Ids |-> IF req[j] = NoReq THEN NoReq ELSE [req[j] EXCEPT !.status = "canceled"]]
      /\ call' = [c \in Calls |-> IF call[c].at = "create" THEN [call[c] EXCEPT !.late = TRUE] ELSE call[c]]
  BY DEF removeOrganizationMember, RevokedWrapper, ServerInv
<1>2. /\ left' \in [removals : 0 .. MaxRemovals, changes : Int, faults : Int, expiries : Int, restarts : Int]
      /\ left'.removals = left.removals - 1 /\ left.removals \in 0 .. MaxRemovals /\ MaxRemovals \in Nat
  BY <1>1 DEF TypeInv, Counted, KeyAssumption
<1>3. /\ grant # None => grant' # None /\ grant' \in Grants /\ grant'.status = "revoked"
      /\ grant # None => grant'.version <= 2 * (MaxRemovals - left'.removals)
      /\ grant # None => grant' = grant \/ (grant.status # "revoked" /\ grant'.version = grant.version + 1)
  <2>1. CASE grant = None
    BY <2>1
  <2>2. CASE grant # None
    <3>1. grant \in Grants /\ grant.version \in Int
      BY <1>1, <2>2 DEF TypeInv, TypeOK, Grants
    <3>2. grant.version <= 2 * (MaxRemovals - left.removals) + (IF grant.status = "revoked" THEN 0 ELSE 1)
      BY <1>1, <2>2 DEF TypeInv, Counted
    <3>3. CASE grant.status = "revoked"
      BY <1>1, <1>2, <2>2, <3>1, <3>2, <3>3
    <3>4. CASE grant.status # "revoked"
      <4>1. grant' = [status |-> "revoked", version |-> grant.version + 1]
        BY <1>1, <2>2, <3>4
      <4>2. grant.version + 1 <= 2 * (MaxRemovals - left'.removals) /\ grant.version \in 1..(2 * MaxRemovals + 1)
        BY <1>2, <3>1, <3>2, <3>4 DEF Grants
      <4>3. grant.version + 1 \in 1..(2 * MaxRemovals + 1)
        BY <1>2, <4>2
      <4>4. grant' \in Grants
        BY <4>1, <4>3 DEF Grants
      <4>5. QED
        BY <3>4, <4>1, <4>2, <4>4 DEF KeyAssumption
    <3>5. QED
      BY <3>3, <3>4
  <2>3. QED
    BY <2>1, <2>2
<1>4. grant = None => grant' = None
  BY <1>1
<1>5. Counted'
  BY <1>2, <1>3, <1>4 DEF Counted
<1>6. ASSUME NEW j \in Ids
      PROVE  req'[j] \in Reqs /\ req'[j].status \notin Open /\ (req[j] # NoReq => req'[j] # NoReq)
  <2>1. req[j] \in Reqs
    BY <1>1 DEF TypeInv, TypeOK
  <2>2. req'[j] = IF req[j] = NoReq THEN NoReq ELSE [req[j] EXCEPT !.status = "canceled"]
    BY <1>1
  <2>3. /\ [req[j] EXCEPT !.status = "canceled"] \in Reqs
        /\ [req[j] EXCEPT !.status = "canceled"].status = "canceled"
    BY <2>1 DEF Reqs
  <2>4. QED
    BY <2>1, <2>2, <2>3 DEF Open, NoReq
<1>7. req' \in [Ids -> Reqs]
  BY <1>1, <1>6
<1>8. ASSUME NEW c \in Calls
      PROVE  /\ call'[c] \in Handled \cup {Idle} /\ call'[c].at = call[c].at
             /\ call'[c].at = "create" => call'[c].version = call[c].version
  <2>1. CASE call[c].at = "create"
    <3>1. call[c] \in [at : {"create"}, id : Ids, version : 1..(2 * MaxRemovals + 1), late : BOOLEAN]
      BY <1>1, <2>1, CallTyped
    <3>2. call'[c] = [call[c] EXCEPT !.late = TRUE]
      BY <1>1, <2>1
    <3>3. /\ [call[c] EXCEPT !.late = TRUE] \in
               [at : {"create"}, id : Ids, version : 1..(2 * MaxRemovals + 1), late : BOOLEAN]
          /\ [call[c] EXCEPT !.late = TRUE].at = call[c].at
          /\ [call[c] EXCEPT !.late = TRUE].version = call[c].version
      BY <3>1
    <3>4. QED
      BY <3>2, <3>3 DEF Handled
  <2>2. CASE call[c].at # "create"
    BY <1>1, <2>2 DEF TypeInv, TypeOK
  <2>3. QED
    BY <2>1, <2>2
<1>9. call' \in [Calls -> Handled \cup {Idle}]
  BY <1>1, <1>8
<1>10. TypeInv'
  BY <1>1, <1>3, <1>4, <1>5, <1>7, <1>9 DEF TypeInv, TypeOK, LapsedFirst
<1>11. KeyIffEnrolled' /\ ReadGranted'
  BY <1>1, <1>3, <1>4, <1>8 DEF ServerInv, KeyIffEnrolled, ReadGranted
<1>12. ASSUME NEW v \in Int, grant # None, v <= grant.version
       PROVE  Outlived(grant', v)
  <2>1. grant.version \in Int
    BY <1>1, <1>12 DEF TypeInv, TypeOK, Grants
  <2>2. QED
    BY <1>3, <1>12, <2>1 DEF Outlived
<1>13. CallsFromBefore'
  <2>1. ASSUME NEW c \in Calls, call'[c].at = "create"
        PROVE  grant' # None /\ call'[c].version <= grant'.version /\ Outlived(grant', call'[c].version)
    <3>1. call[c].at = "create" /\ call'[c].version = call[c].version
      BY <1>8, <2>1
    <3>2. call[c].version \in Int /\ grant # None /\ call[c].version <= grant.version
      BY <1>1, <3>1, CallTyped DEF ServerInv, CallsFromBefore
    <3>3. Outlived(grant', call[c].version)
      BY <1>12, <3>2
    <3>4. grant'.version \in Int
      BY <1>3, <3>2 DEF Grants
    <3>5. QED
      BY <3>1, <3>2, <3>3, <3>4 DEF Outlived
  <2>2. QED
    BY <2>1 DEF CallsFromBefore
<1>14. outdated \subseteq Ids
  BY <1>1 DEF TypeInv, TypeOK
<1>15. StaleOver' /\ OutdatedOver' /\ OneOpen'
  BY <1>1, <1>6, <1>14 DEF ServerInv, StaleOver, OutdatedOver, OneOpen
<1>16. QED
  BY <1>10, <1>11, <1>13, <1>15 DEF ServerInv

(* Invitations, expiries and pruning.                                         *)
LEMMA ServerWaits ==
  ASSUME ServerInv, invitedAgain \/ (\E i \in Ids : lapse(i) \/ expire(i)) \/ pruneExpiredRequests
  PROVE  ServerInv'
<1>1. TypeInv
  BY DEF ServerInv
<1>2. CASE invitedAgain
  <2>1. /\ UNCHANGED <<grant, wrapper, req, lapsed, expired, stale, outdated, receiver, job, call, left, used, given>>
        /\ member' = TRUE
    BY <1>2 DEF invitedAgain
  <2>2. QED
    BY <1>1, <2>1 DEF ServerInv, TypeInv, TypeOK, Counted, LapsedFirst, KeyIffEnrolled, ReadGranted,
                      CallsFromBefore, StaleOver, OutdatedOver, OneOpen, Outlived
<1>3. CASE \E i \in Ids : lapse(i) \/ expire(i)
  <2>1. PICK i \in Ids : lapse(i) \/ expire(i)
    BY <1>3
  <2>2. /\ UNCHANGED <<member, grant, wrapper, req, stale, outdated, receiver, job, call, used, given>>
        /\ UNCHANGED left \/ left' = [left EXCEPT !.expiries = @ - 1]
        /\ \/ lapsed' = lapsed \cup {i} /\ UNCHANGED expired
           \/ i \in lapsed /\ expired' = expired \cup {i} /\ UNCHANGED lapsed
    BY <2>1 DEF lapse, expire
  <2>3. Counted'
    BY <1>1, <2>2, TakenFrom, Uncounted
  <2>4. LapsedFirst'
    BY <1>1, <2>2 DEF TypeInv, LapsedFirst
  <2>5. TypeInv'
    BY <1>1, <2>2, <2>3, <2>4 DEF TypeInv, TypeOK
  <2>6. QED
    BY <2>2, <2>5, ServerQuiet
<1>4. CASE pruneExpiredRequests
  <2>1. /\ UNCHANGED <<member, grant, wrapper, lapsed, expired, stale, outdated, receiver, job, call, left, used, given>>
        /\ req' = [i \in Ids |-> IF i \in expired /\ req[i].status \in Open
                                 THEN [req[i] EXCEPT !.status = "canceled"] ELSE req[i]]
    BY <1>4 DEF pruneExpiredRequests
  <2>2. ASSUME NEW i \in Ids
        PROVE  /\ req'[i] \in Reqs
               /\ \/ req'[i] = req[i]
                  \/ req[i].status \in Open /\ req'[i].status = "canceled" /\ req'[i] # NoReq
    <3>1. req[i] \in Reqs
      BY <1>1 DEF TypeInv, TypeOK
    <3>2. /\ [req[i] EXCEPT !.status = "canceled"] \in Reqs
          /\ [req[i] EXCEPT !.status = "canceled"].status = "canceled"
      BY <3>1 DEF Reqs
    <3>3. QED
      BY <2>1, <3>1, <3>2 DEF NoReq
  <2>3. req' \in [Ids -> Reqs]
    BY <2>1, <2>2
  <2>4. TypeInv'
    BY <1>1, <2>1, <2>3 DEF TypeInv, TypeOK, Counted, LapsedFirst
  <2>5. QED
    BY <2>1, <2>2, <2>4, ServerQuiet
<1>5. QED
  BY <1>2, <1>3, <1>4

-----------------------------------------------------------------------------
(* The devices.                                                               *)

\* A request that is over stays over.
OverStays == \A i \in Ids : Over(i) => Over(i)'

(* What is held, as steps of the server see it.                               *)
LEMMA ServedHeld ==
  ASSUME IInv, UNCHANGED receiver, OverStays,
         \A k \in Calls :
           \/ call'[k] = call[k] \/ call'[k] = Idle
           \/ Starting(k) /\ Starting(k)' /\ call'[k].id = call[k].id
           \/ Completing(k) /\ Completing(k)' /\ call'[k].id = call[k].id /\ call'[k].wrapper = call[k].wrapper
  PROVE  /\ BegunHeld' /\ CompletingHeld'
         /\ \A i \in Ids : Held(i) \/ Over(i) => Held(i)' \/ Over(i)'
<1>1. TypeInv /\ BegunHeld /\ CompletingHeld
  BY DEF IInv, ServerInv, DeviceInv
<1>2. \A i : (Held(i)' <=> Held(i)) /\ \A w : Prepares(i, w)' <=> Prepares(i, w)
  BY DEF Held, Prepares
<1>3. ~(Idle.at \in {"ensure", "read", "create"}) /\ ~(Idle.at \in {"allow", "complete"})
  BY DEF Idle
<1>4. \A k \in Calls : Starting(k)' => Starting(k) /\ call'[k].id = call[k].id /\ call[k].id \in Ids
  <2>1. ASSUME NEW k \in Calls, Starting(k)'
        PROVE  Starting(k) /\ call'[k].id = call[k].id
    BY <1>3, <2>1 DEF Starting, Completing
  <2>2. QED
    BY <1>1, <2>1, CallTyped
<1>5. \A k \in Calls : Completing(k)' =>
        /\ Completing(k) /\ call'[k].id = call[k].id /\ call'[k].wrapper = call[k].wrapper
        /\ call[k].id \in Ids
  <2>1. ASSUME NEW k \in Calls, Completing(k)'
        PROVE  Completing(k) /\ call'[k].id = call[k].id /\ call'[k].wrapper = call[k].wrapper
    BY <1>3, <2>1 DEF Starting, Completing
  <2>2. QED
    BY <1>1, <2>1, CallTyped
<1>6. BegunHeld'
  <2>1. ASSUME NEW k \in Calls, Starting(k)'
        PROVE  Held(call[k].id)' \/ Over(call[k].id)'
    BY <1>1, <1>2, <1>4, <2>1 DEF BegunHeld, OverStays
  <2>2. ASSUME NEW k \in Calls, Starting(k)'
        PROVE  (Held(call[k].id) \/ Over(call[k].id))'
    <3>1. PICK i \in Ids : i = call[k].id /\ i = call'[k].id
      BY <1>4, <2>2
    <3>2. Held(i) \/ Over(i)
      BY <1>1, <1>4, <2>2, <3>1 DEF BegunHeld
    <3>3. Held(i)' \/ Over(i)'
      BY <1>2, <3>2 DEF OverStays
    <3>4. QED
      BY <3>1, <3>3 DEF Held, Over
  <2>3. QED
    BY <2>2 DEF BegunHeld
<1>7. CompletingHeld'
  <2>1. ASSUME NEW k \in Calls, Completing(k)'
        PROVE  (Prepares(call[k].id, call[k].wrapper) \/ Over(call[k].id))'
    <3>1. PICK i \in Ids : i = call[k].id /\ i = call'[k].id
      BY <1>5, <2>1
    <3>2. PICK w : w = call[k].wrapper /\ w = call'[k].wrapper
      BY <1>5, <2>1
    <3>3. Prepares(i, w) \/ Over(i)
      BY <1>1, <1>5, <2>1, <3>1, <3>2 DEF CompletingHeld
    <3>4. Prepares(i, w)' \/ Over(i)'
      BY <1>2, <3>3 DEF OverStays
    <3>5. QED
      BY <3>1, <3>2, <3>4 DEF Prepares, Over
  <2>2. QED
    BY <2>1 DEF CompletingHeld
<1>8. QED
  BY <1>2, <1>6, <1>7 DEF OverStays

(* Who waits, as steps of the server see it.                                  *)
LEMMA ServedJobs ==
  ASSUME IInv, NEW c \in Calls, call[c] # Idle, UNCHANGED receiver,
         \A i \in Ids : req[i].status = "canceled" => req'[i].status = "canceled",
         \/ \E answer \in {"ok", "over", "error"} :
              Answered(c, answer) /\ (answer = "over" => req[call[c].id].status = "canceled")
         \/ /\ UNCHANGED job /\ call'[c] # Idle /\ call'[c].id = call[c].id
            /\ \A k \in Calls \ {c} : call'[k] = call[k]
  PROVE  OneHolder' /\ JobsHeld' /\ JobsServed' /\ OverIsOver'
<1>1. TypeInv /\ OneHolder /\ JobsHeld /\ JobsServed /\ OverIsOver
  BY DEF IInv, ServerInv, DeviceInv
<1>2. \A d \in Devices : job[d] # Idle => job[d].id \in Ids /\ job[d].call \in Calls
  BY <1>1 DEF TypeInv, TypeOK, Jobs
<1>3. OneHolder'
  BY <1>1 DEF OneHolder
<1>4. CASE \E answer \in {"ok", "over", "error"} :
              Answered(c, answer) /\ (answer = "over" => req[call[c].id].status = "canceled")
  <2>1. PICK answer \in {"ok", "over", "error"} :
          Answered(c, answer) /\ (answer = "over" => req[call[c].id].status = "canceled")
    BY <1>4
  <2>2. /\ call'[c] = Idle /\ \A k \in Calls \ {c} : call'[k] = call[k]
        /\ \A d \in Devices :
              \/ job'[d] = job[d] /\ (job[d] # Idle /\ job[d].answer = "none" => job[d].call # c)
              \/ /\ job[d] # Idle /\ job[d].answer = "none" /\ job[d].call = c
                 /\ job'[d] # Idle /\ job'[d].id = job[d].id /\ job'[d].answer = answer
    BY <1>1, <2>1, AnsweredEffect
  <2>3. JobsHeld'
    BY <1>1, <2>2 DEF JobsHeld
  <2>4. JobsServed'
    BY <1>1, <1>2, <2>2 DEF JobsServed
  <2>5. OverIsOver'
    <3>1. ASSUME NEW d \in Devices, job'[d] # Idle, job'[d].answer = "over"
          PROVE  req'[job'[d].id].status = "canceled"
      <4>1. CASE job'[d] = job[d]
        BY <1>1, <1>2, <3>1, <4>1 DEF OverIsOver
      <4>2. CASE /\ job[d] # Idle /\ job[d].answer = "none" /\ job[d].call = c
                 /\ job'[d].id = job[d].id /\ job'[d].answer = answer
        <5>1. call[c].id = job[d].id
          BY <1>1, <4>2 DEF JobsServed
        <5>2. req[job[d].id].status = "canceled"
          BY <2>1, <3>1, <4>2, <5>1
        <5>3. QED
          BY <1>2, <4>2, <5>2
      <4>3. QED
        BY <2>2, <4>1, <4>2
    <3>2. QED
      BY <3>1 DEF OverIsOver
  <2>6. QED
    BY <1>3, <2>3, <2>4, <2>5
<1>5. CASE /\ UNCHANGED job /\ call'[c] # Idle /\ call'[c].id = call[c].id
           /\ \A k \in Calls \ {c} : call'[k] = call[k]
  <2>1. JobsHeld' /\ OverIsOver'
    BY <1>1, <1>2, <1>5 DEF JobsHeld, OverIsOver
  <2>2. JobsServed'
    BY <1>1, <1>2, <1>5 DEF JobsServed
  <2>3. QED
    BY <1>3, <2>1, <2>2
<1>6. QED
  BY <1>4, <1>5

(* The requests that are completed, as long as none is added.                 *)
LEMMA NoneCompleted ==
  ASSUME IInv, UNCHANGED <<receiver, given>>, lapsed \subseteq lapsed',
         \A i \in Ids : req'[i].status = "completed" =>
           req[i].status = "completed" /\ (i \in outdated' \/ (i \notin outdated /\ wrapper' = wrapper))
  PROVE  CompletionRepeatable'
BY DEF IInv, DeviceInv, CompletionRepeatable

(* What the server does for a call.                                           *)
LEMMA DeviceServed ==
  ASSUME IInv, NEW c \in Calls, Serve(c)
  PROVE  DeviceInv'
<1>1. /\ TypeInv /\ UNCHANGED <<receiver, given, lapsed>>
      /\ BegunHeld /\ OpenHeld /\ CompletingHeld /\ CompletionRepeatable
  BY DEF Serve, ensureVaultEnrollment, startRead, createKeyRequest, completeAllowed, completeKeyRequest,
         server, IInv, ServerInv, DeviceInv
<1>2. call[c] # Idle /\ call[c].id \in Ids
  <2>1. call[c] # Idle
    BY DEF Serve, ensureVaultEnrollment, startRead, createKeyRequest, completeAllowed, completeKeyRequest, Idle
  <2>2. QED
    BY <1>1, <2>1, CallTyped
<1> DEFINE Goes == \/ \E answer \in {"ok", "over", "error"} :
                        Answered(c, answer) /\ (answer = "over" => req[call[c].id].status = "canceled")
                   \/ /\ UNCHANGED job /\ call'[c] # Idle /\ call'[c].id = call[c].id
                      /\ \A k \in Calls \ {c} : call'[k] = call[k]
           Stays == \A k \in Calls :
                      \/ call'[k] = call[k] \/ call'[k] = Idle
                      \/ Starting(k) /\ Starting(k)' /\ call'[k].id = call[k].id
                      \/ /\ Completing(k) /\ Completing(k)'
                         /\ call'[k].id = call[k].id /\ call'[k].wrapper = call[k].wrapper
           Kept == \A i \in Ids : req[i].status = "canceled" => req'[i].status = "canceled"
<1>3. ASSUME NEW answer \in {"ok", "over", "error"}, Answered(c, answer)
      PROVE  Stays
  BY <1>1, <1>3, AnsweredEffect
<1>4. CASE ensureVaultEnrollment(c)
  <2>1. UNCHANGED <<req, wrapper, outdated>>
    BY <1>4 DEF ensureVaultEnrollment
  <2>2. CASE Answered(c, "error")
    BY <1>1, <1>2, <1>3, <2>1, <2>2, ServedHeld, ServedJobs, NoneCompleted DEF OverStays, Over, DeviceInv, OpenHeld,
       IInv, CompletionRepeatable
  <2>3. CASE UNCHANGED job /\ call' = [call EXCEPT ![c].at = "read"]
    <3> DEFINE x == [call[c] EXCEPT !.at = "read"]
    <3>1. call[c] \in [at : {"ensure", "read"}, id : Ids] /\ Starting(c)
      BY <1>1, <1>4, CallTyped DEF ensureVaultEnrollment, Starting
    <3>2. x \in Handled /\ x.at = "read" /\ x.id = call[c].id /\ x # Idle
      BY <3>1 DEF Handled, Idle
    <3>3. call'[c] = x /\ \A k \in Calls \ {c} : call'[k] = call[k]
      BY <1>1, <2>3, <3>2, CallSet
    <3>4. Starting(c)' /\ call'[c].id = call[c].id /\ call'[c] # Idle
      BY <3>2, <3>3 DEF Starting
    <3> HIDE DEF x
    <3>5. Goes /\ Stays
      BY <2>3, <3>1, <3>3, <3>4
    <3>6. QED
      BY <1>1, <1>2, <2>1, <3>5, ServedHeld, ServedJobs, NoneCompleted DEF OverStays, Over, DeviceInv, OpenHeld,
         IInv, CompletionRepeatable
  <2>4. QED
    BY <1>4, <2>2, <2>3 DEF ensureVaultEnrollment
<1>5. CASE startRead(c) \/ completeAllowed(c)
  <2>1. UNCHANGED <<req, wrapper, outdated>>
    BY <1>5 DEF startRead, completeAllowed, server
  <2>2. CASE \E answer \in {"ok", "over", "error"} :
               Answered(c, answer) /\ (answer = "over" => req[call[c].id].status = "canceled")
    BY <1>1, <1>2, <1>3, <2>1, <2>2, ServedHeld, ServedJobs, NoneCompleted DEF OverStays, Over, DeviceInv, OpenHeld,
       IInv, CompletionRepeatable
  <2>3. CASE /\ call[c].at = "read" /\ UNCHANGED job
             /\ call' = [call EXCEPT ![c] = [at |-> "create", id |-> call[c].id, version |-> grant.version,
                                             late |-> FALSE]]
    <3> DEFINE x == [at |-> "create", id |-> call[c].id, version |-> grant.version, late |-> FALSE]
    <3>1. x.at = "create" /\ x.id = call[c].id /\ x # Idle
      BY DEF Idle
    <3>2. call'[c] = x /\ \A k \in Calls \ {c} : call'[k] = call[k]
      BY <1>1, <2>3 DEF TypeInv, TypeOK
    <3>3. Starting(c) /\ Starting(c)' /\ call'[c].id = call[c].id /\ call'[c] # Idle
      BY <2>3, <3>1, <3>2 DEF Starting
    <3> HIDE DEF x
    <3>4. Goes /\ Stays
      BY <2>3, <3>2, <3>3
    <3>5. QED
      BY <1>1, <1>2, <2>1, <3>4, ServedHeld, ServedJobs, NoneCompleted DEF OverStays, Over, DeviceInv, OpenHeld,
         IInv, CompletionRepeatable
  <2>4. CASE call[c].at = "allow" /\ UNCHANGED job /\ call' = [call EXCEPT ![c].at = "complete"]
    <3> DEFINE x == [call[c] EXCEPT !.at = "complete"]
    <3>1. call[c] \in [at : {"allow", "complete"}, id : Ids, wrapper : Wrappers] /\ Completing(c)
      BY <1>1, <2>4, CallTyped DEF Completing
    <3>2. /\ x \in Handled /\ x.at = "complete" /\ x.id = call[c].id /\ x.wrapper = call[c].wrapper
          /\ x # Idle
      BY <3>1 DEF Handled, Idle
    <3>3. call'[c] = x /\ \A k \in Calls \ {c} : call'[k] = call[k]
      BY <1>1, <2>4, <3>2, CallSet
    <3>4. /\ Completing(c)' /\ call'[c].id = call[c].id /\ call'[c].wrapper = call[c].wrapper
          /\ call'[c] # Idle
      BY <3>2, <3>3 DEF Completing
    <3> HIDE DEF x
    <3>5. Goes /\ Stays
      BY <2>4, <3>1, <3>3, <3>4
    <3>6. QED
      BY <1>1, <1>2, <2>1, <3>5, ServedHeld, ServedJobs, NoneCompleted DEF OverStays, Over, DeviceInv, OpenHeld,
         IInv, CompletionRepeatable
  <2>5. QED
    BY <1>5, <2>2, <2>3, <2>4 DEF startRead, completeAllowed
<1>6. CASE createKeyRequest(c)
  <2>1. /\ UNCHANGED <<wrapper, outdated>> /\ Starting(c)
        /\ \E answer \in {"ok", "error"} : Answered(c, answer)
    BY <1>6 DEF createKeyRequest, Starting
  <2>2. Stays /\ Goes
    BY <1>3, <2>1
  <2>3. \A i \in Ids : \/ req'[i] = req[i]
                       \/ i = call[c].id /\ req[i] = NoReq /\ req'[i].status = "pending"
                       \/ req[i].status \in Open /\ req'[i].status = "canceled"
    <3>1. ASSUME NEW i \in Ids, req[i].status \in Open
          PROVE  [req[i] EXCEPT !.status = "canceled"].status = "canceled"
      <4>1. req[i] \in Reqs
        BY <1>1 DEF TypeInv, TypeOK
      <4>2. QED
        BY <4>1 DEF Reqs
    <3>2. CASE UNCHANGED req
      BY <3>2
    <3>3. CASE req[call[c].id] = NoReq /\ req' = Created(call[c].id, call[c].version)
      <4>1. ASSUME NEW i \in Ids
            PROVE  req'[i] = IF i = call[c].id THEN [status |-> "pending", version |-> call[c].version]
                             ELSE IF req[i].status \in Open THEN [req[i] EXCEPT !.status = "canceled"]
                             ELSE req[i]
        BY <3>3 DEF Created
      <4>2. ASSUME NEW i \in Ids
            PROVE  \/ req'[i] = req[i]
                   \/ i = call[c].id /\ req[i] = NoReq /\ req'[i].status = "pending"
                   \/ req[i].status \in Open /\ req'[i].status = "canceled"
        <5>1. CASE i = call[c].id
          <6>1. req'[i] = [status |-> "pending", version |-> call[c].version]
            BY <4>1, <5>1
          <6>2. QED
            BY <3>3, <5>1, <6>1
        <5>2. CASE i # call[c].id /\ req[i].status \in Open
          BY <3>1, <4>1, <5>2
        <5>3. CASE i # call[c].id /\ req[i].status \notin Open
          BY <4>1, <5>3
        <5>4. QED
          BY <5>1, <5>2, <5>3
      <4>3. QED
        BY <4>2
    <3>4. QED
      BY <1>6, <3>2, <3>3 DEF createKeyRequest
  <2>4. Kept /\ OverStays
    BY <1>1, <2>3 DEF Open, NoReq, OverStays, Over
  <2>5. OneHolder' /\ JobsHeld' /\ JobsServed' /\ OverIsOver'
    BY <1>1, <1>2, <2>2, <2>4, ServedJobs
  <2>6. BegunHeld' /\ CompletingHeld' /\ \A i \in Ids : Held(i) \/ Over(i) => Held(i)' \/ Over(i)'
    BY <1>1, <2>2, <2>4, ServedHeld
  <2>7. OpenHeld'
    <3>1. ASSUME NEW i \in Ids, req'[i].status \in Open
          PROVE  Held(i) \/ Over(i)
      <4>1. CASE req'[i] = req[i]
        BY <1>1, <3>1, <4>1 DEF OpenHeld
      <4>2. CASE i = call[c].id
        BY <1>1, <2>1, <4>2 DEF BegunHeld
      <4>3. QED
        BY <2>3, <3>1, <4>1, <4>2 DEF Open
    <3>2. QED
      BY <2>6, <3>1 DEF OpenHeld
  <2>8. CompletionRepeatable'
    <3>1. \A i \in Ids : req'[i].status = "completed" => req[i].status = "completed"
      BY <2>3
    <3>2. QED
      BY <1>1, <2>1, <3>1, NoneCompleted
  <2>9. QED
    BY <2>5, <2>6, <2>7, <2>8 DEF DeviceInv
<1>7. CASE completeKeyRequest(c) /\ ~Completable(call[c].id)
  <2>1. Answered(c, "error") /\ UNCHANGED <<wrapper, req, outdated>>
    BY <1>7 DEF completeKeyRequest
  <2>2. QED
    BY <1>1, <1>2, <1>3, <2>1, ServedHeld, ServedJobs, NoneCompleted DEF OverStays, Over, DeviceInv, OpenHeld,
       IInv, CompletionRepeatable
<1>8. CASE completeKeyRequest(c) /\ Completable(call[c].id)
  <2> DEFINE i == call[c].id
  <2>1. /\ i \in Ids /\ req[i].status = "approved" /\ req'[i].status = "completed"
        /\ \A j \in Ids \ {i} : req'[j] = req[j]
        /\ Answered(c, "ok") /\ wrapper' = call[c].wrapper
    BY <1>8, CompletesRight DEF IInv
  <2>2. outdated' = outdated \cup {j \in Ids : req[j].status = "completed"} /\ Completing(c)
    BY <1>8 DEF completeKeyRequest, Completable, Completing
  <2>3. Stays /\ Goes
    BY <1>3, <2>1
  <2>4. Kept /\ OverStays
    BY <1>1, <2>1 DEF OverStays, Over
  <2>5. OneHolder' /\ JobsHeld' /\ JobsServed' /\ OverIsOver'
    BY <1>1, <1>2, <2>3, <2>4, ServedJobs
  <2>6. BegunHeld' /\ CompletingHeld' /\ \A j \in Ids : Held(j) \/ Over(j) => Held(j)' \/ Over(j)'
    BY <1>1, <2>3, <2>4, ServedHeld
  <2>7. OpenHeld'
    BY <1>1, <2>1, <2>6 DEF OpenHeld, Open
  <2>8. CompletionRepeatable'
    <3>1. ASSUME NEW j \in Ids, req'[j].status = "completed", j \notin outdated' \cup given' \cup lapsed'
          PROVE  \E d \in Devices : receiver'[d] = [id |-> j, prepared |-> wrapper']
      <4>1. j = i
        BY <2>1, <2>2, <3>1
      <4>2. Prepares(i, call[c].wrapper)
        BY <1>1, <2>1, <2>2, <3>1, <4>1 DEF CompletingHeld, Over
      <4>3. QED
        BY <1>1, <2>1, <4>1, <4>2 DEF Prepares
    <3>2. QED
      BY <3>1 DEF CompletionRepeatable
  <2>9. QED
    BY <2>5, <2>6, <2>7, <2>8 DEF DeviceInv
<1>9. QED
  BY <1>4, <1>5, <1>6, <1>7, <1>8 DEF Serve

(* What happens around the devices: approvals, changes of password, removals. *)
LEMMA DeviceAround ==
  ASSUME IInv, UNCHANGED <<receiver, job, given>>, lapsed \subseteq lapsed',
         \A c \in Calls : \/ call'[c] = call[c]
                          \/ call[c].at = "create" /\ call'[c].at = "create" /\ call'[c].id = call[c].id,
         \A i \in Ids :
           /\ req[i].status = "canceled" => req'[i].status = "canceled"
           /\ req'[i].status \in Open => req[i].status \in Open
           /\ req'[i].status = "completed" =>
                req[i].status = "completed" /\ (i \in outdated' \/ (i \notin outdated /\ wrapper' = wrapper))
  PROVE  DeviceInv'
<1>1. TypeInv /\ OneHolder /\ JobsHeld /\ JobsServed /\ OverIsOver /\ OpenHeld
  BY DEF IInv, ServerInv, DeviceInv
<1>2. \A d \in Devices : job[d] # Idle => job[d].id \in Ids /\ job[d].call \in Calls
  BY <1>1 DEF TypeInv, TypeOK, Jobs
<1>3. OneHolder' /\ JobsHeld'
  BY <1>1 DEF OneHolder, JobsHeld
<1>4. OverIsOver'
  BY <1>1, <1>2 DEF OverIsOver
<1>5. JobsServed'
  BY <1>1, <1>2 DEF JobsServed, Idle
<1>6. OverStays
  BY DEF OverStays, Over
<1>7. BegunHeld' /\ CompletingHeld' /\ \A i \in Ids : Held(i) \/ Over(i) => Held(i)' \/ Over(i)'
  BY <1>6, ServedHeld DEF Starting
<1>8. OpenHeld'
  BY <1>1, <1>7 DEF OpenHeld
<1>9. CompletionRepeatable'
  BY NoneCompleted
<1>10. QED
  BY <1>3, <1>4, <1>5, <1>7, <1>8, <1>9 DEF DeviceInv

LEMMA AroundStep ==
  ASSUME IInv, \/ \E i \in Ids : approveKeyRequest(i) \/ lapse(i) \/ expire(i)
               \/ changePassword \/ removeOrganizationMember \/ invitedAgain \/ pruneExpiredRequests
  PROVE  DeviceInv'
<1>1. TypeInv /\ \A i \in Ids : req[i] \in Reqs
  BY DEF IInv, ServerInv, TypeInv, TypeOK
<1>2. \A r \in Reqs, s \in {"approved", "canceled"} : [r EXCEPT !.status = s].status = s
  BY DEF Reqs
<1>3. CASE \E i \in Ids : approveKeyRequest(i)
  <2>1. PICK i \in Ids : approveKeyRequest(i)
    BY <1>3
  <2>2. /\ UNCHANGED <<wrapper, lapsed, expired, outdated, receiver, job, call, given>>
        /\ req[i].status = "pending" /\ req' = [req EXCEPT ![i].status = "approved"]
    BY <2>1 DEF approveKeyRequest
  <2>3. req'[i].status = "approved" /\ \A j \in Ids \ {i} : req'[j] = req[j]
    BY <1>1, <1>2, <2>2 DEF TypeInv, TypeOK
  <2>4. ASSUME NEW j \in Ids
        PROVE  /\ req[j].status = "canceled" => req'[j].status = "canceled"
               /\ req'[j].status \in Open => req[j].status \in Open
               /\ req'[j].status = "completed" => req[j].status = "completed"
    BY <2>2, <2>3 DEF Open
  <2>5. QED
    BY <2>2, <2>4, DeviceAround
<1>4. CASE (\E i \in Ids : lapse(i) \/ expire(i)) \/ invitedAgain
  <2>1. UNCHANGED <<wrapper, req, outdated, receiver, job, call, given>> /\ lapsed \subseteq lapsed'
    BY <1>4 DEF lapse, expire, invitedAgain
  <2>2. QED
    BY <2>1, DeviceAround
<1>5. CASE changePassword
  <2>1. /\ UNCHANGED <<lapsed, expired, receiver, job, call, given>> /\ req' = AfterChange
        /\ outdated' = {j \in Ids : req[j] # NoReq}
    BY <1>5 DEF changePassword
  <2>2. ASSUME NEW j \in Ids
        PROVE  /\ req[j].status = "canceled" => req'[j].status = "canceled"
               /\ req'[j].status \notin Open
               /\ req'[j].status = "completed" => req[j].status = "completed" /\ j \in outdated'
    <3>1. req'[j] = IF req[j].status \in Open THEN [req[j] EXCEPT !.status = "canceled"] ELSE req[j]
      BY <2>1 DEF AfterChange
    <3>2. [req[j] EXCEPT !.status = "canceled"].status = "canceled"
      BY <1>1, <1>2
    <3>3. req[j].status = "completed" => req[j] # NoReq
      BY DEF NoReq
    <3>4. QED
      BY <2>1, <3>1, <3>2, <3>3 DEF Open
  <2>3. QED
    BY <2>1, <2>2, DeviceAround
<1>6. CASE removeOrganizationMember
  <2>1. /\ UNCHANGED <<lapsed, expired, receiver, job, given>>
        /\ req' = [j \in Ids |-> IF req[j] = NoReq THEN NoReq ELSE [req[j] EXCEPT !.status = "canceled"]]
        /\ call' = [c \in Calls |-> IF call[c].at = "create" THEN [call[c] EXCEPT !.late = TRUE] ELSE call[c]]
    BY <1>6 DEF removeOrganizationMember
  <2>2. ASSUME NEW j \in Ids
        PROVE  /\ req[j].status = "canceled" => req'[j].status = "canceled"
               /\ req'[j].status \notin Open \cup {"completed"}
    <3>1. [req[j] EXCEPT !.status = "canceled"].status = "canceled"
      BY <1>1, <1>2
    <3>2. req'[j] = IF req[j] = NoReq THEN NoReq ELSE [req[j] EXCEPT !.status = "canceled"]
      BY <2>1
    <3>3. QED
      BY <3>1, <3>2 DEF NoReq, Open
  <2>3. ASSUME NEW c \in Calls
        PROVE  \/ call'[c] = call[c]
               \/ call[c].at = "create" /\ call'[c].at = "create" /\ call'[c].id = call[c].id
    <3>1. CASE call[c].at = "create"
      <4>1. call[c] \in [at : {"create"}, id : Ids, version : 1..(2 * MaxRemovals + 1), late : BOOLEAN]
        BY <1>1, <3>1, CallTyped
      <4>2. call'[c] = [call[c] EXCEPT !.late = TRUE]
        BY <2>1, <3>1
      <4>3. QED
        BY <3>1, <4>1, <4>2
    <3>2. CASE call[c].at # "create"
      BY <2>1, <3>2
    <3>3. QED
      BY <3>1, <3>2
  <2>4. QED
    BY <2>1, <2>2, <2>3, DeviceAround
<1>7. CASE pruneExpiredRequests
  <2>1. /\ UNCHANGED <<wrapper, lapsed, expired, outdated, receiver, job, call, given>>
        /\ req' = [i \in Ids |-> IF i \in expired /\ req[i].status \in Open
                                 THEN [req[i] EXCEPT !.status = "canceled"] ELSE req[i]]
    BY <1>7 DEF pruneExpiredRequests
  <2>2. ASSUME NEW j \in Ids
        PROVE  req'[j] = req[j] \/ (req[j].status \in Open /\ req'[j].status = "canceled")
    BY <1>1, <1>2, <2>1
  <2>3. ASSUME NEW j \in Ids
        PROVE  /\ req[j].status = "canceled" => req'[j].status = "canceled"
               /\ req'[j].status \in Open => req[j].status \in Open
               /\ req'[j].status = "completed" => req[j].status = "completed"
    BY <2>2 DEF Open
  <2>4. QED
    BY <2>1, <2>3, DeviceAround
<1>8. QED
  BY <1>3, <1>4, <1>5, <1>6, <1>7

(* A step of the dialog of d: what it gives up is over, what it begins is its *)
(* own, and the other devices go on as they were.                             *)
LEMMA DialogHeld ==
  ASSUME KeyAssumption, IInv, NEW d \in Devices,
         UNCHANGED <<req, lapsed, wrapper, outdated>>, given \subseteq given',
         \A e \in Devices \ {d} : receiver'[e] = receiver[e] /\ job'[e] = job[e],
         \/ receiver'[d] = receiver[d] \/ receiver'[d] = None
         \/ receiver[d] # None /\ receiver'[d].id = receiver[d].id
         \/ \A e \in Devices : receiver[e] # None => receiver[e].id # receiver'[d].id,
         \/ receiver'[d] = receiver[d] \/ receiver[d] = None
         \/ receiver[d].id \in given' \cup lapsed \/ req[receiver[d].id].status = "canceled"
         \/ /\ receiver'[d] # None /\ receiver'[d].id = receiver[d].id
            /\ receiver[d].prepared = None /\ req[receiver[d].id].status # "completed",
         \/ job'[d] = Idle
         \/ /\ receiver'[d] # None /\ receiver'[d].id = job'[d].id /\ job'[d].answer = "none"
            /\ call'[job'[d].call] # Idle /\ call'[job'[d].call].id = job'[d].id,
         \A k \in Calls :
           \/ call'[k] = call[k]
           \/ /\ call'[k] = Idle
              /\ \A e \in Devices \ {d} : job[e] # Idle /\ job[e].answer = "none" => job[e].call # k
           \/ /\ call[k] = Idle /\ call'[k].at = "ensure"
              /\ receiver'[d] # None /\ call'[k].id = receiver'[d].id
           \/ /\ call[k] = Idle /\ call'[k].at = "allow"
              /\ receiver'[d] = [id |-> call'[k].id, prepared |-> call'[k].wrapper]
  PROVE  DeviceInv'
<1>1. TypeInv /\ DeviceInv
  BY DEF IInv, ServerInv
<1>2. \A e \in Devices : job[e] # Idle => job[e].id \in Ids /\ job[e].call \in Calls
  BY <1>1 DEF TypeInv, TypeOK, Jobs
<1>3. OneHolder'
  BY <1>1 DEF DeviceInv, OneHolder
<1>4. JobsHeld'
  BY <1>1 DEF DeviceInv, JobsHeld
<1>5. JobsServed'
  <2>1. ASSUME NEW e \in Devices, job'[e] # Idle, job'[e].answer = "none"
        PROVE  call'[job'[e].call] # Idle /\ call'[job'[e].call].id = job'[e].id
    <3>1. CASE e = d
      BY <2>1, <3>1
    <3>2. CASE e # d
      <4>1. job'[e] = job[e] /\ job[e] # Idle /\ job[e].answer = "none"
        BY <2>1, <3>2
      <4>2. job[e].call \in Calls /\ call[job[e].call] # Idle /\ call[job[e].call].id = job[e].id
        BY <1>1, <1>2, <4>1 DEF DeviceInv, JobsServed
      <4>3. call'[job[e].call] = call[job[e].call]
        BY <3>2, <4>1, <4>2
      <4>4. QED
        BY <4>1, <4>2, <4>3
    <3>3. QED
      BY <3>1, <3>2
  <2>2. QED
    BY <2>1 DEF JobsServed
<1>6. OverIsOver'
  BY <1>1 DEF DeviceInv, OverIsOver
<1>7. ASSUME NEW i \in Ids, Held(i) \/ Over(i)
      PROVE  (Held(i) \/ Over(i))'
  <2>1. CASE Over(i)
    BY <2>1 DEF Over
  <2>2. CASE Held(i)
    <3>1. PICK e \in Devices : receiver[e] # None /\ receiver[e].id = i
      BY <2>2 DEF Held
    <3>2. CASE e # d
      BY <3>1, <3>2 DEF Held
    <3>3. CASE e = d
      BY <3>1, <3>3 DEF Held, Over
    <3>4. QED
      BY <3>2, <3>3
  <2>3. QED
    BY <1>7, <2>1, <2>2
<1>8. ASSUME NEW i \in Ids, NEW w \in Wrappers, Prepares(i, w) \/ Over(i)
      PROVE  (Prepares(i, w) \/ Over(i))'
  <2>1. CASE Over(i)
    BY <2>1 DEF Over
  <2>2. CASE Prepares(i, w)
    <3>1. PICK e \in Devices : receiver[e] = [id |-> i, prepared |-> w]
      BY <2>2 DEF Prepares
    <3>2. CASE e # d
      BY <3>1, <3>2 DEF Prepares
    <3>3. CASE e = d
      <4>1. receiver[d] # None /\ receiver[d].id = i /\ receiver[d].prepared = w /\ w # None
        <5>1. [id |-> i, prepared |-> w] \in Receivers
          BY DEF Receivers
        <5>2. QED
          BY <3>1, <3>3, <5>1 DEF KeyAssumption
      <4>2. receiver'[d] = receiver[d] \/ i \in given' \cup lapsed \/ req[i].status = "canceled"
        BY <4>1
      <4>3. QED
        BY <3>1, <3>3, <4>2 DEF Prepares, Over
    <3>4. QED
      BY <3>2, <3>3
  <2>3. QED
    BY <1>8, <2>1, <2>2
<1>9. OpenHeld'
  BY <1>1, <1>7 DEF DeviceInv, OpenHeld
<1>10. BegunHeld'
  <2>1. ASSUME NEW k \in Calls, Starting(k)'
        PROVE  (Held(call[k].id) \/ Over(call[k].id))'
    <3>1. CASE call'[k] = call[k]
      <4>1. Starting(k)
        BY <2>1, <3>1 DEF Starting
      <4>2. PICK i \in Ids : i = call[k].id
        BY <1>1, <4>1, CallTyped
      <4>3. (Held(i) \/ Over(i))'
        BY <1>1, <1>7, <4>1, <4>2 DEF DeviceInv, BegunHeld
      <4>4. QED
        BY <3>1, <4>2, <4>3
    <3>2. CASE receiver'[d] # None /\ call'[k].id = receiver'[d].id
      BY <3>2 DEF Held
    <3>3. call'[k].at \in {"ensure", "read", "create"} /\ call'[k] # Idle
      BY <2>1 DEF Starting, Idle
    <3>4. call'[k] = call[k] \/ (receiver'[d] # None /\ call'[k].id = receiver'[d].id)
      <4>1. call'[k].at # "allow"
        BY <3>3
      <4>2. QED
        BY <3>3, <4>1
    <3>5. QED
      BY <3>1, <3>2, <3>4
  <2>2. QED
    BY <2>1 DEF BegunHeld
<1>11. CompletingHeld'
  <2>1. ASSUME NEW k \in Calls, Completing(k)'
        PROVE  (Prepares(call[k].id, call[k].wrapper) \/ Over(call[k].id))'
    <3>1. CASE call'[k] = call[k]
      <4>1. Completing(k)
        BY <2>1, <3>1 DEF Completing
      <4>2. PICK i \in Ids, w \in Wrappers : i = call[k].id /\ w = call[k].wrapper
        BY <1>1, <4>1, CallTyped
      <4>3. (Prepares(i, w) \/ Over(i))'
        BY <1>1, <1>8, <4>1, <4>2 DEF DeviceInv, CompletingHeld
      <4>4. QED
        BY <3>1, <4>2, <4>3
    <3>2. CASE receiver'[d] = [id |-> call'[k].id, prepared |-> call'[k].wrapper]
      BY <3>2 DEF Prepares
    <3>3. call'[k].at \in {"allow", "complete"} /\ call'[k] # Idle
      BY <2>1 DEF Completing, Idle
    <3>4. call'[k] = call[k] \/ receiver'[d] = [id |-> call'[k].id, prepared |-> call'[k].wrapper]
      <4>1. call'[k].at # "ensure"
        BY <3>3
      <4>2. QED
        BY <3>3, <4>1
    <3>5. QED
      BY <3>1, <3>2, <3>4
  <2>2. QED
    BY <2>1 DEF CompletingHeld
<1>12. CompletionRepeatable'
  <2>1. ASSUME NEW i \in Ids, req[i].status = "completed", i \notin outdated \cup given' \cup lapsed
        PROVE  \E e \in Devices : receiver'[e] = [id |-> i, prepared |-> wrapper]
    <3>1. PICK e \in Devices : receiver[e] = [id |-> i, prepared |-> wrapper]
      BY <1>1, <2>1 DEF DeviceInv, CompletionRepeatable
    <3>2. CASE e # d
      BY <3>1, <3>2
    <3>3. CASE e = d
      <4>1. receiver[d] # None
        <5>1. wrapper \in Wrappers \cup {None}
          BY <1>1 DEF TypeInv, TypeOK
        <5>2. [id |-> i, prepared |-> wrapper] \in Receivers
          BY <5>1 DEF Receivers
        <5>3. QED
          BY <3>1, <3>3, <5>2 DEF KeyAssumption
      <4>2. receiver[d].id = i
        BY <3>1, <3>3
      <4>3. receiver'[d] = receiver[d]
        BY <2>1, <4>1, <4>2
      <4>4. QED
        BY <3>1, <3>3, <4>3
    <3>4. QED
      BY <3>2, <3>3
  <2>2. QED
    BY <2>1 DEF CompletionRepeatable
<1>13. QED
  BY <1>3, <1>4, <1>5, <1>6, <1>9, <1>10, <1>11, <1>12 DEF DeviceInv

(* What the dialog leaves to the server.                                      *)
LEMMA DialogTyped ==
  ASSUME IInv, UNCHANGED server,
         \/ UNCHANGED left
         \/ left' = [left EXCEPT !.faults = @ - 1]
         \/ left' = [left EXCEPT !.restarts = @ - 1],
         receiver' \in [Devices -> Receivers \cup {None}], job' \in [Devices -> Jobs \cup {Idle}],
         call' \in [Calls -> Handled \cup {Idle}], given' \subseteq Ids, used' \subseteq Wrappers,
         \A k \in Calls : call'[k] = call[k] \/ call'[k].at \notin {"read", "create"}
  PROVE  ServerInv'
<1>1. TypeInv /\ ServerInv
  BY DEF IInv, ServerInv
<1>2. Counted'
  BY <1>1, TakenFrom, Uncounted DEF server
<1>3. TypeInv'
  BY <1>1, <1>2 DEF TypeInv, TypeOK, LapsedFirst, server
<1>4. QED
  BY <1>1, <1>3, ServerQuiet DEF server

(* begin() and restart() with a new pair of keys.                             *)
LEMMA DialogBegins ==
  ASSUME KeyAssumption, IInv, NEW d \in Devices, beginNew(d) \/ restart(d)
  PROVE  IInv'
<1>1. /\ TypeInv /\ job[d] = Idle /\ UNCHANGED <<server, used>> /\ \E i \in Ids : Fresh(i)
      /\ receiver' = Persisted(d, NewId) /\ Sends(d, "start", [at |-> "ensure", id |-> NewId])
      /\ UNCHANGED left \/ left' = [left EXCEPT !.restarts = @ - 1]
  BY DEF beginNew, restart, Wanted, IInv, ServerInv
<1> DEFINE i == NewId
           h == [at |-> "ensure", id |-> i]
           r == [id |-> i, prepared |-> None]
<1>2. i \in Ids /\ \A e \in Devices : receiver[e] # None => receiver[e].id # i
  BY <1>1, FreshId DEF Fresh
<1>3. h \in Handled /\ h.id = i /\ h.at = "ensure"
  BY <1>2 DEF Handled
<1>4. r \in Receivers /\ r # None /\ r.id = i
  BY <1>2 DEF Receivers, KeyAssumption
<1>5. /\ receiver' \in [Devices -> Receivers \cup {None}] /\ receiver'[d] = r
      /\ \A e \in Devices \ {d} : receiver'[e] = receiver[e]
  BY <1>1, <1>4 DEF Persisted, TypeInv, TypeOK
<1>6. \/ UNCHANGED given /\ (receiver[d] = None \/ receiver[d].id \in lapsed)
      \/ given' = given \cup {receiver[d].id} /\ receiver[d] # None
  <2>1. CASE beginNew(d)
    <3>1. UNCHANGED given /\ Shown(d) = "nothing"
      BY <2>1 DEF beginNew
    <3>2. CASE HasReceiver(d)
      <4>1. receiver[d].id \in Ids
        BY <1>1, <3>2 DEF HasReceiver, TypeInv, TypeOK, Receivers
      <4>2. req[receiver[d].id].status # "nothing"
        BY <1>1, <4>1 DEF TypeInv, TypeOK, Reqs
      <4>3. Shown(d) # "nothing"
        BY <3>2, <4>2 DEF Shown
      <4>4. QED
        BY <3>1, <4>3
    <3>3. CASE ~HasReceiver(d)
      <4>1. receiver[d] = None \/ receiver[d].id \in lapsed
        BY <3>3 DEF HasReceiver
      <4>2. QED
        BY <3>1, <4>1
    <3>4. QED
      BY <3>2, <3>3
  <2>2. CASE restart(d)
    BY <2>2 DEF restart, Shown, HasReceiver
  <2>3. QED
    BY <1>1, <2>1, <2>2 DEF beginNew, restart
<1>7. given' \subseteq Ids
  BY <1>1, <1>6 DEF TypeInv, TypeOK, Receivers
<1> HIDE DEF i, h, r
<1>8. Sends(d, "start", h)
  BY <1>1 DEF h, i
<1>9. PICK c \in Calls :
        /\ call[c] = Idle /\ call'[c] = h /\ \A k \in Calls \ {c} : call'[k] = call[k]
        /\ call' \in [Calls -> Handled \cup {Idle}]
        /\ job' \in [Devices -> Jobs \cup {Idle}] /\ \A e \in Devices \ {d} : job'[e] = job[e]
        /\ job'[d] # Idle /\ job'[d].id = h.id /\ job'[d].call = c /\ job'[d].answer = "none"
  BY <1>1, <1>3, <1>8, SendsEffect
<1>10. ServerInv'
  BY <1>1, <1>3, <1>5, <1>7, <1>9, DialogTyped DEF TypeInv, TypeOK
<1>11. h # Idle
  BY <1>3 DEF Idle
<1>12. ASSUME NEW k \in Calls
      PROVE  \/ call'[k] = call[k]
             \/ /\ call[k] = Idle /\ call'[k].at = "ensure"
                /\ receiver'[d] # None /\ call'[k].id = receiver'[d].id
  <2>1. CASE k = c
    BY <1>3, <1>4, <1>5, <1>9, <2>1
  <2>2. CASE k # c
    BY <1>9, <2>2
  <2>3. QED
    BY <2>1, <2>2
<1>13. UNCHANGED <<req, lapsed, wrapper, outdated>>
  BY <1>1 DEF server
<1>14. \A e \in Devices : receiver[e] # None => receiver[e].id # receiver'[d].id
  BY <1>2, <1>4, <1>5
<1>15. /\ receiver'[d] # None /\ receiver'[d].id = job'[d].id /\ job'[d].answer = "none"
       /\ call'[job'[d].call] # Idle /\ call'[job'[d].call].id = job'[d].id
  BY <1>3, <1>4, <1>5, <1>9, <1>11
<1>16. given \subseteq given' /\ (receiver[d] = None \/ receiver[d].id \in given' \cup lapsed)
  BY <1>6
<1>17. DeviceInv'
  BY <1>5, <1>9, <1>12, <1>13, <1>14, <1>15, <1>16, DialogHeld
<1>18. QED
  BY <1>10, <1>17 DEF IInv

(* begin() once more with the pair there is.                                  *)
LEMMA DialogRepeats ==
  ASSUME KeyAssumption, IInv, NEW d \in Devices, beginKept(d)
  PROVE  IInv'
<1> DEFINE h == [at |-> "ensure", id |-> receiver[d].id]
<1>1. /\ TypeInv /\ job[d] = Idle /\ UNCHANGED <<server, receiver, used, given>>
      /\ Sends(d, "start", h) /\ receiver[d] # None
      /\ UNCHANGED left \/ left' = [left EXCEPT !.restarts = @ - 1]
  BY DEF beginKept, Wanted, Shown, HasReceiver, IInv, ServerInv
<1>2. h \in Handled /\ h.id = receiver[d].id /\ h.at = "ensure" /\ h # Idle
  BY <1>1 DEF Handled, TypeInv, TypeOK, Receivers, Idle
<1> HIDE DEF h
<1>3. PICK c \in Calls :
        /\ call[c] = Idle /\ call'[c] = h /\ \A k \in Calls \ {c} : call'[k] = call[k]
        /\ call' \in [Calls -> Handled \cup {Idle}]
        /\ job' \in [Devices -> Jobs \cup {Idle}] /\ \A e \in Devices \ {d} : job'[e] = job[e]
        /\ job'[d] # Idle /\ job'[d].id = h.id /\ job'[d].call = c /\ job'[d].answer = "none"
  BY <1>1, <1>2, SendsEffect
<1>4. ServerInv'
  BY <1>1, <1>2, <1>3, DialogTyped DEF TypeInv, TypeOK
<1>5. ASSUME NEW k \in Calls
      PROVE  \/ call'[k] = call[k]
             \/ /\ call[k] = Idle /\ call'[k].at = "ensure"
                /\ receiver'[d] # None /\ call'[k].id = receiver'[d].id
  <2>1. CASE k = c
    BY <1>1, <1>2, <1>3, <2>1
  <2>2. CASE k # c
    BY <1>3, <2>2
  <2>3. QED
    BY <2>1, <2>2
<1>6. /\ receiver'[d] # None /\ receiver'[d].id = job'[d].id /\ job'[d].answer = "none"
      /\ call'[job'[d].call] # Idle /\ call'[job'[d].call].id = job'[d].id
  BY <1>1, <1>2, <1>3
<1>7. UNCHANGED <<req, lapsed, wrapper, outdated, receiver, given>>
  BY <1>1 DEF server
<1>8. DeviceInv'
  BY <1>3, <1>5, <1>6, <1>7, DialogHeld
<1>9. QED
  BY <1>4, <1>8 DEF IInv

(* receive(): what is prepared stays so, and is so before it is sent.         *)
LEMMA DialogReceives ==
  ASSUME KeyAssumption, IInv, NEW d \in Devices, receive(d)
  PROVE  IInv'
<1> DEFINE w == IF receiver[d].prepared # None THEN receiver[d].prepared ELSE NewWrapper
           h == [at |-> "allow", id |-> receiver[d].id, wrapper |-> w]
<1>1. /\ TypeInv /\ job[d] = Idle /\ UNCHANGED <<server, left, given>>
      /\ receiver[d].prepared # None \/ used # Wrappers
      /\ used' = used \cup {w} /\ receiver' = Prepared(d, w) /\ Sends(d, "complete", h)
      /\ Shown(d) = "approved" \/ (Shown(d) = "completed" /\ receiver[d].prepared # None)
  BY DEF receive, Wanted, IInv, ServerInv
<1>2. receiver[d] \in Receivers /\ receiver[d] # None
  <2>1. receiver[d] # None
    BY <1>1 DEF Shown, HasReceiver
  <2>2. QED
    BY <1>1, <2>1 DEF TypeInv, TypeOK
<1>3. w \in Wrappers
  BY <1>1, <1>2, FreshWrapper DEF Receivers
<1>4. /\ h \in Handled /\ h.id = receiver[d].id /\ h.at = "allow" /\ h.wrapper = w /\ h # Idle
  BY <1>2, <1>3 DEF Handled, Receivers, Idle
<1>5. receiver[d].prepared # None => w = receiver[d].prepared
  OBVIOUS
<1>6. receiver[d].prepared = None => req[receiver[d].id].status # "completed"
  BY <1>1 DEF Shown
<1> HIDE DEF w, h
<1> DEFINE r == [receiver[d] EXCEPT !.prepared = w]
<1>7. /\ r \in Receivers /\ r # None /\ r.id = receiver[d].id /\ r = [id |-> receiver[d].id, prepared |-> w]
      /\ receiver[d].prepared = w => r = receiver[d]
  <2>1. r = [id |-> receiver[d].id, prepared |-> w]
    BY <1>2 DEF Receivers
  <2>2. receiver[d] = [id |-> receiver[d].id, prepared |-> receiver[d].prepared]
    BY <1>2 DEF Receivers
  <2>3. r \in Receivers
    BY <1>2, <1>3, <2>1 DEF Receivers
  <2>4. QED
    BY <2>1, <2>2, <2>3 DEF KeyAssumption
<1> HIDE DEF r
<1>8. /\ receiver' \in [Devices -> Receivers \cup {None}] /\ receiver'[d] = r
      /\ \A e \in Devices \ {d} : receiver'[e] = receiver[e]
  BY <1>1, <1>7 DEF Prepared, TypeInv, TypeOK, r
<1>9. PICK c \in Calls :
        /\ call[c] = Idle /\ call'[c] = h /\ \A k \in Calls \ {c} : call'[k] = call[k]
        /\ call' \in [Calls -> Handled \cup {Idle}]
        /\ job' \in [Devices -> Jobs \cup {Idle}] /\ \A e \in Devices \ {d} : job'[e] = job[e]
        /\ job'[d] # Idle /\ job'[d].id = h.id /\ job'[d].call = c /\ job'[d].answer = "none"
  BY <1>1, <1>4, SendsEffect
<1>10. ServerInv'
  BY <1>1, <1>3, <1>4, <1>8, <1>9, DialogTyped DEF TypeInv, TypeOK
<1>11. ASSUME NEW k \in Calls
      PROVE  \/ call'[k] = call[k]
             \/ /\ call[k] = Idle /\ call'[k].at = "allow"
                /\ receiver'[d] = [id |-> call'[k].id, prepared |-> call'[k].wrapper]
  <2>1. CASE k = c
    BY <1>4, <1>7, <1>8, <1>9, <2>1
  <2>2. CASE k # c
    BY <1>9, <2>2
  <2>3. QED
    BY <2>1, <2>2
<1>12. /\ receiver'[d] # None /\ receiver'[d].id = job'[d].id /\ job'[d].answer = "none"
       /\ call'[job'[d].call] # Idle /\ call'[job'[d].call].id = job'[d].id
  BY <1>4, <1>7, <1>8, <1>9
<1>13. UNCHANGED <<req, lapsed, wrapper, outdated, given>>
  BY <1>1 DEF server
<1>14. \/ receiver'[d] = receiver[d]
       \/ /\ receiver'[d] # None /\ receiver'[d].id = receiver[d].id
          /\ receiver[d].prepared = None /\ req[receiver[d].id].status # "completed"
  BY <1>5, <1>6, <1>7, <1>8
<1>15. receiver[d] # None /\ receiver'[d].id = receiver[d].id
  BY <1>2, <1>7, <1>8
<1>16. DeviceInv'
  BY <1>8, <1>9, <1>11, <1>12, <1>13, <1>14, <1>15, DialogHeld
<1>17. QED
  BY <1>10, <1>16 DEF IInv

(* Answers: the pair of keys is forgotten once its request is over or done.   *)
LEMMA DialogHears ==
  ASSUME KeyAssumption, IInv, NEW d \in Devices, started(d) \/ received(d)
  PROVE  IInv'
<1>1. TypeInv /\ job[d] # Idle /\ UNCHANGED <<server, call, left, used>> /\ job' = [job EXCEPT ![d] = Idle]
  BY DEF started, received, IInv, ServerInv
<1>2. job[d].id \in Ids /\ receiver[d] # None /\ receiver[d].id = job[d].id
  BY <1>1 DEF TypeInv, TypeOK, Jobs, IInv, DeviceInv, JobsHeld
<1>3. /\ job' \in [Devices -> Jobs \cup {Idle}] /\ job'[d] = Idle
      /\ \A e \in Devices \ {d} : job'[e] = job[e]
  BY <1>1 DEF TypeInv, TypeOK
<1>4. \/ UNCHANGED <<receiver, given>>
      \/ /\ receiver' = [receiver EXCEPT ![d] = None] /\ given \subseteq given' /\ given' \subseteq Ids
         /\ job[d].id \in given' \cup lapsed \/ req[job[d].id].status = "canceled"
  <2>1. CASE started(d)
    <3>1. CASE job[d].answer = "over" \/ (job[d].answer = "ok" /\ job[d].id \in expired)
      BY <1>1, <2>1, <3>1 DEF started, IInv, DeviceInv, OverIsOver, TypeInv, TypeOK, LapsedFirst
    <3>2. CASE ~(job[d].answer = "over" \/ (job[d].answer = "ok" /\ job[d].id \in expired))
      BY <2>1, <3>2 DEF started
    <3>3. QED
      BY <3>1, <3>2
  <2>2. CASE received(d)
    <3>1. CASE job[d].answer = "ok"
      BY <1>1, <1>2, <2>2, <3>1 DEF received, TypeInv, TypeOK
    <3>2. CASE job[d].answer # "ok"
      BY <2>2, <3>2 DEF received
    <3>3. QED
      BY <3>1, <3>2
  <2>3. QED
    BY <2>1, <2>2
<1>5. /\ receiver' \in [Devices -> Receivers \cup {None}]
      /\ \A e \in Devices \ {d} : receiver'[e] = receiver[e]
      /\ given \subseteq given' /\ given' \subseteq Ids
      /\ \/ receiver'[d] = receiver[d]
         \/ /\ receiver'[d] = None
            /\ receiver[d].id \in given' \cup lapsed \/ req[receiver[d].id].status = "canceled"
  BY <1>1, <1>2, <1>4 DEF TypeInv, TypeOK
<1>6. ServerInv'
  BY <1>1, <1>3, <1>5, DialogTyped DEF TypeInv, TypeOK
<1>7. UNCHANGED <<req, lapsed, wrapper, outdated, call>>
  BY <1>1 DEF server
<1>8. DeviceInv'
  BY <1>3, <1>5, <1>7, DialogHeld
<1>9. QED
  BY <1>6, <1>8 DEF IInv

(* Answers that do not come, and calls that do not.                           *)
LEMMA DialogFails ==
  ASSUME KeyAssumption, IInv, NEW d \in Devices, lost(d) \/ unsent(d)
  PROVE  IInv'
<1>1. /\ TypeInv /\ job[d] # Idle /\ UNCHANGED <<server, receiver, used, given>>
      /\ job' = [job EXCEPT ![d] = Idle] /\ left' = [left EXCEPT !.faults = @ - 1]
      /\ UNCHANGED call \/ (job[d].answer = "none" /\ call' = [call EXCEPT ![job[d].call] = Idle])
  BY DEF lost, unsent, IInv, ServerInv
<1>2. job[d].id \in Ids /\ job[d].call \in Calls
  BY <1>1 DEF TypeInv, TypeOK, Jobs
<1>3. /\ job' \in [Devices -> Jobs \cup {Idle}] /\ job'[d] = Idle
      /\ \A e \in Devices \ {d} : job'[e] = job[e]
  BY <1>1 DEF TypeInv, TypeOK
<1>4. /\ call' \in [Calls -> Handled \cup {Idle}]
      /\ \A k \in Calls : call'[k] = call[k] \/ (k = job[d].call /\ job[d].answer = "none" /\ call'[k] = Idle)
  BY <1>1, <1>2 DEF TypeInv, TypeOK
<1>5. ServerInv'
  BY <1>1, <1>3, <1>4, DialogTyped DEF TypeInv, TypeOK, Idle
<1>6. ASSUME NEW e \in Devices \ {d}, job[e] # Idle, job[e].answer = "none", job[d].answer = "none"
      PROVE  job[e].call # job[d].call
  <2>1. OneHolder /\ JobsHeld /\ JobsServed
    BY DEF IInv, DeviceInv
  <2>2. /\ receiver[d] # None /\ receiver[d].id = job[d].id
        /\ receiver[e] # None /\ receiver[e].id = job[e].id
    BY <1>1, <1>6, <2>1 DEF JobsHeld
  <2>3. job[d].id # job[e].id
    BY <1>6, <2>1, <2>2 DEF OneHolder
  <2>4. QED
    BY <1>1, <1>6, <2>1, <2>3 DEF JobsServed
<1>7. \A k \in Calls :
        \/ call'[k] = call[k]
        \/ /\ call'[k] = Idle
           /\ \A e \in Devices \ {d} : job[e] # Idle /\ job[e].answer = "none" => job[e].call # k
  BY <1>4, <1>6
<1>8. UNCHANGED <<req, lapsed, wrapper, outdated, receiver, given>>
  BY <1>1 DEF server
<1>9. DeviceInv'
  BY <1>3, <1>7, <1>8, DialogHeld
<1>10. QED
  BY <1>5, <1>9 DEF IInv

-----------------------------------------------------------------------------
(* Every state and every step.                                                *)

LEMMA KeyInit ==
  ASSUME KeyAssumption, Init
  PROVE  IInv
<1>1. left \in [removals : 0 .. MaxRemovals, changes : Int, faults : Int, expiries : Int, restarts : Int]
  BY DEF Init, KeyAssumption
<1>2. NoReq \in Reqs
  BY DEF NoReq, Reqs, KeyAssumption
<1>3. TypeInv
  BY <1>1, <1>2 DEF Init, TypeInv, TypeOK, Counted, LapsedFirst
<1>4. \A i \in Ids : req[i].status = "none"
  BY DEF Init, NoReq
<1>5. \A c \in Calls : call[c].at = "idle"
  BY DEF Init, Idle
<1>6. ServerInv
  BY <1>3, <1>4, <1>5 DEF Init, ServerInv, KeyIffEnrolled, ReadGranted, CallsFromBefore, StaleOver,
     OutdatedOver, OneOpen, Open
<1>7. \A d \in Devices : receiver[d] = None /\ job[d] = Idle
  BY DEF Init
<1>8. DeviceInv
  BY <1>4, <1>5, <1>7 DEF DeviceInv, OneHolder, JobsHeld, JobsServed, OverIsOver, BegunHeld, OpenHeld,
     CompletingHeld, CompletionRepeatable, Starting, Completing, Open
<1>9. QED
  BY <1>6, <1>8 DEF IInv

LEMMA KeyStep ==
  ASSUME KeyAssumption, IInv, [Next]_vars
  PROVE  IInv'
<1>1. ServerInv
  BY DEF IInv
<1>2. CASE UNCHANGED vars
  BY <1>2 DEF vars, IInv, ServerInv, DeviceInv, TypeInv, TypeOK, Counted, LapsedFirst, KeyIffEnrolled, ReadGranted,
     CallsFromBefore, StaleOver, OutdatedOver, OneOpen, OneHolder, JobsHeld, JobsServed, OverIsOver, BegunHeld, OpenHeld,
     CompletingHeld, CompletionRepeatable, Held, Over, Prepares, Starting, Completing, Outlived
<1>3. CASE \E c \in Calls : Serve(c)
  <2>1. PICK c \in Calls : Serve(c)
    BY <1>3
  <2>2. ServerInv'
    BY <1>1, <2>1, ServerEnsures, ServerReads, ServerCreates, ServerCompletes DEF Serve
  <2>3. DeviceInv'
    BY <2>1, DeviceServed
  <2>4. QED
    BY <2>2, <2>3 DEF IInv
<1>4. CASE \/ \E i \in Ids : approveKeyRequest(i) \/ lapse(i) \/ expire(i)
           \/ changePassword \/ removeOrganizationMember \/ invitedAgain \/ pruneExpiredRequests
  <2>1. ServerInv'
    BY <1>1, <1>4, ServerApproves, ServerChanges, ServerRemoves, ServerWaits
  <2>2. DeviceInv'
    BY <1>4, AroundStep
  <2>3. QED
    BY <2>1, <2>2 DEF IInv
<1>5. CASE \E d \in Devices : Dialog(d) \/ lost(d) \/ unsent(d)
  BY <1>5, DialogBegins, DialogRepeats, DialogReceives, DialogHears, DialogFails DEF Dialog
<1>6. QED
  BY <1>2, <1>3, <1>4, <1>5 DEF Next

(* Only completeKeyRequest() completes a request.                             *)
LEMMA OnlyCompletion ==
  ASSUME IInv, Next, NEW i \in Ids, Completes(i)
  PROVE  \E c \in Calls : completeKeyRequest(c) /\ Completable(call[c].id) /\ i = call[c].id
<1>1. TypeInv /\ ServerInv /\ req[i] \in Reqs
  BY DEF IInv, ServerInv, TypeInv, TypeOK
<1>2. req[i].status # "completed" /\ req'[i].status = "completed"
  BY DEF Completes
<1>3. \A s \in {"approved", "canceled"} : [req[i] EXCEPT !.status = s].status = s
  BY <1>1 DEF Reqs
<1>4. ~(UNCHANGED req)
  BY <1>2
<1>5. CASE \E d \in Devices : Dialog(d) \/ lost(d) \/ unsent(d)
  BY <1>4, <1>5 DEF Dialog, beginNew, beginKept, restart, started, receive, received, lost, unsent, server
<1>6. CASE \E j \in Ids : approveKeyRequest(j) \/ lapse(j) \/ expire(j)
  <2>1. PICK j \in Ids : approveKeyRequest(j)
    BY <1>4, <1>6 DEF lapse, expire
  <2>2. req' = [req EXCEPT ![j].status = "approved"]
    BY <2>1 DEF approveKeyRequest
  <2>3. req'[i].status = "approved" \/ req'[i] = req[i]
    BY <1>1, <1>3, <2>2 DEF TypeInv, TypeOK
  <2>4. QED
    BY <1>2, <2>3
<1>7. CASE changePassword \/ removeOrganizationMember \/ invitedAgain \/ pruneExpiredRequests
  <2>1. \/ req'[i] = req[i] \/ req'[i] = NoReq \/ req'[i] = [req[i] EXCEPT !.status = "canceled"]
    BY <1>4, <1>7 DEF changePassword, AfterChange, removeOrganizationMember, invitedAgain, pruneExpiredRequests
  <2>2. [req[i] EXCEPT !.status = "canceled"].status = "canceled" /\ NoReq.status = "none"
    BY <1>3 DEF NoReq
  <2>3. req'[i].status \in {req[i].status, "none", "canceled"}
    BY <2>1, <2>2
  <2>4. QED
    BY <1>2, <2>3
<1>8. CASE \E c \in Calls : Serve(c)
  <2>1. PICK c \in Calls : Serve(c)
    BY <1>8
  <2>2. createKeyRequest(c) \/ completeKeyRequest(c)
    BY <1>4, <2>1 DEF Serve, ensureVaultEnrollment, startRead, completeAllowed, server
  <2>3. CASE createKeyRequest(c)
    <3>1. req' = Created(call[c].id, call[c].version)
      BY <1>4, <2>3 DEF createKeyRequest
    <3>2. req'[i] = IF i = call[c].id THEN [status |-> "pending", version |-> call[c].version]
                    ELSE IF req[i].status \in Open THEN [req[i] EXCEPT !.status = "canceled"]
                    ELSE req[i]
      BY <3>1 DEF Created
    <3>3. QED
      BY <1>2, <1>3, <3>2
  <2>4. CASE completeKeyRequest(c)
    <3>1. Completable(call[c].id)
      BY <1>4, <2>4 DEF completeKeyRequest
    <3>2. \A j \in Ids \ {call[c].id} : req'[j] = req[j]
      BY <1>1, <2>4, <3>1, CompletesRight
    <3>3. i = call[c].id
      BY <1>2, <3>2
    <3>4. QED
      BY <2>4, <3>1, <3>3
  <2>5. QED
    BY <2>2, <2>3, <2>4
<1>9. QED
  BY <1>5, <1>6, <1>7, <1>8 DEF Next

LEMMA CompletedInTime ==
  ASSUME IInv, Next, NEW i \in Ids, Completes(i)
  PROVE  i \notin stale /\ i \notin outdated
<1>1. PICK c \in Calls : completeKeyRequest(c) /\ Completable(call[c].id) /\ i = call[c].id
  BY OnlyCompletion
<1>2. QED
  BY <1>1, CompletesRight DEF IInv

(* The inductive invariant holds in every state of every execution.           *)
THEOREM KeyInvariant ==
  ASSUME KeyAssumption
  PROVE  Spec => []IInv
<1>1. Init => IInv
  BY KeyInit
<1>2. IInv /\ [Next]_vars => IInv'
  BY KeyStep
<1>3. QED
  BY <1>1, <1>2, PTL DEF Spec

(* Every variable keeps its type; the version of the grant stays within what  *)
(* the removals allow.                                                        *)
THEOREM KeyTypeCorrect ==
  ASSUME KeyAssumption
  PROVE  Spec => []TypeOK
<1>1. IInv => TypeOK
  BY DEF IInv, ServerInv, TypeInv
<1>2. QED
  BY <1>1, KeyInvariant, PTL

(* vault_membership and the wrapper agree after every call: a wrapper exists  *)
(* exactly for an active grant, and for members only.                         *)
THEOREM KeyGoesWithGrant ==
  ASSUME KeyAssumption
  PROVE  Spec => []KeyIffEnrolled
<1>1. IInv => KeyIffEnrolled
  BY DEF IInv, ServerInv
<1>2. QED
  BY <1>1, KeyInvariant, PTL

(* However many devices ask at once, one request is open at a time.           *)
THEOREM OneRequestAtATime ==
  ASSUME KeyAssumption
  PROVE  Spec => []OneOpenRequest
<1>1. ASSUME IInv
      PROVE  OneOpenRequest
  <2> DEFINE S == {i \in Ids : req[i].status \in Open}
  <2>1. \A i, j \in S : i = j
    BY <1>1 DEF IInv, ServerInv, OneOpen
  <2>2. CASE S = {}
    BY <2>2, FS_EmptySet DEF OneOpenRequest
  <2>3. CASE S # {}
    <3>1. PICK i \in S : TRUE
      BY <2>3
    <3>2. S = {i}
      BY <2>1, <3>1
    <3>3. QED
      BY <3>2, FS_Singleton DEF OneOpenRequest
  <2>4. QED
    BY <2>2, <2>3
<1>2. QED
  BY <1>1, KeyInvariant, PTL

(* completeKeyRequest() completes no request from before the last removal: of *)
(* those, none is open for the version of the grant that there is.            *)
THEOREM OldRequestsEnrollNobody ==
  ASSUME KeyAssumption
  PROVE  Spec => NotResurrected
<1>1. IInv /\ [Next]_vars => [\A i \in Ids : Completes(i) => i \notin stale]_vars
  BY CompletedInTime
<1>2. QED
  BY <1>1, KeyInvariant, PTL DEF Spec, NotResurrected

(* And none from before the last change of password, nor one that another     *)
(* completion has replaced.                                                   *)
THEOREM OldRequestsKeepThePassword ==
  ASSUME KeyAssumption
  PROVE  Spec => PasswordKept
<1>1. IInv /\ [Next]_vars => [\A i \in Ids : Completes(i) => i \notin outdated]_vars
  BY CompletedInTime
<1>2. QED
  BY <1>1, KeyInvariant, PTL DEF Spec, PasswordKept

(* The private half of an open request is on a device until its user gives it *)
(* up or the 48 hours of the pair are over, whatever answers are lost: a pair *)
(* is persisted before it is asked for, and dropped before its time only when *)
(* the request is over.  A request is open for 48 hours of its own, and with  *)
(* a call sent again late it outlives its pair: of that this says nothing.    *)
THEOREM OpenRequestsKeepTheirKey ==
  ASSUME KeyAssumption
  PROVE  Spec => []KeyNotOrphaned
<1>1. IInv => KeyNotOrphaned
  BY DEF IInv, DeviceInv, OpenHeld, Held, Over, KeyNotOrphaned, IsOpen, Open
<1>2. QED
  BY <1>1, KeyInvariant, PTL

(* The wrapper that was stored for a completed request is the one its device  *)
(* still has and sends again, so that a completion can be repeated.           *)
THEOREM CompletionsCanBeRepeated ==
  ASSUME KeyAssumption
  PROVE  Spec => []CompletionRepeatable
<1>1. IInv => CompletionRepeatable
  BY DEF IInv, DeviceInv
<1>2. QED
  BY <1>1, KeyInvariant, PTL
=============================================================================

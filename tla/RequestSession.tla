--------------------------- MODULE RequestSession ----------------------------
(***************************************************************************)
(* What a realtime session promises to its callers: a request waits for    *)
(* its answer as long as the session lives, is settled once, and nobody    *)
(* waits any more when the session has ended.                              *)
(***************************************************************************)
CONSTANTS Requests

VARIABLES
    alive,          \* the session takes requests
    ended,          \* it was alive and is no longer
    call            \* each request: idle, waiting, answered, refused or lost

Init ==
    /\ alive = FALSE /\ ended = FALSE
    /\ call = [r \in Requests |-> "idle"]

Start == ~alive /\ ~ended /\ alive' = TRUE /\ UNCHANGED <<ended, call>>

Ask(r) ==
    /\ alive /\ call[r] = "idle"
    /\ call' = [call EXCEPT ![r] = "waiting"]
    /\ UNCHANGED <<alive, ended>>

AskLate(r) ==
    /\ ended /\ call[r] = "idle"
    /\ call' = [call EXCEPT ![r] = "lost"]
    /\ UNCHANGED <<alive, ended>>

Settle(r) ==
    /\ alive /\ call[r] = "waiting"
    /\ \E out \in {"answered", "refused"} : call' = [call EXCEPT ![r] = out]
    /\ UNCHANGED <<alive, ended>>

\* An error of the session: nobody waits on, the session lives or not.
Lose ==
    /\ call' = [r \in Requests |->
                  IF call[r] = "waiting" THEN "lost" ELSE call[r]]
    /\ UNCHANGED <<alive, ended>>

\* The end, with one request that comes with it.
End ==
    /\ ~ended /\ ended' = TRUE /\ alive' = FALSE
    /\ \E last \in SUBSET Requests :
          /\ \A r \in last : alive /\ call[r] = "idle"
          /\ call' = [r \in Requests |->
                        IF call[r] = "waiting" \/ r \in last THEN "lost"
                        ELSE call[r]]

Next ==
    \/ Start \/ Lose \/ End
    \/ \E r \in Requests : Ask(r) \/ AskLate(r) \/ Settle(r)

Spec == Init /\ [][Next]_<<alive, ended, call>>
=============================================================================

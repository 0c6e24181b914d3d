------------------------------- MODULE KeyLock -------------------------------
(* What the keyed state coordinator of a client promises: a lock over sets of *)
(* keys.  A request names all its keys at once, is served in the order of     *)
(* arrival among the requests it conflicts with, and excludes them while it   *)
(* is granted.                                                                *)
CONSTANTS Workers, Keys

VARIABLES
  wanted,    \* wanted[w]: the keys of w's request, {} when it has none
  granted,   \* the workers whose request is granted
  before     \* <<u, w>>: the request of u arrived before the one of w

vars == <<wanted, granted, before>>

Waiting(w) == wanted[w] # {}
Conflict(u, w) == wanted[u] \cap wanted[w] # {}

Init ==
  /\ wanted = [w \in Workers |-> {}]
  /\ granted = {}
  /\ before = {}

Request(w, keys) ==
  /\ ~Waiting(w)
  /\ keys # {}
  /\ wanted' = [wanted EXCEPT ![w] = keys]
  /\ before' = before \cup {<<u, w>> : u \in {x \in Workers : Waiting(x)}}
  /\ UNCHANGED granted

\* A request is served once no earlier one still present conflicts with it.
Grant(w) ==
  /\ Waiting(w) /\ w \notin granted
  /\ \A u \in Workers : <<u, w>> \in before => ~Conflict(u, w)
  /\ granted' = granted \cup {w}
  /\ UNCHANGED <<wanted, before>>

\* A request ends, after its work or because its turn came too late to use it.
Release(w) ==
  /\ Waiting(w)
  /\ wanted' = [wanted EXCEPT ![w] = {}]
  /\ granted' = granted \ {w}
  /\ before' = {r \in before : w \notin {r[1], r[2]}}

Next == \E w \in Workers :
  \/ \E keys \in SUBSET Keys : Request(w, keys)
  \/ Grant(w)
  \/ Release(w)

Spec == Init /\ [][Next]_vars
=============================================================================

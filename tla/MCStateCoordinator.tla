-------------------------- MODULE MCStateCoordinator --------------------------
(***************************************************************************)
(* An instance of the keyed lock for TLC, which runs in one of two ways:   *)
(* two calls over two entries and two paths, one of which may prepare its  *)
(* work outside the lock; or three calls that could wait for each other in *)
(* a circle.                                                               *)
(***************************************************************************)
EXTENDS StateCoordinator, TLC

CONSTANTS w1, w2, w3, p1, p2, p3, e1

VARIABLE part

\* Callers name one path (an edit), two paths (a rename) or an entry and a path
\* (a pull or a push).
Calls == {{p1}, {p1, p2}, {e1}}
Circle == w1 :> {p1, p2} @@ w2 :> {p2, p3} @@ w3 :> {p1, p3}
MCJobs == Calls \cup {Circle[w] : w \in Workers}

\* The calls that are made, and in the circle nothing is written.
Allowed ==
  IF part = "calls" THEN call'[w3].pc = "idle" /\ \A w \in Workers : call'[w].named \in Calls \cup {{}}
  ELSE pathOf' = pathOf /\ \A w \in Workers : call'[w].named \in {Circle[w], {}}

MCInit == Init /\ part \in {"calls", "circle"}

MCSpec ==
  /\ MCInit
  /\ [][Next /\ Allowed /\ UNCHANGED part]_<<vars, part>>
  /\ Fairness
=============================================================================

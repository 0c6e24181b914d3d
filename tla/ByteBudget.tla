----------------------------- MODULE ByteBudget -----------------------------
(***************************************************************************)
(* BytesInFlightBudget: the bytes that sync operations may hold in memory.  *)
(* A reservation that does not fit waits in line; one larger than the whole *)
(* budget is admitted when nothing else is reserved.  The operators give    *)
(* the budget after each call, for the modules whose processes call it.     *)
(***************************************************************************)
EXTENDS Naturals, Sequences, FiniteSets, SequencesExt, FiniteSetsExt

CONSTANT MaxBytes
ASSUME MaxBytesAssumption == MaxBytes \in Nat \ {0}

\* What the budget counts, the reservations waiting in line, and whose bytes are
\* admitted.
EmptyBudget == [reserved |-> 0, active |-> 0, waiting |-> << >>, holders |-> {}]

IsBudget(b, Owners, maxSize) ==
  /\ b.reserved \in Nat
  /\ b.active \in Nat
  /\ b.holders \subseteq [owner : Owners, bytes : 0..maxSize]
  /\ b.waiting \in Seq([owner : Owners, bytes : 0..maxSize])

\* The reserved bytes and reservations are those of the holders, each of which
\* holds once.
Exact(b) ==
  /\ b.active = Cardinality(b.holders)
  /\ b.reserved = MapThenSumSet(LAMBDA h : h.bytes, b.holders)
  /\ \A g, h \in b.holders : g.owner = h.owner => g = h

Holds(b, o) == \E h \in b.holders : h.owner = o
Waits(b, o) == \E i \in DOMAIN b.waiting : b.waiting[i].owner = o

\* Faulty variant: a file larger than the budget joins those already admitted.
CanAcquireOversized(b, bytes) == bytes > MaxBytes \/ b.reserved + bytes <= MaxBytes

CanAcquire(b, bytes) ==
  IF bytes > MaxBytes THEN b.active = 0 ELSE b.reserved + bytes <= MaxBytes

Reserve(b, o, bytes) ==
  [b EXCEPT !.reserved = @ + bytes, !.active = @ + 1,
            !.holders = @ \cup {[owner |-> o, bytes |-> bytes]}]

\* Faulty variant: only reservations admitted at once are counted.
AdmitFirstUncounted(b) ==
  [b EXCEPT !.reserved = @ + Head(b.waiting).bytes, !.holders = @ \cup {Head(b.waiting)},
            !.waiting = Tail(b.waiting)]

AdmitFirst(b) ==
  [Reserve(b, Head(b.waiting).owner, Head(b.waiting).bytes) EXCEPT !.waiting = Tail(b.waiting)]

\* The budget after the first n reservations in line have been admitted.
AfterAdmitting(b) ==
  LET after[n \in 0..Len(b.waiting)] == IF n = 0 THEN b ELSE AdmitFirst(after[n - 1])
  IN  after

\* Admission in order, as far as the line fits.
Drain(b) ==
  LET after == AfterAdmitting(b)
      fits(n) == \A k \in 1..n : CanAcquire(after[k - 1], b.waiting[k].bytes)
  IN  after[Max({n \in DOMAIN after : fits(n)})]

\* Faulty variant: a reservation that fits overtakes those in line.
TryAcquireFirst(b, o, bytes) == CanAcquire(b, bytes)

\* Admitted at once only if nobody is in line.
TryAcquire(b, o, bytes) == b.waiting = << >> /\ CanAcquire(b, bytes)

Acquire(b, o, bytes) ==
  IF TryAcquire(b, o, bytes) THEN Reserve(b, o, bytes)
  ELSE Drain([b EXCEPT !.waiting = Append(@, [owner |-> o, bytes |-> bytes])])

\* The owner's reservation, if it has one, returns its bytes.
Release(b, o) ==
  LET given == {h \in b.holders : h.owner = o} IN
  Drain([b EXCEPT !.reserved = @ - MapThenSumSet(LAMBDA h : h.bytes, given),
                  !.active = @ - Cardinality(given),
                  !.holders = @ \ given])

\* The owners os release one after the other.
ReleaseAll(b, os) ==
  LET given == {h \in b.holders : h.owner \in os} IN
  Drain([b EXCEPT !.reserved = @ - MapThenSumSet(LAMBDA h : h.bytes, given),
                  !.active = @ - Cardinality(given),
                  !.holders = @ \ given])

\* An admitted reservation is charged for more than it asked for, without waiting.
Resize(b, o, bytes) ==
  LET held == CHOOSE h \in b.holders : h.owner = o IN
  Drain([b EXCEPT !.reserved = @ + bytes - held.bytes,
                  !.holders = (@ \ {held}) \cup {[held EXCEPT !.bytes = bytes]}])
=============================================================================

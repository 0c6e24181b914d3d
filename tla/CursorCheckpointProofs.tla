------------------------ MODULE CursorCheckpointProofs ------------------------
(***************************************************************************)
(* That the checkpoint of a device never passes an entry state the device  *)
(* does not have, and that it never believes in what the vault has not     *)
(* reached, proved for every set of devices, entries and pullers and every *)
(* page and window size.                                                   *)
(*                                                                         *)
(* The argument: a position of the log is dealt with, for a device, once   *)
(* the device knows its revision or a later revision of the entry is in    *)
(* the log behind it.  Nothing undoes that.  Whoever may move the          *)
(* checkpoint, a pull that applied a window or a push that was answered,   *)
(* remembers how far the log is dealt with, however the two overlap.       *)
(***************************************************************************)
EXTENDS CursorCheckpoint, FiniteSetTheorems, TLAPS

-----------------------------------------------------------------------------
(* The inductive invariant.                                                 *)

\* The device knows the revision at position i, or a later one follows there.
Done(d, i) ==
  \/ known[d][log[i].entry] >= log[i].rev
  \/ \E j \in i + 1 .. Len(log) : log[j].entry = log[i].entry

Covers(d, n) == \A i \in 1 .. n : Done(d, i)

\* What the pull has listed up to position n is done or still held by it.
Holds(d, p, n) == \A i \in 1 .. n : Done(d, i) \/ i \in p.window \/ i \in p.page

WindowOK(d, p) ==
  /\ Covers(d, p.local) /\ Covers(d, p.since)
  /\ p.window \subseteq 1 .. p.after /\ p.page \subseteq 1 .. p.after
  /\ \A i \in p.window, j \in p.page : i < j
  /\ ~p.ready => p.page = {}
  /\ Holds(d, p, p.after)
  /\ ~p.more => Holds(d, p, p.target)

AppliedOK(d, p) ==
  /\ p.deferred \subseteq p.window
  /\ p.last => ~p.more /\ p.page = {} /\ p.deferred = {}
  /\ \A i \in p.window : i \in p.todo \/ i \in p.deferred \/ Done(d, i)

PullOK(d, p) ==
  /\ p.since <= Len(log) /\ p.target <= Len(log)
  /\ p.after <= Len(log) /\ p.local <= Len(log)
  /\ p.todo \subseteq 1 .. Len(log)
  /\ p.pc \in {"listing", "applying"} => WindowOK(d, p)
  /\ p.pc = "applying" => AppliedOK(d, p)
  /\ p.pc \in {"compare", "raise"} => Covers(d, p.target)

PushOK(d, q) ==
  /\ q.start <= Len(log) /\ Covers(d, q.start)
  /\ \A i \in q.accepted : i \in 1 .. Len(log) /\ Done(d, i)
  /\ q.pc = "accepted" => q.at \in 1 .. Len(log) /\ log[q.at].entry = q.entry

\* Mutation m is an edit of entry e on device d, wherever it is now.
Names(m, d, e) ==
  \/ pending[d][e].m = m
  \/ push[d].entry = e /\ push[d].sent.m = m
  \/ \E q \in requests : q.device = d /\ q.entry = e /\ q.m = m

Ownership ==
  \A m \in Mutations, d1 \in Devices, e1 \in Entries :
    Names(m, d1, e1) =>
      /\ m \in made
      /\ \A d2 \in Devices, e2 \in Entries : Names(m, d2, e2) => e2 = e1

\* A pending edit has a mutation id; where there is none, nothing is left of one.
Edits == {NoEdit} \cup [m : Mutations, base : Nat]
EditsNamed == pending \in [Devices -> [Entries -> Edits]]

HeadsAreNewest ==
  \A e \in Entries, i \in 1 .. Len(log) : log[i].entry = e => log[i].rev <= CurrentRevision(e)

Checkpoints == \A d \in Devices : checkpoint[d] <= Len(log) /\ Covers(d, checkpoint[d])

Believed ==
  \A d \in Devices, e \in Entries :
    known[d][e] <= CurrentRevision(e) /\ pending[d][e].base <= CurrentRevision(e)

Pulls == \A d \in Devices, w \in Pullers : PullOK(d, pull[d][w])
Pushes == \A d \in Devices : PushOK(d, push[d])

IInv ==
  /\ TypeOK /\ EditsNamed /\ HeadsAreNewest /\ Checkpoints /\ Believed
  /\ Pulls /\ Pushes /\ Ownership

-----------------------------------------------------------------------------
(* Greatest and least elements.  Subsets of a finite set are well founded,  *)
(* and an interval shrinks with its ends.                                   *)

\* Among finite sets of numbers some are minimal.
LEMMA Minimal ==
  ASSUME NEW T \in SUBSET SUBSET Nat, T # {}, \A t \in T : IsFiniteSet(t)
  PROVE  \E x \in T : \A y \in T : y \subseteq x => y = x
<1> DEFINE R == StrictSubsetOrdering(Nat)
<1>1. IsWellFoundedOn(R, FiniteSubsetsOf(Nat))
  BY FS_StrictSubsetOrderingWellFounded
<1>2. T \subseteq FiniteSubsetsOf(Nat)
  BY DEF FiniteSubsetsOf
<1>3. \A x, y \in T : y \subseteq x /\ y # x => <<y, x>> \in R
  BY DEF StrictSubsetOrdering
<1> HIDE DEF R
<1>4. PICK x \in T : \A y \in T : ~(<<y, x>> \in R)
  BY <1>1, <1>2, WFMin
<1> QED BY <1>3, <1>4

\* A nonempty set of numbers up to n has a greatest element ...
LEMMA GreatestExists ==
  ASSUME NEW n \in Nat, NEW S \in SUBSET (0 .. n), S # {}
  PROVE  \E x \in S : \A y \in S : x >= y
<1> DEFINE T == {x .. n : x \in S}
<1>1. T \in SUBSET SUBSET Nat /\ T # {}
  <2>1. \A x \in S : x .. n \in SUBSET Nat
    OBVIOUS
  <2>2. PICK x \in S : TRUE
    OBVIOUS
  <2>3. x .. n \in T
    BY <2>2
  <2> QED BY <2>1, <2>3
<1>2. \A t \in T : IsFiniteSet(t)
  BY FS_Interval
<1>3. PICK t \in T : \A u \in T : u \subseteq t => u = t
  <2> HIDE DEF T
  <2> QED BY <1>1, <1>2, Minimal
<1>4. PICK x \in S : t = x .. n
  BY <1>3
<1>5. ASSUME NEW y \in S PROVE x >= y
  <2>1. CASE x < y
    <3>1. y .. n \subseteq x .. n /\ y .. n # x .. n
      BY <2>1
    <3> QED BY <3>1, <1>3, <1>4
  <2> QED BY <2>1
<1> QED BY <1>5

\* ... and every nonempty set of numbers a least one,
LEMMA LeastExists ==
  ASSUME NEW S \in SUBSET Nat, S # {}
  PROVE  \E x \in S : \A y \in S : x <= y
<1> DEFINE T == {0 .. x : x \in S}
<1>1. T \in SUBSET SUBSET Nat /\ T # {}
  <2>1. \A x \in S : 0 .. x \in SUBSET Nat
    OBVIOUS
  <2>2. PICK x \in S : TRUE
    OBVIOUS
  <2>3. 0 .. x \in T
    BY <2>2
  <2> QED BY <2>1, <2>3
<1>2. \A t \in T : IsFiniteSet(t)
  BY FS_Interval
<1>3. PICK t \in T : \A u \in T : u \subseteq t => u = t
  <2> HIDE DEF T
  <2> QED BY <1>1, <1>2, Minimal
<1>4. PICK x \in S : t = 0 .. x
  BY <1>3
<1>5. ASSUME NEW y \in S PROVE x <= y
  <2>1. CASE y < x
    <3>1. 0 .. y \subseteq 0 .. x /\ 0 .. y # 0 .. x
      BY <2>1
    <3> QED BY <3>1, <1>3, <1>4
  <2> QED BY <2>1
<1> QED BY <1>5

\* which Max ...
LEMMA MaxOf ==
  ASSUME NEW n \in Nat, NEW S \in SUBSET (0 .. n), S # {}
  PROVE  Max(S) \in S /\ \A y \in S : Max(S) >= y
<1> \E x \in S : \A y \in S : x >= y
  BY GreatestExists
<1> QED BY DEF Max

\* ... and Min choose.
LEMMA MinOf ==
  ASSUME NEW S \in SUBSET Nat, S # {}
  PROVE  Min(S) \in S /\ \A y \in S : Min(S) <= y
<1> \E x \in S : \A y \in S : x <= y
  BY LeastExists
<1> QED BY DEF Min

-----------------------------------------------------------------------------
(* The newest revision of an entry.                                         *)

HeadOf(l, e) == Max({0} \cup {i \in 1 .. Len(l) : l[i].entry = e})

\* HeadPosition is the head of the log there is, and of the next one.
LEMMA HeadPositions ==
  ASSUME NEW e
  PROVE  /\ HeadPosition(e) = HeadOf(log, e)
         /\ HeadPosition(e)' = HeadOf(log', e)
BY DEF HeadPosition, HeadOf

\* The head is the last position of its entry, or 0.
LEMMA HeadIs ==
  ASSUME NEW l, Len(l) \in Nat, NEW e
  PROVE  /\ HeadOf(l, e) \in 0 .. Len(l)
         /\ HeadOf(l, e) > 0 => l[HeadOf(l, e)].entry = e
         /\ \A j \in 1 .. Len(l) : l[j].entry = e => j <= HeadOf(l, e)
<1> DEFINE S == {0} \cup {i \in 1 .. Len(l) : l[i].entry = e}
<1>1. S \in SUBSET (0 .. Len(l)) /\ S # {}
  OBVIOUS
<1>2. Max(S) \in S /\ \A y \in S : Max(S) >= y
  <2> HIDE DEF S
  <2> QED BY <1>1, MaxOf
<1>3. HeadOf(l, e) = Max(S)
  BY DEF HeadOf
<1>4. HeadOf(l, e) \in S /\ \A y \in S : HeadOf(l, e) >= y
  BY <1>2, <1>3
<1> HIDE DEF HeadOf
<1> QED BY <1>4

\* Nothing else is.
LEMMA HeadUnique ==
  ASSUME NEW l, Len(l) \in Nat, NEW e, NEW h \in 0 .. Len(l),
         h > 0 => l[h].entry = e,
         \A j \in h + 1 .. Len(l) : l[j].entry # e
  PROVE  HeadOf(l, e) = h
<1>1. /\ HeadOf(l, e) \in 0 .. Len(l)
      /\ HeadOf(l, e) > 0 => l[HeadOf(l, e)].entry = e
      /\ \A j \in 1 .. Len(l) : l[j].entry = e => j <= HeadOf(l, e)
  BY HeadIs
<1>2. h <= HeadOf(l, e)
  BY <1>1
<1>3. ~ (h < HeadOf(l, e))
  BY <1>1
<1> QED BY <1>1, <1>2, <1>3

\* The revision of an entry is a number.
LEMMA RevisionType ==
  ASSUME NEW l \in Seq(Log!Revision), NEW e
  PROVE  Log!RevisionAt(l, HeadOf(l, e)) \in Nat
<1>1. HeadOf(l, e) \in 0 .. Len(l)
  BY HeadIs
<1>2. \A i \in 1 .. Len(l) : l[i].rev \in Nat
  <2>1. \A r \in Log!Revision : r.rev \in Nat
    BY DEF Log!Revision
  <2>2. \A i \in 1 .. Len(l) : l[i] \in Log!Revision
    OBVIOUS
  <2> QED BY <2>1, <2>2
<1> QED BY <1>1, <1>2 DEF Log!RevisionAt

\* What an accepted mutation does to the log.
LEMMA Accepted ==
  ASSUME NEW m \in Mutations, NEW e \in Entries, NEW base \in Nat,
         log \in Seq(Log!Revision), Log!Accept(m, e, base, NoMutation)
  PROVE  /\ log' \in Seq(Log!Revision)
         /\ Len(log') = Len(log) + 1
         /\ \A i \in 1 .. Len(log) : log'[i] = log[i]
         /\ log'[Len(log')].entry = e /\ log'[Len(log')].rev = base + 1
         /\ base = CurrentRevision(e) /\ CurrentRevision(e)' = base + 1
         /\ HeadPosition(e)' = Len(log')
         /\ \A f \in Entries : f # e => CurrentRevision(f)' = CurrentRevision(f)
<1> DEFINE r == [mutation |-> m, entry |-> e, rev |-> base + 1, blob |-> NoMutation]
<1>1. r \in Log!Revision
  BY DEF Log!Revision
<1>2. log' = Append(log, r)
  BY DEF Log!Accept
<1>3. r.entry = e /\ r.rev = base + 1
  OBVIOUS
<1> HIDE DEF r
<1>4. /\ log' \in Seq(Log!Revision) /\ Len(log') = Len(log) + 1 /\ Len(log) \in Nat
      /\ \A i \in 1 .. Len(log) : log'[i] = log[i]
      /\ log'[Len(log')] = r
  BY <1>1, <1>2
<1>5. HeadOf(log', e) = Len(log')
  BY <1>3, <1>4, HeadUnique
<1>6. CurrentRevision(e)' = base + 1
  BY <1>3, <1>4, <1>5, HeadPositions DEF CurrentRevision, Log!RevisionAt
<1>7. base = CurrentRevision(e)
  <2>1. PICK i \in 0 .. Len(log) : Log!IsHead(log, e, i) /\ Log!RevisionAt(log, i) = base
    BY DEF Log!Accept
  <2>2. HeadOf(log, e) = i
    BY <2>1, <1>4, HeadUnique DEF Log!IsHead
  <2> QED BY <2>1, <2>2, HeadPositions DEF CurrentRevision
<1>8. ASSUME NEW f \in Entries, f # e PROVE CurrentRevision(f)' = CurrentRevision(f)
  <2>1. /\ HeadOf(log, f) \in 0 .. Len(log)
        /\ HeadOf(log, f) > 0 => log[HeadOf(log, f)].entry = f
        /\ \A j \in 1 .. Len(log) : log[j].entry = f => j <= HeadOf(log, f)
    BY <1>4, HeadIs
  <2>2. HeadOf(log', f) = HeadOf(log, f)
    <3>1. HeadOf(log, f) > 0 => log'[HeadOf(log, f)].entry = f
      BY <1>4, <2>1
    <3>2. \A j \in HeadOf(log, f) + 1 .. Len(log') : log'[j].entry # f
      BY <1>3, <1>4, <1>8, <2>1
    <3> QED BY <1>4, <2>1, <3>1, <3>2, HeadUnique
  <2> QED BY <1>4, <2>1, <2>2, HeadPositions DEF CurrentRevision, Log!RevisionAt
<1> QED BY <1>3, <1>4, <1>5, <1>6, <1>7, <1>8, HeadPositions

\* The head of an entry as the model's operators give it.
LEMMA HeadFacts ==
  ASSUME log \in Seq(Log!Revision), NEW e
  PROVE  /\ HeadPosition(e) \in 0 .. Len(log)
         /\ HeadPosition(e) > 0 => log[HeadPosition(e)].entry = e
         /\ \A j \in 1 .. Len(log) : log[j].entry = e => j <= HeadPosition(e)
         /\ CurrentRevision(e) \in Nat
         /\ CurrentRevision(e) = IF HeadPosition(e) = 0 THEN 0 ELSE log[HeadPosition(e)].rev
<1>1. Len(log) \in Nat
  OBVIOUS
<1> QED BY <1>1, HeadPositions, HeadIs, RevisionType DEF CurrentRevision, Log!RevisionAt

-----------------------------------------------------------------------------
(* A listed page.                                                           *)

\* A page is the front of what is listed, and everything in the range that is
\* not listed has a later revision behind it.
LEMMA PageIs ==
  ASSUME log \in Seq(Log!Revision), NEW since \in Nat, NEW target \in Nat, NEW after \in Nat,
         target <= Len(log), NEW listed, NEW page,
         listed = ListedStates(since, target, after), page = FirstPage(listed)
  PROVE  /\ listed \subseteq after + 1 .. target /\ page \subseteq listed
         /\ \A i \in page, j \in listed : j < i => j \in page
         /\ \A i \in 1 .. target :
              since < i /\ after < i =>
                i \in listed \/ \E j \in i + 1 .. Len(log) : log[j].entry = log[i].entry
<1>1. \A e \in Entries : HeadPosition(e) \in 0 .. Len(log)
  BY HeadFacts
<1>2. listed \subseteq after + 1 .. target
  BY <1>1 DEF ListedStates
<1>3. page \subseteq listed
  BY DEF FirstPage
<1>4. ASSUME NEW i \in page, NEW j \in listed, j < i PROVE j \in page
  <2> DEFINE A == {k \in listed : k < i}
             B == {k \in listed : k < j}
  <2>1. IsFiniteSet(A)
    <3>1. IsFiniteSet(after + 1 .. target)
      BY FS_Interval
    <3>2. A \in SUBSET (after + 1 .. target)
      BY <1>2
    <3> QED BY <3>1, <3>2, FS_Subset
  <2>2. B \in SUBSET A
    BY <1>2, <1>3, <1>4
  <2>3. Cardinality(B) <= Cardinality(A) /\ Cardinality(A) \in Nat /\ Cardinality(B) \in Nat
    <3> HIDE DEF A, B
    <3> QED BY <2>1, <2>2, FS_Subset, FS_CardinalityType
  <2>4. Cardinality(A) < PageSize
    BY <1>4 DEF FirstPage
  <2>5. Cardinality(B) < PageSize
    BY <2>3, <2>4, SizeAssumption
  <2> QED BY <2>5 DEF FirstPage
<1>5. ASSUME NEW i \in 1 .. target, since < i, after < i, i \notin listed
      PROVE  \E j \in i + 1 .. Len(log) : log[j].entry = log[i].entry
  <2>1. i \in 1 .. Len(log) /\ log[i] \in Log!Revision
    OBVIOUS
  <2> DEFINE e == log[i].entry
  <2>2. e \in Entries
    BY <2>1 DEF Log!Revision
  <2>3. HeadPosition(e) \in 0 .. Len(log) /\ i <= HeadPosition(e)
    BY <2>1, HeadFacts
  <2>4. HeadPosition(e) # i
    BY <1>5, <2>2 DEF ListedStates
  <2>5. HeadPosition(e) \in i + 1 .. Len(log)
    BY <2>1, <2>3, <2>4
  <2>6. log[HeadPosition(e)].entry = e
    BY <2>1, <2>3, HeadFacts
  <2> QED BY <2>5, <2>6
<1> QED BY <1>2, <1>3, <1>4, <1>5

-----------------------------------------------------------------------------
(* Every step leads to a state of the right shapes.                         *)

\* What the invariant says of one pull, ...
LEMMA PullFacts ==
  ASSUME IInv, NEW d \in Devices, NEW w \in Pullers
  PROVE  pull[d][w] \in Pull /\ PullOK(d, pull[d][w])
BY DEF IInv, TypeOK, Pulls

\* ... of one push, ...
LEMMA PushFacts ==
  ASSUME IInv, NEW d \in Devices
  PROVE  push[d] \in Push /\ PushOK(d, push[d])
BY DEF IInv, TypeOK, Pushes

\* ... and of one position of the log.
LEMMA LogFacts ==
  ASSUME log \in Seq(Log!Revision), NEW i \in 1 .. Len(log)
  PROVE  /\ log[i] \in Log!Revision
         /\ log[i].entry \in Entries /\ log[i].rev \in Nat /\ log[i].rev >= 1
<1>1. log[i] \in Log!Revision
  OBVIOUS
<1> QED BY <1>1 DEF Log!Revision

\* What listEntryStates answers and sets, in numbers.
ListedAs(d, w, target, listed, page, after) ==
  /\ pull' = [pull EXCEPT ![d][w] =
       [pull[d][w] EXCEPT !.target = target, !.page = page, !.ready = TRUE,
                          !.after = after, !.more = (page # listed)]]
  /\ target = IF pull[d][w].target = 0 THEN Len(log) ELSE pull[d][w].target
  /\ listed = ListedStates(pull[d][w].since, target, pull[d][w].after)
  /\ page = FirstPage(listed)
  /\ after \in {pull[d][w].after} \cup page
  /\ pull[d][w].after <= after /\ \A i \in page : i <= after
  /\ pull[d][w].since <= target

\* A listed page is within the log, and after is its end.
LEMMA Listing ==
  ASSUME IInv, NEW d \in Devices, NEW w \in Pullers, ListEntryStates(d, w)
  PROVE  \E target \in 0 .. Len(log), listed \in SUBSET (1 .. Len(log)),
            page \in SUBSET (1 .. Len(log)), after \in 0 .. Len(log) :
           ListedAs(d, w, target, listed, page, after)
<1> DEFINE p == pull[d][w]
           target == IF p.target = 0 THEN Len(log) ELSE p.target
           listed == ListedStates(p.since, target, p.after)
           page == FirstPage(listed)
           after == Max({p.after} \cup page)
<1>1. p \in Pull /\ PullOK(d, p)
  BY PullFacts
<1>2. log \in Seq(Log!Revision) /\ Len(log) \in Nat
  BY DEF IInv, TypeOK
<1>3. p.since \in Nat /\ p.target \in Nat /\ p.after \in Nat
  BY <1>1 DEF Pull
<1>4. p.target <= Len(log) /\ p.after <= Len(log)
  BY <1>1 DEF PullOK
<1>5. pull' = [pull EXCEPT ![d][w] =
        [p EXCEPT !.target = target, !.page = page, !.ready = TRUE,
                  !.after = after, !.more = (page # listed)]]
  BY DEF ListEntryStates, SetPull
<1>6. p.since <= target
  BY DEF ListEntryStates
<1> HIDE DEF p
<1>7. target \in 0 .. Len(log)
  BY <1>2, <1>3, <1>4
<1>8. listed \subseteq p.after + 1 .. target /\ page \subseteq listed
  <2> HIDE DEF target
  <2> QED BY <1>2, <1>3, <1>7, PageIs
<1>9. listed \in SUBSET (1 .. Len(log)) /\ page \in SUBSET (1 .. Len(log))
  <2> HIDE DEF target, listed, page
  <2> QED BY <1>2, <1>3, <1>7, <1>8
<1>10. /\ after \in 0 .. Len(log) /\ p.after <= after /\ after \in {p.after} \cup page
       /\ \A i \in page : i <= after
  <2> HIDE DEF target, listed, page
  <2> DEFINE S == {p.after} \cup page
  <2>1. S \in SUBSET (0 .. Len(log)) /\ S # {}
    <3>1. p.after \in 0 .. Len(log)
      BY <1>2, <1>3, <1>4
    <3>2. \A i \in page : i \in 0 .. Len(log)
      BY <1>2, <1>9
    <3> HIDE DEF page
    <3> QED BY <3>1, <3>2
  <2>2. Max(S) \in S /\ \A y \in S : Max(S) >= y
    <3> HIDE DEF S
    <3> QED BY <1>2, <2>1, MaxOf
  <2>3. after \in S /\ \A y \in S : after >= y
    BY <2>2
  <2> HIDE DEF after
  <2> QED BY <1>2, <2>1, <2>3
<1> HIDE DEF target, listed, page, after
<1>11. /\ target = IF p.target = 0 THEN Len(log) ELSE p.target
       /\ listed = ListedStates(p.since, target, p.after)
       /\ page = FirstPage(listed)
  BY DEF target, listed, page
<1> USE <1>7, <1>9, <1>10
<1> WITNESS target \in 0 .. Len(log), listed \in SUBSET (1 .. Len(log)),
            page \in SUBSET (1 .. Len(log)), after \in 0 .. Len(log)
<1> QED BY <1>5, <1>6, <1>10, <1>11 DEF p, ListedAs

\* How far an applied window lets the checkpoint go: everything up to there is
\* done, because what is held begins behind it.
LEMMA SafeIs ==
  ASSUME IInv, NEW d \in Devices, NEW w \in Pullers, NEW p, p = pull[d][w],
         p.pc = "applying", p.todo = {}
  PROVE  /\ SafeCheckpoint(p) \in 0 .. Len(log) /\ p.local <= SafeCheckpoint(p)
         /\ Covers(d, SafeCheckpoint(p))
         /\ p.last => Covers(d, p.target)
<1> DEFINE n == Len(log)
<1>1. p \in Pull /\ PullOK(d, p)
  BY PullFacts
<1>2. n \in Nat
  BY DEF IInv, TypeOK
<1>3. /\ p.target \in 0 .. n /\ p.after \in 0 .. n /\ p.local \in 0 .. n
      /\ p.window \subseteq 1 .. n
  BY <1>1, <1>2 DEF Pull, PullOK, WindowOK
<1>4. WindowOK(d, p) /\ AppliedOK(d, p)
  BY <1>1 DEF PullOK
<1> HIDE DEF n
<1>5. p.last => Covers(d, p.target)
  BY <1>3, <1>4 DEF WindowOK, AppliedOK, Covers, Holds
\* What lies before something held, and is not held itself, is done.
<1>6. ASSUME NEW i \in 1 .. n, NEW k \in p.window, i <= k, i \notin p.deferred
      PROVE  Done(d, i)
  <2>1. i \notin p.page
    BY <1>3, <1>4, <1>6 DEF WindowOK
  <2>2. i \in 1 .. p.after
    BY <1>3, <1>4, <1>6 DEF WindowOK
  <2> QED BY <2>1, <2>2, <1>4, <1>6 DEF WindowOK, AppliedOK, Holds
<1>7. CASE p.deferred # {}
  <2> DEFINE k == Min(p.deferred)
             S == {p.local, k - 1}
  <2>1. p.deferred \in SUBSET Nat
    BY <1>1 DEF Pull
  <2>2. k \in p.deferred /\ \A i \in p.deferred : k <= i
    BY <1>7, <2>1, MinOf
  <2>3. k \in p.window
    BY <2>2, <1>4 DEF AppliedOK
  <2> HIDE DEF k
  <2>4. k - 1 \in 0 .. n
    BY <2>3, <1>2, <1>3
  <2>5. Max(S) \in S /\ \A y \in S : Max(S) >= y
    <3>1. S \in SUBSET (0 .. n) /\ S # {}
      BY <2>4, <1>3
    <3> HIDE DEF S
    <3> QED BY <1>2, <3>1, MaxOf
  <2>6. SafeCheckpoint(p) = Max(S)
    BY <1>7 DEF SafeCheckpoint, k
  <2> HIDE DEF S
  <2>7. Max(S) \in {p.local, k - 1} /\ Max(S) >= p.local
    BY <2>5 DEF S
  <2>8. Covers(d, k - 1)
    <3> SUFFICES ASSUME NEW i \in 1 .. k - 1 PROVE Done(d, i)
      BY DEF Covers
    <3>1. i \in 1 .. n /\ i <= k /\ ~ (k <= i)
      BY <1>2, <1>3, <2>3, <2>4
    <3> QED BY <1>6, <2>2, <2>3, <3>1
  <2>9. Covers(d, p.local)
    BY <1>4 DEF WindowOK
  <2> QED BY <1>3, <1>5, <2>4, <2>6, <2>7, <2>8, <2>9 DEF n
<1>8. CASE p.deferred = {} /\ p.last
  <2> DEFINE S == {p.local, p.target}
  <2>1. Max(S) \in S /\ \A y \in S : Max(S) >= y
    <3>1. S \in SUBSET (0 .. n) /\ S # {}
      BY <1>3
    <3> HIDE DEF S
    <3> QED BY <1>2, <3>1, MaxOf
  <2>2. SafeCheckpoint(p) = Max(S)
    BY <1>8 DEF SafeCheckpoint
  <2> HIDE DEF S
  <2>3. Max(S) \in {p.local, p.target} /\ Max(S) >= p.local
    BY <2>1 DEF S
  <2>4. Covers(d, p.local)
    BY <1>4 DEF WindowOK
  <2> QED BY <1>3, <1>5, <1>8, <2>2, <2>3, <2>4 DEF n
<1>9. CASE p.deferred = {} /\ ~p.last
  <2> DEFINE S == {p.local} \cup p.window
  <2>1. Max(S) \in S /\ \A y \in S : Max(S) >= y
    <3>1. S \in SUBSET (0 .. n) /\ S # {}
      <4>1. p.local \in 0 .. n /\ \A i \in p.window : i \in 0 .. n
        BY <1>3
      <4> QED BY <4>1
    <3> HIDE DEF S
    <3> QED BY <1>2, <3>1, MaxOf
  <2>2. SafeCheckpoint(p) = Max(S)
    BY <1>9 DEF SafeCheckpoint
  <2> HIDE DEF S
  <2>3. Max(S) \in {p.local} \cup p.window /\ Max(S) >= p.local
    BY <2>1 DEF S
  <2>4. Covers(d, p.local)
    BY <1>4 DEF WindowOK
  <2>5. ASSUME NEW k \in p.window PROVE Covers(d, k)
    <3> SUFFICES ASSUME NEW i \in 1 .. k PROVE Done(d, i)
      BY DEF Covers
    <3>1. i \in 1 .. n /\ i <= k
      BY <1>2, <1>3
    <3> QED BY <1>6, <1>9, <3>1
  <2>6. Max(S) \in 0 .. n
    BY <1>3, <2>3
  <2> QED BY <1>5, <2>2, <2>3, <2>4, <2>5, <2>6 DEF n
<1> QED BY <1>7, <1>8, <1>9

\* How far the answered commits of a push let it go.
LEMMA ReachedIs ==
  ASSUME IInv, NEW d \in Devices, NEW q, q = push[d]
  PROVE  /\ ContiguousAcceptedCursor(q.start, q.accepted) \in 0 .. Len(log)
         /\ Covers(d, ContiguousAcceptedCursor(q.start, q.accepted))
<1> DEFINE S == {q.start} \cup {i \in q.accepted : i > q.start /\ q.start + 1 .. i \subseteq q.accepted}
<1>1. q \in Push /\ PushOK(d, q)
  BY PushFacts
<1>2. Len(log) \in Nat
  BY DEF IInv, TypeOK
<1>3. q.start \in 0 .. Len(log) /\ Covers(d, q.start)
  BY <1>1, <1>2 DEF Push, PushOK
<1>4. \A i \in q.accepted : i \in 1 .. Len(log) /\ Done(d, i)
  BY <1>1 DEF PushOK
<1>5. Max(S) \in S
  <2>1. S \in SUBSET (0 .. Len(log)) /\ S # {}
    <3>1. \A i \in S : i \in 0 .. Len(log)
      BY <1>2, <1>3, <1>4
    <3>2. q.start \in S
      OBVIOUS
    <3> HIDE DEF S
    <3> QED BY <3>1, <3>2
  <2> HIDE DEF S
  <2> QED BY <1>2, <2>1, MaxOf
<1>6. ContiguousAcceptedCursor(q.start, q.accepted) = Max(S)
  BY DEF ContiguousAcceptedCursor
<1>7. ASSUME NEW k \in S PROVE k \in 0 .. Len(log) /\ Covers(d, k)
  <2>1. CASE k = q.start
    BY <1>3, <2>1
  <2>2. CASE k \in q.accepted /\ q.start + 1 .. k \subseteq q.accepted
    <3>1. k \in 1 .. Len(log)
      BY <1>4, <2>2
    <3>2. ASSUME NEW i \in 1 .. k PROVE Done(d, i)
      <4>1. CASE i \in 1 .. q.start
        BY <1>3, <4>1 DEF Covers
      <4>2. CASE i \in q.start + 1 .. k
        BY <1>4, <2>2, <4>2
      <4> QED BY <1>3, <3>1, <4>1, <4>2
    <3> QED BY <3>1, <3>2 DEF Covers
  <2> QED BY <2>1, <2>2
<1> HIDE DEF S
<1> QED BY <1>5, <1>6, <1>7

-----------------------------------------------------------------------------
(* Every step leads to a state of the right shapes.                         *)

\* The vault's answer, in numbers: the log stays as it is or grows by one, and
\* an accepted answer names a position of the request's entry.
LEMMA Answered ==
  ASSUME IInv, ServerCommit
  PROVE  \E q \in requests :
           /\ requests' \in {requests, requests \ {q}}
           /\ \/ log' = log
              \/ Log!Accept(q.m, q.entry, q.base, NoMutation)
           /\ \/ UNCHANGED push
              \/ /\ push[q.device].pc = "waiting" /\ push[q.device].sent.m = q.m
                 /\ push' = [push EXCEPT ![q.device] =
                      [push[q.device] EXCEPT !.pc = "rejected", !.at = 0]]
              \/ /\ push[q.device].pc = "waiting" /\ push[q.device].sent.m = q.m
                 /\ \E at \in 1 .. Len(log') :
                      /\ log'[at].entry = q.entry
                      /\ push' = [push EXCEPT ![q.device] =
                           [push[q.device] EXCEPT !.pc = "accepted", !.at = at]]
<1>1. log \in Seq(Log!Revision) /\ requests \subseteq Request
  BY DEF IInv, TypeOK
<1>2. PICK q \in requests :
        /\ \/ /\ IsLastOf(q.m, q.entry)
              /\ Reply(q, "accepted", HeadPosition(q.entry))
              /\ UNCHANGED log
           \/ /\ Log!Accept(q.m, q.entry, q.base, NoMutation)
              /\ Reply(q, "accepted", Len(log'))
           \/ /\ ~IsLastOf(q.m, q.entry)
              /\ CurrentRevision(q.entry) # q.base
              /\ Reply(q, "rejected", 0)
              /\ UNCHANGED log
        /\ requests' \in {requests, requests \ {q}}
  BY DEF ServerCommit
<1>3. q.m \in Mutations /\ q.entry \in Entries /\ q.base \in Nat
  BY <1>1 DEF Request
<1>4. CASE IsLastOf(q.m, q.entry) /\ Reply(q, "accepted", HeadPosition(q.entry)) /\ log' = log
  <2>1. HeadPosition(q.entry) \in 1 .. Len(log') /\ log'[HeadPosition(q.entry)].entry = q.entry
    <3>1. HeadPosition(q.entry) # 0
      BY <1>4 DEF IsLastOf
    <3>2. HeadPosition(q.entry) \in 0 .. Len(log) /\ Len(log) \in Nat
      BY <1>1, HeadFacts
    <3>3. HeadPosition(q.entry) > 0 => log[HeadPosition(q.entry)].entry = q.entry
      BY <1>1, HeadFacts
    <3> QED BY <1>4, <3>1, <3>2, <3>3
  <2> QED BY <1>2, <1>4, <2>1 DEF Reply, SetPush
<1>5. CASE Log!Accept(q.m, q.entry, q.base, NoMutation) /\ Reply(q, "accepted", Len(log'))
  <2>1. Len(log') \in 1 .. Len(log') /\ log'[Len(log')].entry = q.entry
    <3>1. Len(log') = Len(log) + 1 /\ log'[Len(log')].entry = q.entry
      BY <1>1, <1>3, <1>5, Accepted
    <3> QED BY <1>1, <3>1
  <2> QED BY <1>2, <1>5, <2>1 DEF Reply, SetPush
<1>6. CASE Reply(q, "rejected", 0) /\ log' = log
  BY <1>2, <1>6 DEF Reply, SetPush
<1> QED BY <1>2, <1>4, <1>5, <1>6

\* The log after a step.
LEMMA LogStep ==
  ASSUME IInv, [Next]_vars
  PROVE  \/ log' = log
         \/ \E m \in Mutations, e \in Entries, base \in Nat :
              Log!Accept(m, e, base, NoMutation)
<1>1. log \in Seq(Log!Revision) /\ requests \subseteq Request
  BY DEF IInv, TypeOK
<1>2. CASE ServerCommit
  <2>1. PICK q \in requests : log' = log \/ Log!Accept(q.m, q.entry, q.base, NoMutation)
    BY <1>2, Answered
  <2>2. q.m \in Mutations /\ q.entry \in Entries /\ q.base \in Nat
    BY <1>1 DEF Request
  <2> QED BY <2>1, <2>2
<1>3. CASE OthersCommit
  <2>1. PICK m \in Mutations \ made, e \in Entries : Log!Accept(m, e, CurrentRevision(e), NoMutation)
    BY <1>3 DEF OthersCommit
  <2>2. CurrentRevision(e) \in Nat
    BY <1>1, HeadFacts
  <2> QED BY <2>1, <2>2
<1>4. CASE UNCHANGED log
  BY <1>4
<1>5. ASSUME NEW d \in Devices, NEW e \in Entries, LocalEdit(d, e) PROVE UNCHANGED log
  BY <1>5 DEF LocalEdit
<1>6. ASSUME NEW d \in Devices, NEW w \in Pullers, PullStep(d, w) PROVE UNCHANGED log
  BY <1>6 DEF PullStep, StartPull, ListEntryStates, TakePage, ApplyState, CheckpointWindow,
              CompareCheckpoint, RaiseCheckpoint, PullFails
<1>7. ASSUME NEW d \in Devices, PushStep(d) PROVE UNCHANGED log
  BY <1>7 DEF PushStep, StartPush, SendCommit, ReceiveAccepted, ReceiveRejected, FinishPush,
              PushFails, StartRecovery, FinishRecovery
<1>8. UNCHANGED vars => UNCHANGED log
  BY DEF vars
<1> QED BY <1>2, <1>3, <1>4, <1>5, <1>6, <1>7, <1>8 DEF Next

\* The log after a step, as far as the rest needs it.
LEMMA LogGrows ==
  ASSUME IInv, [Next]_vars
  PROVE  /\ log' \in Seq(Log!Revision) /\ Len(log) \in Nat /\ Len(log') \in Nat
         /\ Len(log) <= Len(log')
         /\ \A i \in 1 .. Len(log) : log'[i] = log[i]
         /\ \A e \in Entries : CurrentRevision(e) <= CurrentRevision(e)'
<1>1. log \in Seq(Log!Revision)
  BY DEF IInv, TypeOK
<1>2. \A e \in Entries : CurrentRevision(e) \in Nat
  BY <1>1, HeadFacts
<1>3. CASE log' = log
  <2>1. \A e \in Entries : CurrentRevision(e)' = CurrentRevision(e)
    BY <1>3 DEF CurrentRevision, HeadPosition, Log!RevisionAt
  <2> QED BY <1>1, <1>2, <1>3, <2>1
<1>4. CASE log' # log
  <2>1. PICK m \in Mutations, e \in Entries, base \in Nat : Log!Accept(m, e, base, NoMutation)
    BY <1>4, LogStep
  <2>2. /\ log' \in Seq(Log!Revision) /\ Len(log') = Len(log) + 1
        /\ \A i \in 1 .. Len(log) : log'[i] = log[i]
        /\ base = CurrentRevision(e) /\ CurrentRevision(e)' = base + 1
        /\ \A f \in Entries : f # e => CurrentRevision(f)' = CurrentRevision(f)
    BY <1>1, <2>1, Accepted
  <2>3. \A f \in Entries : CurrentRevision(f) <= CurrentRevision(f)'
    BY <1>2, <2>2
  <2> QED BY <1>1, <2>2, <2>3
<1> QED BY <1>3, <1>4

\* A table of tables with one place changed.
LEMMA Changed ==
  ASSUME NEW A, NEW B, NEW C, NEW f \in [A -> [B -> C]], NEW a \in A, NEW b \in B, NEW c \in C
  PROVE  /\ [f EXCEPT ![a][b] = c] \in [A -> [B -> C]]
         /\ \A x \in A, y \in B :
              [f EXCEPT ![a][b] = c][x][y] = IF x = a /\ y = b THEN c ELSE f[x][y]
OBVIOUS

\* A pull step keeps the shapes.
LEMMA PullTypes ==
  ASSUME IInv, NEW d \in Devices, NEW w \in Pullers, PullStep(d, w)
  PROVE  /\ known' \in [Devices -> [Entries -> Nat]] /\ checkpoint' \in [Devices -> Nat]
         /\ pending' \in [Devices -> [Entries -> Edits]] /\ made' \subseteq Mutations
         /\ pull' \in [Devices -> [Pullers -> Pull]]
         /\ UNCHANGED <<requests, push>>
<1> DEFINE p == pull[d][w]
<1> USE DEF SetPull
<1>1. p \in Pull /\ PullOK(d, p)
  BY PullFacts
<1>2. TypeOK /\ EditsNamed
  BY DEF IInv
<1>3. NotPulling \in Pull
  BY DEF NotPulling, Pull
<1>4. ASSUME NEW q \in Pull, pull' = [pull EXCEPT ![d][w] = q]
      PROVE  pull' \in [Devices -> [Pullers -> Pull]]
  BY <1>2, <1>4, Changed DEF TypeOK, EditsNamed
<1>5. CASE StartPull(d, w)
  <2>1. [NotPulling EXCEPT !.pc = "listing", !.since = checkpoint[d],
                           !.local = checkpoint[d], !.more = TRUE] \in Pull
    BY <1>2, <1>3 DEF TypeOK, EditsNamed, Pull
  <2> QED BY <1>2, <1>4, <1>5, <2>1 DEF StartPull, TypeOK, EditsNamed
<1>6. CASE ListEntryStates(d, w)
  <2>1. PICK target \in 0 .. Len(log), listed \in SUBSET (1 .. Len(log)),
             page \in SUBSET (1 .. Len(log)), after \in 0 .. Len(log) :
          ListedAs(d, w, target, listed, page, after)
    BY <1>6, Listing
  <2>2. [p EXCEPT !.target = target, !.page = page, !.ready = TRUE,
                  !.after = after, !.more = (page # listed)] \in Pull
    <3>1. target \in Nat /\ after \in Nat /\ page \in SUBSET Nat
      OBVIOUS
    <3>2. PICK more \in BOOLEAN : more = (page # listed)
      OBVIOUS
    <3>3. [p EXCEPT !.target = target, !.page = page, !.ready = TRUE,
                    !.after = after, !.more = more] \in Pull
      BY <1>1, <3>1 DEF Pull
    <3> QED BY <3>2, <3>3
  <2> QED BY <1>2, <1>4, <1>6, <2>1, <2>2 DEF ListEntryStates, TypeOK, EditsNamed, ListedAs
<1>7. CASE TakePage(d, w)
  <2> DEFINE q == [p EXCEPT !.window = p.window \cup p.page, !.page = {}, !.ready = FALSE]
             r(deferred) == [p EXCEPT !.pc = "applying", !.window = p.window \cup p.page,
                     !.page = {}, !.ready = FALSE, !.last = ~p.more,
                     !.todo = (p.window \cup p.page) \ deferred, !.deferred = deferred]
  <2>1. q \in Pull /\ \A deferred \in SUBSET (p.window \cup p.page) : r(deferred) \in Pull
    BY <1>1 DEF Pull
  <2>2. \/ pull' = [pull EXCEPT ![d][w] = q]
        \/ \E deferred \in SUBSET (p.window \cup p.page) : pull' = [pull EXCEPT ![d][w] = r(deferred)]
    BY <1>7 DEF TakePage
  <2>3. UNCHANGED <<log, requests, known, checkpoint, pending, made, push>>
    BY <1>7 DEF TakePage
  <2> HIDE DEF q, r
  <2> QED BY <1>2, <1>4, <2>1, <2>2, <2>3 DEF TypeOK, EditsNamed
<1>8. CASE ApplyState(d, w)
  <2>1. PICK i \in p.todo :
          /\ pull' = [pull EXCEPT ![d][w] = [p EXCEPT !.todo = @ \ {i}]]
          /\ \/ UNCHANGED <<known, pending, made>>
             \/ /\ known' = [known EXCEPT ![d][log[i].entry] = log[i].rev]
                /\ \/ pending' = [pending EXCEPT ![d][log[i].entry] = NoEdit] /\ UNCHANGED made
                   \/ \E m \in Mutations \ made :
                       /\ made' = made \cup {m}
                       /\ pending' = [pending EXCEPT ![d][log[i].entry] = [m |-> m, base |-> log[i].rev]]
    BY <1>8 DEF ApplyState
  <2>2. i \in 1 .. Len(log)
    BY <1>1 DEF PullOK
  <2>3. log[i].entry \in Entries /\ log[i].rev \in Nat
    BY <1>2, <2>2, LogFacts DEF TypeOK, EditsNamed
  <2>4. [p EXCEPT !.todo = @ \ {i}] \in Pull
    BY <1>1 DEF Pull
  <2>5. pull' \in [Devices -> [Pullers -> Pull]]
    BY <1>4, <2>1, <2>4
  <2>6. known' \in [Devices -> [Entries -> Nat]]
    <3>1. known \in [Devices -> [Entries -> Nat]]
      BY <1>2 DEF TypeOK, EditsNamed
    <3>2. known' = known \/ known' = [known EXCEPT ![d][log[i].entry] = log[i].rev]
      BY <2>1
    <3> QED BY <2>3, <3>1, <3>2
  <2>7. NoEdit \in Edits /\ \A m \in Mutations : [m |-> m, base |-> log[i].rev] \in Edits
    BY <2>3 DEF NoEdit, Edits
  <2>8. pending' \in [Devices -> [Entries -> Edits]] /\ made' \subseteq Mutations
    <3>1. CASE UNCHANGED <<pending, made>>
      BY <1>2, <3>1 DEF TypeOK, EditsNamed
    <3>2. CASE pending' = [pending EXCEPT ![d][log[i].entry] = NoEdit] /\ UNCHANGED made
      BY <1>2, <2>3, <2>7, <3>2, Changed DEF TypeOK, EditsNamed
    <3>3. ASSUME NEW m \in Mutations \ made, made' = made \cup {m},
                 pending' = [pending EXCEPT ![d][log[i].entry] = [m |-> m, base |-> log[i].rev]]
          PROVE  pending' \in [Devices -> [Entries -> Edits]] /\ made' \subseteq Mutations
      <4>1. pending \in [Devices -> [Entries -> Edits]] /\ made \subseteq Mutations
        BY <1>2 DEF TypeOK, EditsNamed
      <4>2. PICK x \in Edits : x = [m |-> m, base |-> log[i].rev]
        BY <2>7
      <4>3. pending' \in [Devices -> [Entries -> Edits]]
        BY <2>3, <3>3, <4>1, <4>2, Changed
      <4> QED BY <3>3, <4>1, <4>3
    <3> QED BY <2>1, <3>1, <3>2, <3>3
  <2> QED BY <1>2, <1>8, <2>5, <2>6, <2>8 DEF ApplyState, TypeOK, EditsNamed
<1>9. CASE CheckpointWindow(d, w)
  <2>1. SafeCheckpoint(p) \in Nat
    <3>1. p.pc = "applying" /\ p.todo = {}
      BY <1>9 DEF CheckpointWindow
    <3>2. SafeCheckpoint(p) \in 0 .. Len(log)
      BY <3>1, SafeIs
    <3> QED BY <3>2
  <2>2. PICK safe \in Nat : safe = SafeCheckpoint(p)
    BY <2>1
  <2>3. [p EXCEPT !.pc = IF p.last THEN "compare" ELSE "listing", !.local = safe,
                  !.window = p.deferred, !.deferred = {}] \in Pull
    BY <1>1 DEF Pull
  <2>4. /\ checkpoint' = [checkpoint EXCEPT ![d] = IF safe > p.local THEN safe ELSE @]
        /\ pull' = [pull EXCEPT ![d][w] = [p EXCEPT !.pc = IF p.last THEN "compare" ELSE "listing",
                       !.local = safe, !.window = p.deferred, !.deferred = {}]]
        /\ UNCHANGED <<log, requests, known, pending, made, push>>
    BY <1>9, <2>2 DEF CheckpointWindow
  <2>5. checkpoint' \in [Devices -> Nat]
    BY <1>2, <2>4 DEF TypeOK, EditsNamed
  <2> QED BY <1>2, <1>4, <2>3, <2>4, <2>5 DEF TypeOK, EditsNamed
<1>10. CASE CompareCheckpoint(d, w)
  <2>1. [p EXCEPT !.pc = "raise"] \in Pull
    BY <1>1 DEF Pull
  <2>2. \/ pull' = [pull EXCEPT ![d][w] = NotPulling]
        \/ pull' = [pull EXCEPT ![d][w] = [p EXCEPT !.pc = "raise"]]
    BY <1>10 DEF CompareCheckpoint
  <2> QED BY <1>2, <1>3, <1>4, <1>10, <2>1, <2>2 DEF CompareCheckpoint, TypeOK, EditsNamed
<1>11. CASE RaiseCheckpoint(d, w)
  <2>1. checkpoint' \in [Devices -> Nat]
    BY <1>1, <1>2, <1>11 DEF RaiseCheckpoint, TypeOK, EditsNamed, Pull
  <2> QED BY <1>2, <1>3, <1>4, <1>11, <2>1 DEF RaiseCheckpoint, TypeOK, EditsNamed
<1>12. CASE PullFails(d, w)
  BY <1>2, <1>3, <1>4, <1>12 DEF PullFails, TypeOK, EditsNamed
<1> QED BY <1>5, <1>6, <1>7, <1>8, <1>9, <1>10, <1>11, <1>12 DEF PullStep

\* A push step keeps them.
LEMMA PushTypes ==
  ASSUME IInv, NEW d \in Devices, PushStep(d)
  PROVE  /\ known' \in [Devices -> [Entries -> Nat]] /\ checkpoint' \in [Devices -> Nat]
         /\ pending' \in [Devices -> [Entries -> Edits]] /\ made' \subseteq Mutations
         /\ pull' \in [Devices -> [Pullers -> Pull]] /\ push' \in [Devices -> Push]
         /\ requests' \subseteq Request
<1> DEFINE q == push[d]
<1> USE DEF SetPush, SetPull
<1>1. q \in Push /\ PushOK(d, q)
  BY PushFacts
<1>2. TypeOK /\ EditsNamed
  BY DEF IInv
<1>3. NotPushing \in Push /\ NotPulling \in Pull
  BY EntryAssumption DEF NotPushing, Push, NotPulling, Pull, Edit, NoEdit
<1>4. ASSUME NEW r \in Push, push' = [push EXCEPT ![d] = r] PROVE push' \in [Devices -> Push]
  BY <1>2, <1>4 DEF TypeOK, EditsNamed
<1>5. ASSUME NEW r \in Pull, pull' = [pull EXCEPT ![d][Drain] = r]
      PROVE  pull' \in [Devices -> [Pullers -> Pull]]
  BY <1>2, <1>5, Changed, PullerAssumption DEF TypeOK, EditsNamed
<1>6. CASE StartPush(d)
  <2>1. [NotPushing EXCEPT !.pc = "ready", !.start = checkpoint[d]] \in Push
    BY <1>2, <1>3 DEF TypeOK, EditsNamed, Push
  <2> QED BY <1>2, <1>4, <1>6, <2>1 DEF StartPush, TypeOK, EditsNamed
<1>7. CASE SendCommit(d)
  <2>1. PICK e \in Entries :
          /\ HasEdit(d, e)
          /\ requests' = requests \cup
               {[device |-> d, entry |-> e, m |-> pending[d][e].m, base |-> pending[d][e].base]}
          /\ push' = [push EXCEPT ![d] = [q EXCEPT !.pc = "waiting", !.entry = e, !.sent = pending[d][e]]]
    BY <1>7 DEF SendCommit
  <2>2. pending[d][e] \in Edit
    BY <1>2 DEF TypeOK
  <2>3. [q EXCEPT !.pc = "waiting", !.entry = e, !.sent = pending[d][e]] \in Push
    BY <1>1, <2>2 DEF Push
  <2>4. pending[d][e].m \in Mutations /\ pending[d][e].base \in Nat
    <3>1. pending[d][e] \in Edits /\ pending[d][e] # NoEdit
      BY <1>2, <2>1 DEF EditsNamed, HasEdit
    <3> QED BY <3>1 DEF Edits
  <2>5. [device |-> d, entry |-> e, m |-> pending[d][e].m, base |-> pending[d][e].base] \in Request
    BY <2>4 DEF Request
  <2> QED BY <1>2, <1>4, <1>7, <2>1, <2>3, <2>5 DEF SendCommit, TypeOK, EditsNamed
<1>8. CASE ReceiveAccepted(d)
  <2>1. q.at \in 1 .. Len(log) /\ log[q.at].entry = q.entry
    BY <1>1, <1>8 DEF PushOK, ReceiveAccepted
  <2>2. log[q.at].rev \in Nat /\ q.entry \in Entries
    BY <1>2, <2>1, LogFacts DEF TypeOK, EditsNamed
  <2>3. [q EXCEPT !.pc = "ready", !.accepted = @ \cup {q.at}] \in Push
    BY <1>1, <2>1 DEF Push
  <2>4. pending[d][q.entry] \in Edits
    BY <1>2, <2>2 DEF EditsNamed
  <2>5. /\ NoEdit \in Edits
        /\ pending[d][q.entry] # NoEdit =>
             [pending[d][q.entry] EXCEPT !.base = log[q.at].rev] \in Edits
    BY <2>2, <2>4 DEF Edits
  <2>6. known' \in [Devices -> [Entries -> Nat]]
    <3>1. known \in [Devices -> [Entries -> Nat]]
      BY <1>2 DEF TypeOK, EditsNamed
    <3>2. known' = known \/ known' = [known EXCEPT ![d][q.entry] = log[q.at].rev]
      BY <1>8 DEF ReceiveAccepted
    <3> QED BY <2>2, <3>1, <3>2
  <2>7. \/ UNCHANGED pending
        \/ pending' = [pending EXCEPT ![d][q.entry] = NoEdit]
        \/ /\ pending[d][q.entry] # NoEdit
           /\ pending' = [pending EXCEPT ![d][q.entry] =
                            [pending[d][q.entry] EXCEPT !.base = log[q.at].rev]]
    BY <1>8 DEF ReceiveAccepted
  <2>8. pending' \in [Devices -> [Entries -> Edits]]
    <3>1. pending \in [Devices -> [Entries -> Edits]]
      BY <1>2 DEF EditsNamed
    <3>2. CASE UNCHANGED pending \/ pending' = [pending EXCEPT ![d][q.entry] = NoEdit]
      BY <2>2, <2>5, <3>1, <3>2
    <3>3. ASSUME NEW x \in Edits, pending' = [pending EXCEPT ![d][q.entry] = x]
          PROVE  pending' \in [Devices -> [Entries -> Edits]]
      BY <2>2, <3>1, <3>3
    <3> QED BY <2>5, <2>7, <3>2, <3>3
  <2>9. push' \in [Devices -> Push]
    BY <1>4, <1>8, <2>3 DEF ReceiveAccepted
  <2> QED BY <1>2, <1>8, <2>6, <2>8, <2>9 DEF ReceiveAccepted, TypeOK, EditsNamed
<1>9. CASE ReceiveRejected(d)
  <2>1. [q EXCEPT !.pc = "ready", !.stale = TRUE] \in Push
    BY <1>1 DEF Push
  <2> QED BY <1>2, <1>4, <1>9, <2>1 DEF ReceiveRejected, TypeOK, EditsNamed
<1>10. CASE FinishPush(d)
  <2>1. PICK reached \in Nat : reached = ContiguousAcceptedCursor(q.start, q.accepted)
    <3>1. ContiguousAcceptedCursor(q.start, q.accepted) \in 0 .. Len(log)
      BY ReachedIs
    <3> QED BY <3>1
  <2>2. checkpoint' = [checkpoint EXCEPT ![d] = IF reached > q.start THEN reached ELSE @]
    BY <1>10, <2>1 DEF FinishPush
  <2>3. checkpoint' \in [Devices -> Nat]
    BY <1>2, <2>2 DEF TypeOK, EditsNamed
  <2> QED BY <1>2, <1>3, <1>4, <1>10, <2>3 DEF FinishPush, TypeOK, EditsNamed
<1>11. CASE PushFails(d)
  BY <1>2, <1>3, <1>4, <1>11 DEF PushFails, TypeOK, EditsNamed
<1>12. CASE StartRecovery(d)
  <2>1. PICK S \in SUBSET {HeadPosition(e) : e \in Entries} :
          pull' = [pull EXCEPT ![d][Drain] = [NotPulling EXCEPT !.pc = "recovering", !.todo = S]]
    BY <1>12 DEF StartRecovery
  <2>2. \A e \in Entries : HeadPosition(e) \in Nat
    <3>1. log \in Seq(Log!Revision)
      BY <1>2 DEF TypeOK, EditsNamed
    <3>2. \A e \in Entries : HeadPosition(e) \in 0 .. Len(log)
      BY <3>1, HeadFacts
    <3> QED BY <3>2
  <2>3. S \in SUBSET Nat
    BY <2>2
  <2>4. [NotPulling EXCEPT !.pc = "recovering", !.todo = S] \in Pull
    BY <1>3, <2>3 DEF Pull
  <2> QED BY <1>2, <1>5, <1>12, <2>1, <2>4 DEF StartRecovery, TypeOK, EditsNamed
<1>13. CASE FinishRecovery(d)
  BY <1>2, <1>3, <1>5, <1>13 DEF FinishRecovery, TypeOK, EditsNamed
<1> QED BY <1>6, <1>7, <1>8, <1>9, <1>10, <1>11, <1>12, <1>13 DEF PushStep

\* Every step keeps the shapes.
LEMMA TypeStep == IInv /\ [Next]_vars => TypeOK' /\ EditsNamed'
<1> SUFFICES ASSUME IInv, [Next]_vars PROVE TypeOK' /\ EditsNamed'
  OBVIOUS
<1>1. TypeOK /\ EditsNamed
  BY DEF IInv
<1>2. log' \in Seq(Log!Revision)
  BY LogGrows
<1>3. SUFFICES /\ known' \in [Devices -> [Entries -> Nat]] /\ checkpoint' \in [Devices -> Nat]
               /\ pending' \in [Devices -> [Entries -> Edits]] /\ made' \subseteq Mutations
               /\ pull' \in [Devices -> [Pullers -> Pull]] /\ push' \in [Devices -> Push]
               /\ requests' \subseteq Request
  <2>1. Edits \subseteq Edit
    BY DEF Edits, Edit, NoEdit
  <2>2. \A f \in [Devices -> [Entries -> Edits]] : f \in [Devices -> [Entries -> Edit]]
    BY <2>1
  <2> QED BY <1>2, <1>3, <2>2 DEF TypeOK, EditsNamed
<1>4. ASSUME NEW d \in Devices, NEW e \in Entries, LocalEdit(d, e)
      PROVE  pending' \in [Devices -> [Entries -> Edits]] /\ made' \subseteq Mutations
  <2>1. PICK m \in Mutations \ made :
          /\ made' = made \cup {m}
          /\ pending' = [pending EXCEPT ![d][e] =
               [m |-> m, base |-> IF pending[d][e] = NoEdit THEN known[d][e]
                                  ELSE pending[d][e].base]]
    BY <1>4 DEF LocalEdit
  <2>2. pending[d][e] \in Edits /\ known[d][e] \in Nat
    BY <1>1 DEF TypeOK, EditsNamed
  <2>3. PICK b \in Nat : b = IF pending[d][e] = NoEdit THEN known[d][e] ELSE pending[d][e].base
    BY <2>2 DEF Edits
  <2>4. PICK x \in Edits : x = [m |-> m, base |-> b]
    BY DEF Edits
  <2>5. pending' = [pending EXCEPT ![d][e] = x]
    BY <2>1, <2>3, <2>4
  <2>6. pending \in [Devices -> [Entries -> Edits]] /\ made \subseteq Mutations
    BY <1>1 DEF TypeOK, EditsNamed
  <2>7. pending' \in [Devices -> [Entries -> Edits]]
    BY <2>5, <2>6
  <2> QED BY <2>1, <2>6, <2>7
<1>5. CASE \E d \in Devices, e \in Entries : LocalEdit(d, e)
  BY <1>1, <1>4, <1>5 DEF LocalEdit, TypeOK, EditsNamed
<1>6. CASE \E d \in Devices, w \in Pullers : PullStep(d, w)
  BY <1>1, <1>6, PullTypes DEF TypeOK
<1>7. CASE \E d \in Devices : PushStep(d)
  BY <1>7, PushTypes
<1>8. CASE ServerCommit
  <2>1. UNCHANGED <<known, checkpoint, pending, made, pull>>
    BY <1>8 DEF ServerCommit
  <2>2. PICK q \in requests :
           /\ requests' \in {requests, requests \ {q}}
           /\ \/ UNCHANGED push
              \/ push' = [push EXCEPT ![q.device] =
                      [push[q.device] EXCEPT !.pc = "rejected", !.at = 0]]
              \/ \E at \in 1 .. Len(log') :
                      push' = [push EXCEPT ![q.device] =
                           [push[q.device] EXCEPT !.pc = "accepted", !.at = at]]
    BY <1>8, Answered
  <2>3. q.device \in Devices /\ push[q.device] \in Push
    BY <1>1 DEF TypeOK, Request
  <2>4. /\ [push[q.device] EXCEPT !.pc = "rejected", !.at = 0] \in Push
        /\ \A at \in Nat : [push[q.device] EXCEPT !.pc = "accepted", !.at = at] \in Push
    BY <2>3 DEF Push
  <2>5. ASSUME NEW x \in Push, push' = [push EXCEPT ![q.device] = x]
        PROVE  push' \in [Devices -> Push]
    BY <1>1, <2>3, <2>5 DEF TypeOK
  <2>6. push' \in [Devices -> Push]
    <3>1. CASE UNCHANGED push
      BY <1>1, <3>1 DEF TypeOK
    <3>2. CASE push' = [push EXCEPT ![q.device] =
                 [push[q.device] EXCEPT !.pc = "rejected", !.at = 0]]
      BY <2>4, <2>5, <3>2
    <3>3. ASSUME NEW at \in 1 .. Len(log'),
                 push' = [push EXCEPT ![q.device] =
                   [push[q.device] EXCEPT !.pc = "accepted", !.at = at]]
          PROVE  push' \in [Devices -> Push]
      <4>1. at \in Nat
        OBVIOUS
      <4> QED BY <2>4, <2>5, <3>3, <4>1
    <3> QED BY <2>2, <3>1, <3>2, <3>3
  <2> QED BY <1>1, <2>1, <2>2, <2>6 DEF TypeOK, EditsNamed
<1>9. CASE OthersCommit
  BY <1>1, <1>9 DEF OthersCommit, TypeOK, EditsNamed
<1>10. CASE UNCHANGED vars
  BY <1>1, <1>10 DEF vars, TypeOK, EditsNamed
<1> QED BY <1>5, <1>6, <1>7, <1>8, <1>9, <1>10 DEF Next

-----------------------------------------------------------------------------
(* What stays.                                                              *)

\* What a device knows of an entry only grows, and so does the log.
Forward ==
  /\ Len(log) <= Len(log') /\ \A i \in 1 .. Len(log) : log'[i] = log[i]
  /\ \A d \in Devices, e \in Entries : known'[d][e] >= known[d][e]

\* A rollback is skipped and a late acknowledgement is ignored, so that known grows.
LEMMA KnownGrows ==
  ASSUME IInv, [Next]_vars
  PROVE  \A d \in Devices, e \in Entries : known'[d][e] >= known[d][e]
<1>1. known \in [Devices -> [Entries -> Nat]] /\ log \in Seq(Log!Revision)
  BY DEF IInv, TypeOK
<1>2. CASE UNCHANGED known
  BY <1>1, <1>2
<1>3. ASSUME NEW d \in Devices, NEW e \in Entries, NEW r \in Nat, r >= known[d][e],
             known' = [known EXCEPT ![d][e] = r]
      PROVE  \A c \in Devices, f \in Entries : known'[c][f] >= known[c][f]
  BY <1>1, <1>3
<1>4. ASSUME NEW d \in Devices, NEW w \in Pullers, ApplyState(d, w)
      PROVE  \A c \in Devices, f \in Entries : known'[c][f] >= known[c][f]
  <2>1. PICK i \in pull[d][w].todo :
          IF IsRollback(d, i) THEN UNCHANGED known
          ELSE known' = [known EXCEPT ![d][log[i].entry] = log[i].rev]
    BY <1>4 DEF ApplyState
  <2>2. i \in 1 .. Len(log)
    BY PullFacts DEF PullOK
  <2>3. log[i].entry \in Entries /\ log[i].rev \in Nat
    BY <1>1, <2>2, LogFacts
  <2>4. IsRollback(d, i) \/ log[i].rev >= known[d][log[i].entry]
    BY <1>1, <2>3 DEF IsRollback
  <2> QED BY <1>2, <1>3, <2>1, <2>3, <2>4
<1>5. ASSUME NEW d \in Devices, ReceiveAccepted(d)
      PROVE  \A c \in Devices, f \in Entries : known'[c][f] >= known[c][f]
  <2>1. push[d].at \in 1 .. Len(log) /\ log[push[d].at].entry = push[d].entry
    BY <1>5, PushFacts DEF PushOK, ReceiveAccepted
  <2>2. push[d].entry \in Entries /\ log[push[d].at].rev \in Nat
    BY <1>1, <2>1, LogFacts
  <2>3. IF known[d][push[d].entry] > log[push[d].at].rev THEN UNCHANGED known
        ELSE known' = [known EXCEPT ![d][push[d].entry] = log[push[d].at].rev]
    BY <1>5 DEF ReceiveAccepted
  <2>4. known[d][push[d].entry] > log[push[d].at].rev
        \/ log[push[d].at].rev >= known[d][push[d].entry]
    BY <1>1, <2>2
  <2> QED BY <1>2, <1>3, <2>2, <2>3, <2>4
<1>6. ASSUME NEW d \in Devices, NEW w \in Pullers, PullStep(d, w)
      PROVE  ApplyState(d, w) \/ UNCHANGED known
  BY <1>6 DEF PullStep, StartPull, ListEntryStates, TakePage, CheckpointWindow,
              CompareCheckpoint, RaiseCheckpoint, PullFails
<1>7. ASSUME NEW d \in Devices, PushStep(d)
      PROVE  ReceiveAccepted(d) \/ UNCHANGED known
  BY <1>7 DEF PushStep, StartPush, SendCommit, ReceiveRejected, FinishPush,
              PushFails, StartRecovery, FinishRecovery
<1>8. ASSUME NEW d \in Devices, NEW e \in Entries, LocalEdit(d, e) PROVE UNCHANGED known
  BY <1>8 DEF LocalEdit
<1>9. ServerCommit \/ OthersCommit \/ UNCHANGED vars => UNCHANGED known
  BY DEF ServerCommit, OthersCommit, vars
<1> QED BY <1>2, <1>4, <1>5, <1>6, <1>7, <1>8, <1>9 DEF Next

\* Both go forward in every step.
LEMMA ForwardStep == IInv /\ [Next]_vars => Forward
BY LogGrows, KnownGrows DEF Forward

\* What is done stays done.
LEMMA DoneStays ==
  ASSUME TypeOK, TypeOK', Forward, NEW d \in Devices, NEW i \in 1 .. Len(log), Done(d, i)
  PROVE  Done(d, i)'
<1>1. /\ Len(log) \in Nat /\ Len(log') \in Nat /\ Len(log) <= Len(log')
      /\ log'[i] = log[i] /\ \A j \in 1 .. Len(log) : log'[j] = log[j]
  BY DEF TypeOK, Forward
<1>2. log[i].entry \in Entries /\ log[i].rev \in Nat
  BY LogFacts DEF TypeOK
<1>3. /\ known[d][log[i].entry] \in Nat /\ known'[d][log[i].entry] \in Nat
      /\ known'[d][log[i].entry] >= known[d][log[i].entry]
  BY <1>2 DEF TypeOK, Forward
<1>4. CASE known[d][log[i].entry] >= log[i].rev
  BY <1>1, <1>2, <1>3, <1>4 DEF Done
<1>5. ASSUME NEW j \in i + 1 .. Len(log), log[j].entry = log[i].entry PROVE Done(d, i)'
  <2>1. j \in i + 1 .. Len(log') /\ log'[j].entry = log'[i].entry
    BY <1>1, <1>5
  <2> QED BY <2>1 DEF Done
<1> QED BY <1>4, <1>5 DEF Done

\* So a covered front of the log stays covered.
LEMMA CoversStays ==
  ASSUME TypeOK, TypeOK', Forward, NEW d \in Devices, NEW n \in 0 .. Len(log), Covers(d, n)
  PROVE  Covers(d, n)'
<1>1. Len(log) \in Nat
  BY DEF TypeOK
<1>2. ASSUME NEW i \in 1 .. n PROVE Done(d, i)'
  BY <1>1, DoneStays DEF Covers
<1> QED BY <1>2 DEF Covers

\* A pull that is not touched stays as it must be, ...
LEMMA PullStays ==
  ASSUME TypeOK, TypeOK', Forward, NEW d \in Devices, NEW p \in Pull, PullOK(d, p)
  PROVE  PullOK(d, p)'
<1>1. Len(log) \in Nat /\ Len(log') \in Nat /\ Len(log) <= Len(log')
  BY DEF TypeOK, Forward
<1>2. /\ p.since \in 0 .. Len(log) /\ p.target \in 0 .. Len(log)
      /\ p.after \in 0 .. Len(log) /\ p.local \in 0 .. Len(log)
  BY <1>1 DEF PullOK, Pull
<1>3. ASSUME NEW n \in 0 .. Len(log), Holds(d, p, n) PROVE Holds(d, p, n)'
  <2>1. ASSUME NEW i \in 1 .. n, Done(d, i) PROVE Done(d, i)'
    BY <1>1, <2>1, DoneStays
  <2> QED BY <1>3, <2>1 DEF Holds
<1>4. ASSUME WindowOK(d, p) PROVE WindowOK(d, p)'
  <2>1. Covers(d, p.local)' /\ Covers(d, p.since)'
    BY <1>2, <1>4, CoversStays DEF WindowOK
  <2>2. Holds(d, p, p.after)' /\ (~p.more => Holds(d, p, p.target)')
    BY <1>2, <1>3, <1>4 DEF WindowOK
  <2> QED BY <1>4, <2>1, <2>2 DEF WindowOK
<1>5. ASSUME WindowOK(d, p), AppliedOK(d, p) PROVE AppliedOK(d, p)'
  <2>1. ASSUME NEW i \in p.window, Done(d, i) PROVE Done(d, i)'
    <3>1. i \in 1 .. Len(log)
      BY <1>1, <1>2, <1>5 DEF WindowOK
    <3> QED BY <2>1, <3>1, DoneStays
  <2> QED BY <1>5, <2>1 DEF AppliedOK
<1>6. p.pc \in {"compare", "raise"} => Covers(d, p.target)'
  BY <1>2, CoversStays DEF PullOK
<1>7. /\ p.since <= Len(log') /\ p.target <= Len(log')
      /\ p.after <= Len(log') /\ p.local <= Len(log')
      /\ p.todo \subseteq 1 .. Len(log')
  <2>1. p.todo \subseteq 1 .. Len(log)
    BY DEF PullOK
  <2> QED BY <1>1, <1>2, <2>1
<1>8. /\ p.pc \in {"listing", "applying"} => WindowOK(d, p)'
      /\ p.pc = "applying" => AppliedOK(d, p)'
  BY <1>4, <1>5 DEF PullOK
<1> QED BY <1>6, <1>7, <1>8 DEF PullOK

\* ... and so does a push.
LEMMA PushStays ==
  ASSUME TypeOK, TypeOK', Forward, NEW d \in Devices, NEW q \in Push, PushOK(d, q)
  PROVE  PushOK(d, q)'
<1>1. Len(log) \in Nat /\ Len(log') \in Nat /\ Len(log) <= Len(log')
  BY DEF TypeOK, Forward
<1>2. q.start \in 0 .. Len(log)
  BY <1>1 DEF PushOK, Push
<1>3. Covers(d, q.start)'
  BY <1>2, CoversStays DEF PushOK
<1>4. ASSUME NEW i \in q.accepted PROVE i \in 1 .. Len(log') /\ Done(d, i)'
  <2>1. i \in 1 .. Len(log) /\ Done(d, i)
    BY DEF PushOK
  <2> QED BY <1>1, <2>1, DoneStays
<1>5. q.pc = "accepted" => q.at \in 1 .. Len(log') /\ log'[q.at].entry = q.entry
  BY <1>1 DEF PushOK, Forward
<1> QED BY <1>1, <1>2, <1>3, <1>4, <1>5 DEF PushOK

-----------------------------------------------------------------------------
(* Nobody is ahead of the vault.                                            *)

\* An accepted revision is the newest of its entry.
LEMMA HeadsStep == IInv /\ [Next]_vars => HeadsAreNewest'
<1> SUFFICES ASSUME IInv, [Next]_vars PROVE HeadsAreNewest'
  OBVIOUS
<1>1. log \in Seq(Log!Revision) /\ HeadsAreNewest
  BY DEF IInv, TypeOK
<1>2. /\ log' \in Seq(Log!Revision) /\ Len(log) \in Nat
      /\ \A i \in 1 .. Len(log) : log'[i] = log[i]
      /\ \A e \in Entries : CurrentRevision(e) <= CurrentRevision(e)'
  BY LogGrows
<1>3. \A e \in Entries : CurrentRevision(e) \in Nat /\ CurrentRevision(e)' \in Nat
  <2>1. \A e : CurrentRevision(e) = Log!RevisionAt(log, HeadOf(log, e))
                /\ CurrentRevision(e)' = Log!RevisionAt(log', HeadOf(log', e))
    BY HeadPositions DEF CurrentRevision, Log!RevisionAt
  <2> QED BY <1>1, <1>2, <2>1, RevisionType
<1>4. ASSUME NEW e \in Entries, NEW i \in 1 .. Len(log), log'[i].entry = e
      PROVE  log'[i].rev <= CurrentRevision(e)'
  <2>1. log[i].rev \in Nat /\ log'[i] = log[i]
    BY <1>1, <1>2, LogFacts
  <2>2. log[i].rev <= CurrentRevision(e)
    BY <1>1, <1>4, <2>1 DEF HeadsAreNewest
  <2>3. log[i].rev <= CurrentRevision(e)'
    BY <1>2, <1>3, <2>1, <2>2
  <2> QED BY <2>1, <2>3
<1>5. CASE log' = log
  BY <1>4, <1>5 DEF HeadsAreNewest
<1>6. CASE log' # log
  <2>1. PICK m \in Mutations, e \in Entries, base \in Nat : Log!Accept(m, e, base, NoMutation)
    BY <1>6, LogStep
  <2>2. /\ Len(log') = Len(log) + 1
        /\ log'[Len(log')].entry = e /\ log'[Len(log')].rev = base + 1
        /\ CurrentRevision(e)' = base + 1
    BY <1>1, <2>1, Accepted
  <2>3. SUFFICES ASSUME NEW f \in Entries, NEW i \in 1 .. Len(log'), log'[i].entry = f
                 PROVE  log'[i].rev <= CurrentRevision(f)'
    BY DEF HeadsAreNewest
  <2>4. CASE i \in 1 .. Len(log)
    BY <1>4, <2>3, <2>4
  <2>5. CASE i = Len(log')
    <3>1. f = e /\ log'[i].rev = base + 1
      BY <2>2, <2>3, <2>5
    <3> QED BY <2>2, <3>1
  <2> QED BY <1>2, <2>2, <2>4, <2>5
<1> QED BY <1>5, <1>6

\* A revision in the log, or one that is known, is at most the newest.
LEMMA BelievedFacts ==
  ASSUME IInv
  PROVE  /\ \A i \in 1 .. Len(log) : log[i].rev <= CurrentRevision(log[i].entry)
         /\ \A d \in Devices, e \in Entries :
              /\ known[d][e] <= CurrentRevision(e) /\ pending[d][e].base <= CurrentRevision(e)
              /\ known[d][e] \in Nat /\ pending[d][e] \in Edit /\ pending[d][e].base \in Nat
         /\ \A e \in Entries : CurrentRevision(e) \in Nat
<1>1. \A e \in Entries : CurrentRevision(e) \in Nat
  BY HeadFacts DEF IInv, TypeOK
<1>2. \A d \in Devices, e \in Entries : pending[d][e] \in Edit /\ known[d][e] \in Nat
  BY DEF IInv, TypeOK
<1>3. \A x \in Edit : x.base \in Nat
  BY DEF Edit
<1>4. ASSUME NEW i \in 1 .. Len(log) PROVE log[i].rev <= CurrentRevision(log[i].entry)
  <2>1. log[i].entry \in Entries
    BY LogFacts DEF IInv, TypeOK
  <2> QED BY <2>1 DEF IInv, HeadsAreNewest
<1> QED BY <1>1, <1>2, <1>3, <1>4 DEF IInv, Believed

\* Where a step changes what is known or pending, it takes a revision that is
\* in the log, or known.
LEMMA BelievedStep == IInv /\ [Next]_vars => Believed'
<1> SUFFICES ASSUME IInv, [Next]_vars PROVE Believed'
  OBVIOUS
<1> DEFINE B(e) == CurrentRevision(e)
<1>1. /\ known \in [Devices -> [Entries -> Nat]] /\ pending \in [Devices -> [Entries -> Edit]]
      /\ log \in Seq(Log!Revision)
  BY DEF IInv, TypeOK
<1>2. \A d \in Devices, e \in Entries :
        /\ known[d][e] <= B(e) /\ pending[d][e].base <= B(e)
        /\ known[d][e] \in Nat /\ pending[d][e] \in Edit /\ pending[d][e].base \in Nat
  BY BelievedFacts
<1>3. \A e \in Entries : B(e) \in Nat
  BY BelievedFacts
<1>4. \A i \in 1 .. Len(log) : /\ log[i].entry \in Entries /\ log[i].rev \in Nat
                               /\ log[i].rev <= B(log[i].entry)
  BY <1>1, LogFacts, BelievedFacts
<1> HIDE DEF B
<1>5. SUFFICES \A d \in Devices, e \in Entries :
                 known'[d][e] <= B(e) /\ pending'[d][e].base <= B(e)
  <2>1. \A e \in Entries : B(e) <= CurrentRevision(e)'
    BY LogGrows DEF B
  <2>2. \A e \in Entries : CurrentRevision(e)' \in Nat
    <3>1. log' \in Seq(Log!Revision)
      BY LogGrows
    <3>2. \A e : CurrentRevision(e)' = Log!RevisionAt(log', HeadOf(log', e))
      BY HeadPositions DEF CurrentRevision, Log!RevisionAt
    <3> QED BY <3>1, <3>2, RevisionType
  <2>3. \A d \in Devices, e \in Entries : known'[d][e] \in Nat /\ pending'[d][e].base \in Nat
    <3>1. TypeOK'
      BY TypeStep
    <3>2. \A x \in Edit : x.base \in Nat
      BY DEF Edit
    <3> QED BY <3>1, <3>2 DEF TypeOK
  <2> QED BY <1>3, <1>5, <2>1, <2>2, <2>3 DEF Believed
<1>6. CASE UNCHANGED <<known, pending>>
  BY <1>2, <1>6
\* One place of known and pending changes.
<1>7. ASSUME NEW d \in Devices, NEW e \in Entries, NEW r \in Nat, r <= B(e),
             known' \in {known, [known EXCEPT ![d][e] = r]},
             NEW x \in Edit, x.base <= B(e),
             pending' \in {pending, [pending EXCEPT ![d][e] = x]}
      PROVE  \A c \in Devices, f \in Entries :
               known'[c][f] <= B(f) /\ pending'[c][f].base <= B(f)
  <2>1. \A c \in Devices, f \in Entries : known'[c][f] <= B(f)
    <3>1. CASE known' = known
      BY <1>2, <3>1
    <3>2. CASE known' = [known EXCEPT ![d][e] = r]
      <4>1. \A c \in Devices, f \in Entries :
              known'[c][f] = IF c = d /\ f = e THEN r ELSE known[c][f]
        BY <1>1, <3>2
      <4> QED BY <1>2, <1>7, <4>1
    <3> QED BY <1>7, <3>1, <3>2
  <2>2. \A c \in Devices, f \in Entries : pending'[c][f] = pending[c][f] \/ (f = e /\ pending'[c][f] = x)
    <3>1. CASE pending' = [pending EXCEPT ![d][e] = x]
      BY <1>1, <3>1
    <3> QED BY <1>7, <3>1
  <2>3. \A c \in Devices, f \in Entries : pending'[c][f].base <= B(f)
    BY <1>2, <1>7, <2>2
  <2> QED BY <2>1, <2>3
<1>8. NoEdit \in Edit /\ NoEdit.base = 0
  BY DEF NoEdit, Edit
<1>9. ASSUME NEW d \in Devices, NEW e \in Entries, LocalEdit(d, e)
      PROVE  \A c \in Devices, f \in Entries :
               known'[c][f] <= B(f) /\ pending'[c][f].base <= B(f)
  <2>1. PICK m \in Mutations :
          /\ pending' = [pending EXCEPT ![d][e] =
               [m |-> m, base |-> IF pending[d][e] = NoEdit THEN known[d][e]
                                  ELSE pending[d][e].base]]
          /\ UNCHANGED known
    BY <1>9 DEF LocalEdit
  <2>2. PICK b \in Nat : /\ b = IF pending[d][e] = NoEdit THEN known[d][e] ELSE pending[d][e].base
                         /\ b <= B(e)
    BY <1>2
  <2>3. PICK x \in Edit : x = [m |-> m, base |-> b]
    BY DEF Edit
  <2>4. pending' = [pending EXCEPT ![d][e] = x] /\ x.base = b
    BY <2>1, <2>2, <2>3
  <2> QED BY <1>7, <2>1, <2>2, <2>3, <2>4
<1>10. ASSUME NEW d \in Devices, NEW w \in Pullers, ApplyState(d, w)
       PROVE  \A c \in Devices, f \in Entries :
                known'[c][f] <= B(f) /\ pending'[c][f].base <= B(f)
  <2>1. PICK i \in pull[d][w].todo :
          \/ UNCHANGED <<known, pending>>
          \/ /\ known' = [known EXCEPT ![d][log[i].entry] = log[i].rev]
             /\ \/ pending' = [pending EXCEPT ![d][log[i].entry] = NoEdit]
                \/ \E m \in Mutations :
                     pending' = [pending EXCEPT ![d][log[i].entry] = [m |-> m, base |-> log[i].rev]]
    BY <1>10 DEF ApplyState
  <2>2. i \in 1 .. Len(log)
    BY PullFacts DEF PullOK
  <2>3. PICK e \in Entries, r \in Nat : e = log[i].entry /\ r = log[i].rev /\ r <= B(e)
    BY <1>4, <2>2
  <2>4. CASE UNCHANGED <<known, pending>>
    BY <1>6, <2>4
  <2>5. CASE /\ known' = [known EXCEPT ![d][e] = r]
             /\ pending' = [pending EXCEPT ![d][e] = NoEdit]
    <3>1. 0 <= B(e)
      BY <1>3
    <3> QED BY <1>7, <1>8, <2>3, <2>5, <3>1
  <2>6. ASSUME NEW m \in Mutations, known' = [known EXCEPT ![d][e] = r],
               pending' = [pending EXCEPT ![d][e] = [m |-> m, base |-> r]]
        PROVE  \A c \in Devices, f \in Entries :
                 known'[c][f] <= B(f) /\ pending'[c][f].base <= B(f)
    <3>1. PICK x \in Edit : x = [m |-> m, base |-> r]
      BY DEF Edit
    <3>2. x.base = r
      BY <3>1
    <3> QED BY <1>7, <2>3, <2>6, <3>1, <3>2
  <2> QED BY <2>1, <2>3, <2>4, <2>5, <2>6
<1>11. ASSUME NEW d \in Devices, ReceiveAccepted(d)
       PROVE  \A c \in Devices, f \in Entries :
                known'[c][f] <= B(f) /\ pending'[c][f].base <= B(f)
  <2>1. push[d].at \in 1 .. Len(log) /\ log[push[d].at].entry = push[d].entry
    BY <1>11, PushFacts DEF PushOK, ReceiveAccepted
  <2>2. PICK e \in Entries, r \in Nat : e = push[d].entry /\ r = log[push[d].at].rev /\ r <= B(e)
    BY <1>4, <2>1
  <2>3. \/ UNCHANGED <<known, pending>>
        \/ /\ known' = [known EXCEPT ![d][e] = r]
           /\ \/ pending' = [pending EXCEPT ![d][e] = NoEdit]
              \/ pending' = [pending EXCEPT ![d][e] = [pending[d][e] EXCEPT !.base = r]]
    BY <1>11, <2>2 DEF ReceiveAccepted
  <2>4. CASE UNCHANGED <<known, pending>>
    BY <1>6, <2>4
  <2>5. CASE /\ known' = [known EXCEPT ![d][e] = r]
             /\ pending' = [pending EXCEPT ![d][e] = NoEdit]
    <3>1. 0 <= B(e)
      BY <1>3
    <3> QED BY <1>7, <1>8, <2>2, <2>5, <3>1
  <2>6. CASE /\ known' = [known EXCEPT ![d][e] = r]
             /\ pending' = [pending EXCEPT ![d][e] = [pending[d][e] EXCEPT !.base = r]]
    <3>1. pending[d][e] \in Edit
      BY <1>1
    <3>2. PICK x \in Edit : x = [pending[d][e] EXCEPT !.base = r]
      BY <3>1 DEF Edit
    <3>3. x.base = r
      BY <3>1, <3>2 DEF Edit
    <3> QED BY <1>7, <2>2, <2>6, <3>2, <3>3
  <2> QED BY <2>3, <2>4, <2>5, <2>6
<1>12. ASSUME NEW d \in Devices, NEW w \in Pullers, PullStep(d, w)
       PROVE  ApplyState(d, w) \/ UNCHANGED <<known, pending>>
  BY <1>12 DEF PullStep, StartPull, ListEntryStates, TakePage, CheckpointWindow,
               CompareCheckpoint, RaiseCheckpoint, PullFails
<1>13. ASSUME NEW d \in Devices, PushStep(d)
       PROVE  ReceiveAccepted(d) \/ UNCHANGED <<known, pending>>
  BY <1>13 DEF PushStep, StartPush, SendCommit, ReceiveRejected, FinishPush,
               PushFails, StartRecovery, FinishRecovery
<1>14. ServerCommit \/ OthersCommit \/ UNCHANGED vars => UNCHANGED <<known, pending>>
  BY DEF ServerCommit, OthersCommit, vars
<1>15. CASE \E d \in Devices, e \in Entries : LocalEdit(d, e)
  BY <1>9, <1>15
<1>16. CASE \E d \in Devices, w \in Pullers : PullStep(d, w)
  BY <1>6, <1>10, <1>12, <1>16
<1>17. CASE \E d \in Devices : PushStep(d)
  BY <1>6, <1>11, <1>13, <1>17
<1> QED BY <1>6, <1>14, <1>15, <1>16, <1>17 DEF Next

-----------------------------------------------------------------------------
(* A mutation id belongs to one entry.                                      *)

\* Nothing gets a name it did not have, ...
NoNewNames ==
  /\ made \subseteq made'
  /\ \A m \in Mutations, d \in Devices, e \in Entries : Names(m, d, e)' => Names(m, d, e)

\* ... but for one new id, which names one entry.
OneNewName ==
  \E n \in Mutations \ made, f \in Entries :
    /\ made' = made \cup {n}
    /\ \A m \in Mutations, d \in Devices, e \in Entries :
         Names(m, d, e)' => Names(m, d, e) \/ (m = n /\ e = f)

\* Either way an id still belongs to one entry.
LEMMA NamesKeep ==
  ASSUME Ownership, NoNewNames \/ OneNewName
  PROVE  Ownership'
<1>1. CASE NoNewNames
  BY <1>1 DEF NoNewNames, Ownership
<1>2. CASE OneNewName
  BY <1>2 DEF OneNewName, Ownership
<1> QED BY <1>1, <1>2

\* Where only a mutation gets a new edit, that edit bears the name.
LEMMA EditNames ==
  ASSUME IInv, UNCHANGED <<requests, push>>,
         NEW d \in Devices, NEW e \in Entries, NEW x \in Edits,
         pending' = [pending EXCEPT ![d][e] = x],
         \/ x = NoEdit /\ made' = made
         \/ x.m \in Mutations \ made /\ made' = made \cup {x.m}
  PROVE  NoNewNames \/ OneNewName
<1>1. pending \in [Devices -> [Entries -> Edits]]
  BY DEF IInv, EditsNamed
<1>2. ASSUME NEW m, NEW c \in Devices, NEW f \in Entries, Names(m, c, f)'
      PROVE  Names(m, c, f) \/ (m = x.m /\ f = e)
  <2>1. pending'[c][f] = IF c = d /\ f = e THEN x ELSE pending[c][f]
    BY <1>1
  <2> QED BY <1>2, <2>1 DEF Names
<1>3. CASE x = NoEdit /\ made' = made
  <2>1. x.m \notin Mutations
    BY <1>3, MutationAssumption DEF NoEdit
  <2> QED BY <1>2, <1>3, <2>1 DEF NoNewNames
<1>4. CASE x.m \in Mutations \ made /\ made' = made \cup {x.m}
  BY <1>2, <1>4 DEF OneNewName
<1> QED BY <1>3, <1>4

\* Edits and rebased merges take ids that are not in use, and nothing else names anew.
LEMMA OwnershipStep == IInv /\ [Next]_vars => Ownership'
<1> SUFFICES ASSUME IInv, [Next]_vars PROVE NoNewNames \/ OneNewName
  BY NamesKeep DEF IInv
<1>1. /\ pending \in [Devices -> [Entries -> Edits]] /\ made \subseteq Mutations
      /\ push \in [Devices -> Push] /\ log \in Seq(Log!Revision) /\ requests \subseteq Request
  BY DEF IInv, TypeOK, EditsNamed
<1>2. ASSUME UNCHANGED <<requests, pending, push>>, made \subseteq made'
      PROVE  NoNewNames
  BY <1>2 DEF NoNewNames, Names
<1>3. NotPushing.sent.m \notin Mutations
  BY MutationAssumption DEF NotPushing, NoEdit
\* A push that leaves what it sent, or forgets it.
<1>4. ASSUME UNCHANGED <<pending, made>>, requests' \subseteq requests,
             NEW d \in Devices, NEW r,
             push' = [push EXCEPT ![d] = r],
             (r.entry = push[d].entry /\ r.sent = push[d].sent) \/ r.sent.m \notin Mutations
      PROVE  NoNewNames
  <2>1. ASSUME NEW m \in Mutations, NEW c \in Devices, NEW f \in Entries, Names(m, c, f)'
        PROVE  Names(m, c, f)
    <3>1. push'[c] = IF c = d THEN r ELSE push[c]
      BY <1>1, <1>4
    <3> QED BY <1>4, <2>1, <3>1 DEF Names
  <2> QED BY <1>4, <2>1 DEF NoNewNames
<1>5. ASSUME NEW d \in Devices, NEW e \in Entries, LocalEdit(d, e) PROVE NoNewNames \/ OneNewName
  <2>1. PICK m \in Mutations \ made :
          /\ made' = made \cup {m}
          /\ pending' = [pending EXCEPT ![d][e] =
               [m |-> m, base |-> IF pending[d][e] = NoEdit THEN known[d][e]
                                  ELSE pending[d][e].base]]
    BY <1>5 DEF LocalEdit
  <2>2. PICK b \in Nat : b = IF pending[d][e] = NoEdit THEN known[d][e] ELSE pending[d][e].base
    BY BelievedFacts
  <2>3. PICK x \in Edits : x = [m |-> m, base |-> b]
    BY DEF Edits
  <2>4. pending' = [pending EXCEPT ![d][e] = x] /\ x.m = m
    BY <2>1, <2>2, <2>3
  <2>5. UNCHANGED <<requests, push>>
    BY <1>5 DEF LocalEdit
  <2>6. x.m \in Mutations \ made /\ made' = made \cup {x.m}
    BY <2>1, <2>4
  <2> QED BY <2>4, <2>5, <2>6, EditNames
<1>6. ASSUME NEW d \in Devices, NEW w \in Pullers, ApplyState(d, w)
      PROVE  NoNewNames \/ OneNewName
  <2>1. PICK i \in pull[d][w].todo :
          \/ UNCHANGED <<pending, made>>
          \/ pending' = [pending EXCEPT ![d][log[i].entry] = NoEdit] /\ UNCHANGED made
          \/ \E m \in Mutations \ made :
               /\ made' = made \cup {m}
               /\ pending' = [pending EXCEPT ![d][log[i].entry] = [m |-> m, base |-> log[i].rev]]
    BY <1>6 DEF ApplyState
  <2>2. i \in 1 .. Len(log)
    BY PullFacts DEF PullOK
  <2>3. PICK e \in Entries, b \in Nat : e = log[i].entry /\ b = log[i].rev
    BY <1>1, <2>2, LogFacts
  <2>4. UNCHANGED <<requests, push>>
    BY <1>6 DEF ApplyState
  <2>5. CASE UNCHANGED <<pending, made>>
    BY <1>2, <2>4, <2>5
  <2>6. CASE pending' = [pending EXCEPT ![d][e] = NoEdit] /\ UNCHANGED made
    <3>1. NoEdit \in Edits
      BY DEF Edits
    <3> QED BY <2>4, <2>6, <3>1, EditNames
  <2>7. ASSUME NEW m \in Mutations \ made, made' = made \cup {m},
               pending' = [pending EXCEPT ![d][e] = [m |-> m, base |-> b]]
        PROVE  NoNewNames \/ OneNewName
    <3>1. PICK x \in Edits : x = [m |-> m, base |-> b]
      BY DEF Edits
    <3>2. x.m = m /\ pending' = [pending EXCEPT ![d][e] = x]
      BY <2>7, <3>1
    <3>3. x.m \in Mutations \ made /\ made' = made \cup {x.m}
      BY <2>7, <3>2
    <3> QED BY <2>4, <3>2, <3>3, EditNames
  <2> QED BY <2>1, <2>3, <2>5, <2>6, <2>7
<1>7. ASSUME NEW d \in Devices, NEW w \in Pullers, PullStep(d, w)
      PROVE  ApplyState(d, w) \/ UNCHANGED <<requests, pending, push, made>>
  BY <1>7 DEF PullStep, StartPull, ListEntryStates, TakePage, CheckpointWindow,
              CompareCheckpoint, RaiseCheckpoint, PullFails
<1>8. ASSUME NEW d \in Devices, PushStep(d) PROVE NoNewNames
  <2> DEFINE q == push[d]
  <2>1. CASE StartPush(d) \/ FinishPush(d) \/ PushFails(d)
    <3>1. PICK r : push' = [push EXCEPT ![d] = r] /\ r.sent = NotPushing.sent
      <4>1. [NotPushing EXCEPT !.pc = "ready", !.start = checkpoint[d]].sent = NotPushing.sent
        BY DEF NotPushing
      <4> QED BY <2>1, <4>1 DEF StartPush, FinishPush, PushFails, SetPush
    <3>2. UNCHANGED <<requests, pending, made>>
      BY <2>1 DEF StartPush, FinishPush, PushFails
    <3> QED BY <1>3, <1>4, <3>1, <3>2
  <2>2. CASE SendCommit(d)
    <3>1. PICK e \in Entries :
            /\ requests' = requests \cup
                 {[device |-> d, entry |-> e, m |-> pending[d][e].m, base |-> pending[d][e].base]}
            /\ push' = [push EXCEPT ![d] = [q EXCEPT !.pc = "waiting", !.entry = e, !.sent = pending[d][e]]]
      BY <2>2 DEF SendCommit, SetPush
    <3>2. UNCHANGED <<pending, made>>
      BY <2>2 DEF SendCommit
    <3>3. q \in Push
      BY <1>1
    <3>4. PICK r : /\ push' = [push EXCEPT ![d] = r]
                   /\ r.entry = e /\ r.sent = pending[d][e]
      <4>1. /\ [q EXCEPT !.pc = "waiting", !.entry = e, !.sent = pending[d][e]].entry = e
            /\ [q EXCEPT !.pc = "waiting", !.entry = e, !.sent = pending[d][e]].sent = pending[d][e]
        BY <3>3 DEF Push
      <4> QED BY <3>1, <4>1
    <3>5. ASSUME NEW m \in Mutations, NEW c \in Devices, NEW f \in Entries, Names(m, c, f)'
          PROVE  Names(m, c, f)
      <4>1. push'[c] = IF c = d THEN r ELSE push[c]
        BY <1>1, <3>4
      <4>2. CASE push'[c].entry = f /\ push'[c].sent.m = m
        BY <3>4, <4>1, <4>2 DEF Names
      <4>3. CASE pending'[c][f].m = m
        BY <3>2, <4>3 DEF Names
      <4>4. ASSUME NEW x \in requests', x.device = c /\ x.entry = f /\ x.m = m
            PROVE  Names(m, c, f)
        <5>1. x \in requests \/ (c = d /\ f = e /\ m = pending[d][e].m)
          BY <3>1, <4>4
        <5> QED BY <4>4, <5>1 DEF Names
      <4> QED BY <3>5, <4>2, <4>3, <4>4 DEF Names
    <3> QED BY <3>2, <3>5 DEF NoNewNames
  <2>3. CASE ReceiveAccepted(d)
    <3>1. q.pc = "accepted" /\ q \in Push
      BY <1>1, <2>3 DEF ReceiveAccepted
    <3>2. PICK r : push' = [push EXCEPT ![d] = r] /\ r.entry = q.entry /\ r.sent = q.sent
      <4>1. /\ [q EXCEPT !.pc = "ready", !.accepted = @ \cup {q.at}].entry = q.entry
            /\ [q EXCEPT !.pc = "ready", !.accepted = @ \cup {q.at}].sent = q.sent
        BY <3>1 DEF Push
      <4> QED BY <2>3, <4>1 DEF ReceiveAccepted, SetPush
    <3>3. UNCHANGED <<requests, made>>
      BY <2>3 DEF ReceiveAccepted
    <3>4. \A c \in Devices, f \in Entries :
            pending'[c][f].m = pending[c][f].m \/ pending'[c][f].m \notin Mutations
      <4>1. q.at \in 1 .. Len(log) /\ log[q.at].entry = q.entry
        BY <3>1, PushFacts DEF PushOK
      <4>2. PICK e \in Entries, b \in Nat : e = q.entry /\ b = log[q.at].rev
        BY <1>1, <4>1, LogFacts
      <4>3. \/ UNCHANGED pending
            \/ pending' = [pending EXCEPT ![d][e] = NoEdit]
            \/ pending' = [pending EXCEPT ![d][e] = [pending[d][e] EXCEPT !.base = b]]
        BY <2>3, <4>2 DEF ReceiveAccepted
      <4>4. CASE pending' = [pending EXCEPT ![d][e] = NoEdit]
        <5>1. \A c \in Devices, f \in Entries :
                pending'[c][f] = IF c = d /\ f = e THEN NoEdit ELSE pending[c][f]
          BY <1>1, <4>4
        <5> QED BY <5>1, MutationAssumption DEF NoEdit
      <4>5. CASE pending' = [pending EXCEPT ![d][e] = [pending[d][e] EXCEPT !.base = b]]
        <5>1. pending[d][e] \in Edit
          BY BelievedFacts
        <5>2. PICK x : x = [pending[d][e] EXCEPT !.base = b]
          OBVIOUS
        <5>3. x.m = pending[d][e].m
          BY <5>1, <5>2 DEF Edit
        <5>4. \A c \in Devices, f \in Entries :
                pending'[c][f] = IF c = d /\ f = e THEN x ELSE pending[c][f]
          BY <1>1, <4>5, <5>2
        <5> QED BY <5>3, <5>4
      <4> QED BY <4>3, <4>4, <4>5
    <3>5. ASSUME NEW m \in Mutations, NEW c \in Devices, NEW f \in Entries, Names(m, c, f)'
          PROVE  Names(m, c, f)
      <4>1. push'[c] = IF c = d THEN r ELSE push[c]
        BY <1>1, <3>2
      <4> QED BY <3>2, <3>3, <3>4, <3>5, <4>1 DEF Names
    <3> QED BY <3>3, <3>5 DEF NoNewNames
  <2>4. CASE ReceiveRejected(d)
    <3>1. PICK r : push' = [push EXCEPT ![d] = r] /\ r.entry = q.entry /\ r.sent = q.sent
      <4>1. /\ [q EXCEPT !.pc = "ready", !.stale = TRUE].entry = q.entry
            /\ [q EXCEPT !.pc = "ready", !.stale = TRUE].sent = q.sent
        BY <1>1 DEF Push
      <4> QED BY <2>4, <4>1 DEF ReceiveRejected, SetPush
    <3>2. UNCHANGED <<requests, pending, made>>
      BY <2>4 DEF ReceiveRejected
    <3> QED BY <1>4, <3>1, <3>2
  <2>5. CASE StartRecovery(d) \/ FinishRecovery(d)
    BY <1>2, <2>5 DEF StartRecovery, FinishRecovery
  <2> QED BY <1>8, <2>1, <2>2, <2>3, <2>4, <2>5 DEF PushStep
<1>9. CASE ServerCommit
  <2>1. UNCHANGED <<pending, made>>
    BY <1>9 DEF ServerCommit
  <2>2. PICK q \in requests :
           /\ requests' \in {requests, requests \ {q}}
           /\ \/ UNCHANGED push
              \/ push' = [push EXCEPT ![q.device] =
                      [push[q.device] EXCEPT !.pc = "rejected", !.at = 0]]
              \/ \E at \in 1 .. Len(log') :
                      push' = [push EXCEPT ![q.device] =
                           [push[q.device] EXCEPT !.pc = "accepted", !.at = at]]
    BY <1>9, Answered
  <2>3. q.device \in Devices /\ push[q.device] \in Push
    BY <1>1 DEF Request
  <2>4. requests' \subseteq requests
    BY <2>2
  <2>5. ASSUME NEW pc, NEW at,
               push' = [push EXCEPT ![q.device] = [push[q.device] EXCEPT !.pc = pc, !.at = at]]
        PROVE  NoNewNames
    <3>1. PICK r : /\ push' = [push EXCEPT ![q.device] = r]
                   /\ r.entry = push[q.device].entry /\ r.sent = push[q.device].sent
      <4>1. /\ [push[q.device] EXCEPT !.pc = pc, !.at = at].entry = push[q.device].entry
            /\ [push[q.device] EXCEPT !.pc = pc, !.at = at].sent = push[q.device].sent
        BY <2>3 DEF Push
      <4> QED BY <2>5, <4>1
    <3> QED BY <1>4, <2>1, <2>3, <2>4, <3>1
  <2>6. CASE UNCHANGED push
    BY <2>1, <2>4, <2>6 DEF NoNewNames, Names
  <2> QED BY <2>2, <2>5, <2>6
<1>10. CASE OthersCommit
  BY <1>2, <1>10 DEF OthersCommit
<1>11. CASE UNCHANGED vars
  BY <1>2, <1>11 DEF vars
<1>12. CASE \E d \in Devices, w \in Pullers : PullStep(d, w)
  BY <1>2, <1>6, <1>7, <1>12
<1> QED BY <1>5, <1>8, <1>9, <1>10, <1>11, <1>12 DEF Next

-----------------------------------------------------------------------------
(* What a pull and a push remember is done.                                 *)

\* What holds of a value holds of the variable that has it in the next state.
LEMMA SamePull ==
  ASSUME NEW d \in Devices, NEW w \in Pullers, NEW p, p = pull'[d][w], PullOK(d, p)'
  PROVE  PullOK(d, pull[d][w])'
BY DEF PullOK, WindowOK, AppliedOK, Covers, Holds, Done

\* The same of a push, ...
LEMMA SamePush ==
  ASSUME NEW d \in Devices, NEW q, q = push'[d], PushOK(d, q)'
  PROVE  PushOK(d, push[d])'
BY DEF PushOK, Covers, Done

\* ... and of a checkpoint.
LEMMA SameCover ==
  ASSUME NEW d \in Devices, NEW n, n = checkpoint'[d], Covers(d, n)'
  PROVE  Covers(d, checkpoint[d])'
BY DEF Covers, Done

\* One pull changes, or none; the others stay as they must be.
LEMMA PullChanges ==
  ASSUME IInv, TypeOK', Forward, NEW d \in Devices, NEW w \in Pullers, NEW q,
         pull' = [pull EXCEPT ![d][w] = q], PullOK(d, q)'
  PROVE  Pulls'
<1> SUFFICES ASSUME NEW c \in Devices, NEW v \in Pullers PROVE PullOK(c, pull[c][v])'
  BY DEF Pulls
<1>1. PICK p : p = pull'[c][v]
  OBVIOUS
<1>2. pull \in [Devices -> [Pullers -> Pull]] /\ TypeOK
  BY DEF IInv, TypeOK
<1>3. p = IF c = d /\ v = w THEN q ELSE pull[c][v]
  BY <1>1, <1>2
<1>4. CASE c = d /\ v = w
  BY <1>1, <1>3, <1>4, SamePull
<1>5. CASE ~(c = d /\ v = w)
  <2>1. p \in Pull /\ PullOK(c, p)
    BY <1>3, <1>5, PullFacts
  <2> QED BY <1>1, <1>2, <2>1, PullStays, SamePull
<1> QED BY <1>4, <1>5

\* No pull changes.
LEMMA PullsKeep ==
  ASSUME IInv, TypeOK', Forward, UNCHANGED pull
  PROVE  Pulls'
<1> SUFFICES ASSUME NEW c \in Devices, NEW v \in Pullers PROVE PullOK(c, pull[c][v])'
  BY DEF Pulls
<1>1. PICK p : p = pull[c][v]
  OBVIOUS
<1>2. p \in Pull /\ PullOK(c, p) /\ TypeOK
  BY <1>1, PullFacts DEF IInv
<1>3. PullOK(c, p)'
  BY <1>2, PullStays
<1> QED BY <1>1, <1>3, SamePull

\* One push changes, and the others stay as they must be.
LEMMA PushChanges ==
  ASSUME IInv, TypeOK', Forward, NEW d \in Devices, NEW q,
         push' = [push EXCEPT ![d] = q], PushOK(d, q)'
  PROVE  Pushes'
<1> SUFFICES ASSUME NEW c \in Devices PROVE PushOK(c, push[c])'
  BY DEF Pushes
<1>1. PICK p : p = push'[c]
  OBVIOUS
<1>2. push \in [Devices -> Push] /\ TypeOK
  BY DEF IInv, TypeOK
<1>3. p = IF c = d THEN q ELSE push[c]
  BY <1>1, <1>2
<1>4. CASE c = d
  BY <1>1, <1>3, <1>4, SamePush
<1>5. CASE c # d
  <2>1. p \in Push /\ PushOK(c, p)
    BY <1>3, <1>5, PushFacts
  <2> QED BY <1>1, <1>2, <2>1, PushStays, SamePush
<1> QED BY <1>4, <1>5

\* No push changes.
LEMMA PushesKeep ==
  ASSUME IInv, TypeOK', Forward, UNCHANGED push
  PROVE  Pushes'
<1> SUFFICES ASSUME NEW c \in Devices PROVE PushOK(c, push[c])'
  BY DEF Pushes
<1>1. PICK p : p = push[c]
  OBVIOUS
<1>2. p \in Push /\ PushOK(c, p) /\ TypeOK
  BY <1>1, PushFacts DEF IInv
<1>3. PushOK(c, p)'
  BY <1>2, PushStays
<1> QED BY <1>1, <1>3, SamePush

\* A pull or a push that has not begun remembers nothing.
LEMMA IdleOK ==
  ASSUME TypeOK, NEW d \in Devices
  PROVE  PullOK(d, NotPulling) /\ PushOK(d, NotPushing)
<1>1. Len(log) \in Nat
  BY DEF TypeOK
<1> QED BY <1>1 DEF NotPulling, NotPushing, PullOK, PushOK, Covers

\* Both are of their shapes.
LEMMA IdleTypes == NotPulling \in Pull /\ NotPushing \in Push
BY EntryAssumption DEF NotPushing, Push, NotPulling, Pull, Edit, NoEdit

\* A pull that moves on without changing the log or what is known need only be
\* what it must be before the step.
LEMMA PullMoves ==
  ASSUME IInv, TypeOK', Forward, NEW d \in Devices, NEW w \in Pullers, NEW q \in Pull,
         pull' = [pull EXCEPT ![d][w] = q], PullOK(d, q)
  PROVE  Pulls'
<1>1. PullOK(d, q)'
  BY PullStays DEF IInv
<1> QED BY <1>1, PullChanges

\* A pull begins at the checkpoint.
LEMMA PullStart ==
  ASSUME IInv, TypeOK', Forward, NEW d \in Devices, NEW w \in Pullers, StartPull(d, w)
  PROVE  Pulls'
<1>1. PICK n \in Nat : n = checkpoint[d]
  BY DEF IInv, TypeOK
<1>2. PICK q : q = [NotPulling EXCEPT !.pc = "listing", !.since = n, !.local = n, !.more = TRUE]
  OBVIOUS
<1>3. q \in Pull /\ pull' = [pull EXCEPT ![d][w] = q]
  BY <1>1, <1>2, IdleTypes DEF StartPull, SetPull, Pull
<1>4. Len(log) \in Nat /\ n <= Len(log) /\ Covers(d, n)
  BY <1>1 DEF IInv, TypeOK, Checkpoints
<1>5. /\ q.pc = "listing" /\ q.since = n /\ q.local = n /\ q.more /\ ~q.ready
      /\ q.target = 0 /\ q.after = 0 /\ q.page = {} /\ q.window = {} /\ q.todo = {}
  BY <1>2 DEF NotPulling
<1>6. WindowOK(d, q)
  BY <1>4, <1>5 DEF WindowOK, Holds
<1>7. PullOK(d, q)
  BY <1>4, <1>5, <1>6 DEF PullOK
<1> QED BY <1>3, <1>7, PullMoves

\* What the page does not list is done.
LEMMA PullLists ==
  ASSUME IInv, TypeOK', Forward, NEW d \in Devices, NEW w \in Pullers, ListEntryStates(d, w)
  PROVE  Pulls'
<1>1. PICK p \in Pull : p = pull[d][w] /\ PullOK(d, p)
  BY PullFacts
<1>2. log \in Seq(Log!Revision) /\ Len(log) \in Nat
  BY DEF IInv, TypeOK
<1>3. PICK target \in 0 .. Len(log), listed \in SUBSET (1 .. Len(log)),
           page \in SUBSET (1 .. Len(log)), after \in 0 .. Len(log) :
        ListedAs(d, w, target, listed, page, after)
  BY Listing
<1>4. PICK more \in BOOLEAN : more = (page # listed)
  OBVIOUS
<1>5. PICK q : q = [p EXCEPT !.target = target, !.page = page, !.ready = TRUE,
                             !.after = after, !.more = more]
  OBVIOUS
<1>6. pull' = [pull EXCEPT ![d][w] = q]
  BY <1>1, <1>3, <1>4, <1>5 DEF ListedAs
<1>7. /\ p.pc \in {"listing", "applying"} /\ p.more /\ ~p.ready
  BY <1>1 DEF ListEntryStates
<1>8. WindowOK(d, p)
  BY <1>1, <1>7 DEF PullOK
<1>9. /\ q.pc = p.pc /\ q.since = p.since /\ q.local = p.local /\ q.window = p.window
      /\ q.todo = p.todo /\ q.deferred = p.deferred /\ q.last = p.last
      /\ q.target = target /\ q.page = page /\ q.ready /\ q.after = after /\ q.more = more
  BY <1>1, <1>4, <1>5 DEF Pull
<1>10. /\ listed = ListedStates(p.since, target, p.after) /\ page = FirstPage(listed)
       /\ after \in {p.after} \cup page /\ p.after <= after
       /\ (\A i \in page : i <= after) /\ p.since <= target
  BY <1>1, <1>3 DEF ListedAs
<1>11. p.since \in 0 .. Len(log) /\ p.after \in 0 .. Len(log) /\ p.local \in 0 .. Len(log)
  BY <1>1, <1>2 DEF Pull, PullOK
<1>12. /\ listed \subseteq p.after + 1 .. target /\ page \subseteq listed
       /\ \A i \in page, j \in listed : j < i => j \in page
       /\ \A i \in 1 .. target :
            p.since < i /\ p.after < i =>
              i \in listed \/ \E j \in i + 1 .. Len(log) : log[j].entry = log[i].entry
  <2>1. p.since \in Nat /\ p.after \in Nat /\ target \in Nat /\ target <= Len(log)
    BY <1>2, <1>11
  <2> QED BY <1>2, <1>10, <2>1, PageIs
\* What lies up to the end of the listed range is done, held, or listed.
<1>13. ASSUME NEW i \in 1 .. target PROVE Done(d, i) \/ i \in p.window \/ i \in listed
  <2>1. CASE i <= p.since
    <3>1. i \in 1 .. p.since
      BY <1>11, <2>1
    <3> QED BY <1>8, <3>1 DEF WindowOK, Covers
  <2>2. CASE i <= p.after
    <3>1. i \in 1 .. p.after
      BY <1>11, <2>2
    <3>2. p.page = {}
      BY <1>7, <1>8 DEF WindowOK
    <3> QED BY <1>8, <3>1, <3>2 DEF WindowOK, Holds
  <2>3. CASE p.since < i /\ p.after < i
    BY <1>12, <2>3 DEF Done
  <2> QED BY <1>11, <2>1, <2>2, <2>3
<1>14. ASSUME NEW i \in 1 .. after PROVE Done(d, i) \/ i \in p.window \/ i \in page
  <2>1. CASE i <= p.after
    <3>1. i \in 1 .. p.after
      BY <1>11, <2>1
    <3>2. p.page = {}
      BY <1>7, <1>8 DEF WindowOK
    <3> QED BY <1>8, <3>1, <3>2 DEF WindowOK, Holds
  <2>2. CASE p.after < i
    <3>1. after \in page
      BY <1>10, <1>11, <2>2
    <3>2. after \in listed /\ after <= target
      BY <1>12, <3>1
    <3>3. i \in 1 .. target
      BY <3>2
    <3>4. i \in listed => i \in page
      <4>1. i = after \/ i < after
        OBVIOUS
      <4> QED BY <1>12, <3>1, <4>1
    <3> QED BY <1>13, <3>3, <3>4
  <2> QED BY <1>11, <2>1, <2>2
<1>15. Holds(d, q, q.after)
  BY <1>9, <1>14 DEF Holds
<1>16. ~q.more => Holds(d, q, q.target)
  BY <1>4, <1>9, <1>13 DEF Holds
<1>17. q.window \subseteq 1 .. q.after /\ q.page \subseteq 1 .. q.after
  <2>1. p.window \subseteq 1 .. p.after
    BY <1>8 DEF WindowOK
  <2>2. \A i \in p.window : i \in 1 .. after
    BY <1>10, <1>11, <2>1
  <2>3. \A i \in page : i \in 1 .. after
    BY <1>10
  <2> QED BY <1>9, <2>2, <2>3
<1>18. ASSUME NEW i \in q.window, NEW j \in q.page PROVE i < j
  <2>1. i \in 1 .. p.after
    BY <1>8, <1>9 DEF WindowOK
  <2>2. j \in p.after + 1 .. target
    BY <1>9, <1>12
  <2> QED BY <1>11, <2>1, <2>2
<1>19. WindowOK(d, q)
  BY <1>8, <1>9, <1>15, <1>16, <1>17, <1>18 DEF WindowOK
<1>20. q.pc = "applying" => AppliedOK(d, q)
  BY <1>1, <1>7, <1>9 DEF PullOK, AppliedOK
<1>21. q \in Pull
  <2>1. target \in Nat /\ after \in Nat /\ page \in SUBSET Nat
    OBVIOUS
  <2> QED BY <1>1, <1>5, <2>1 DEF Pull
<1>22. PullOK(d, q)
  BY <1>1, <1>7, <1>9, <1>11, <1>19, <1>20 DEF PullOK
<1> QED BY <1>6, <1>21, <1>22, PullMoves

\* The page joins the window; what is deferred stays in it.
LEMMA PullTakes ==
  ASSUME IInv, TypeOK', Forward, NEW d \in Devices, NEW w \in Pullers, TakePage(d, w)
  PROVE  Pulls'
<1>1. PICK p \in Pull : p = pull[d][w] /\ PullOK(d, p)
  BY PullFacts
<1>2. p.pc = "listing" /\ WindowOK(d, p)
  BY <1>1 DEF TakePage, PullOK
<1>3. Len(log) \in Nat
  BY DEF IInv, TypeOK
<1>4. PICK window : window = p.window \cup p.page
  OBVIOUS
<1>5. p.after \in 0 .. Len(log) /\ window \subseteq 1 .. p.after /\ window \in SUBSET Nat
  BY <1>1, <1>2, <1>3, <1>4 DEF PullOK, WindowOK, Pull
\* The page is now part of the window; nothing else of it changes.
<1>6. ASSUME NEW q, q.since = p.since, q.local = p.local, q.target = p.target,
             q.after = p.after, q.more = p.more, q.window = window, q.page = {}, ~q.ready
      PROVE  WindowOK(d, q)
  <2>1. \A n : Holds(d, p, n) => Holds(d, q, n)
    BY <1>4, <1>6 DEF Holds
  <2> QED BY <1>2, <1>5, <1>6, <2>1 DEF WindowOK
<1>7. CASE pull' = [pull EXCEPT ![d][w] = [p EXCEPT !.window = window, !.page = {}, !.ready = FALSE]]
  <2>1. PICK q : q = [p EXCEPT !.window = window, !.page = {}, !.ready = FALSE]
    OBVIOUS
  <2>2. q \in Pull
    BY <1>1, <1>5, <2>1 DEF Pull
  <2>3. /\ q.pc = p.pc /\ q.since = p.since /\ q.local = p.local /\ q.target = p.target
        /\ q.after = p.after /\ q.more = p.more /\ q.window = window /\ q.page = {} /\ ~q.ready
        /\ q.todo = p.todo
    BY <1>1, <2>1 DEF Pull
  <2>4. PullOK(d, q)
    BY <1>1, <1>2, <1>6, <2>3 DEF PullOK
  <2> QED BY <1>7, <2>1, <2>2, <2>4, PullMoves
<1>8. ASSUME NEW deferred \in SUBSET window, ~p.more => deferred = {},
             pull' = [pull EXCEPT ![d][w] = [p EXCEPT !.pc = "applying", !.window = window,
                     !.page = {}, !.ready = FALSE, !.last = ~p.more,
                     !.todo = window \ deferred, !.deferred = deferred]]
      PROVE  Pulls'
  <2>1. PICK last \in BOOLEAN : last = ~p.more
    OBVIOUS
  <2>2. PICK q : q = [p EXCEPT !.pc = "applying", !.window = window,
                     !.page = {}, !.ready = FALSE, !.last = last,
                     !.todo = window \ deferred, !.deferred = deferred]
    OBVIOUS
  <2>3. q \in Pull
    BY <1>1, <1>5, <2>2 DEF Pull
  <2>4. /\ q.pc = "applying" /\ q.since = p.since /\ q.local = p.local /\ q.target = p.target
        /\ q.after = p.after /\ q.more = p.more /\ q.window = window /\ q.page = {} /\ ~q.ready
        /\ q.todo = window \ deferred /\ q.deferred = deferred /\ q.last = last
    BY <1>1, <2>2 DEF Pull
  <2>5. AppliedOK(d, q)
    BY <1>8, <2>1, <2>4 DEF AppliedOK
  <2>6. q.todo \subseteq 1 .. Len(log)
    BY <1>3, <1>5, <2>4
  <2>7. PullOK(d, q)
    BY <1>1, <1>6, <2>4, <2>5, <2>6 DEF PullOK
  <2> QED BY <1>8, <2>1, <2>2, <2>3, <2>7, PullMoves
<1> QED BY <1>1, <1>4, <1>7, <1>8 DEF TakePage, SetPull

\* Known now reaches the revision at the applied position.
LEMMA PullApplies ==
  ASSUME IInv, TypeOK', Forward, NEW d \in Devices, NEW w \in Pullers, ApplyState(d, w)
  PROVE  Pulls'
<1>1. PICK p \in Pull : p = pull[d][w] /\ PullOK(d, p)
  BY PullFacts
<1>2. PICK i \in p.todo :
        /\ pull' = [pull EXCEPT ![d][w] = [p EXCEPT !.todo = @ \ {i}]]
        /\ IF IsRollback(d, i) THEN UNCHANGED known
           ELSE known' = [known EXCEPT ![d][log[i].entry] = log[i].rev]
  BY <1>1 DEF ApplyState, SetPull
<1>3. log' = log /\ log \in Seq(Log!Revision)
  BY DEF ApplyState, IInv, TypeOK
<1>4. i \in 1 .. Len(log)
  BY <1>1 DEF PullOK
<1>5. log[i].entry \in Entries /\ log[i].rev \in Nat
  BY <1>3, <1>4, LogFacts
<1>6. Done(d, i)'
  <2>1. known \in [Devices -> [Entries -> Nat]]
    BY DEF IInv, TypeOK
  <2>2. known'[d][log[i].entry] >= log[i].rev
    <3>1. CASE IsRollback(d, i)
      BY <1>2, <1>5, <2>1, <3>1 DEF IsRollback
    <3>2. CASE ~IsRollback(d, i)
      BY <1>2, <1>5, <2>1, <3>2
    <3> QED BY <3>1, <3>2
  <2> QED BY <1>3, <2>2 DEF Done
<1>7. PullOK(d, p)'
  BY <1>1, PullStays DEF IInv
<1>8. PICK q : q = [p EXCEPT !.todo = @ \ {i}]
  OBVIOUS
<1>9. /\ q.pc = p.pc /\ q.since = p.since /\ q.local = p.local /\ q.target = p.target
      /\ q.after = p.after /\ q.more = p.more /\ q.window = p.window /\ q.page = p.page
      /\ q.ready = p.ready /\ q.last = p.last /\ q.deferred = p.deferred
      /\ q.todo = p.todo \ {i}
  BY <1>1, <1>8 DEF Pull
<1>10. WindowOK(d, p)' => WindowOK(d, q)'
  <2>1. \A n : Holds(d, p, n)' => Holds(d, q, n)'
    BY <1>9 DEF Holds
  <2> QED BY <1>9, <2>1 DEF WindowOK
<1>11. AppliedOK(d, p)' => AppliedOK(d, q)'
  BY <1>6, <1>9 DEF AppliedOK
<1>12. q.pc \in {"compare", "raise"} => Covers(d, q.target)'
  BY <1>7, <1>9 DEF PullOK
<1>13. PullOK(d, q)'
  <2>1. /\ q.since <= Len(log') /\ q.target <= Len(log')
        /\ q.after <= Len(log') /\ q.local <= Len(log')
        /\ q.todo \subseteq 1 .. Len(log')
    BY <1>7, <1>9 DEF PullOK
  <2>2. /\ p.pc \in {"listing", "applying"} => WindowOK(d, p)'
        /\ p.pc = "applying" => AppliedOK(d, p)'
    BY <1>7 DEF PullOK
  <2> QED BY <1>9, <1>10, <1>11, <1>12, <2>1, <2>2 DEF PullOK
<1> QED BY <1>2, <1>8, <1>13, PullChanges

\* What was deferred is all that is still held.
LEMMA PullCheckpoints ==
  ASSUME IInv, TypeOK', Forward, NEW d \in Devices, NEW w \in Pullers, CheckpointWindow(d, w)
  PROVE  Pulls'
<1>1. PICK p \in Pull : p = pull[d][w] /\ PullOK(d, p)
  BY PullFacts
<1>2. p.pc = "applying" /\ p.todo = {} /\ WindowOK(d, p) /\ AppliedOK(d, p)
  BY <1>1 DEF CheckpointWindow, PullOK
<1>3. Len(log) \in Nat
  BY DEF IInv, TypeOK
<1>4. /\ SafeCheckpoint(p) \in 0 .. Len(log)
      /\ Covers(d, SafeCheckpoint(p))
      /\ p.last => Covers(d, p.target)
  BY <1>1, <1>2, SafeIs
<1>5. PICK safe \in 0 .. Len(log) : safe = SafeCheckpoint(p)
  BY <1>4
<1>6. PICK pc : pc = IF p.last THEN "compare" ELSE "listing"
  OBVIOUS
<1>7. PICK q : q = [p EXCEPT !.pc = pc, !.local = safe, !.window = p.deferred, !.deferred = {}]
  OBVIOUS
<1>8. q \in Pull /\ pull' = [pull EXCEPT ![d][w] = q]
  <2>1. safe \in Nat
    BY <1>3
  <2>2. pc \in {"listing", "compare"}
    BY <1>6
  <2>3. p.deferred \in SUBSET Nat
    BY <1>1 DEF Pull
  <2>4. q \in Pull
    BY <1>1, <1>7, <2>1, <2>2, <2>3 DEF Pull
  <2>5. pull' = [pull EXCEPT ![d][w] =
                  [p EXCEPT !.pc = pc, !.local = safe, !.window = p.deferred, !.deferred = {}]]
    BY <1>1, <1>5, <1>6 DEF CheckpointWindow, SetPull
  <2> QED BY <1>7, <2>4, <2>5
<1>9. /\ q.pc = pc /\ q.since = p.since /\ q.local = safe /\ q.target = p.target
      /\ q.after = p.after /\ q.more = p.more /\ q.window = p.deferred /\ q.page = p.page
      /\ q.ready = p.ready /\ q.todo = {}
  BY <1>1, <1>2, <1>7 DEF Pull
<1>10. WindowOK(d, q)
  <2>1. ASSUME NEW n, n <= p.after \/ n <= p.target, Holds(d, p, n) PROVE Holds(d, q, n)
    BY <1>2, <1>9, <2>1 DEF Holds, AppliedOK
  <2>2. Holds(d, q, q.after) /\ (~q.more => Holds(d, q, q.target))
    <3>1. p.after <= p.after /\ p.target <= p.target
      BY <1>1 DEF Pull
    <3> QED BY <1>2, <1>9, <2>1, <3>1 DEF WindowOK
  <2> QED BY <1>2, <1>4, <1>5, <1>9, <2>2 DEF WindowOK, AppliedOK
<1>11. PullOK(d, q)
  BY <1>1, <1>3, <1>4, <1>6, <1>9, <1>10 DEF PullOK
<1> QED BY <1>8, <1>11, PullMoves

\* Every step keeps what the pulls remember, ...
LEMMA PullsStep ==
  ASSUME IInv, [Next]_vars
  PROVE  Pulls'
<1>1. TypeOK /\ TypeOK' /\ Forward
  BY TypeStep, ForwardStep DEF IInv
<1>2. \A d \in Devices : PullOK(d, NotPulling)
  BY <1>1, IdleOK
<1>3. ASSUME NEW d \in Devices, NEW w \in Pullers, PullStep(d, w) PROVE Pulls'
  <2>1. PICK p \in Pull : p = pull[d][w] /\ PullOK(d, p)
    BY PullFacts
  <2>2. CASE pull' = [pull EXCEPT ![d][w] = NotPulling]
    BY <1>1, <1>2, <2>2, IdleTypes, PullMoves
  <2>3. CASE CompareCheckpoint(d, w)
    <3>1. PICK q : q = [p EXCEPT !.pc = "raise"]
      OBVIOUS
    <3>2. /\ q \in Pull /\ q.since = p.since /\ q.target = p.target /\ q.after = p.after
          /\ q.local = p.local /\ q.todo = p.todo /\ q.pc = "raise" /\ p.pc = "compare"
      BY <2>1, <2>3, <3>1 DEF Pull, CompareCheckpoint
    <3>3. PullOK(d, q)
      BY <2>1, <3>2 DEF PullOK
    <3>4. \/ pull' = [pull EXCEPT ![d][w] = NotPulling]
          \/ pull' = [pull EXCEPT ![d][w] = q]
      BY <2>1, <2>3, <3>1 DEF CompareCheckpoint, SetPull
    <3> QED BY <1>1, <2>2, <3>2, <3>3, <3>4, PullMoves
  <2>4. CASE RaiseCheckpoint(d, w) \/ PullFails(d, w)
    BY <2>2, <2>4 DEF RaiseCheckpoint, PullFails, SetPull
  <2> QED BY <1>1, <1>3, <2>3, <2>4, PullStart, PullLists, PullTakes, PullApplies, PullCheckpoints
          DEF PullStep
<1>4. ASSUME NEW d \in Devices, StartRecovery(d) PROVE Pulls'
  <2>1. PICK S \in SUBSET {HeadPosition(e) : e \in Entries} :
          /\ 0 \notin S
          /\ pull' = [pull EXCEPT ![d][Drain] = [NotPulling EXCEPT !.pc = "recovering", !.todo = S]]
    BY <1>4 DEF StartRecovery, SetPull
  <2>2. \A e \in Entries : HeadPosition(e) \in 0 .. Len(log)
    BY HeadFacts DEF IInv, TypeOK
  <2>3. Len(log) \in Nat
    BY <1>1 DEF TypeOK
  <2>4. \A i \in S : i \in 1 .. Len(log)
    BY <2>1, <2>2, <2>3
  <2>5. PICK q : q = [NotPulling EXCEPT !.pc = "recovering", !.todo = S]
    OBVIOUS
  <2>6. /\ q.pc = "recovering" /\ q.since = 0 /\ q.target = 0 /\ q.after = 0
        /\ q.local = 0 /\ q.todo = S
    BY <2>5 DEF NotPulling
  <2>7. q \in Pull
    <3>1. S \in SUBSET Nat
      BY <2>4
    <3> QED BY <2>5, <3>1, IdleTypes DEF Pull
  <2>8. PullOK(d, q)
    BY <2>3, <2>4, <2>6 DEF PullOK
  <2> QED BY <1>1, <2>1, <2>5, <2>7, <2>8, PullMoves, PullerAssumption
<1>5. ASSUME NEW d \in Devices, FinishRecovery(d) PROVE Pulls'
  <2>1. pull' = [pull EXCEPT ![d][Drain] = NotPulling]
    BY <1>5 DEF FinishRecovery, SetPull
  <2> QED BY <1>1, <1>2, <2>1, IdleTypes, PullMoves, PullerAssumption
<1>6. ASSUME NEW d \in Devices, PushStep(d)
      PROVE  StartRecovery(d) \/ FinishRecovery(d) \/ UNCHANGED pull
  BY <1>6 DEF PushStep, StartPush, SendCommit, ReceiveAccepted, ReceiveRejected, FinishPush, PushFails
<1>7. CASE UNCHANGED pull
  BY <1>1, <1>7, PullsKeep
<1>8. CASE (\E d \in Devices, e \in Entries : LocalEdit(d, e)) \/ ServerCommit \/ OthersCommit
           \/ UNCHANGED vars
  BY <1>7, <1>8 DEF LocalEdit, ServerCommit, OthersCommit, vars
<1> QED BY <1>3, <1>4, <1>5, <1>6, <1>7, <1>8 DEF Next

\* A push that moves on, like PullMoves.
LEMMA PushMoves ==
  ASSUME IInv, TypeOK', Forward, NEW d \in Devices, NEW q \in Push,
         push' = [push EXCEPT ![d] = q], PushOK(d, q)
  PROVE  Pushes'
<1>1. PushOK(d, q)'
  BY PushStays DEF IInv
<1> QED BY <1>1, PushChanges

\* ... and what the pushes remember.
LEMMA PushesStep ==
  ASSUME IInv, [Next]_vars
  PROVE  Pushes'
<1> USE DEF SetPush
<1>1. TypeOK /\ TypeOK' /\ Forward /\ log \in Seq(Log!Revision) /\ Len(log) \in Nat
  BY TypeStep, ForwardStep DEF IInv, TypeOK
<1>2. CASE UNCHANGED push
  BY <1>1, <1>2, PushesKeep
<1>3. ASSUME NEW d \in Devices, push' = [push EXCEPT ![d] = NotPushing] PROVE Pushes'
  BY <1>1, <1>3, IdleOK, IdleTypes, PushMoves
<1>4. ASSUME NEW d \in Devices, StartPush(d) PROVE Pushes'
  <2>1. PICK n \in Nat : n = checkpoint[d]
    BY <1>1 DEF TypeOK
  <2>2. n <= Len(log) /\ Covers(d, n)
    BY <2>1 DEF IInv, Checkpoints
  <2>3. PICK q : q = [NotPushing EXCEPT !.pc = "ready", !.start = n]
    OBVIOUS
  <2>4. q.pc = "ready" /\ q.start = n /\ q.accepted = {}
    BY <2>3 DEF NotPushing
  <2>5. q \in Push
    BY <2>3, IdleTypes DEF Push
  <2>6. PushOK(d, q)
    BY <2>2, <2>4 DEF PushOK
  <2>7. push' = [push EXCEPT ![d] = q]
    BY <1>4, <2>1, <2>3 DEF StartPush
  <2> QED BY <1>1, <2>5, <2>6, <2>7, PushMoves
<1>5. ASSUME NEW d \in Devices, SendCommit(d) PROVE Pushes'
  <2>1. PICK p \in Push : p = push[d] /\ PushOK(d, p)
    BY PushFacts
  <2>2. PICK e \in Entries :
          push' = [push EXCEPT ![d] = [p EXCEPT !.pc = "waiting", !.entry = e, !.sent = pending[d][e]]]
    BY <1>5, <2>1 DEF SendCommit
  <2>3. PICK x \in Edit : x = pending[d][e]
    BY BelievedFacts
  <2>4. PICK q : q = [p EXCEPT !.pc = "waiting", !.entry = e, !.sent = x]
    OBVIOUS
  <2>5. q \in Push /\ q.pc = "waiting" /\ q.start = p.start /\ q.accepted = p.accepted
    BY <2>1, <2>4 DEF Push
  <2>6. PushOK(d, q)
    BY <2>1, <2>5 DEF PushOK
  <2> QED BY <1>1, <2>2, <2>3, <2>4, <2>5, <2>6, PushMoves
\* Known reaches the accepted revision, or has passed it.
<1>6. ASSUME NEW d \in Devices, ReceiveAccepted(d) PROVE Pushes'
  <2>1. PICK p \in Push : p = push[d] /\ PushOK(d, p)
    BY PushFacts
  <2>2. p.at \in 1 .. Len(log) /\ log[p.at].entry = p.entry
    BY <1>6, <2>1 DEF PushOK, ReceiveAccepted
  <2>3. PICK e \in Entries, r \in Nat : e = p.entry /\ r = log[p.at].rev
    BY <1>1, <2>2, LogFacts
  <2>4. /\ log' = log
        /\ IF known[d][e] > r THEN UNCHANGED known ELSE known' = [known EXCEPT ![d][e] = r]
        /\ push' = [push EXCEPT ![d] = [p EXCEPT !.pc = "ready", !.accepted = @ \cup {p.at}]]
    BY <1>6, <2>1, <2>3 DEF ReceiveAccepted
  <2>5. Done(d, p.at)'
    <3>1. known \in [Devices -> [Entries -> Nat]]
      BY <1>1 DEF TypeOK
    <3>2. known'[d][e] >= r
      <4>1. CASE known[d][e] > r
        BY <2>4, <3>1, <4>1
      <4>2. CASE ~(known[d][e] > r)
        BY <2>4, <3>1, <4>2
      <4> QED BY <4>1, <4>2
    <3> QED BY <2>2, <2>3, <2>4, <3>2 DEF Done
  <2>6. PushOK(d, p)'
    BY <1>1, <2>1, PushStays
  <2>7. PICK q : q = [p EXCEPT !.pc = "ready", !.accepted = @ \cup {p.at}]
    OBVIOUS
  <2>8. q.pc = "ready" /\ q.start = p.start /\ q.accepted = p.accepted \cup {p.at}
    BY <2>1, <2>7 DEF Push
  <2>9. PushOK(d, q)'
    BY <2>2, <2>4, <2>5, <2>6, <2>8 DEF PushOK
  <2> QED BY <1>1, <2>4, <2>7, <2>9, PushChanges
<1>7. ASSUME NEW d \in Devices, ReceiveRejected(d) PROVE Pushes'
  <2>1. PICK p \in Push : p = push[d] /\ PushOK(d, p)
    BY PushFacts
  <2>2. PICK q : q = [p EXCEPT !.pc = "ready", !.stale = TRUE]
    OBVIOUS
  <2>3. q \in Push /\ q.pc = "ready" /\ q.start = p.start /\ q.accepted = p.accepted
    BY <2>1, <2>2 DEF Push
  <2>4. PushOK(d, q)
    BY <2>1, <2>3 DEF PushOK
  <2>5. push' = [push EXCEPT ![d] = q]
    BY <1>7, <2>1, <2>2 DEF ReceiveRejected
  <2> QED BY <1>1, <2>3, <2>4, <2>5, PushMoves
<1>8. ASSUME NEW d \in Devices, PushStep(d) PROVE Pushes'
  <2>1. CASE FinishPush(d) \/ PushFails(d)
    BY <1>3, <2>1 DEF FinishPush, PushFails
  <2>2. CASE StartRecovery(d) \/ FinishRecovery(d)
    BY <1>2, <2>2 DEF StartRecovery, FinishRecovery
  <2> QED BY <1>4, <1>5, <1>6, <1>7, <1>8, <2>1, <2>2 DEF PushStep
\* An answer reaches the push that sent the mutation, and so is of its entry.
<1>9. ASSUME ServerCommit PROVE Pushes'
  <2>1. PICK q \in requests :
          \/ UNCHANGED push
          \/ /\ push[q.device].pc = "waiting" /\ push[q.device].sent.m = q.m
             /\ push' = [push EXCEPT ![q.device] =
                  [push[q.device] EXCEPT !.pc = "rejected", !.at = 0]]
          \/ /\ push[q.device].pc = "waiting" /\ push[q.device].sent.m = q.m
             /\ \E at \in 1 .. Len(log') :
                  /\ log'[at].entry = q.entry
                  /\ push' = [push EXCEPT ![q.device] =
                       [push[q.device] EXCEPT !.pc = "accepted", !.at = at]]
    BY <1>9, Answered
  <2>2. q.device \in Devices /\ q.entry \in Entries /\ q.m \in Mutations
    BY <1>1 DEF TypeOK, Request
  <2>3. PICK d \in Devices : d = q.device
    BY <2>2
  <2>4. PICK p \in Push : p = push[d] /\ PushOK(d, p)
    BY PushFacts
  <2>5. CASE push' = [push EXCEPT ![d] = [p EXCEPT !.pc = "rejected", !.at = 0]]
    <3>1. PICK r : r = [p EXCEPT !.pc = "rejected", !.at = 0]
      OBVIOUS
    <3>2. r \in Push /\ r.pc = "rejected" /\ r.start = p.start /\ r.accepted = p.accepted
      BY <2>4, <3>1 DEF Push
    <3>3. PushOK(d, r)
      BY <2>4, <3>2 DEF PushOK
    <3> QED BY <1>1, <2>5, <3>1, <3>2, <3>3, PushMoves
  <2>6. ASSUME p.sent.m = q.m, NEW at \in 1 .. Len(log'), log'[at].entry = q.entry,
               push' = [push EXCEPT ![d] = [p EXCEPT !.pc = "accepted", !.at = at]]
        PROVE  Pushes'
    <3>1. p.entry = q.entry
      <4>1. Names(q.m, d, p.entry)
        BY <2>4, <2>6 DEF Names
      <4>2. Names(q.m, d, q.entry)
        BY <2>3 DEF Names
      <4>3. p.entry \in Entries
        BY <2>4 DEF Push
      <4> QED BY <2>2, <4>1, <4>2, <4>3 DEF IInv, Ownership
    <3>2. PICK r : r = [p EXCEPT !.pc = "accepted", !.at = at]
      OBVIOUS
    <3>3. /\ r.pc = "accepted" /\ r.start = p.start /\ r.accepted = p.accepted
          /\ r.at = at /\ r.entry = p.entry
      BY <2>4, <3>2 DEF Push
    <3>4. PushOK(d, p)'
      BY <1>1, <2>4, PushStays
    <3>5. PushOK(d, r)'
      BY <2>6, <3>1, <3>3, <3>4 DEF PushOK
    <3> QED BY <1>1, <2>6, <3>2, <3>5, PushChanges
  <2> QED BY <1>2, <2>1, <2>3, <2>4, <2>5, <2>6
<1>10. CASE (\E d \in Devices, e \in Entries : LocalEdit(d, e))
            \/ (\E d \in Devices, w \in Pullers : PullStep(d, w)) \/ OthersCommit \/ UNCHANGED vars
  <2>1. ASSUME NEW d \in Devices, NEW w \in Pullers, PullStep(d, w) PROVE UNCHANGED push
    BY <2>1 DEF PullStep, StartPull, ListEntryStates, TakePage, ApplyState, CheckpointWindow,
                CompareCheckpoint, RaiseCheckpoint, PullFails
  <2> QED BY <1>2, <1>10, <2>1 DEF LocalEdit, OthersCommit, vars
<1> QED BY <1>8, <1>9, <1>10 DEF Next

-----------------------------------------------------------------------------
(* The checkpoint is only moved to where everything is done.                *)

\* A checkpoint set to a covered position covers.
LEMMA CheckpointMoves ==
  ASSUME IInv, TypeOK', Forward, NEW d \in Devices, NEW n \in 0 .. Len(log), Covers(d, n),
         checkpoint' \in {checkpoint, [checkpoint EXCEPT ![d] = n]}
  PROVE  Checkpoints'
<1>1. TypeOK /\ Checkpoints /\ Len(log) \in Nat /\ Len(log') \in Nat /\ Len(log) <= Len(log')
  BY DEF IInv, TypeOK, Forward
<1> SUFFICES ASSUME NEW c \in Devices
             PROVE  checkpoint'[c] <= Len(log') /\ Covers(c, checkpoint[c])'
  BY DEF Checkpoints
<1>2. PICK k \in Nat : k = checkpoint'[c]
  BY DEF TypeOK
<1>3. k = checkpoint[c] \/ (c = d /\ k = n)
  BY <1>1, <1>2 DEF TypeOK
<1>4. k \in 0 .. Len(log) /\ Covers(c, k)
  BY <1>1, <1>3 DEF Checkpoints
<1>5. Covers(c, k)'
  BY <1>1, <1>4, CoversStays
<1> QED BY <1>1, <1>2, <1>4, <1>5, SameCover

\* Windows, the end of a pull and the end of a push set no other.
LEMMA CheckpointsStep ==
  ASSUME IInv, [Next]_vars
  PROVE  Checkpoints'
<1>1. TypeOK /\ TypeOK' /\ Forward /\ Len(log) \in Nat
  BY TypeStep, ForwardStep DEF IInv, TypeOK
<1>2. ASSUME UNCHANGED checkpoint PROVE Checkpoints'
  <2> SUFFICES ASSUME NEW d \in Devices
               PROVE  checkpoint'[d] <= Len(log') /\ Covers(d, checkpoint[d])'
    BY DEF Checkpoints
  <2>1. Covers(d, 0) /\ 0 \in 0 .. Len(log)
    BY <1>1 DEF Covers
  <2>2. Checkpoints'
    BY <1>1, <1>2, <2>1, CheckpointMoves
  <2> QED BY <2>2 DEF Checkpoints
<1>3. ASSUME NEW d \in Devices, NEW w \in Pullers, CheckpointWindow(d, w) PROVE Checkpoints'
  <2>1. PICK p \in Pull : p = pull[d][w]
    BY PullFacts
  <2>2. p.pc = "applying" /\ p.todo = {}
    BY <1>3, <2>1 DEF CheckpointWindow
  <2>3. PICK safe \in 0 .. Len(log) : safe = SafeCheckpoint(p) /\ Covers(d, safe)
    BY <2>1, <2>2, SafeIs
  <2>4. checkpoint' = [checkpoint EXCEPT ![d] = IF safe > p.local THEN safe ELSE @]
    BY <1>3, <2>1, <2>3 DEF CheckpointWindow
  <2>5. checkpoint' \in {checkpoint, [checkpoint EXCEPT ![d] = safe]}
    BY <1>1, <2>4 DEF TypeOK
  <2> QED BY <1>1, <2>3, <2>5, CheckpointMoves
<1>4. ASSUME NEW d \in Devices, NEW w \in Pullers, RaiseCheckpoint(d, w) PROVE Checkpoints'
  <2>1. PICK p \in Pull : p = pull[d][w] /\ PullOK(d, p)
    BY PullFacts
  <2>2. p.pc = "raise" /\ checkpoint' = [checkpoint EXCEPT ![d] = p.target]
    BY <1>4, <2>1 DEF RaiseCheckpoint
  <2>3. PICK n \in 0 .. Len(log) : n = p.target /\ Covers(d, n)
    BY <1>1, <2>1, <2>2 DEF Pull, PullOK
  <2> QED BY <1>1, <2>2, <2>3, CheckpointMoves
<1>5. ASSUME NEW d \in Devices, FinishPush(d) PROVE Checkpoints'
  <2>1. PICK q : q = push[d]
    OBVIOUS
  <2>2. PICK reached \in 0 .. Len(log) :
          /\ reached = ContiguousAcceptedCursor(q.start, q.accepted)
          /\ Covers(d, reached)
    BY <2>1, ReachedIs
  <2>3. checkpoint' = [checkpoint EXCEPT ![d] = IF reached > q.start THEN reached ELSE @]
    BY <1>5, <2>1, <2>2 DEF FinishPush
  <2>4. checkpoint' \in {checkpoint, [checkpoint EXCEPT ![d] = reached]}
    BY <1>1, <2>3 DEF TypeOK
  <2> QED BY <1>1, <2>2, <2>4, CheckpointMoves
<1>6. ASSUME NEW d \in Devices, NEW w \in Pullers, PullStep(d, w)
      PROVE  CheckpointWindow(d, w) \/ RaiseCheckpoint(d, w) \/ UNCHANGED checkpoint
  BY <1>6 DEF PullStep, StartPull, ListEntryStates, TakePage, ApplyState, CompareCheckpoint, PullFails
<1>7. ASSUME NEW d \in Devices, PushStep(d) PROVE FinishPush(d) \/ UNCHANGED checkpoint
  BY <1>7 DEF PushStep, StartPush, SendCommit, ReceiveAccepted, ReceiveRejected,
              PushFails, StartRecovery, FinishRecovery
<1>8. CASE (\E d \in Devices, e \in Entries : LocalEdit(d, e)) \/ ServerCommit \/ OthersCommit
           \/ UNCHANGED vars
  BY <1>2, <1>8 DEF LocalEdit, ServerCommit, OthersCommit, vars
<1> QED BY <1>2, <1>3, <1>4, <1>5, <1>6, <1>7, <1>8 DEF Next

-----------------------------------------------------------------------------
(* The theorems.                                                            *)

\* At first nothing is known and nothing runs.
LEMMA InitInv == Init => IInv
<1> SUFFICES ASSUME Init PROVE IInv
  OBVIOUS
<1> USE DEF Init
<1>1. log = << >> /\ Len(log) = 0 /\ log \in Seq(Log!Revision)
  BY DEF Log!Init
<1>2. NoEdit \in Edits /\ NoEdit \in Edit /\ NoEdit.base = 0 /\ NoEdit.m \notin Mutations
  BY MutationAssumption DEF NoEdit, Edit, Edits
<1>3. TypeOK
  BY <1>1, <1>2, IdleTypes DEF TypeOK
<1>4. EditsNamed
  BY <1>2 DEF EditsNamed
<1>5. HeadsAreNewest
  BY <1>1 DEF HeadsAreNewest
<1>6. Checkpoints
  BY <1>1 DEF Checkpoints, Covers
<1>7. Believed
  <2>1. \A e \in Entries : CurrentRevision(e) \in Nat
    BY <1>1, HeadFacts
  <2>2. \A d \in Devices, e \in Entries : known[d][e] = 0 /\ pending[d][e].base = 0
    BY <1>2
  <2> QED BY <2>1, <2>2 DEF Believed
<1>8. Pulls
  <2>1. \A d \in Devices, w \in Pullers : pull[d][w] = NotPulling
    OBVIOUS
  <2> QED BY <1>3, <2>1, IdleOK DEF Pulls
<1>9. Pushes
  <2>1. \A d \in Devices : push[d] = NotPushing
    OBVIOUS
  <2> QED BY <1>3, <2>1, IdleOK DEF Pushes
<1>10. Ownership
  <2>1. \A d \in Devices, e \in Entries : pending[d][e] = NoEdit
    OBVIOUS
  <2>2. \A d \in Devices : push[d].sent = NoEdit
    BY DEF NotPushing
  <2> QED BY <1>2, <2>1, <2>2 DEF Ownership, Names
<1> QED BY <1>3, <1>4, <1>5, <1>6, <1>7, <1>8, <1>9, <1>10 DEF IInv

\* The invariant is inductive.
LEMMA NextInv == IInv /\ [Next]_vars => IInv'
BY TypeStep, HeadsStep, CheckpointsStep, BelievedStep, PullsStep, PushesStep, OwnershipStep
   DEF IInv

\* So it always holds.
LEMMA Inductive == Spec => []IInv
<1> QED BY InitInv, NextInv, PTL DEF Spec

(* The devices, their loops and the requests under way keep to their shapes, *)
(* however many devices, pullers and requests there are (pullOnce,           *)
(* pushPendingMutations).                                                    *)
THEOREM CheckpointTypeCorrect == Spec => []TypeOK
<1>1. IInv => TypeOK
  BY DEF IInv
<1> QED BY <1>1, Inductive, PTL

(* A device has every entry state its checkpoint covers, whatever pulls and  *)
(* pushes overlap, fail, or are answered late (checkpointAppliedWindow, the  *)
(* end of pullOnce, getContiguousAcceptedCursor).                            *)
THEOREM NothingSkipped == Spec => []CheckpointGapFree
<1>1. IInv => CheckpointGapFree
  <2> SUFFICES ASSUME IInv, NEW d \in Devices, NEW e \in Entries, HeadPosition(e) <= checkpoint[d]
               PROVE  known[d][e] >= CurrentRevision(e)
    BY DEF CheckpointGapFree
  <2> DEFINE h == HeadPosition(e)
  <2>1. log \in Seq(Log!Revision) /\ known[d][e] \in Nat /\ checkpoint[d] \in Nat
    BY DEF IInv, TypeOK
  <2>2. /\ h \in 0 .. Len(log) /\ (h > 0 => log[h].entry = e)
        /\ \A j \in 1 .. Len(log) : log[j].entry = e => j <= h
        /\ CurrentRevision(e) = IF h = 0 THEN 0 ELSE log[h].rev
    BY <2>1, HeadFacts
  <2>3. h <= checkpoint[d]
    OBVIOUS
  <2> HIDE DEF h
  <2>4. CASE h = 0
    BY <2>1, <2>2, <2>4
  <2>5. CASE h > 0
    <3>1. Done(d, h)
      <4>1. h \in 1 .. checkpoint[d]
        BY <2>1, <2>2, <2>3, <2>5
      <4> QED BY <4>1 DEF IInv, Checkpoints, Covers
    <3>2. ~ \E j \in h + 1 .. Len(log) : log[j].entry = log[h].entry
      BY <2>1, <2>2, <2>5
    <3> QED BY <2>2, <2>5, <3>1, <3>2 DEF Done
  <2> QED BY <2>2, <2>4, <2>5
<1> QED BY <1>1, Inductive, PTL

(* No device believes in a cursor or a revision the vault has not reached,   *)
(* so that none is refused for good (cursor_ahead_of_server,                 *)
(* handleLocalAheadConflict).                                                *)
THEOREM NobodyAhead == Spec => []NeverAheadOfServer
<1>1. IInv => NeverAheadOfServer
  BY DEF IInv, Checkpoints, Believed, NeverAheadOfServer
<1> QED BY <1>1, Inductive, PTL

(* A late acknowledgement or an overtaken page never takes a device back to  *)
(* an older revision (applyAcceptedPushToEntry, the rollback check of pulls). *)
THEOREM KnownOnlyGrows == Spec => KnownNeverRollsBack
<1>1. IInv /\ [Next]_vars =>
        [\A d \in Devices, e \in Entries : known'[d][e] >= known[d][e]]_vars
  BY KnownGrows
<1> QED BY <1>1, Inductive, PTL DEF Spec, KnownNeverRollsBack
====

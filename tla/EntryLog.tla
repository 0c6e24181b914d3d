------------------------------- MODULE EntryLog -------------------------------
(***************************************************************************)
(* What the coordinator of one vault promises to its clients, with nothing *)
(* of how it is stored: the vault is an append-only log of revisions.  The *)
(* position of a revision in the log is its sync cursor (updated_seq).  A  *)
(* mutation enters the log at most once, and only on top of the revision   *)
(* it was based on (optimistic concurrency per entry).                     *)
(***************************************************************************)
EXTENDS Naturals, Sequences

CONSTANTS Entries,    \* entry ids of the vault
          Mutations,  \* mutation ids, chosen by clients (and by restores)
          Blobs,      \* blob ids
          NoBlob      \* the blob of a tombstone

VARIABLE log          \* the accepted revisions, in cursor order

Revision == [mutation : Mutations, entry : Entries, rev : Nat \ {0},
             blob : Blobs \cup {NoBlob}]

\* i is the position of the newest revision of e; 0 when e has none.
IsHead(l, e, i) ==
  /\ i \in 0 .. Len(l)
  /\ i > 0 => l[i].entry = e
  /\ \A j \in i + 1 .. Len(l) : l[j].entry # e

RevisionAt(l, i) == IF i = 0 THEN 0 ELSE l[i].rev

InLog(l, m) == \E i \in 1 .. Len(l) : l[i].mutation = m

Init == log = << >>

\* Mutation m, based on revision `base` of e, is accepted as the next cursor.
Accept(m, e, base, b) ==
  /\ ~InLog(log, m)
  /\ \E i \in 0 .. Len(log) : IsHead(log, e, i) /\ RevisionAt(log, i) = base
  /\ log' = Append(log, [mutation |-> m, entry |-> e, rev |-> base + 1, blob |-> b])

Next == \E m \in Mutations, e \in Entries, b \in Blobs \cup {NoBlob}, base \in 0 .. Len(log) :
          Accept(m, e, base, b)

Spec == Init /\ [][Next]_log

-----------------------------------------------------------------------------
TypeOK == log \in Seq(Revision)

(* No mutation is in the log twice, whatever was retried or resent.        *)
AppliedOnce ==
  \A i, j \in 1 .. Len(log) : log[i].mutation = log[j].mutation => i = j

(* Along the log the revisions of one entry are 1, 2, 3, ...: a revision is *)
(* one more than the revision it replaces.                                 *)
RevisionsAreConsecutive ==
  \A i \in 1 .. Len(log) :
    \/ log[i].rev = 1 /\ \A k \in 1 .. i - 1 : log[k].entry # log[i].entry
    \/ \E j \in 1 .. i - 1 : /\ log[j].entry = log[i].entry
                             /\ log[i].rev = log[j].rev + 1
                             /\ \A k \in j + 1 .. i - 1 : log[k].entry # log[i].entry
=============================================================================
